-------------------------- MODULE AnswerPathProofs --------------------------
(***************************************************************************)
(* Every invariant of AnswerPath, for every corpus, question, machine,     *)
(* counter, score and model output, each with the strengthening it needs:  *)
(*   evidence  a selection starts from nothing, and the greedy fit lets    *)
(*             only its first passage in whatever it costs;                *)
(*   budget    it was computed from the question and readings there;       *)
(*   heat      the peak contains the observation;                          *)
(*   support   what pool and evidence hold comes from the corpus, and a    *)
(*             verdict was given on the evidence there is;                 *)
(*   figures,  the units are what optimization makes of the corpus, and    *)
(*   growth    then the folds behind it, one position after another.       *)
(***************************************************************************)
EXTENDS AnswerPath, FoldLemmas

\* Nothing is chosen before the passages of the request have been scored
StartsEmpty == stage \in {"waiting", "optimize", "retrieve"} => chosen = <<>>

BudgetInv == StartsEmpty /\ EvidenceFitsBudget

-----------------------------------------------------------------------------
(* What one round of the greedy fit may choose *)

\* A candidate that Best selects passes the checks of the greedy fit: it is the
\* first one, or the budget holds it beside what is already there.
LEMMA BestFits ==
  ASSUME NEW candidates, NEW taken, NEW sum, NEW limits, NEW counter,
         NEW k \in Best(candidates, taken, sum, limits, counter)
  PROVE  /\ k \in DOMAIN candidates
         /\ \/ sum + Cost(candidates[k].unit, counter) <= limits.evidence
            \/ taken = <<>>
  BY DEF Best, Fits

\* A candidate of this round is one of the pool that fits.
LEMMA SelectableFits ==
  ASSUME NEW k \in Selectable
  PROVE  \/ used + Cost(pool[k].unit, machine.counter) <= budget.evidence
         \/ chosen = <<>>
<1>1. k \in Best(pool, chosen, used, budget, machine.counter)
  BY DEF Selectable
<1> QED
  BY <1>1, BestFits

\* One passage is not several.
LEMMA FirstIsAlone ==
  ASSUME NEW c
  PROVE  ~(Len(Append(<<>>, c)) > 1)
<1>1. Append(<<>>, c) = <<c>>
  OBVIOUS
<1>2. Len(<<c>>) = 1
  OBVIOUS
<1> QED
  BY <1>1, <1>2

\* An empty list is no list of two.
LEMMA EmptyIsNone == ~(Len(<<>>) > 1)
  OBVIOUS

-----------------------------------------------------------------------------
(* Every step keeps the strengthened invariant *)

\* Nothing is chosen when a request may come.
LEMMA BudgetInit == Init => BudgetInv
<1> SUFFICES ASSUME Init PROVE BudgetInv
  OBVIOUS
<1>1. chosen = <<>>
  BY DEF Init
<1> QED
  BY <1>1, EmptyIsNone DEF BudgetInv, StartsEmpty, EvidenceFitsBudget

\* Only the two steps of selection change what is chosen.
LEMMA BudgetStep == BudgetInv /\ [Next]_vars => BudgetInv'
<1> SUFFICES ASSUME BudgetInv, [Next]_vars PROVE BudgetInv'
  OBVIOUS
<1> USE DEF BudgetInv, StartsEmpty, EvidenceFitsBudget
<1>1. CASE Ask
  BY <1>1 DEF Ask
<1>2. CASE OptimizeContext
  <2>1. chosen = <<>> /\ chosen' = <<>>
    BY <1>2 DEF OptimizeContext
  <2> QED
    BY <2>1, EmptyIsNone
<1>3. CASE ScoreUnits
  <2>1. chosen = <<>> /\ chosen' = <<>>
    BY <1>3 DEF ScoreUnits
  <2> QED
    BY <2>1, EmptyIsNone
<1>4. CASE SelectBest
  <2>1. PICK k \in Selectable :
          /\ chosen' = Append(chosen, pool[k])
          /\ used' = used + Cost(pool[k].unit, machine.counter)
    BY <1>4 DEF SelectBest
  <2>2. stage' = "select" /\ budget' = budget
    BY <1>4 DEF SelectBest
  <2>3. EvidenceFitsBudget'
    <3>1. CASE chosen = <<>>
      BY <2>1, <3>1, FirstIsAlone
    <3>2. CASE used + Cost(pool[k].unit, machine.counter) <= budget.evidence
      BY <2>1, <2>2, <3>2
    <3> QED
      BY <3>1, <3>2, SelectableFits
  <2> QED
    BY <2>2, <2>3
<1>5. CASE FinishSelection
  BY <1>5 DEF FinishSelection, EndsStage
<1>6. CASE AssemblePrompt
  BY <1>6 DEF AssemblePrompt, EndsStage
<1>7. CASE Infer
  BY <1>7 DEF Infer, EndsStage
<1>8. CASE Validate
  BY <1>8 DEF Validate, EndsStage
<1>9. CASE NextRequest
  <2>1. chosen' = <<>>
    BY <1>9 DEF NextRequest
  <2> QED
    BY <2>1, EmptyIsNone
<1>10. CASE UNCHANGED vars
  BY <1>10 DEF vars
<1>11. CASE FinalizeMetrics
  BY <1>11 DEF FinalizeMetrics
<1> QED
  BY <1>1, <1>2, <1>3, <1>4, <1>5, <1>6, <1>7, <1>8, <1>9, <1>10, <1>11 DEF Next

-----------------------------------------------------------------------------

\* Several passages never cost more than the evidence budget together, whatever
\* was scored, counted or asked (EvidenceSelector, the greedy fit).
THEOREM EvidenceWithinBudget == Spec => []EvidenceFitsBudget
<1>1. BudgetInv => EvidenceFitsBudget
  BY DEF BudgetInv
<1> QED
  BY <1>1, BudgetInit, BudgetStep, PTL DEF Spec

-----------------------------------------------------------------------------
(* The budget and the machine *)

\* The least of three percentages.
LEMMA MinOfThree ==
  ASSUME NEW a \in Int, NEW b \in Int, NEW c \in Int
  PROVE  /\ Min({a, b, c}) \in {a, b, c}
         /\ Min({a, b, c}) <= a /\ Min({a, b, c}) <= b /\ Min({a, b, c}) <= c
<1>1. \E x \in {a, b, c} : \A y \in {a, b, c} : x <= y
  OBVIOUS
<1> QED
  BY <1>1 DEF Min

\* Multiplying by what is not negative and dividing keep the order.
LEMMA ShareGrows ==
  ASSUME NEW x \in Nat, NEW f \in Nat, NEW g \in Nat, f <= g
  PROVE  x * f \in Nat /\ x * g \in Nat /\ (x * f) \div 10000 <= (x * g) \div 10000
<1>1. x * f \in Nat /\ x * g \in Nat /\ x * f <= x * g
  OBVIOUS
<1>2. \A a, b \in Nat : a <= b => a \div 10000 <= b \div 10000
  OBVIOUS
<1> QED
  BY <1>1, <1>2

\* What an observation of the machine holds
Reading(o) == o.ram \in Int /\ o.temperature \in Int /\ o.cpu \in Int

\* Whatever can be read, the sampler comes back with numbers.
LEMMA SamplesAreReadings ==
  ASSUME NEW o \in Observations
  PROVE  Reading(o)
<1>1. PICK h \in Hosts : o = Sample(h)
  BY DEF Observations
<1>2. /\ {h.ram, h.total, h.cpu} \subseteq Nat
      /\ {h.chip, h.zone} \subseteq Nat \cup {Unknown}
  BY PathAssumption
<1> QED
  BY <1>1, <1>2 DEF Reading, Sample, Memory, Temperature, Unknown

\* Each factor is a percentage of at least 35, and the calmer machine has the higher one.
LEMMA RamFactorGrows ==
  ASSUME NEW a, NEW b, Reading(a), Reading(b), Calmer(a, b), b.ram > 0, NEW footprint \in Nat
  PROVE  RamFactor(b, footprint) <= RamFactor(a, footprint)
  BY DEF Reading, Calmer, RamFactor, RamHeadroom, RamSoftFloor

\* The thermal factor is a share, and grows with a calmer machine.
LEMMA ThermalFactorGrows ==
  ASSUME NEW a, NEW b, Reading(a), Reading(b), Calmer(a, b)
  PROVE  ThermalFactor(b) <= ThermalFactor(a)
  BY DEF Reading, Calmer, ThermalFactor, ThermalWarn, ThermalCritical, AtLeast

\* The processor factor is a share, and grows with a calmer machine.
LEMMA CpuFactorGrows ==
  ASSUME NEW a, NEW b, Reading(a), Reading(b), Calmer(a, b)
  PROVE  CpuFactor(b) <= CpuFactor(a)
  BY DEF Reading, Calmer, CpuFactor, CpuWarn, AtLeast

\* Every factor is a number the others can be compared with.
LEMMA FactorsAreShares ==
  ASSUME NEW o, Reading(o), NEW footprint \in Nat
  PROVE  RamFactor(o, footprint) \in 35..100 /\ ThermalFactor(o) \in 40..100 /\ CpuFactor(o) \in 60..100
<1>1. RamFactor(o, footprint) \in 35..100
  BY DEF Reading, RamFactor, RamHeadroom, RamSoftFloor
<1>2. ThermalFactor(o) \in 40..100
  BY DEF Reading, ThermalFactor, ThermalWarn, ThermalCritical, AtLeast
<1>3. CpuFactor(o) \in 60..100
  BY DEF Reading, CpuFactor, CpuWarn, AtLeast
<1> QED
  BY <1>1, <1>2, <1>3

\* A question has one of the intents, whatever markers were found in it.
LEMMA IntentIsKnown ==
  ASSUME NEW q \in Questions
  PROVE  IntentOf(q) \in ToSet(Intents)
<1> DEFINE hits == [i \in 1..6 |-> q.hits[Intents[i]]]
           marked == {i \in 1..6 : hits[i] > 0}
           best == {i \in marked : \A j \in marked : hits[j] <= hits[i]}
<1>1. DOMAIN Intents = 1..6 /\ \A i \in 1..6 : Intents[i] \in ToSet(Intents)
  BY DEF Intents, ToSet
<1>2. hits \in [1..6 -> Int]
  BY <1>1, PathAssumption
<1>3. marked # {} => best # {}
  <2>1. marked \in SUBSET (1..6)
    OBVIOUS
  <2> HIDE DEF hits, marked
  <2>2. marked # {} => \E x \in marked : \A y \in marked : hits[y] <= hits[x]
    BY <1>2, <2>1, HighestOf, Zenon
  <2> QED
    BY <2>2
<1>4. best # {} => Min(best) \in 1..6
  <2>1. best \in SUBSET (1..6)
    OBVIOUS
  <2> HIDE DEF best
  <2>2. best # {} => Min(best) \in best
    BY <2>1, MinIsLeast
  <2> QED
    BY <2>1, <2>2
<1>5. "factual" \in ToSet(Intents)
  BY DEF Intents, ToSet
<1>6. \A i \in 1..6 : hits[i] = q.hits[Intents[i]]
  OBVIOUS
<1>7. IntentOf(q) = IF marked = {} THEN "factual" ELSE Intents[Min(best)]
  <2>1. marked = {i \in DOMAIN Intents : q.hits[Intents[i]] > 0}
    BY <1>1
  <2>2. best = {i \in marked : \A j \in marked : q.hits[Intents[j]] <= q.hits[Intents[i]]}
    OBVIOUS
  <2> HIDE DEF marked, best
  <2> QED
    BY <2>1, <2>2, Zenon DEF IntentOf
<1> HIDE DEF marked, best
<1> QED
  BY <1>1, <1>3, <1>4, <1>5, <1>7

\* The share of the evidence an intent asks for is a number.
LEMMA SharesOfIntents ==
  ASSUME NEW i \in ToSet(Intents)
  PROVE  IntentFactor[i] \in 55..100 /\ IntentPassages[i] \in 4..12
<1>1. i \in {"comparison", "drafting", "explanation", "extraction", "factual", "summary"}
  BY DEF Intents, ToSet
<1> QED
  BY <1>1 DEF IntentFactor, IntentPassages

\* The share of the context a request may use grows with a calmer machine.
LEMMA MultiplierGrows ==
  ASSUME NEW a, NEW b, Reading(a), Reading(b), NEW footprint \in Nat, NEW i \in ToSet(Intents)
  PROVE  /\ Multiplier(a, footprint, i) \in Nat
         /\ Calmer(a, b) /\ b.ram > 0 => Multiplier(b, footprint, i) <= Multiplier(a, footprint, i)
<1> DEFINE share(o) == Min({RamFactor(o, footprint), ThermalFactor(o), CpuFactor(o)})
<1>1. ASSUME NEW o, Reading(o)
      PROVE  /\ share(o) \in {RamFactor(o, footprint), ThermalFactor(o), CpuFactor(o)}
             /\ share(o) <= RamFactor(o, footprint) /\ share(o) <= ThermalFactor(o)
             /\ share(o) <= CpuFactor(o)
             /\ share(o) \in Nat
  <2>1. RamFactor(o, footprint) \in Int /\ ThermalFactor(o) \in Int /\ CpuFactor(o) \in Int
        /\ RamFactor(o, footprint) \in Nat /\ ThermalFactor(o) \in Nat /\ CpuFactor(o) \in Nat
    BY <1>1, FactorsAreShares
  <2>2. share(o) \in {RamFactor(o, footprint), ThermalFactor(o), CpuFactor(o)}
    BY <2>1, MinOfThree
  <2>3. share(o) <= RamFactor(o, footprint) /\ share(o) <= ThermalFactor(o) /\ share(o) <= CpuFactor(o)
    BY <2>1, MinOfThree
  <2> HIDE DEF share
  <2> QED
    BY <2>1, <2>2, <2>3
<1>2. \A o : Multiplier(o, footprint, i) = share(o) * IntentFactor[i]
  BY DEF Multiplier
<1>3. IntentFactor[i] \in Nat
  BY SharesOfIntents
<1>4. Calmer(a, b) /\ b.ram > 0 => share(b) <= share(a)
  <2> SUFFICES ASSUME Calmer(a, b), b.ram > 0 PROVE share(b) <= share(a)
    OBVIOUS
  <2>1. RamFactor(b, footprint) <= RamFactor(a, footprint)
    BY RamFactorGrows
  <2>2. ThermalFactor(b) <= ThermalFactor(a)
    BY ThermalFactorGrows
  <2>3. CpuFactor(b) <= CpuFactor(a)
    BY CpuFactorGrows
  <2>4. RamFactor(a, footprint) \in 35..100 /\ ThermalFactor(a) \in 40..100 /\ CpuFactor(a) \in 60..100
    BY FactorsAreShares
  <2>5. RamFactor(b, footprint) \in 35..100 /\ ThermalFactor(b) \in 40..100 /\ CpuFactor(b) \in 60..100
    BY FactorsAreShares
  <2>6. share(a) \in {RamFactor(a, footprint), ThermalFactor(a), CpuFactor(a)}
    BY <1>1
  <2>7. /\ share(b) <= RamFactor(b, footprint) /\ share(b) <= ThermalFactor(b)
        /\ share(b) <= CpuFactor(b) /\ share(b) \in Nat
    BY <1>1
  <2> HIDE DEF share
  <2> QED
    BY <2>1, <2>2, <2>3, <2>4, <2>5, <2>6, <2>7
<1>5. share(a) \in Nat /\ share(b) \in Nat
  BY <1>1
<1> HIDE DEF share
<1>6. share(a) * IntentFactor[i] \in Nat
  BY <1>3, <1>5
<1>7. share(b) <= share(a) => share(b) * IntentFactor[i] <= share(a) * IntentFactor[i]
  BY <1>3, <1>5
<1> QED
  BY <1>2, <1>4, <1>6, <1>7

\* The fixed part of the prompt costs a number of tokens.
LEMMA OverheadIsNumber ==
  ASSUME NEW q \in Questions, NEW counter
  PROVE  Overhead(q, counter) \in Int
<1>1. Len(q.text.words) \in Nat /\ q.text.chars \in Nat
  BY PathAssumption DEF Texts
<1>2. ModelDensity * q.text.chars \in Nat
  BY <1>1, TextAssumption
<1>3. ModelCount(q.text) \in Int
  BY <1>2 DEF ModelCount, CeilDiv
<1>4. HeuristicCount(q.text) \in Int
  <2>1. \A n \in Nat : CeilDiv(132 * n, 100) \in Int /\ CeilDiv(10 * n, 36) \in Int
    BY DEF CeilDiv
  <2>2. CeilDiv(132 * Len(q.text.words), 100) \in Int /\ CeilDiv(10 * q.text.chars, 36) \in Int
    BY <1>1, <2>1
  <2> QED
    BY <2>2 DEF HeuristicCount, AtLeast
<1> QED
  BY <1>3, <1>4 DEF Overhead, PromptOverhead, Count

\* The budget of one question on one machine under two loads
LEMMA BudgetGrows ==
  ASSUME NEW m \in Machines, NEW q \in Questions, NEW a \in Observations, NEW b \in Observations,
         Calmer(a, b), b.ram > 0
  PROVE  LET low == Budget(m.model, q, b, m.counter)
             high == Budget(m.model, q, a, m.counter)
         IN low.evidence <= high.evidence /\ low.passages <= high.passages
<1> DEFINE i == IntentOf(q)
           base == AtLeast(MinContext, m.model.context - m.model.output - Overhead(q, m.counter))
           f == Multiplier(b, m.model.footprint, i)
           g == Multiplier(a, m.model.footprint, i)
           passages == AtMost(MaxPassagesCap, IntentPassages[i])
<1>1. Reading(a) /\ Reading(b) /\ m.model.footprint \in Nat
  BY SamplesAreReadings, PathAssumption
<1>2. i \in ToSet(Intents)
  BY IntentIsKnown
<1>3. f \in Nat /\ g \in Nat /\ f <= g
  BY <1>1, <1>2, MultiplierGrows
<1>4. base \in Nat
  <2>1. m.model.context \in Nat /\ m.model.output \in Nat
    BY PathAssumption
  <2> QED
    BY <2>1, OverheadIsNumber DEF AtLeast, MinContext
<1>5. passages \in 4..12
  BY <1>2, SharesOfIntents DEF AtMost, MaxPassagesCap
<1>6. Budget(m.model, q, b, m.counter) =
        [evidence |-> AtLeast(MinContext, AtMost(base, (base * f) \div 10000)),
         passages |-> IF f < 5000 THEN AtLeast(2, passages \div 2) ELSE passages]
  BY SMT DEF Budget
<1>10. Budget(m.model, q, a, m.counter) =
        [evidence |-> AtLeast(MinContext, AtMost(base, (base * g) \div 10000)),
         passages |-> IF g < 5000 THEN AtLeast(2, passages \div 2) ELSE passages]
  BY SMT DEF Budget
<1> HIDE DEF i, base, passages
<1>7. /\ base * f \in Nat /\ base * g \in Nat /\ (base * f) \div 10000 <= (base * g) \div 10000
  BY <1>3, <1>4, ShareGrows
<1> HIDE DEF f, g
<1>8. AtLeast(MinContext, AtMost(base, (base * f) \div 10000)) <= AtLeast(MinContext, AtMost(base, (base * g) \div 10000))
  BY <1>4, <1>7 DEF AtLeast, AtMost, MinContext
<1>9. (IF f < 5000 THEN AtLeast(2, passages \div 2) ELSE passages) <= (IF g < 5000 THEN AtLeast(2, passages \div 2) ELSE passages)
  BY <1>3, <1>5 DEF AtLeast
<1> QED
  BY <1>6, <1>8, <1>9, <1>10

\* Output, overhead and evidence fit the window together, or there is no evidence.
LEMMA WindowHolds ==
  ASSUME NEW m \in Machines, NEW q \in Questions, NEW o \in Observations,
         Budget(m.model, q, o, m.counter).evidence # MinContext
  PROVE  Budget(m.model, q, o, m.counter).evidence + Overhead(q, m.counter) + m.model.output <= m.model.context
<1> DEFINE i == IntentOf(q)
           base == AtLeast(MinContext, m.model.context - m.model.output - Overhead(q, m.counter))
           share == (base * Multiplier(o, m.model.footprint, i)) \div 10000
<1>1. Overhead(q, m.counter) \in Int /\ m.model.context \in Nat /\ m.model.output \in Nat
  BY OverheadIsNumber, PathAssumption
<1>2. base \in Nat
  BY <1>1 DEF AtLeast, MinContext
<1>3. share \in Nat
  <2>1. Reading(o) /\ m.model.footprint \in Nat
    BY SamplesAreReadings, PathAssumption
  <2>2. Multiplier(o, m.model.footprint, i) \in Nat
    BY <2>1, IntentIsKnown, MultiplierGrows
  <2> HIDE DEF base, i
  <2>3. base * Multiplier(o, m.model.footprint, i) \in Nat
    BY <1>2, <2>2
  <2> QED
    BY <2>3
<1>4. Budget(m.model, q, o, m.counter).evidence = AtLeast(MinContext, AtMost(base, share))
  BY DEF Budget
<1> HIDE DEF share
<1> QED
  BY <1>1, <1>3, <1>4 DEF AtLeast, AtMost, MinContext

\* The budget in force is the one computed from this question on this machine
BudgetIsComputed == Optimized => budget = Budget(machine.model, question, seen, machine.counter)
Asked == stage # "waiting" => question \in Questions /\ seen \in Observations
Refused == error = "CTX-003" => stage \in {"measure", "ended"}
Computed == machine \in Machines /\ Asked /\ Refused /\ BudgetIsComputed

\* Every step keeps it: nothing recomputes the budget from other readings.
LEMMA ComputedStep == Computed /\ [Next]_vars => Computed'
<1> SUFFICES ASSUME Computed, [Next]_vars PROVE Computed'
  OBVIOUS
<1> USE DEF Computed, Asked, Refused, BudgetIsComputed, Optimized
<1>1. CASE Ask
  BY <1>1 DEF Ask
<1>2. CASE OptimizeContext
  BY <1>2 DEF OptimizeContext, EndsStage
<1>3. CASE ScoreUnits
  BY <1>3 DEF ScoreUnits
<1>4. CASE SelectBest
  BY <1>4 DEF SelectBest
<1>5. CASE FinishSelection
  BY <1>5 DEF FinishSelection, EndsStage
<1>6. CASE AssemblePrompt
  BY <1>6 DEF AssemblePrompt, EndsStage
<1>7. CASE Infer
  BY <1>7 DEF Infer, EndsStage
<1>8. CASE Validate
  BY <1>8 DEF Validate, EndsStage
<1>9. CASE NextRequest
  BY <1>9 DEF NextRequest
<1>10. CASE UNCHANGED vars
  BY <1>10 DEF vars
<1>11. CASE FinalizeMetrics
  BY <1>11 DEF FinalizeMetrics
<1> QED
  BY <1>1, <1>2, <1>3, <1>4, <1>5, <1>6, <1>7, <1>8, <1>9, <1>10, <1>11 DEF Next

\* What is computed so follows the machine, and refuses what does not fit.
LEMMA ComputedMeans == Computed => BudgetFollowsMachine
<1> SUFFICES ASSUME Computed, Optimized PROVE BudgetFollowsMachine
  BY DEF BudgetFollowsMachine
<1>1. /\ machine \in Machines /\ question \in Questions /\ seen \in Observations
      /\ budget = Budget(machine.model, question, seen, machine.counter)
  BY DEF Computed, Asked, Refused, BudgetIsComputed, Optimized
<1>2. ASSUME NEW other \in Observations, Calmer(other, seen), seen.ram > 0
      PROVE  LET calm == Budget(machine.model, question, other, machine.counter)
             IN budget.evidence <= calm.evidence /\ budget.passages <= calm.passages
  BY <1>1, <1>2, BudgetGrows
<1>3. budget.evidence # MinContext =>
        budget.evidence + Overhead(question, machine.counter) + machine.model.output
          <= machine.model.context
  BY <1>1, WindowHolds
<1> QED
  BY <1>2, <1>3 DEF BudgetFollowsMachine

\* A machine under more pressure never gets more context or more passages for the
\* same question, and the window holds what the budget promises, whatever the
\* model, the question and the readings (AdaptiveContextBudget.compute).
THEOREM BudgetIsMonotone == Spec => []BudgetFollowsMachine
<1>1. Init => Computed
  BY DEF Init, Computed, Asked, Refused, BudgetIsComputed, Optimized
<1> QED
  BY <1>1, ComputedStep, ComputedMeans, PTL DEF Spec

-----------------------------------------------------------------------------
(* Heat *)

\* The peak of a request contains its observation, from the stage that made it on
PeakCovers ==
  stage # "waiting" => /\ Reading(seen)
                       /\ peak.temperature \in Int /\ seen.temperature <= peak.temperature
Reported == stage = "ended" => warnings = Warnings(Metrics(peak, seen), seen)
HeatInv == PeakCovers /\ Reported

\* Another sample raises a peak or leaves it.
LEMMA PeaksRise ==
  ASSUME NEW p, p.temperature \in Int, NEW o \in Observations
  PROVE  /\ Raised(p, o).temperature \in Int
         /\ p.temperature <= Raised(p, o).temperature
         /\ o.temperature <= Raised(p, o).temperature
  BY SamplesAreReadings DEF Reading, Raised, Higher

\* The end of a stage before the last keeps the peak above the observation.
LEMMA StageKeepsPeak ==
  ASSUME HeatInv, stage # "waiting", seen' = seen, NEW next, next # "ended", EndsStage(next)
  PROVE  HeatInv'
<1>1. PICK o \in Observations : peak' = Raised(peak, o)
  BY DEF EndsStage
<1>2. /\ peak'.temperature \in Int /\ peak.temperature <= peak'.temperature
  BY <1>1, PeaksRise DEF HeatInv, PeakCovers
<1>3. PeakCovers'
  BY <1>2 DEF HeatInv, PeakCovers, Reading
<1>4. Reported'
  BY DEF Reported, EndsStage
<1> QED
  BY <1>3, <1>4 DEF HeatInv

\* Each stage that ends samples, and the last one warns of what was seen.
LEMMA HeatStep == HeatInv /\ [Next]_vars => HeatInv'
<1> SUFFICES ASSUME HeatInv, [Next]_vars PROVE HeatInv'
  OBVIOUS
<1>1. CASE Ask
  <2>1. PICK o \in Observations, p \in Observations :
          peak' = Raised(Raised(Raised(NoPeak, seen'), o), p)
    BY <1>1 DEF Ask
  <2>2. seen' \in Observations /\ stage' = "optimize"
    BY <1>1 DEF Ask
  <2>3. NoPeak.temperature \in Int
    BY DEF NoPeak, Unknown
  <2> DEFINE first == Raised(NoPeak, seen')
             second == Raised(first, o)
  <2>4. first.temperature \in Int /\ seen'.temperature <= first.temperature
    BY <2>2, <2>3, PeaksRise
  <2> HIDE DEF first
  <2>5. second.temperature \in Int /\ first.temperature <= second.temperature
    BY <2>4, PeaksRise
  <2> HIDE DEF second
  <2>6. Raised(second, p).temperature \in Int /\ second.temperature <= Raised(second, p).temperature
    BY <2>5, PeaksRise
  <2>7. peak' = Raised(second, p)
    BY <2>1 DEF first, second
  <2>8. Reading(seen)'
    BY <2>2, SamplesAreReadings DEF Reading
  <2>9. seen'.temperature <= peak'.temperature
    BY <2>4, <2>5, <2>6, <2>7, <2>8 DEF Reading
  <2> QED
    BY <2>2, <2>6, <2>7, <2>8, <2>9 DEF HeatInv, PeakCovers, Reported
<1>2. CASE OptimizeContext
  <2>1. PICK next \in {"measure", "retrieve"} : EndsStage(next)
    BY <1>2 DEF OptimizeContext
  <2> QED
    BY <1>2, <2>1, StageKeepsPeak DEF OptimizeContext
<1>3. CASE ScoreUnits
  BY <1>3 DEF ScoreUnits, HeatInv, PeakCovers, Reading, Reported
<1>4. CASE SelectBest
  BY <1>4 DEF SelectBest, HeatInv, PeakCovers, Reading, Reported
<1>5. CASE FinishSelection
  <2>1. PICK next \in {"measure", "assemble"} : EndsStage(next)
    BY <1>5 DEF FinishSelection
  <2> QED
    BY <1>5, <2>1, StageKeepsPeak DEF FinishSelection
<1>6. CASE AssemblePrompt
  BY <1>6, StageKeepsPeak DEF AssemblePrompt
<1>7. CASE Infer
  <2>1. PICK next \in {"measure", "validate"} : EndsStage(next)
    BY <1>7 DEF Infer
  <2> QED
    BY <1>7, <2>1, StageKeepsPeak DEF Infer
<1>8. CASE Validate
  BY <1>8, StageKeepsPeak DEF Validate
<1>9. CASE FinalizeMetrics
  BY <1>9 DEF FinalizeMetrics, HeatInv, PeakCovers, Reading, Reported
<1>10. CASE NextRequest
  BY <1>10 DEF NextRequest, HeatInv, PeakCovers, Reported
<1>11. CASE UNCHANGED vars
  <2>1. UNCHANGED <<stage, seen, peak, warnings>>
    BY <1>11 DEF vars
  <2> QED
    BY <2>1 DEF HeatInv, PeakCovers, Reading, Reported
<1> QED
  BY <1>1, <1>2, <1>3, <1>4, <1>5, <1>6, <1>7, <1>8, <1>9, <1>10, <1>11 DEF Next

\* Where the budget is cut the observation is over the threshold, and so is the peak.
LEMMA HeatMeans == HeatInv => HeatIsReported
<1> SUFFICES ASSUME HeatInv, stage = "ended", ThermalFactor(seen) < 100
             PROVE  warnings \cap {"thermal warning", "thermal critical"} # {}
  BY DEF HeatIsReported
<1>1. Reading(seen) /\ peak.temperature \in Int /\ seen.temperature <= peak.temperature
  BY DEF HeatInv, PeakCovers
<1>2. seen.temperature >= ThermalWarn
  <2>1. ASSUME seen.temperature < ThermalWarn PROVE FALSE
    <3>1. ThermalFactor(seen) = 100
      BY <1>1, <2>1 DEF Reading, ThermalFactor, ThermalWarn, ThermalCritical, AtLeast
    <3> QED
      BY <3>1
  <2> QED
    BY <1>1, <2>1 DEF Reading, ThermalWarn
<1>3. Metrics(peak, seen).temperature = peak.temperature /\ peak.temperature >= WarnAt
  BY <1>1, <1>2 DEF Metrics, Reading, ThermalWarn, WarnAt, Unknown
<1>4. CASE peak.temperature >= CriticalAt
  <2>1. "thermal critical" \in Warnings(Metrics(peak, seen), seen)
    BY <1>3, <1>4 DEF Warnings
  <2> QED
    BY <2>1 DEF HeatInv, Reported
<1>5. CASE peak.temperature < CriticalAt
  <2>1. "thermal warning" \in Warnings(Metrics(peak, seen), seen)
    BY <1>3, <1>5 DEF Warnings
  <2> QED
    BY <2>1 DEF HeatInv, Reported
<1>6. peak.temperature >= CriticalAt \/ peak.temperature < CriticalAt
  BY <1>1 DEF CriticalAt
<1> QED
  BY <1>4, <1>5, <1>6

\* Whatever the sensors, the stage a request ends in and the readings of its other
\* stages: heat that cuts the budget of a request is in the warnings of that request
\* (ResourceSampler.sample, PerformanceEngineeringCapability.run).
THEOREM HeatIsKnown == Spec => []HeatIsReported
<1>1. Init => HeatInv
  BY DEF Init, HeatInv, PeakCovers, Reported
<1> QED
  BY <1>1, HeatStep, HeatMeans, PTL DEF Spec

-----------------------------------------------------------------------------
(* Positions of a sequence, one after another *)

\* At goes through the positions one by one: h is what it has kept so far
AtFold(h, seq, S) ==
  /\ h[0] = <<>>
  /\ \A m \in 0..(Len(seq) - 1) :
       h[m + 1] = IF m + 1 \in S THEN Append(h[m], seq[m + 1]) ELSE h[m]

\* The fold behind At has such steps, and At is what the last one leaves.
LEMMA AtUnfolds ==
  ASSUME NEW T, NEW seq \in Seq(T), NEW S
  PROVE  \E h : AtFold(h, seq, S) /\ At(seq, S) = h[Len(seq)]
<1> DEFINE N == Len(seq)
           D == 1..N
           V == Seq(T)
           c == [s \in SUBSET D |-> Max(s)]
           F == [p \in V \X D |-> IF p[2] \in S THEN Append(p[1], seq[p[2]]) ELSE p[1]]
           idx == [i \in DOMAIN seq |-> i]
           Eq(g) == g = [s \in SUBSET DOMAIN idx |->
                           IF s = {} THEN <<>>
                           ELSE IF idx[Max(s)] \in S
                                THEN Append(g[s \ {Max(s)}], seq[idx[Max(s)]])
                                ELSE g[s \ {Max(s)}]]
<1>1. N \in Nat /\ DOMAIN seq = D /\ DOMAIN idx = D /\ \A i \in D : idx[i] = i /\ seq[i] \in T
  OBVIOUS
<1>2. \A s \in SUBSET D : s # {} => Max(s) \in s
  BY <1>1, MaxIsGreatest
<1>3. \A s \in SUBSET D : s # {} => c[s] \in s
  BY <1>2
<1>4. F \in [V \X D -> V]
  BY <1>1
<1>5. <<>> \in V /\ IsFiniteSet(D)
  BY <1>1, FS_Interval
<1>6. \E g : IsFold(g, D, V, <<>>, F, c)
  <2> HIDE DEF c, F, D, V
  <2> QED
    BY <1>3, <1>4, <1>5, FoldExists, Zenon
<1>7. PICK g \in [SUBSET D -> V] :
         \A s \in SUBSET D : g[s] = IF s = {} THEN <<>> ELSE F[<<g[s \ {c[s]}], c[s]>>]
  BY <1>6 DEF IsFold
<1>8. ASSUME NEW s \in SUBSET D, s # {}
      PROVE  g[s] = IF idx[Max(s)] \in S THEN Append(g[s \ {Max(s)}], seq[idx[Max(s)]])
                    ELSE g[s \ {Max(s)}]
  <2>1. c[s] = Max(s) /\ Max(s) \in D /\ idx[Max(s)] = Max(s) /\ s \ {Max(s)} \in SUBSET D
    BY <1>1, <1>2, <1>8
  <2>2. g[s \ {Max(s)}] \in V
    BY <2>1
  <2>3. F[<<g[s \ {Max(s)}], Max(s)>>] =
          IF Max(s) \in S THEN Append(g[s \ {Max(s)}], seq[Max(s)]) ELSE g[s \ {Max(s)}]
    BY <2>1, <2>2
  <2> HIDE DEF c, F, idx
  <2> QED
    BY <1>7, <1>8, <2>1, <2>3
<1>9. Eq(g)
  <2>1. g = [s \in SUBSET D |-> g[s]]
    OBVIOUS
  <2> HIDE DEF idx
  <2> QED
    BY <1>1, <1>7, <1>8, <2>1
<1>10. At(seq, S) = (CHOOSE h : Eq(h))[DOMAIN idx]
  BY Zenon DEF At, FoldLeftDomain, FoldLeft, MapThenFoldSet
<1> DEFINE f == CHOOSE h : Eq(h)
<1>11. Eq(f)
  <2> HIDE DEF Eq
  <2> QED
    BY <1>9
<1> DEFINE h == [m \in 0..N |-> f[1..m]]
<1>12. f[{}] = <<>>
  BY <1>11
<1>13. ASSUME NEW m \in 0..(N - 1)
       PROVE  f[1..(m + 1)] = IF m + 1 \in S THEN Append(f[1..m], seq[m + 1]) ELSE f[1..m]
  <2>1. Max(1..(m + 1)) = m + 1 /\ (1..(m + 1)) \ {m + 1} = 1..m
    <3>1. m \in Nat
      BY <1>1
    <3> QED
      BY <3>1, LastPosition
  <2>2. 1..(m + 1) \in SUBSET DOMAIN idx /\ 1..(m + 1) # {} /\ m + 1 \in D
    BY <1>1
  <2> HIDE DEF f
  <2>3. f[1..(m + 1)] = IF idx[Max(1..(m + 1))] \in S
                        THEN Append(f[(1..(m + 1)) \ {Max(1..(m + 1))}], seq[idx[Max(1..(m + 1))]])
                        ELSE f[(1..(m + 1)) \ {Max(1..(m + 1))}]
    BY <1>11, <2>2
  <2> QED
    BY <1>1, <2>1, <2>2, <2>3
<1>14. AtFold(h, seq, S)
  <2>1. 1..0 = {} /\ 0 \in 0..N /\ \A m \in 0..(N - 1) : m \in 0..N /\ m + 1 \in 0..N
    BY <1>1
  <2> HIDE DEF f
  <2> QED
    BY <1>12, <1>13, <2>1 DEF AtFold
<1>15. At(seq, S) = h[Len(seq)]
  <2>1. N \in 0..N
    BY <1>1
  <2> HIDE DEF Eq
  <2> QED
    BY <1>1, <1>10, <2>1
<1> QED
  BY <1>14, <1>15

\* Whatever a sequence is of, what At leaves of it is too; it holds what stands at
\* the positions of S, and nothing else.
LEMMA AtKeeps ==
  ASSUME NEW T, NEW seq \in Seq(T), NEW S
  PROVE  /\ At(seq, S) \in Seq(T)
         /\ \A i \in DOMAIN At(seq, S) : \E k \in S \cap DOMAIN seq : At(seq, S)[i] = seq[k]
         /\ \A k \in S \cap DOMAIN seq : \E i \in DOMAIN At(seq, S) : At(seq, S)[i] = seq[k]
<1>1. PICK h : AtFold(h, seq, S) /\ At(seq, S) = h[Len(seq)]
  BY AtUnfolds
<1> DEFINE Kept(m) ==
             /\ h[m] \in Seq(T)
             /\ \A i \in DOMAIN h[m] : \E k \in S \cap (1..m) : h[m][i] = seq[k]
             /\ \A k \in S \cap (1..m) : \E i \in DOMAIN h[m] : h[m][i] = seq[k]
           P == {m \in 0..Len(seq) : Kept(m)}
<1>2. Len(seq) \in Nat /\ DOMAIN seq = 1..Len(seq)
  OBVIOUS
<1>3. 0 \in P
  <2>1. h[0] = <<>> /\ 0 \in 0..Len(seq) /\ 1..0 = {}
    BY <1>1, <1>2 DEF AtFold
  <2>2. <<>> \in Seq(T) /\ DOMAIN <<>> = {}
    OBVIOUS
  <2> QED
    BY <2>1, <2>2
<1>4. ASSUME NEW m \in 0..(Len(seq) - 1), m \in P PROVE m + 1 \in P
  <2>0. m \in Nat /\ m + 1 \in 0..Len(seq) /\ m + 1 \in 1..Len(seq) /\ seq[m + 1] \in T
        /\ 1..(m + 1) = (1..m) \cup {m + 1}
    BY <1>2
  <2>1. h[m] \in Seq(T) /\ Kept(m)
    BY <1>4
  <2>2. h[m + 1] = IF m + 1 \in S THEN Append(h[m], seq[m + 1]) ELSE h[m]
    BY <1>1 DEF AtFold
  <2>3. CASE m + 1 \in S
    <3>1. h[m + 1] = Append(h[m], seq[m + 1])
      BY <2>2, <2>3
    <3> DEFINE n == Len(h[m])
    <3>2. /\ n \in Nat /\ h[m + 1] \in Seq(T) /\ DOMAIN h[m + 1] = 1..(n + 1) /\ DOMAIN h[m] = 1..n
          /\ h[m + 1][n + 1] = seq[m + 1] /\ \A i \in 1..n : h[m + 1][i] = h[m][i]
      BY <2>0, <2>1, <3>1
    <3>3. ASSUME NEW i \in DOMAIN h[m + 1] PROVE \E k \in S \cap (1..(m + 1)) : h[m + 1][i] = seq[k]
      <4>1. i \in 1..n \/ i = n + 1
        BY <3>2
      <4>2. CASE i \in 1..n
        <5>1. PICK k \in S \cap (1..m) : h[m][i] = seq[k]
          BY <2>1, <3>2, <4>2
        <5> QED
          BY <2>0, <3>2, <4>2, <5>1
      <4>3. CASE i = n + 1
        <5>1. m + 1 \in S \cap (1..(m + 1))
          BY <2>0, <2>3
        <5> QED
          BY <3>2, <4>3, <5>1
      <4> QED
        BY <4>1, <4>2, <4>3
    <3>4. ASSUME NEW k \in S \cap (1..(m + 1)) PROVE \E i \in DOMAIN h[m + 1] : h[m + 1][i] = seq[k]
      <4>1. k \in S \cap (1..m) \/ k = m + 1
        BY <2>0
      <4>2. 1..n \subseteq 1..(n + 1) /\ n + 1 \in 1..(n + 1)
        BY <3>2
      <4> HIDE DEF n
      <4> QED
        BY <2>0, <2>1, <3>2, <4>1, <4>2
    <3> QED
      BY <2>0, <3>2, <3>3, <3>4
  <2>4. CASE m + 1 \notin S
    <3>1. h[m + 1] = h[m] /\ S \cap (1..(m + 1)) = S \cap (1..m)
      BY <2>0, <2>2, <2>4
    <3> QED
      BY <2>0, <2>1, <3>1
  <2> QED
    BY <2>3, <2>4
<1>5. Kept(Len(seq))
  <2>1. \A m \in P : Kept(m)
    OBVIOUS
  <2>2. Len(seq) \in 0..Len(seq)
    BY <1>2
  <2> HIDE DEF P, Kept
  <2> QED
    BY <1>2, <1>3, <1>4, <2>1, <2>2, InductTo
<1> QED
  BY <1>1, <1>2, <1>5

\* And in their order: at goes from the positions of what is left to those it had.
Places(at, left, seq, S) ==
  /\ at \in [DOMAIN left -> S \cap DOMAIN seq]
  /\ \A i \in DOMAIN left : left[i] = seq[at[i]]
  /\ \A k \in S \cap DOMAIN seq : \E i \in DOMAIN left : at[i] = k
  /\ \A i, j \in DOMAIN left : i < j => at[i] < at[j]

LEMMA AtInOrder ==
  ASSUME NEW T, NEW seq \in Seq(T), NEW S
  PROVE  At(seq, S) \in Seq(T) /\ \E at : Places(at, At(seq, S), seq, S)
<1>1. PICK h : AtFold(h, seq, S) /\ At(seq, S) = h[Len(seq)]
  BY AtUnfolds
<1> DEFINE Placed(m, at) ==
             /\ at \in [DOMAIN h[m] -> S \cap (1..m)]
             /\ \A i \in DOMAIN h[m] : h[m][i] = seq[at[i]]
             /\ \A k \in S \cap (1..m) : \E i \in DOMAIN h[m] : at[i] = k
             /\ \A i, j \in DOMAIN h[m] : i < j => at[i] < at[j]
           Kept(m) == h[m] \in Seq(T) /\ \E at : Placed(m, at)
           P == {m \in 0..Len(seq) : Kept(m)}
<1>2. Len(seq) \in Nat /\ DOMAIN seq = 1..Len(seq)
  OBVIOUS
<1>3. 0 \in P
  <2>1. h[0] = <<>> /\ 0 \in 0..Len(seq) /\ 1..0 = {}
    BY <1>1, <1>2 DEF AtFold
  <2>2. <<>> \in Seq(T) /\ DOMAIN <<>> = {}
    OBVIOUS
  <2> DEFINE none == [i \in {} |-> 0]
  <2>3. Placed(0, none)
    BY <2>1, <2>2
  <2> HIDE DEF Placed, none
  <2> QED
    BY <2>1, <2>2, <2>3
<1>4. ASSUME NEW m \in 0..(Len(seq) - 1), m \in P PROVE m + 1 \in P
  <2>0. m \in Nat /\ m + 1 \in 0..Len(seq) /\ m + 1 \in 1..Len(seq) /\ seq[m + 1] \in T
        /\ 1..(m + 1) = (1..m) \cup {m + 1}
    BY <1>2
  <2>1. PICK at : h[m] \in Seq(T) /\ Placed(m, at)
    BY <1>4
  <2>2. h[m + 1] = IF m + 1 \in S THEN Append(h[m], seq[m + 1]) ELSE h[m]
    BY <1>1 DEF AtFold
  <2>3. CASE m + 1 \in S
    <3>1. h[m + 1] = Append(h[m], seq[m + 1])
      BY <2>2, <2>3
    <3> DEFINE n == Len(h[m])
               new == [i \in 1..(n + 1) |-> IF i = n + 1 THEN m + 1 ELSE at[i]]
    <3>2. /\ n \in Nat /\ h[m + 1] \in Seq(T) /\ DOMAIN h[m + 1] = 1..(n + 1) /\ DOMAIN h[m] = 1..n
          /\ h[m + 1][n + 1] = seq[m + 1] /\ \A i \in 1..n : h[m + 1][i] = h[m][i]
      BY <2>0, <2>1, <3>1
    <3>3. /\ at \in [1..n -> S \cap (1..m)] /\ \A i \in 1..n : h[m][i] = seq[at[i]]
          /\ \A k \in S \cap (1..m) : \E i \in 1..n : at[i] = k
          /\ \A i, j \in 1..n : i < j => at[i] < at[j]
      BY <2>1, <3>2
    <3> HIDE DEF n
    <3>4. /\ new[n + 1] = m + 1 /\ \A i \in 1..n : new[i] = at[i] /\ at[i] \in S \cap (1..m)
          /\ \A i \in 1..(n + 1) : i \in 1..n \/ i = n + 1
          /\ n + 1 \in 1..(n + 1) /\ \A i \in 1..n : i \in 1..(n + 1) /\ i # n + 1
      BY <3>2, <3>3
    <3>5. new \in [1..(n + 1) -> S \cap (1..(m + 1))]
      BY <2>0, <2>3, <3>4
    <3> HIDE DEF new
    <3>6. \A i \in 1..(n + 1) : h[m + 1][i] = seq[new[i]]
      BY <3>2, <3>3, <3>4
    <3>7. \A k \in S \cap (1..(m + 1)) : \E i \in 1..(n + 1) : new[i] = k
      BY <2>0, <3>3, <3>4
    <3>8. \A i, j \in 1..(n + 1) : i < j => new[i] < new[j]
      <4>1. SUFFICES ASSUME NEW i \in 1..(n + 1), NEW j \in 1..(n + 1), i < j PROVE new[i] < new[j]
        OBVIOUS
      <4>2. i \in 1..n
        BY <3>2, <4>1
      <4>3. CASE j \in 1..n
        BY <3>3, <3>4, <4>1, <4>2, <4>3
      <4>4. CASE j = n + 1
        BY <2>0, <3>4, <4>2, <4>4
      <4> QED
        BY <3>4, <4>3, <4>4
    <3>9. Placed(m + 1, new)
      BY <3>2, <3>5, <3>6, <3>7, <3>8
    <3> HIDE DEF Placed
    <3> QED
      BY <2>0, <3>2, <3>9
  <2>4. CASE m + 1 \notin S
    <3>1. h[m + 1] = h[m] /\ S \cap (1..(m + 1)) = S \cap (1..m)
      BY <2>0, <2>2, <2>4
    <3>2. Placed(m + 1, at)
      BY <2>1, <3>1
    <3> HIDE DEF Placed
    <3> QED
      BY <2>0, <2>1, <3>1, <3>2
  <2> QED
    BY <2>3, <2>4
<1>5. Kept(Len(seq))
  <2>1. \A m \in P : Kept(m)
    OBVIOUS
  <2>2. Len(seq) \in 0..Len(seq)
    BY <1>2
  <2> HIDE DEF P, Kept
  <2> QED
    BY <1>2, <1>3, <1>4, <2>1, <2>2, InductTo
<1>6. PICK at : Placed(Len(seq), at)
  BY <1>5
<1>7. Places(at, At(seq, S), seq, S)
  BY <1>1, <1>2, <1>6 DEF Places
<1> QED
  BY <1>1, <1>5, <1>7

-----------------------------------------------------------------------------
(* Fragments, one after another *)

\* Merging does not lead out of U
ClosedUnderMerging(U, counter) ==
  \A a, b \in U : Mergeable(a, b) => Merged(a, b, counter) \in U

\* MergeFragments goes through the units one by one: h is the result so far
MergeFold(h, passages, counter) ==
  /\ h[0] = <<>>
  /\ \A m \in 0..(Len(passages) - 1) :
       h[m + 1] = IF h[m] # <<>> /\ Mergeable(Last(h[m]), passages[m + 1])
                  THEN Front(h[m]) \o <<Merged(Last(h[m]), passages[m + 1], counter)>>
                  ELSE Append(h[m], passages[m + 1])

\* A sequence that is not empty has a last element and the ones before it.
LEMMA FrontAndLast ==
  ASSUME NEW U, NEW s \in Seq(U), s # <<>>
  PROVE  /\ Len(s) \in Nat \ {0} /\ Last(s) \in U /\ Last(s) = s[Len(s)]
         /\ Front(s) \in Seq(U) /\ Len(Front(s)) = Len(s) - 1
         /\ \A i \in 1..(Len(s) - 1) : Front(s)[i] = s[i]
  BY DEF Last, Front

\* One more element of U.
LEMMA Extends ==
  ASSUME NEW U, NEW s \in Seq(U), NEW x \in U
  PROVE  s \o <<x>> \in Seq(U) /\ Append(s, x) \in Seq(U)
<1>1. <<x>> \in Seq(U)
  OBVIOUS
<1> QED
  BY <1>1

\* The fold behind MergeFragments has such steps, and the result is what the last one leaves.
LEMMA MergeUnfolds ==
  ASSUME NEW U, NEW counter, ClosedUnderMerging(U, counter), NEW passages \in Seq(U)
  PROVE  \E h : MergeFold(h, passages, counter) /\ MergeFragments(passages, counter) = h[Len(passages)]
<1> DEFINE N == Len(passages)
           D == 1..N
           V == Seq(U)
           c == [s \in SUBSET D |-> Max(s)]
           Add(r, u) == IF r # <<>> /\ Mergeable(Last(r), u)
                         THEN Front(r) \o <<Merged(Last(r), u, counter)>>
                         ELSE Append(r, u)
           F == [p \in V \X D |-> Add(p[1], passages[p[2]])]
           Eq(g) == g = [s \in SUBSET DOMAIN passages |->
                           IF s = {} THEN <<>> ELSE Add(g[s \ {Max(s)}], passages[Max(s)])]
<1>1. N \in Nat /\ DOMAIN passages = D /\ \A i \in D : passages[i] \in U
  OBVIOUS
<1>2. \A s \in SUBSET D : s # {} => Max(s) \in s
  BY <1>1, MaxIsGreatest
<1>3. \A s \in SUBSET D : s # {} => c[s] \in s
  BY <1>2
<1>4. ASSUME NEW r \in V, NEW u \in U PROVE Add(r, u) \in V
  <2>1. CASE r # <<>> /\ Mergeable(Last(r), u)
    <3>1. Last(r) \in U /\ Front(r) \in Seq(U)
      BY <2>1, FrontAndLast
    <3>2. Merged(Last(r), u, counter) \in U
      BY <2>1, <3>1 DEF ClosedUnderMerging
    <3>3. Add(r, u) = Front(r) \o <<Merged(Last(r), u, counter)>>
      BY <2>1
    <3> HIDE DEF Add
    <3> QED
      BY <3>1, <3>2, <3>3, Extends
  <2>2. CASE ~(r # <<>> /\ Mergeable(Last(r), u))
    <3>1. Add(r, u) = Append(r, u)
      BY <2>2
    <3> HIDE DEF Add
    <3> QED
      BY <3>1
  <2> QED
    BY <2>1, <2>2
<1>5. F \in [V \X D -> V]
  <2> HIDE DEF Add, V
  <2> QED
    BY <1>1, <1>4
<1>6. <<>> \in V /\ IsFiniteSet(D)
  BY <1>1, FS_Interval
<1>7. \E g : IsFold(g, D, V, <<>>, F, c)
  <2> HIDE DEF c, F, D, V
  <2> QED
    BY <1>3, <1>5, <1>6, FoldExists, Zenon
<1>8. PICK g \in [SUBSET D -> V] :
         \A s \in SUBSET D : g[s] = IF s = {} THEN <<>> ELSE F[<<g[s \ {c[s]}], c[s]>>]
  BY <1>7 DEF IsFold
<1>9. ASSUME NEW s \in SUBSET D, s # {}
      PROVE  g[s] = Add(g[s \ {Max(s)}], passages[Max(s)])
  <2>1. c[s] = Max(s) /\ Max(s) \in D /\ s \ {Max(s)} \in SUBSET D
    BY <1>1, <1>2, <1>9
  <2>2. g[s \ {Max(s)}] \in V
    BY <2>1
  <2>3. F[<<g[s \ {Max(s)}], Max(s)>>] = Add(g[s \ {Max(s)}], passages[Max(s)])
    <3> HIDE DEF Add, V, D
    <3> QED
      BY <2>1, <2>2
  <2> HIDE DEF c, F, Add
  <2> QED
    BY <1>8, <1>9, <2>1, <2>3
<1>10. Eq(g)
  <2>1. g = [s \in SUBSET D |-> g[s]]
    OBVIOUS
  <2> HIDE DEF Add
  <2> QED
    BY <1>1, <1>8, <1>9, <2>1
<1>11. MergeFragments(passages, counter) = (CHOOSE h : Eq(h))[DOMAIN passages]
  BY Zenon DEF MergeFragments, FoldLeft, MapThenFoldSet
<1> DEFINE f == CHOOSE h : Eq(h)
<1>12. Eq(f)
  <2> HIDE DEF Eq
  <2> QED
    BY <1>10
<1> DEFINE h == [m \in 0..N |-> f[1..m]]
<1>13. f[{}] = <<>>
  BY <1>12
<1>14. ASSUME NEW m \in 0..(N - 1) PROVE f[1..(m + 1)] = Add(f[1..m], passages[m + 1])
  <2>0. m \in Nat
    BY <1>1
  <2>1. Max(1..(m + 1)) = m + 1 /\ (1..(m + 1)) \ {m + 1} = 1..m
    BY <2>0, LastPosition
  <2>2. 1..(m + 1) \in SUBSET DOMAIN passages /\ 1..(m + 1) # {} /\ m + 1 \in D
    BY <1>1
  <2> HIDE DEF f, Add
  <2>3. f[1..(m + 1)] = Add(f[(1..(m + 1)) \ {Max(1..(m + 1))}], passages[Max(1..(m + 1))])
    BY <1>12, <2>2
  <2> QED
    BY <1>1, <2>1, <2>2, <2>3
<1>15. MergeFold(h, passages, counter)
  <2>1. 1..0 = {} /\ 0 \in 0..N /\ \A m \in 0..(N - 1) : m \in 0..N /\ m + 1 \in 0..N
    BY <1>1
  <2>2. h[0] = <<>>
    <3> HIDE DEF f
    <3> QED
      BY <1>13, <2>1
  <2>3. \A m \in 0..(N - 1) : h[m + 1] = Add(h[m], passages[m + 1])
    <3> HIDE DEF f, Add
    <3> QED
      BY <1>14, <2>1
  <2> HIDE DEF h
  <2> QED
    BY <2>2, <2>3 DEF MergeFold
<1>16. MergeFragments(passages, counter) = h[Len(passages)]
  <2>1. N \in 0..N
    BY <1>1
  <2> HIDE DEF Eq
  <2> QED
    BY <1>1, <1>11, <2>1
<1> QED
  BY <1>15, <1>16

\* What can be joined only within U stays in it.
LEMMA MergeStays ==
  ASSUME NEW U, NEW counter, ClosedUnderMerging(U, counter), NEW passages \in Seq(U)
  PROVE  MergeFragments(passages, counter) \in Seq(U)
<1>1. PICK h : MergeFold(h, passages, counter) /\ MergeFragments(passages, counter) = h[Len(passages)]
  BY MergeUnfolds
<1> DEFINE P == {m \in 0..Len(passages) : h[m] \in Seq(U)}
<1>2. Len(passages) \in Nat /\ Len(passages) \in 0..Len(passages) /\ 0 \in 0..Len(passages)
  OBVIOUS
<1>3. 0 \in P
  <2>1. h[0] = <<>>
    BY <1>1 DEF MergeFold
  <2>2. <<>> \in Seq(U)
    OBVIOUS
  <2> QED
    BY <1>2, <2>1, <2>2
<1>4. ASSUME NEW m \in 0..(Len(passages) - 1), m \in P PROVE m + 1 \in P
  <2>1. h[m] \in Seq(U) /\ passages[m + 1] \in U /\ m + 1 \in 0..Len(passages)
    BY <1>2, <1>4
  <2>2. CASE h[m] # <<>> /\ Mergeable(Last(h[m]), passages[m + 1])
    <3>1. Last(h[m]) \in U /\ Front(h[m]) \in Seq(U)
      BY <2>1, <2>2, FrontAndLast
    <3>2. Merged(Last(h[m]), passages[m + 1], counter) \in U
      BY <2>1, <2>2, <3>1 DEF ClosedUnderMerging
    <3>3. h[m + 1] = Front(h[m]) \o <<Merged(Last(h[m]), passages[m + 1], counter)>>
      BY <1>1, <2>2 DEF MergeFold
    <3>4. h[m + 1] \in Seq(U)
      BY <3>1, <3>2, <3>3, Extends
    <3> QED
      BY <2>1, <3>4
  <2>3. CASE ~(h[m] # <<>> /\ Mergeable(Last(h[m]), passages[m + 1]))
    <3>1. h[m + 1] = Append(h[m], passages[m + 1])
      BY <1>1, <2>3 DEF MergeFold
    <3>2. h[m + 1] \in Seq(U)
      BY <2>1, <3>1, Extends
    <3> QED
      BY <2>1, <3>2
  <2> QED
    BY <2>2, <2>3
<1>5. Len(passages) \in P
  <2> HIDE DEF P
  <2> QED
    BY <1>2, <1>3, <1>4, InductTo
<1> QED
  BY <1>1, <1>5

-----------------------------------------------------------------------------
(* Text stays text: what cleaning and the judge of sentences make of it *)

\* A sequence is one of what it holds, and of everything that contains it.
LEMMA SequencesWiden ==
  ASSUME NEW A, NEW B, A \subseteq B, NEW s \in Seq(A)
  PROVE  s \in Seq(B) /\ s \in Seq(ToSet(s)) /\ ToSet(s) \subseteq A
<1>1. Len(s) \in Nat /\ DOMAIN s = 1..Len(s) /\ \A i \in 1..Len(s) : s[i] \in A
  OBVIOUS
<1>2. \A i \in 1..Len(s) : s[i] \in B /\ s[i] \in ToSet(s)
  BY <1>1 DEF ToSet
<1>3. s = [i \in 1..Len(s) |-> s[i]]
  OBVIOUS
<1>4. s \in Seq(B)
  BY <1>1, <1>2, <1>3
<1>5. s \in Seq(ToSet(s))
  BY <1>1, <1>2, <1>3
<1> QED
  BY <1>1, <1>4, <1>5 DEF ToSet

\* A part of a sequence is a sequence of the same, and has nothing else in it.
LEMMA Parts ==
  ASSUME NEW T, NEW s \in Seq(T), NEW m \in Nat \ {0}, NEW n \in Int, n <= Len(s)
  PROVE  SubSeq(s, m, n) \in Seq(T) /\ ToSet(SubSeq(s, m, n)) \subseteq ToSet(s)
<1> DEFINE part == SubSeq(s, m, n)
           size == IF m <= n THEN n - m + 1 ELSE 0
<1>1. Len(s) \in Nat /\ DOMAIN s = 1..Len(s) /\ size \in Nat
  OBVIOUS
<1>2. part \in Seq(T) /\ Len(part) = size /\ DOMAIN part = 1..size
  OBVIOUS
<1>3. \A i \in 1..size : part[i] = s[m + i - 1] /\ m + i - 1 \in 1..Len(s)
  BY <1>1
<1> HIDE DEF part, size
<1>4. \A i \in DOMAIN part : part[i] \in ToSet(s)
  BY <1>1, <1>2, <1>3 DEF ToSet
<1> QED
  BY <1>2, <1>4 DEF part, ToSet

\* What follows a position of a sequence.
LEMMA Rest ==
  ASSUME NEW T, NEW s \in Seq(T), NEW i \in Nat
  PROVE  After(s, i) \in Seq(T)
<1>1. i + 1 \in Nat \ {0} /\ Len(s) \in Int /\ Len(s) <= Len(s)
  OBVIOUS
<1> QED
  BY <1>1, Parts DEF After

\* What follows the last of some marks.
LEMMA AfterLastStays ==
  ASSUME NEW T, NEW s \in Seq(T), NEW S
  PROVE  AfterLast(s, S) \in Seq(T)
<1>1. Len(s) \in Nat /\ Occurrences(s, S) \in SUBSET (1..Len(s))
  BY DEF Occurrences
<1>2. ASSUME Occurrences(s, S) # {} PROVE Max(Occurrences(s, S)) \in Nat
  <2>1. Max(Occurrences(s, S)) \in Occurrences(s, S)
    BY <1>1, <1>2, MaxIsGreatest
  <2> QED
    BY <1>1, <2>1
<1> QED
  BY <1>2, Rest DEF AfterLast

\* What remains without some leading words.
LEMMA WithoutLeadingStays ==
  ASSUME NEW T, NEW s \in Seq(T), NEW S
  PROVE  WithoutLeading(s, S) \in Seq(T)
<1> DEFINE others == {i \in DOMAIN s : s[i] \notin S}
<1>1. Len(s) \in Nat /\ others \in SUBSET (1..Len(s)) /\ <<>> \in Seq(T)
  OBVIOUS
<1>2. ASSUME others # {} PROVE Min(others) - 1 \in Nat
  <2> HIDE DEF others
  <2>1. Min(others) \in others
    BY <1>1, <1>2, MinIsLeast
  <2>2. others \subseteq 1..Len(s)
    BY <1>1, Zenon
  <2>3. Min(others) \in 1..Len(s)
    BY <2>1, <2>2, Zenon
  <2> QED
    BY <1>1, <2>3
<1>3. WithoutLeading(s, S) = IF others = {} THEN <<>> ELSE After(s, Min(others) - 1)
  BY DEF WithoutLeading
<1> HIDE DEF others
<1> QED
  BY <1>1, <1>2, <1>3, Rest

\* The cleaner takes words away and adds none.
LEMMA CleanedIsText ==
  ASSUME NEW T, NEW output \in Seq(T)
  PROVE  CleanGeneration(output) \in Seq(T)
<1>1. ASSUME NEW s \in Seq(T), NEW S PROVE At(s, S) \in Seq(T)
  BY AtKeeps
<1>2. StripToolScaffolding(output) \in Seq(T)
  <2> DEFINE body == WithoutLeading(AfterLast(output, {"banner"}), {"/command"})
             spoken == IF body # <<>> /\ Head(body) = "echo" THEN AfterLast(body, {"echo"}) ELSE body
             cleaned == At(spoken, {i \in DOMAIN spoken : spoken[i] # "status"})
  <2>1. body \in Seq(T)
    BY AfterLastStays, WithoutLeadingStays
  <2> HIDE DEF body
  <2>2. spoken \in Seq(T)
    BY <2>1, AfterLastStays
  <2> HIDE DEF spoken
  <2>3. cleaned \in Seq(T)
    BY <1>1, <2>2
  <2> HIDE DEF cleaned
  <2>4. StripToolScaffolding(output) = IF cleaned = <<>> THEN output ELSE cleaned
    BY DEF StripToolScaffolding, cleaned, spoken, body
  <2> QED
    BY <2>3, <2>4
<1>3. ASSUME NEW s \in Seq(T) PROVE StripThinking(s) \in Seq(T)
  BY <1>1 DEF StripThinking
<1>4. ASSUME NEW s \in Seq(T) PROVE ExtractFinalAnswer(s) \in Seq(T)
  BY AfterLastStays DEF ExtractFinalAnswer
<1> QED
  BY <1>2, <1>3, <1>4 DEF CleanGeneration

\* Every backend returns a text.
LEMMA AnswersAreText ==
  ASSUME NEW T, NEW output \in Seq(T), NEW backend
  PROVE  BackendAnswer(backend, output) \in Seq(T)
<1>1. CleanGeneration(output) \in Seq(T) /\ <<>> \in Seq(T)
  BY CleanedIsText
<1>2. CASE backend = "simulated"
  BY <1>2 DEF BackendAnswer
<1>3. CASE backend # "simulated" /\ CleanGeneration(output) # <<>>
  <2>1. BackendAnswer(backend, output) = CleanGeneration(output)
    BY <1>3, Zenon DEF BackendAnswer
  <2> QED
    BY <1>1, <2>1
<1>4. CASE backend \notin {"simulated", "llama-cli"} /\ CleanGeneration(output) = <<>>
  BY <1>4 DEF BackendAnswer
<1>5. CASE backend = "llama-cli" /\ CleanGeneration(output) = <<>>
  BY <1>1, <1>5 DEF BackendAnswer
<1> QED
  BY <1>2, <1>3, <1>4, <1>5

\* A gram of a text is made of its words; a text of enough words has some, finitely many.
LEMMA GramsAreWords ==
  ASSUME NEW T, NEW words \in Seq(T), NEW size \in Nat \ {0}
  PROVE  /\ \A gram \in Shingles(words, size) : ToSet(gram) \subseteq ToSet(words)
         /\ Len(ContentWords(words)) >= size =>
              /\ IsFiniteSet(Shingles(words, size))
              /\ Shingles(words, size) # {}
<1> DEFINE terms == ContentWords(words)
           last == Len(terms) - size + 1
           f == [i \in 1..last |-> SubSeq(terms, i, i + size - 1)]
<1>1. terms \in Seq(T) /\ \A i \in DOMAIN terms : terms[i] \in ToSet(words)
  <2>1. /\ terms \in Seq(T)
        /\ \A i \in DOMAIN terms : \E k \in DOMAIN words : terms[i] = words[k]
    <3> DEFINE S == {i \in DOMAIN words : words[i] \notin Ignored}
    <3>1. terms = At(words, S)
      BY DEF ContentWords
    <3> HIDE DEF S, terms
    <3> QED
      BY <3>1, AtKeeps
  <2> HIDE DEF terms
  <2> QED
    BY <2>1 DEF ToSet
<1>2. Shingles(words, size) = IF Len(terms) < size THEN {terms} \ {<<>>} ELSE {f[i] : i \in 1..last}
  <2>1. {SubSeq(terms, i, i + size - 1) : i \in 1..last} = {f[i] : i \in 1..last}
    OBVIOUS
  <2> HIDE DEF f
  <2> QED
    BY <2>1 DEF Shingles
<1> HIDE DEF terms
<1>3. Len(terms) \in Nat /\ last \in Int /\ ToSet(terms) \subseteq ToSet(words)
  BY <1>1 DEF ToSet
<1>4. ASSUME NEW i \in 1..last PROVE ToSet(f[i]) \subseteq ToSet(words)
  <2>1. i \in Nat \ {0} /\ i + size - 1 \in Int /\ i + size - 1 <= Len(terms)
    BY <1>3
  <2>2. ToSet(SubSeq(terms, i, i + size - 1)) \subseteq ToSet(terms)
    BY <1>1, <2>1, Parts
  <2> QED
    BY <1>3, <2>2
<1>5. \A gram \in Shingles(words, size) : ToSet(gram) \subseteq ToSet(words)
  <2> HIDE DEF f, last
  <2> QED
    BY <1>2, <1>3, <1>4
<1>6. ASSUME Len(terms) >= size
      PROVE  IsFiniteSet(Shingles(words, size)) /\ Shingles(words, size) # {}
  <2>1. 1 \in 1..last
    BY <1>3, <1>6
  <2>2. Shingles(words, size) = {f[i] : i \in 1..last}
    <3>1. ~(Len(terms) < size)
      BY <1>3, <1>6
    <3> HIDE DEF f, last
    <3> QED
      BY <1>2, <3>1
  <2>3. IsFiniteSet(1..last)
    BY <1>3, FS_Interval
  <2>4. IsFiniteSet({f[i] : i \in 1..last})
    <3> DEFINE all == {f[i] : i \in 1..last}
    <3>1. f \in Surjection(1..last, all)
      <4>1. f \in [1..last -> all] /\ \A x \in all : \E i \in 1..last : f[i] = x
        OBVIOUS
      <4> HIDE DEF f, all, last
      <4> QED
        BY <4>1 DEF Surjection
    <3> HIDE DEF f, all, last
    <3>2. IsFiniteSet(all)
      BY <2>3, <3>1, FS_Surjection
    <3> QED
      BY <3>2 DEF all
  <2> HIDE DEF f, last
  <2> QED
    BY <2>1, <2>2, <2>4
<1> QED
  BY <1>5, <1>6 DEF terms

\* A share of nothing is nothing.
LEMMA NoShare ==
  ASSUME NEW whole \in Nat \ {0}
  PROVE  Percent(0, whole) = 0
  BY DEF Percent

\* A sentence that overlaps with a text has a gram in common with it.
LEMMA OverlapIsShared ==
  ASSUME NEW T, NEW sentence \in Seq(T), Len(ContentWords(sentence)) >= GroundingSize,
         NEW words, Overlap(sentence, words) >= SentenceGrounding
  PROVE  \E gram \in Shingles(sentence, GroundingSize) : gram \in Shingles(words, GroundingSize)
<1> DEFINE grams == Shingles(sentence, GroundingSize)
           common == grams \cap Shingles(words, GroundingSize)
<1>1. IsFiniteSet(grams) /\ grams # {}
  BY GramsAreWords DEF GroundingSize
<1>2. Cardinality(grams) \in Nat \ {0}
  BY <1>1, FS_CardinalityType, FS_EmptySet
<1>3. Overlap(sentence, words) = Percent(Cardinality(common), Cardinality(grams))
  BY DEF Overlap
<1>4. ASSUME common = {} PROVE FALSE
  <2>1. Cardinality(common) = 0
    BY <1>4, FS_EmptySet
  <2> HIDE DEF common, grams
  <2>2. Overlap(sentence, words) = 0
    BY <1>2, <1>3, <2>1, NoShare
  <2> QED
    BY <2>2 DEF SentenceGrounding
<1> QED
  BY <1>4

\* The sentences of an answer are texts, and those that are judged have enough words.
LEMMA JudgedAreTexts ==
  ASSUME NEW T, NEW reply \in Seq(T)
  PROVE  /\ Judged(reply) \in Seq(Seq(T))
         /\ \A k \in DOMAIN Judged(reply) : Len(ContentWords(Judged(reply)[k])) >= 3
<1> DEFINE text == At(reply, {i \in DOMAIN reply : reply[i] \notin Labels})
           N == Len(text) + 1
           ends == {j \in 1..N : j = N \/ text[j] = "."}
           sentences == Sentences(reply)
<1>1. text \in Seq(T)
  BY AtKeeps
<1>2. sentences = [i \in 1..N |->
                     IF i = 1 \/ text[i - 1] = "." THEN SubSeq(text, i, Min({j \in ends : j >= i}) - 1)
                     ELSE <<>>]
  BY DEF Sentences
<1> HIDE DEF text, sentences
<1>3. N \in Nat /\ N \in ends
  BY <1>1
<1>4. ASSUME NEW i \in 1..N PROVE SubSeq(text, i, Min({j \in ends : j >= i}) - 1) \in Seq(T)
  <2> DEFINE later == {j \in ends : j >= i}
  <2>1. later \in SUBSET (1..N) /\ later # {}
    BY <1>3
  <2> HIDE DEF later
  <2>2. Min(later) \in later
    BY <1>3, <2>1, MinIsLeast
  <2>3. Min(later) \in 1..N
    BY <2>1, <2>2
  <2>4. i \in Nat \ {0} /\ Min(later) - 1 \in Int /\ Min(later) - 1 <= Len(text)
    <3>1. Len(text) \in Nat
      BY <1>1
    <3> QED
      BY <2>3, <3>1
  <2>5. SubSeq(text, i, Min(later) - 1) \in Seq(T)
    BY <1>1, <2>4, Parts
  <2> QED
    BY <2>5 DEF later
<1>5. sentences \in Seq(Seq(T))
  <2>1. <<>> \in Seq(T)
    OBVIOUS
  <2>2. \A i \in 1..N : sentences[i] \in Seq(T)
    <3> HIDE DEF ends, N
    <3> QED
      BY <1>2, <1>4, <2>1
  <2>3. sentences = [i \in 1..N |-> sentences[i]]
    <3> HIDE DEF ends, N
    <3> QED
      BY <1>2
  <2> HIDE DEF ends, N
  <2> QED
    BY <1>3, <2>2, <2>3
<1> DEFINE S == {i \in DOMAIN sentences : Len(ContentWords(sentences[i])) >= 3}
<1>6. Judged(reply) = At(sentences, S)
  BY DEF Judged, sentences
<1>7. /\ At(sentences, S) \in Seq(Seq(T))
      /\ \A i \in DOMAIN At(sentences, S) : \E k \in S \cap DOMAIN sentences : At(sentences, S)[i] = sentences[k]
  <2> HIDE DEF S
  <2> QED
    BY <1>5, AtKeeps
<1>8. \A k \in S : Len(ContentWords(sentences[k])) >= 3
  OBVIOUS
<1> HIDE DEF S
<1> QED
  BY <1>6, <1>7, <1>8

\* Where an answer passes without declaring uncertainty, one of its sentences has a
\* gram in common with a passage of the evidence.
LEMMA PassesHaveSupport ==
  ASSUME NEW T, NEW reply \in Seq(T), NEW evidence,
         Passes(reply, evidence), ~DeclaresUncertainty(reply)
  PROVE  \E s \in ToSet(Judged(reply)), k \in DOMAIN evidence :
           \E gram \in Shingles(s, GroundingSize) :
             gram \in Shingles(evidence[k].text.words, GroundingSize)
<1> DEFINE judged == Judged(reply)
           grounded == {k \in DOMAIN judged : Grounded(judged[k], evidence)}
<1>1. /\ judged \in Seq(Seq(T))
      /\ \A k \in DOMAIN judged : Len(ContentWords(judged[k])) >= GroundingSize
  BY JudgedAreTexts DEF GroundingSize
<1>2. evidence # <<>> /\ GroundingRate(reply, evidence) >= GroundingPass
  BY DEF Passes
<1>3. GroundingRate(reply, evidence) =
        IF judged = <<>> \/ evidence = <<>> THEN 0 ELSE Percent(Cardinality(grounded), Len(judged))
  BY Zenon DEF GroundingRate
<1> HIDE DEF judged
<1>4. judged # <<>>
  BY <1>2, <1>3 DEF GroundingPass
<1>5. Len(judged) \in Nat \ {0}
  BY <1>1, <1>4
<1>6. ASSUME grounded = {} PROVE FALSE
  <2>1. Cardinality(grounded) = 0
    BY <1>6, FS_EmptySet
  <2> HIDE DEF grounded
  <2>2. GroundingRate(reply, evidence) = 0
    BY <1>2, <1>3, <1>4, <1>5, <2>1, NoShare
  <2> QED
    BY <1>2, <2>2 DEF GroundingPass
<1>7. PICK j \in DOMAIN judged : Grounded(judged[j], evidence)
  BY <1>6
<1>8. PICK k \in DOMAIN evidence :
        Overlap(judged[j], evidence[k].text.words) >= SentenceGrounding
  BY <1>7 DEF Grounded
<1>9. judged[j] \in Seq(T) /\ Len(ContentWords(judged[j])) >= GroundingSize
      /\ judged[j] \in ToSet(judged)
  BY <1>1, <1>7 DEF ToSet
<1>10. \E gram \in Shingles(judged[j], GroundingSize) :
         gram \in Shingles(evidence[k].text.words, GroundingSize)
  BY <1>8, <1>9, OverlapIsShared
<1> QED
  BY <1>9, <1>10 DEF judged

-----------------------------------------------------------------------------
(* Where passages come from *)

\* The passages that say nothing their document does not say in the corpus
Sourced == {u \in Units : /\ \E i \in DOMAIN corpus : corpus[i].doc = u.doc
                          /\ ToSet(u.text.words) \subseteq OfDocument(u.doc)}

\* Counting a text gives a number.
LEMMA CountIsNumber ==
  ASSUME NEW counter, NEW t \in Texts
  PROVE  Count(counter, t) \in Nat
<1>1. Len(t.words) \in Nat /\ t.chars \in Nat
  BY DEF Texts
<1>2. \A n \in Nat : CeilDiv(132 * n, 100) \in Nat /\ CeilDiv(10 * n, 36) \in Nat
  BY DEF CeilDiv
<1>3. HeuristicCount(t) \in Nat
  <2>1. CeilDiv(132 * Len(t.words), 100) \in Nat /\ CeilDiv(10 * t.chars, 36) \in Nat
    BY <1>1, <1>2
  <2> QED
    BY <2>1 DEF HeuristicCount, AtLeast
<1>4. ModelCount(t) \in Nat
  <2>1. ModelDensity * t.chars \in Nat
    BY <1>1, TextAssumption
  <2>2. \A n \in Nat : (n + 100 - 1) \div 100 \in Nat
    OBVIOUS
  <2> QED
    BY <2>1, <2>2 DEF ModelCount, CeilDiv
<1> QED
  BY <1>3, <1>4 DEF Count

\* The corpus is made of such passages.
LEMMA CorpusIsSourced ==
  ASSUME corpus \in Corpora
  PROVE  corpus \in Seq(Sourced)
<1>1. corpus \in Seq(Units)
  BY PathAssumption
<1>2. Len(corpus) \in Nat /\ DOMAIN corpus = 1..Len(corpus) /\ corpus = [i \in 1..Len(corpus) |-> corpus[i]]
  BY <1>1
<1>3. ASSUME NEW i \in 1..Len(corpus) PROVE corpus[i] \in Sourced
  <2>1. corpus[i] \in Units
    BY <1>1, <1>2
  <2>2. ToSet(corpus[i].text.words) \subseteq OfDocument(corpus[i].doc)
    BY <1>2 DEF OfDocument
  <2> QED
    BY <1>2, <2>1, <2>2 DEF Sourced
<1> QED
  BY <1>2, <1>3

\* The words of two texts joined are those of both.
LEMMA JoinedWords ==
  ASSUME NEW a \in Texts, NEW b \in Texts
  PROVE  /\ Joined(a, b) \in Texts
         /\ ToSet(Joined(a, b).words) \subseteq ToSet(a.words) \cup ToSet(b.words)
<1> DEFINE W == Words
           v == a.words
           w == b.words
<1>1. /\ v \in Seq(W) /\ w \in Seq(W) /\ a.chars \in Nat /\ b.chars \in Nat
      /\ Len(v) <= a.chars /\ Len(w) <= b.chars
  BY DEF Texts
<1>2. Joined(a, b) = [words |-> v \o w, chars |-> a.chars + 1 + b.chars]
  BY DEF Joined, Text
<1> HIDE DEF v, w, W
<1>3. /\ v \o w \in Seq(W) /\ a.chars + 1 + b.chars \in Nat
      /\ Len(v \o w) <= a.chars + 1 + b.chars
  BY <1>1
<1>4. ASSUME NEW i \in DOMAIN (v \o w) PROVE (v \o w)[i] \in ToSet(v) \cup ToSet(w)
  <2>1. Len(v) \in Nat /\ Len(w) \in Nat /\ i \in 1..(Len(v) + Len(w))
        /\ DOMAIN v = 1..Len(v) /\ DOMAIN w = 1..Len(w)
    BY <1>1
  <2>2. CASE i <= Len(v)
    <3>1. i \in DOMAIN v /\ (v \o w)[i] = v[i]
      BY <1>1, <2>1, <2>2
    <3> QED
      BY <3>1 DEF ToSet
  <2>3. CASE i > Len(v)
    <3>1. i - Len(v) \in DOMAIN w /\ (v \o w)[i] = w[i - Len(v)]
      BY <1>1, <2>1, <2>3
    <3> QED
      BY <3>1 DEF ToSet
  <2> QED
    BY <2>1, <2>2, <2>3
<1>5. ToSet(v \o w) \subseteq ToSet(v) \cup ToSet(w)
  <2>1. \A x \in ToSet(v \o w) : \E i \in DOMAIN (v \o w) : x = (v \o w)[i]
    BY DEF ToSet
  <2> QED
    BY <1>4, <2>1
<1>6. Joined(a, b) \in Texts
  BY <1>2, <1>3 DEF Texts, W
<1>7. Joined(a, b).words = v \o w
  BY <1>2
<1> QED
  BY <1>5, <1>6, <1>7 DEF v, w

\* Two neighbours of one document say together what that document says.
LEMMA MergingKeepsSource ==
  ASSUME NEW counter
  PROVE  ClosedUnderMerging(Sourced, counter)
<1> SUFFICES ASSUME NEW a \in Sourced, NEW b \in Sourced, Mergeable(a, b)
             PROVE  Merged(a, b, counter) \in Sourced
  BY DEF ClosedUnderMerging
<1> DEFINE text == Joined(a.text, b.text)
<1>1. a \in Units /\ b \in Units /\ a.text \in Texts /\ b.text \in Texts /\ a.doc = b.doc
  BY DEF Sourced, Units, Mergeable
<1>2. text \in Texts /\ ToSet(text.words) \subseteq ToSet(a.text.words) \cup ToSet(b.text.words)
  BY <1>1, JoinedWords
<1>3. Count(counter, text) \in Nat
  BY <1>2, CountIsNumber
<1>4. Merged(a, b, counter) = [a EXCEPT !.text = text, !.tokens = Count(counter, text)]
  BY DEF Merged
<1> HIDE DEF text
<1>5. Merged(a, b, counter) \in Units /\ Merged(a, b, counter).doc = a.doc
      /\ Merged(a, b, counter).text = text
  BY <1>1, <1>2, <1>3, <1>4 DEF Units
<1>6. ToSet(text.words) \subseteq OfDocument(a.doc)
  BY <1>1, <1>2 DEF Sourced
<1> QED
  BY <1>5, <1>6 DEF Sourced

\* Optimization leaves out, and joins what belongs together.
LEMMA OptimizedIsSourced ==
  ASSUME corpus \in Corpora, NEW counter
  PROVE  Optimize(corpus, counter) \in Seq(Sourced)
<1>1. ASSUME NEW s \in Seq(Sourced), NEW S PROVE At(s, S) \in Seq(Sourced)
  BY AtKeeps
<1>2. DropNoise(corpus) \in Seq(Sourced)
  BY <1>1, CorpusIsSourced DEF DropNoise
<1>3. ASSUME NEW s \in Seq(Sourced) PROVE DropExactDuplicates(s) \in Seq(Sourced)
  BY <1>1 DEF DropExactDuplicates
<1>4. ASSUME NEW s \in Seq(Sourced) PROVE DropNearDuplicates(s) \in Seq(Sourced)
  <2> QED
    BY <1>1 DEF DropNearDuplicates
<1>5. DropNearDuplicates(DropExactDuplicates(DropNoise(corpus))) \in Seq(Sourced)
  BY <1>2, <1>3, <1>4
<1> QED
  BY <1>5, MergingKeepsSource, MergeStays DEF Optimize

-----------------------------------------------------------------------------
(* Support *)

\* A sequence of candidates whose units are such passages
FromCorpus(s) ==
  /\ s \in Seq(ToSet(s))
  /\ \A c \in ToSet(s) : c.unit \in Sourced

\* What a request has gathered comes from the corpus, and nothing is gathered for a
\* question that is off topic
SupportInv ==
  /\ corpus \in Corpora
  /\ units \in Seq(Sourced) /\ FromCorpus(pool) /\ FromCorpus(chosen)
  /\ stage \in {"waiting", "optimize", "retrieve"} => pool = <<>> /\ chosen = <<>>
  /\ pool # <<>> \/ chosen # <<>> => ~OffTopic(question, units)
  /\ answer \in Seq(Words)
  /\ verdict.passed => stage \in {"measure", "ended"} /\ Passes(answer, Evidence)

\* Nothing is a sequence of candidates, and so is whatever is made of them.
LEMMA Candidates ==
  ASSUME NEW C, \A c \in C : c.unit \in Sourced, NEW s \in Seq(C)
  PROVE  FromCorpus(s)
<1>1. C \subseteq C
  OBVIOUS
<1>2. s \in Seq(ToSet(s)) /\ ToSet(s) \subseteq C
  BY <1>1, SequencesWiden
<1> QED
  BY <1>2 DEF FromCorpus

\* The evidence is a sequence of passages.
LEMMA EvidenceIsSourced ==
  ASSUME FromCorpus(chosen)
  PROVE  /\ Evidence \in Seq(Sourced)
         /\ \A k \in DOMAIN Evidence : k \in DOMAIN chosen
<1> DEFINE C == ToSet(chosen)
<1>1. chosen \in Seq(C) /\ \A c \in C : c.unit \in Sourced
  BY DEF FromCorpus
<1> HIDE DEF C
<1>2. Len(chosen) \in Nat /\ DOMAIN chosen = 1..Len(chosen)
      /\ \A k \in 1..Len(chosen) : chosen[k].unit \in Sourced
  BY <1>1
<1>3. Evidence = [k \in 1..Len(chosen) |-> chosen[k].unit]
  BY <1>2 DEF Evidence
<1> QED
  BY <1>2, <1>3

\* What the stand-in makes of its prompt is text.
LEMMA StandInIsText ==
  ASSUME NEW evidence \in Seq(Sourced), NEW n, NEW q \in Questions
  PROVE  Simulated(evidence, n, q) \in Seq(Words)
<1>1. Insufficient \in Seq(Words)
  <2>1. Insufficient \in Seq(ToSet(Insufficient))
    <3>1. \A a, b, c, d, e : <<a, b, c, d, e>> \in Seq({a, b, c, d, e})
      OBVIOUS
    <3>2. PICK A : Insufficient \in Seq(A)
      BY <3>1 DEF Insufficient
    <3> QED
      BY <3>2, SequencesWiden
  <2>2. ToSet(Insufficient) \subseteq Words
    BY PathAssumption
  <2> QED
    BY <2>1, <2>2, SequencesWiden
<1>2. q.text.words \in Seq(Words)
  BY PathAssumption DEF Texts
<1>3. CASE evidence = <<>>
  BY <1>1, <1>3 DEF Simulated
<1>4. CASE evidence # <<>> /\ n > 0
  <2> DEFINE words == evidence[1].text.words
             stops == {i \in DOMAIN words : words[i] = "."}
             ends == {i \in stops : Cardinality({j \in stops : j <= i}) = QuotedSentences}
  <2>1. evidence[1] \in Sourced
    BY <1>4
  <2>2. evidence[1].text \in Texts
    BY <2>1 DEF Sourced, Units
  <2>3. words \in Seq(Words)
    BY <2>2 DEF Texts
  <2>4. Quotation(words) = IF ends = {} THEN words ELSE SubSeq(words, 1, Min(ends))
    BY DEF Quotation
  <2>5. Len(words) \in Nat /\ ends \in SUBSET (1..Len(words))
    <3>1. ends \in SUBSET DOMAIN words
      OBVIOUS
    <3> HIDE DEF ends, words
    <3> QED
      BY <2>3, <3>1
  <2> HIDE DEF ends, words
  <2>6. Quotation(words) \in Seq(Words)
    <3>1. ASSUME ends # {} PROVE SubSeq(words, 1, Min(ends)) \in Seq(Words)
      <4>1. Min(ends) \in 1..Len(words)
        BY <2>5, <3>1, MinIsLeast
      <4>2. 1 \in Nat \ {0} /\ Min(ends) \in Int /\ Min(ends) <= Len(words)
        BY <2>5, <4>1
      <4> QED
        BY <2>3, <4>2, Parts
    <3> QED
      BY <2>3, <2>4, <3>1
  <2>7. LabelOf(1) \in Words
    <3>1. "S1" \in Words
      BY PathAssumption DEF Labels
    <3>2. LabelOf(1) = "S1"
      BY DEF LabelOf
    <3> QED
      BY <3>1, <3>2
  <2>8. Append(Quotation(words), LabelOf(1)) \in Seq(Words)
    BY <2>6, <2>7
  <2>9. Simulated(evidence, n, q) = Append(Quotation(evidence[1].text.words), LabelOf(1))
    BY <1>4, Zenon DEF Simulated
  <2> QED
    BY <2>8, <2>9 DEF words
<1>5. CASE evidence # <<>> /\ ~(n > 0)
  <2>1. Simulated(evidence, n, q) =
          IF q.text.chars > Quotable THEN q.text.words ELSE Insufficient
    BY <1>5, Zenon DEF Simulated
  <2> QED
    BY <1>1, <1>2, <2>1
<1> QED
  BY <1>3, <1>4, <1>5

\* A ranking has the units of the request in it, and the pool is a part of it.
LEMMA PoolIsSourced ==
  ASSUME units \in Seq(Sourced), NEW lexical, NEW ranked \in Rankings(question, units, lexical)
  PROVE  FromCorpus(Pool(ranked))
<1> DEFINE total(i) == Total(question, units, lexical, i)
           Before(i, j) == total(i) > total(j) \/ (total(i) = total(j) /\ units[i].id < units[j].id)
           orders == {p \in Bijection(DOMAIN units, DOMAIN units) :
                        \A k, m \in DOMAIN units : Before(p[k], p[m]) => k < m}
           C == ToSet(ranked)
<1>1. Len(units) \in Nat /\ DOMAIN units = 1..Len(units)
      /\ \A i \in 1..Len(units) : units[i] \in Sourced
  OBVIOUS
<1>2. PICK p \in Bijection(DOMAIN units, DOMAIN units) :
         ranked = [k \in DOMAIN units |-> [unit |-> units[p[k]], total |-> total(p[k])]]
  BY DEF Rankings
<1>3. \A k \in DOMAIN units : p[k] \in DOMAIN units
  BY <1>2 DEF Bijection, Injection, Surjection, IsInjective
<1> HIDE DEF total
<1>4. DOMAIN ranked = 1..Len(units) /\ ranked = [k \in 1..Len(units) |-> ranked[k]]
      /\ \A k \in 1..Len(units) : ranked[k].unit = units[p[k]] /\ ranked[k] \in C
  BY <1>1, <1>2 DEF ToSet
<1>5. \A c \in C : c.unit \in Sourced
  <2>1. \A c \in C : \E k \in DOMAIN ranked : c = ranked[k]
    BY DEF ToSet
  <2> HIDE DEF C
  <2> QED
    BY <1>1, <1>3, <1>4, <2>1
<1>6. ranked \in Seq(C)
  <2> HIDE DEF C
  <2> QED
    BY <1>1, <1>4
<1> HIDE DEF C
<1>7. Pool(ranked) \in Seq(C)
  <2> DEFINE floor == AtLeast(MinScore, (ranked[1].total * RelativeFloor) \div 100)
             above == At(ranked, {k \in DOMAIN ranked : ranked[k].total >= floor})
  <2>1. above \in Seq(C)
    BY <1>6, AtKeeps
  <2>2. Pool(ranked) = IF above = <<>> /\ ranked[1].total > MinScore
                       THEN SubSeq(ranked, 1, AtMost(3, Len(ranked)))
                       ELSE SubSeq(above, 1, AtMost(CandidatePool, Len(above)))
    BY DEF Pool
  <2> HIDE DEF above
  <2>3. 1 \in Nat \ {0} /\ \A s \in Seq(C), n \in Nat : AtMost(n, Len(s)) \in Int /\ AtMost(n, Len(s)) <= Len(s)
    BY DEF AtMost
  <2>4. CandidatePool \in Nat
    BY DEF CandidatePool
  <2>5. /\ SubSeq(ranked, 1, AtMost(3, Len(ranked))) \in Seq(C)
        /\ SubSeq(above, 1, AtMost(CandidatePool, Len(above))) \in Seq(C)
    BY <1>6, <2>1, <2>3, <2>4, Parts
  <2> QED
    BY <2>2, <2>5
<1> QED
  BY <1>5, <1>7, Candidates

\* No candidates come from nowhere else either.
LEMMA NoCandidates == FromCorpus(<<>>)
<1>1. <<>> \in Seq({})
  OBVIOUS
<1> QED
  BY <1>1, Candidates

\* A request starts with nothing.
LEMMA SupportInit == Init => SupportInv
<1> SUFFICES ASSUME Init PROVE SupportInv
  OBVIOUS
<1>1. /\ stage = "waiting" /\ units = <<>> /\ pool = <<>> /\ chosen = <<>> /\ answer = <<>>
      /\ verdict = Unjudged /\ corpus \in Corpora
  BY DEF Init
<1>2. \A S : <<>> \in Seq(S)
  OBVIOUS
<1>3. FromCorpus(<<>>)
  BY NoCandidates
<1> QED
  BY <1>1, <1>2, <1>3 DEF SupportInv, Unjudged

\* A passage moves from the pool to the evidence.
LEMMA SelectionStays ==
  ASSUME FromCorpus(pool), FromCorpus(chosen), NEW k \in DOMAIN pool
  PROVE  /\ FromCorpus(Append(chosen, pool[k])) /\ FromCorpus(RemoveAt(pool, k))
         /\ pool # <<>>
<1> DEFINE C == ToSet(pool) \cup ToSet(chosen)
<1>1. \A c \in C : c.unit \in Sourced
  BY DEF FromCorpus
<1>2. ToSet(pool) \subseteq C /\ ToSet(chosen) \subseteq C
  OBVIOUS
<1> HIDE DEF C
<1>3. pool \in Seq(C) /\ chosen \in Seq(C)
  BY <1>2, SequencesWiden DEF FromCorpus
<1>4. Append(chosen, pool[k]) \in Seq(C) /\ pool # <<>>
  BY <1>3
<1>5. RemoveAt(pool, k) \in Seq(C)
  BY <1>3 DEF RemoveAt
<1> QED
  BY <1>1, <1>4, <1>5, Candidates

\* A step that leaves the passages alone leaves where they come from alone.
LEMMA SameSources ==
  ASSUME UNCHANGED corpus
  PROVE  Sourced' = Sourced
  BY DEF Sourced, OfDocument

\* Every step keeps it: only scoring fills the pool, only the pool the evidence, and the
\* verdict is given on the evidence there is.
LEMMA SupportStep == Computed /\ SupportInv /\ [Next]_vars => SupportInv'
<1> SUFFICES ASSUME Computed, SupportInv, [Next]_vars PROVE SupportInv'
  OBVIOUS
<1>0. corpus' = corpus
  BY DEF Next, vars, Ask, OptimizeContext, ScoreUnits, SelectBest, FinishSelection,
         AssemblePrompt, Infer, Validate, FinalizeMetrics, NextRequest
<1>a. Sourced' = Sourced
  BY <1>0, SameSources
<1>b. /\ corpus \in Corpora /\ units \in Seq(Sourced) /\ FromCorpus(pool) /\ FromCorpus(chosen)
      /\ answer \in Seq(Words)
      /\ verdict.passed => stage \in {"measure", "ended"}
  BY DEF SupportInv
<1>c. pool' = pool => FromCorpus(pool)'
  BY <1>a, <1>b DEF FromCorpus
<1>d. chosen' = chosen => FromCorpus(chosen)' /\ Evidence' = Evidence
  BY <1>a, <1>b DEF FromCorpus, Evidence
<1>e. ASSUME UNCHANGED <<question, units, pool, chosen, answer, verdict>>,
             stage' \in {"waiting", "optimize", "retrieve"} => stage' = stage,
             stage \in {"measure", "ended"} => stage' \in {"measure", "ended"}
      PROVE  SupportInv'
  BY <1>0, <1>a, <1>c, <1>d, <1>e DEF SupportInv
<1>1. CASE Ask
  <2>1. /\ UNCHANGED <<units, pool, chosen, answer, verdict>> /\ stage' = "optimize"
        /\ stage = "waiting"
    BY <1>1 DEF Ask
  <2>2. ~verdict.passed /\ pool = <<>> /\ chosen = <<>>
    BY <2>1 DEF SupportInv
  <2> QED
    BY <1>0, <1>a, <1>b, <1>c, <1>d, <2>1, <2>2 DEF SupportInv
<1>2. CASE OptimizeContext
  <2>1. /\ UNCHANGED <<question, pool, chosen, answer, verdict>>
        /\ stage = "optimize" /\ stage' \in {"measure", "retrieve"}
        /\ units' = Optimize(corpus, machine.counter)
    BY <1>2 DEF OptimizeContext, EndsStage
  <2>2. ~verdict.passed /\ pool = <<>> /\ chosen = <<>>
    BY <2>1 DEF SupportInv
  <2>3. units' \in Seq(Sourced)
    BY <1>b, <2>1, OptimizedIsSourced
  <2> QED
    BY <1>0, <1>a, <1>b, <1>c, <1>d, <2>1, <2>2, <2>3 DEF SupportInv
<1>3. CASE ScoreUnits
  <2>1. /\ UNCHANGED <<question, units, chosen, answer, verdict>>
        /\ stage = "retrieve" /\ stage' = "select"
    BY <1>3 DEF ScoreUnits
  <2>2. ~verdict.passed /\ chosen = <<>>
    BY <2>1 DEF SupportInv
  <2>3. FromCorpus(pool') /\ (pool' # <<>> => ~OffTopic(question, units))
    <3>1. CASE units = <<>> \/ OffTopic(question, units)
      BY <1>3, <3>1, NoCandidates DEF ScoreUnits
    <3>2. CASE ~(units = <<>> \/ OffTopic(question, units))
      <4>1. PICK lexical \in LexicalScores(question, units) :
              \E ranked \in Rankings(question, units, lexical) : pool' = Pool(ranked)
        BY <1>3, <3>2 DEF ScoreUnits
      <4>2. PICK ranked \in Rankings(question, units, lexical) : pool' = Pool(ranked)
        BY <4>1
      <4>3. FromCorpus(Pool(ranked))
        BY <1>b, PoolIsSourced
      <4> QED
        BY <3>2, <4>2, <4>3
    <3> QED
      BY <3>1, <3>2
  <2>4. FromCorpus(pool)'
    BY <1>a, <2>3 DEF FromCorpus
  <2>5. OffTopic(question, units)' <=> OffTopic(question, units)
    BY <2>1
  <2> QED
    BY <1>0, <1>a, <1>b, <1>d, <2>1, <2>2, <2>3, <2>4, <2>5 DEF SupportInv
<1>4. CASE SelectBest
  <2>1. /\ UNCHANGED <<stage, question, units, answer, verdict>> /\ stage = "select"
        /\ \E k \in Selectable : /\ chosen' = Append(chosen, pool[k])
                                 /\ pool' = RemoveAt(pool, k)
    BY <1>4 DEF SelectBest
  <2>2. PICK k \in Selectable : chosen' = Append(chosen, pool[k]) /\ pool' = RemoveAt(pool, k)
    BY <2>1
  <2>3. k \in DOMAIN pool
    BY DEF Selectable, Best
  <2>4. FromCorpus(Append(chosen, pool[k])) /\ FromCorpus(RemoveAt(pool, k)) /\ pool # <<>>
    BY <1>b, <2>3, SelectionStays
  <2>5. FromCorpus(pool)' /\ FromCorpus(chosen)'
    BY <1>a, <2>2, <2>4 DEF FromCorpus
  <2>6. ~verdict.passed /\ ~OffTopic(question, units)
    BY <2>1, <2>4 DEF SupportInv
  <2>7. OffTopic(question, units)' <=> OffTopic(question, units)
    BY <2>1
  <2> QED
    BY <1>0, <1>a, <1>b, <2>1, <2>5, <2>6, <2>7 DEF SupportInv
<1>5. CASE FinishSelection
  BY <1>5, <1>e DEF FinishSelection, EndsStage
<1>6. CASE AssemblePrompt
  BY <1>6, <1>e DEF AssemblePrompt, EndsStage
<1>7. CASE Infer
  <2>1. /\ UNCHANGED <<question, units, pool, chosen, verdict>>
        /\ stage = "infer" /\ stage' \in {"measure", "validate"}
        /\ raw' \in Generated /\ answer' = BackendAnswer(machine.backend, raw')
    BY <1>7 DEF Infer, EndsStage
  <2>2. Generated \subseteq Seq(Words)
    <3>1. question \in Questions
      BY <2>1 DEF Computed, Asked
    <3>2. Simulated(Evidence, sent, question) \in Seq(Words)
      BY <1>b, <3>1, EvidenceIsSourced, StandInIsText
    <3> QED
      BY <3>2, PathAssumption DEF Generated
  <2>3. answer' \in Seq(Words)
    BY <2>1, <2>2, AnswersAreText
  <2>4. ~verdict.passed
    BY <2>1 DEF SupportInv
  <2> QED
    BY <1>0, <1>a, <1>c, <1>d, <2>1, <2>3, <2>4 DEF SupportInv
<1>8. CASE Validate
  <2>1. /\ UNCHANGED <<question, units, pool, chosen, answer>>
        /\ stage = "validate" /\ stage' = "measure"
        /\ verdict' = Verdict(answer, Evidence, question)
    BY <1>8 DEF Validate, EndsStage
  <2>2. verdict'.passed = Passes(answer, Evidence)
    BY <2>1 DEF Verdict
  <2>3. Passes(answer, Evidence)' <=> Passes(answer, Evidence)
    BY <1>d, <2>1
  <2> QED
    BY <1>0, <1>a, <1>c, <1>d, <2>1, <2>2, <2>3 DEF SupportInv
<1>9. CASE FinalizeMetrics
  BY <1>9, <1>e DEF FinalizeMetrics
<1>10. CASE NextRequest
  <2>1. /\ units' = <<>> /\ pool' = <<>> /\ chosen' = <<>> /\ answer' = <<>>
        /\ ~verdict'.passed
    BY <1>10 DEF NextRequest, Unjudged
  <2>2. FromCorpus(pool)' /\ FromCorpus(chosen)'
    BY <1>a, <2>1, NoCandidates DEF FromCorpus
  <2>3. units' \in Seq(Sourced') /\ answer' \in Seq(Words)
    BY <2>1
  <2> QED
    BY <1>0, <1>b, <2>1, <2>2, <2>3 DEF SupportInv
<1>11. CASE UNCHANGED vars
  BY <1>11, <1>e DEF vars
<1> QED
  BY <1>1, <1>2, <1>3, <1>4, <1>5, <1>6, <1>7, <1>8, <1>9, <1>10, <1>11 DEF Next

\* A passed verdict was given on this evidence, and the evidence quotes the corpus.
LEMMA SupportMeans == SupportInv => PassedIsSupported
<1> SUFFICES ASSUME SupportInv, verdict.passed, ~DeclaresUncertainty(answer)
             PROVE  PassedIsSupported
  BY DEF PassedIsSupported
<1>1. /\ answer \in Seq(Words) /\ FromCorpus(chosen) /\ Passes(answer, Evidence)
      /\ chosen # <<>> => ~OffTopic(question, units)
  BY DEF SupportInv
<1>2. /\ Evidence \in Seq(Sourced)
      /\ \A k \in DOMAIN Evidence : k \in DOMAIN chosen
  BY <1>1, EvidenceIsSourced
<1>3. PICK s \in ToSet(Judged(answer)), k \in DOMAIN Evidence :
        \E gram \in Shingles(s, GroundingSize) :
          gram \in Shingles(Evidence[k].text.words, GroundingSize)
  BY <1>1, PassesHaveSupport
<1>4. PICK gram \in Shingles(s, GroundingSize) :
        gram \in Shingles(Evidence[k].text.words, GroundingSize)
  BY <1>3
<1>5. Evidence[k] \in Sourced
  BY <1>2
<1>6. PICK i \in DOMAIN corpus : corpus[i].doc = Evidence[k].doc
  BY <1>5 DEF Sourced
<1>7. ToSet(gram) \subseteq OfDocument(corpus[i].doc)
  <2>1. Evidence[k].text.words \in Seq(Words) /\ GroundingSize \in Nat \ {0}
        /\ ToSet(Evidence[k].text.words) \subseteq OfDocument(Evidence[k].doc)
    BY <1>5 DEF Sourced, Units, Texts, GroundingSize
  <2>2. ToSet(gram) \subseteq ToSet(Evidence[k].text.words)
    BY <1>4, <2>1, GramsAreWords
  <2> QED
    BY <1>6, <2>1, <2>2
<1>8. chosen # <<>>
  BY <1>1, <1>2, <1>3
<1> QED
  BY <1>1, <1>4, <1>7, <1>8 DEF PassedIsSupported

\* An answer that passes and does not declare uncertainty repeats wording of one
\* document of the corpus, about a question the corpus has the words of, whatever the
\* corpus, the question, the machine, the lexical scores and the model's output
\* (ResponseValidator.validate, over what the stages before it have let through).
THEOREM PassesAreSupported == Spec => []PassedIsSupported
<1>1. Init => Computed
  BY DEF Init, Computed, Asked, Refused, BudgetIsComputed, Optimized
<1> QED
  BY <1>1, ComputedStep, SupportInit, SupportStep, SupportMeans, PTL DEF Spec

-----------------------------------------------------------------------------
(* Figures *)

\* DropNearDuplicates goes through the units one by one: h is what it has dropped so far
NearFold(h, passages) ==
  /\ h[0] = {}
  /\ \A m \in 0..(Len(passages) - 1) : h[m + 1] = Decide(passages, h[m], m + 1)

\* The figures of a passage and what it is about
Says(unit) == <<Numbers(unit), Topic(unit)>>

\* A decision drops the unit or an earlier one that is still there.
LEMMA DecisionDrops ==
  ASSUME NEW U, NEW passages \in Seq(U), NEW i \in DOMAIN passages, NEW dropped \in SUBSET DOMAIN passages
  PROVE  \/ Decide(passages, dropped, i) = dropped
         \/ \E j \in DOMAIN passages \ dropped :
              /\ j < i /\ Says(passages[i]) = Says(passages[j])
              /\ \/ Decide(passages, dropped, i) = dropped \cup {i}
                 \/ Decide(passages, dropped, i) = dropped \cup {j}
<1> DEFINE rivals == Rivals(passages, i, dropped)
           j == Min(rivals)
<1>1. Len(passages) \in Nat /\ DOMAIN passages = 1..Len(passages)
  OBVIOUS
<1>2. rivals \in SUBSET (1..Len(passages)) /\ \A k \in rivals :
        /\ k \in DOMAIN passages \ dropped /\ k < i /\ NearDuplicates(passages[i], passages[k])
        /\ k \in Indexed(passages) /\ RarestTerm(passages[k]) = RarestTerm(passages[i])
  BY <1>1 DEF Rivals, Indexed
<1>3. Decide(passages, dropped, i) =
        IF i \notin Indexed(passages) \/ rivals = {} THEN dropped
        ELSE dropped \cup {IF passages[i].tokens <= passages[j].tokens THEN i ELSE j}
  BY DEF Decide
<1> HIDE DEF rivals
<1>4. CASE i \notin Indexed(passages) \/ rivals = {}
  BY <1>3, <1>4
<1>5. CASE ~(i \notin Indexed(passages) \/ rivals = {})
  <2>1. j \in rivals
    BY <1>1, <1>2, <1>5, MinIsLeast
  <2>2. j \in DOMAIN passages \ dropped /\ j < i /\ Says(passages[i]) = Says(passages[j])
    <3>1. /\ j \in DOMAIN passages \ dropped /\ j < i /\ NearDuplicates(passages[i], passages[j])
          /\ j \in Indexed(passages) /\ RarestTerm(passages[j]) = RarestTerm(passages[i])
      BY <1>2, <2>1
    <3> HIDE DEF j
    <3>2. Numbers(passages[i]) = Numbers(passages[j])
      BY <3>1 DEF NearDuplicates
    <3>3. Terms(passages[i].text.words) # {} /\ Terms(passages[j].text.words) # {}
      BY <1>5, <3>1 DEF Indexed
    <3>4. Topic(passages[i]) = Topic(passages[j])
      BY <3>1, <3>3 DEF Topic
    <3> QED
      BY <3>1, <3>2, <3>4 DEF Says
  <2>3. \/ Decide(passages, dropped, i) = dropped \cup {i}
        \/ Decide(passages, dropped, i) = dropped \cup {j}
    <3> HIDE DEF j
    <3> QED
      BY <1>3, <1>5
  <2> HIDE DEF j
  <2> QED
    BY <2>2, <2>3
<1> QED
  BY <1>4, <1>5

\* The fold behind DropNearDuplicates has such steps, and what it keeps is what the
\* last one has not dropped.
LEMMA NearUnfolds ==
  ASSUME NEW U, NEW passages \in Seq(U)
  PROVE  \E h : /\ NearFold(h, passages)
                /\ DropNearDuplicates(passages) = At(passages, DOMAIN passages \ h[Len(passages)])
<1> DEFINE N == Len(passages)
           D == 1..N
           V == SUBSET D
           c == [s \in SUBSET D |-> Max(s)]
           F == [p \in V \X D |-> Decide(passages, p[1], p[2])]
           idx == [i \in DOMAIN passages |-> i]
           Eq(g) == g = [s \in SUBSET DOMAIN idx |->
                           IF s = {} THEN {} ELSE Decide(passages, g[s \ {Max(s)}], idx[Max(s)])]
<1>1. N \in Nat /\ DOMAIN passages = D /\ DOMAIN idx = D /\ \A i \in D : idx[i] = i
  OBVIOUS
<1>2. \A s \in SUBSET D : s # {} => Max(s) \in s
  BY <1>1, MaxIsGreatest
<1>3. \A s \in SUBSET D : s # {} => c[s] \in s
  BY <1>2
<1>4. F \in [V \X D -> V]
  <2>1. ASSUME NEW d \in V, NEW i \in D PROVE Decide(passages, d, i) \in V
    <3>1. d \in SUBSET DOMAIN passages /\ i \in DOMAIN passages
      BY <1>1
    <3>2. \/ Decide(passages, d, i) = d
          \/ \E j \in DOMAIN passages \ d :
               \/ Decide(passages, d, i) = d \cup {i}
               \/ Decide(passages, d, i) = d \cup {j}
      BY <3>1, DecisionDrops
    <3> QED
      BY <1>1, <3>2
  <2> HIDE DEF V, D
  <2> QED
    BY <2>1
<1>5. {} \in V /\ IsFiniteSet(D)
  BY <1>1, FS_Interval
<1>6. \E g : IsFold(g, D, V, {}, F, c)
  <2> HIDE DEF c, F, D, V
  <2> QED
    BY <1>3, <1>4, <1>5, FoldExists, Zenon
<1>7. PICK g \in [SUBSET D -> V] :
         \A s \in SUBSET D : g[s] = IF s = {} THEN {} ELSE F[<<g[s \ {c[s]}], c[s]>>]
  BY <1>6 DEF IsFold
<1>8. ASSUME NEW s \in SUBSET D, s # {}
      PROVE  g[s] = Decide(passages, g[s \ {Max(s)}], idx[Max(s)])
  <2>1. c[s] = Max(s) /\ Max(s) \in D /\ idx[Max(s)] = Max(s) /\ s \ {Max(s)} \in SUBSET D
    BY <1>1, <1>2, <1>8
  <2>2. g[s \ {Max(s)}] \in V
    BY <2>1
  <2>3. F[<<g[s \ {Max(s)}], Max(s)>>] = Decide(passages, g[s \ {Max(s)}], Max(s))
    <3> HIDE DEF V, D
    <3> QED
      BY <2>1, <2>2
  <2> HIDE DEF c, F, idx
  <2> QED
    BY <1>7, <1>8, <2>1, <2>3
<1>9. Eq(g)
  <2>1. g = [s \in SUBSET D |-> g[s]]
    OBVIOUS
  <2> HIDE DEF idx
  <2> QED
    BY <1>1, <1>7, <1>8, <2>1
<1>10. DropNearDuplicates(passages) = At(passages, DOMAIN passages \ (CHOOSE h : Eq(h))[DOMAIN idx])
  BY Zenon DEF DropNearDuplicates, FoldLeft, MapThenFoldSet
<1> DEFINE f == CHOOSE h : Eq(h)
<1>11. Eq(f)
  <2> HIDE DEF Eq
  <2> QED
    BY <1>9
<1> DEFINE h == [m \in 0..N |-> f[1..m]]
<1>12. f[{}] = {}
  BY <1>11
<1>13. ASSUME NEW m \in 0..(N - 1) PROVE f[1..(m + 1)] = Decide(passages, f[1..m], m + 1)
  <2>0. m \in Nat
    BY <1>1
  <2>1. Max(1..(m + 1)) = m + 1 /\ (1..(m + 1)) \ {m + 1} = 1..m
    BY <2>0, LastPosition
  <2>2. 1..(m + 1) \in SUBSET DOMAIN idx /\ 1..(m + 1) # {} /\ m + 1 \in D
    BY <1>1
  <2> HIDE DEF f
  <2>3. f[1..(m + 1)] = Decide(passages, f[(1..(m + 1)) \ {Max(1..(m + 1))}], idx[Max(1..(m + 1))])
    BY <1>11, <2>2
  <2> QED
    BY <1>1, <2>1, <2>2, <2>3
<1>14. NearFold(h, passages)
  <2>1. 1..0 = {} /\ 0 \in 0..N /\ \A m \in 0..(N - 1) : m \in 0..N /\ m + 1 \in 0..N
    BY <1>1
  <2> HIDE DEF f
  <2> QED
    BY <1>12, <1>13, <2>1 DEF NearFold
<1>15. DropNearDuplicates(passages) = At(passages, DOMAIN passages \ h[Len(passages)])
  <2>1. N \in 0..N
    BY <1>1
  <2> HIDE DEF Eq
  <2> QED
    BY <1>1, <1>10, <2>1
<1> QED
  BY <1>14, <1>15

\* What is a near duplicate goes, and what it says with its figures stays with the one
\* it duplicates, whichever of the two is the later or the shorter.
LEMMA NearKeepsFigures ==
  ASSUME NEW U, NEW passages \in Seq(U), NEW i \in DOMAIN passages
  PROVE  /\ DropNearDuplicates(passages) \in Seq(U)
         /\ \E k \in DOMAIN passages, j \in DOMAIN DropNearDuplicates(passages) :
              /\ Says(passages[k]) = Says(passages[i])
              /\ DropNearDuplicates(passages)[j] = passages[k]
<1>1. PICK h : /\ NearFold(h, passages)
               /\ DropNearDuplicates(passages) = At(passages, DOMAIN passages \ h[Len(passages)])
  BY NearUnfolds
<1> DEFINE D == DOMAIN passages
           says(d) == Says(passages[d])
           Covered(m) == /\ h[m] \subseteq 1..m
                         /\ \A d \in h[m] : \E k \in D \ h[m] : says(k) = says(d)
           P == {m \in 0..Len(passages) : Covered(m)}
<1>2. Len(passages) \in Nat /\ D = 1..Len(passages)
  OBVIOUS
<1>3. 0 \in P
  BY <1>1, <1>2 DEF NearFold
<1>4. ASSUME NEW m \in 0..(Len(passages) - 1), m \in P PROVE m + 1 \in P
  <2>1. /\ m \in Nat /\ m + 1 \in 0..Len(passages) /\ m + 1 \in D
        /\ \A d \in 1..m : d \in D /\ d \in 1..(m + 1) /\ d # m + 1
    BY <1>2
  <2>2. Covered(m)
    BY <1>4
  <2>3. h[m + 1] = Decide(passages, h[m], m + 1)
    BY <1>1 DEF NearFold
  <2>4. h[m] \in SUBSET D
    BY <2>1, <2>2
  <2>5. CASE h[m + 1] = h[m]
    <3>1. Covered(m + 1)
      BY <2>1, <2>2, <2>5
    <3> QED
      BY <2>1, <3>1
  <2>6. ASSUME NEW j \in D \ h[m], j < m + 1, says(m + 1) = says(j),
               NEW x \in {m + 1, j}, h[m + 1] = h[m] \cup {x}
        PROVE  m + 1 \in P
    <3> DEFINE y == IF x = j THEN m + 1 ELSE j
    <3>1. m + 1 \notin h[m] /\ j # m + 1 /\ j \in 1..(m + 1)
      BY <1>2, <2>1, <2>2, <2>6
    <3>2. y \in D \ h[m + 1] /\ says(y) = says(x)
      <4> HIDE DEF says, D
      <4> QED
        BY <2>1, <2>6, <3>1
    <3> HIDE DEF y
    <3>3. ASSUME NEW d \in h[m + 1] PROVE \E k \in D \ h[m + 1] : says(k) = says(d)
      <4>1. CASE d = x
        <5> HIDE DEF says, D
        <5> QED
          BY <3>2, <4>1
      <4>2. CASE d \in h[m]
        <5>1. PICK k \in D \ h[m] : says(k) = says(d)
          BY <2>2, <4>2
        <5>2. CASE k = x
          <6> HIDE DEF says, D
          <6> QED
            BY <3>2, <5>1, <5>2
        <5>3. CASE k # x
          <6>1. k \in D \ h[m + 1]
            BY <2>6, <5>1, <5>3
          <6> HIDE DEF says, D
          <6> QED
            BY <5>1, <6>1
        <5> QED
          BY <5>2, <5>3
      <4> QED
        BY <2>6, <4>1, <4>2
    <3>4. h[m + 1] \subseteq 1..(m + 1)
      BY <2>1, <2>2, <2>6, <3>1
    <3>5. Covered(m + 1)
      <4> HIDE DEF says, D
      <4> QED
        BY <3>3, <3>4
    <3> HIDE DEF Covered
    <3> QED
      BY <2>1, <3>5
  <2>7. \/ Decide(passages, h[m], m + 1) = h[m]
        \/ \E j \in D \ h[m] :
             /\ j < m + 1 /\ says(m + 1) = says(j)
             /\ \/ Decide(passages, h[m], m + 1) = h[m] \cup {m + 1}
                \/ Decide(passages, h[m], m + 1) = h[m] \cup {j}
    BY <2>1, <2>4, DecisionDrops
  <2> HIDE DEF P, says, D
  <2> QED
    BY <2>3, <2>5, <2>6, <2>7
<1>5. Covered(Len(passages))
  <2>1. \A m \in P : Covered(m)
    OBVIOUS
  <2>2. Len(passages) \in 0..Len(passages)
    BY <1>2
  <2> HIDE DEF P, Covered
  <2> QED
    BY <1>2, <1>3, <1>4, <2>1, <2>2, InductTo
<1> DEFINE kept == D \ h[Len(passages)]
<1>6. PICK k \in kept : says(k) = says(i)
  <2>1. CASE i \in h[Len(passages)]
    BY <1>5, <2>1
  <2>2. CASE i \notin h[Len(passages)]
    BY <2>2
  <2> QED
    BY <2>1, <2>2
<1> HIDE DEF D
<1>7. k \in D
  OBVIOUS
<1>8. DropNearDuplicates(passages) = At(passages, kept)
  BY <1>1 DEF D
<1> HIDE DEF kept
<1>9. /\ At(passages, kept) \in Seq(U)
      /\ \E j \in DOMAIN At(passages, kept) : At(passages, kept)[j] = passages[k]
  BY <1>6, <1>7, AtKeeps DEF D
<1> QED
  BY <1>6, <1>7, <1>8, <1>9 DEF D

\* Of the units with the same content words the first one stays.
LEMMA ExactKeepsFirst ==
  ASSUME NEW passages \in Seq(Units), NEW own \in DOMAIN passages
  PROVE  /\ DropExactDuplicates(passages) \in Seq(Units)
         /\ \E k \in DOMAIN passages, j \in DOMAIN DropExactDuplicates(passages) :
              /\ k <= own /\ DropExactDuplicates(passages)[j] = passages[k]
              /\ ContentWords(passages[k].text.words) = ContentWords(passages[own].text.words)
<1>0. ASSUME NEW K, NEW k \in K \cap DOMAIN passages
      PROVE  /\ At(passages, K) \in Seq(Units)
             /\ \E j \in DOMAIN At(passages, K) : At(passages, K)[j] = passages[k]
  <2>1. passages \in Seq(Units)
    OBVIOUS
  <2>2. k \in K \cap DOMAIN passages
    BY <1>0
  <2>3. At(passages, K) \in Seq(Units) /\ \E at : Places(at, At(passages, K), passages, K)
    BY <2>1, AtInOrder
  <2> QED
    BY <2>2, <2>3 DEF Places
<1> DEFINE D == DOMAIN passages
           digest(d) == ContentWords(passages[d].text.words)
           kept == {d \in D : \A j \in 1..(d - 1) : digest(j) # digest(d)}
           same == {j \in D : digest(j) = digest(own)}
           first == Min(same)
<1>1. Len(passages) \in Nat /\ D = 1..Len(passages) /\ own \in D
  OBVIOUS
<1>2. DropExactDuplicates(passages) = At(passages, kept)
  BY DEF DropExactDuplicates
<1>3. first \in same /\ \A j \in same : first <= j
  <2>1. same \in SUBSET (1..Len(passages)) /\ same # {}
    BY <1>1
  <2> HIDE DEF same
  <2> QED
    BY <1>1, <2>1, MinIsLeast
<1>4. first \in D /\ digest(first) = digest(own) /\ first <= own
  BY <1>1, <1>3
<1>5. first \in kept
  <2>1. ASSUME NEW j \in 1..(first - 1) PROVE digest(j) # digest(first)
    <3>1. j \in D /\ ~(first <= j)
      BY <1>1, <1>4
    <3>2. j \notin same
      <4> HIDE DEF same, first
      <4> QED
        BY <1>3, <3>1
    <3> HIDE DEF digest, first
    <3> QED
      BY <1>4, <3>1, <3>2
  <2> HIDE DEF digest, first
  <2> QED
    BY <1>4, <2>1
<1> HIDE DEF kept, first, same
<1>6. /\ At(passages, kept) \in Seq(Units)
      /\ \E j \in DOMAIN At(passages, kept) : At(passages, kept)[j] = passages[first]
  <2>1. first \in kept \cap DOMAIN passages
    BY <1>4, <1>5
  <2> HIDE DEF D, digest
  <2> QED
    BY <1>0, <2>1
<1> QED
  BY <1>2, <1>4, <1>6

\* What stands in one of two texts stands in them joined.
LEMMA StandsInJoined ==
  ASSUME NEW W, NEW a \in Seq(W), NEW b \in Seq(W), NEW words \in Seq(W),
         StandsIn(words, a) \/ StandsIn(words, b)
  PROVE  StandsIn(words, a \o b)
<1> DEFINE la == Len(a)
           lb == Len(b)
           lw == Len(words)
           ab == a \o b
<1>1. /\ la \in Nat /\ lb \in Nat /\ lw \in Nat /\ Len(ab) = la + lb
      /\ \A n \in 1..la : ab[n] = a[n]
      /\ \A n \in 1..lb : ab[la + n] = b[n]
  OBVIOUS
<1> HIDE DEF ab, la, lb, lw
<1>2. CASE StandsIn(words, a)
  <2>1. PICK k \in 0..(la - lw) : \A n \in 1..lw : a[k + n] = words[n]
    BY <1>2 DEF StandsIn, la, lw
  <2>2. k \in 0..((la + lb) - lw) /\ \A n \in 1..lw : k + n \in 1..la
    BY <1>1, <2>1
  <2>3. \A n \in 1..lw : ab[k + n] = words[n]
    BY <1>1, <2>1, <2>2
  <2> QED
    BY <1>1, <2>2, <2>3 DEF StandsIn, ab, lw
<1>3. CASE StandsIn(words, b)
  <2>1. PICK k \in 0..(lb - lw) : \A n \in 1..lw : b[k + n] = words[n]
    BY <1>3 DEF StandsIn, lb, lw
  <2>2. la + k \in 0..((la + lb) - lw) /\ \A n \in 1..lw : k + n \in 1..lb /\ (la + k) + n = la + (k + n)
    BY <1>1, <2>1
  <2>3. \A n \in 1..lw : ab[(la + k) + n] = words[n]
    BY <1>1, <2>1, <2>2
  <2> QED
    BY <1>1, <2>2, <2>3 DEF StandsIn, ab, lw
<1> QED
  BY <1>2, <1>3

\* A text stands in itself.
LEMMA StandsInItself ==
  ASSUME NEW W, NEW words \in Seq(W)
  PROVE  StandsIn(words, words)
<1>1. 0 \in 0..(Len(words) - Len(words)) /\ \A n \in 1..Len(words) : 0 + n = n
  OBVIOUS
<1> QED
  BY <1>1 DEF StandsIn

\* A merged unit is one, and what stands in one of the two stands in it.
LEMMA MergedHolds ==
  ASSUME NEW a \in Units, NEW b \in Units, NEW counter
  PROVE  /\ Merged(a, b, counter) \in Units
         /\ Merged(a, b, counter).text.words = a.text.words \o b.text.words
<1> DEFINE text == Joined(a.text, b.text)
<1>1. a.text \in Texts /\ b.text \in Texts
  BY DEF Units
<1>2. text \in Texts /\ text.words = a.text.words \o b.text.words
  BY <1>1, JoinedWords DEF Joined, Text
<1>3. Count(counter, text) \in Nat
  BY <1>2, CountIsNumber
<1>4. Merged(a, b, counter) = [a EXCEPT !.text = text, !.tokens = Count(counter, text)]
  BY DEF Merged
<1> HIDE DEF text
<1> QED
  BY <1>2, <1>3, <1>4 DEF Units

\* The words stand in one of the units
Said(passages, words) == \E j \in DOMAIN passages : StandsIn(words, passages[j].text.words)

\* Merging leaves the words of every passage in one of the units, one behind the other.
LEMMA MergeKeepsWords ==
  ASSUME NEW counter, NEW passages \in Seq(Units), NEW words \in Seq(Words), Said(passages, words)
  PROVE  Said(MergeFragments(passages, counter), words)
<1>1. ClosedUnderMerging(Units, counter)
  BY MergedHolds DEF ClosedUnderMerging
<1>2. PICK h : /\ MergeFold(h, passages, counter)
               /\ MergeFragments(passages, counter) = h[Len(passages)]
  BY <1>1, MergeUnfolds
<1> DEFINE In(unit) == StandsIn(words, unit.text.words)
           Covered(m) == /\ h[m] \in Seq(Units)
                         /\ \A k \in 1..m : In(passages[k]) => Said(h[m], words)
           P == {m \in 0..Len(passages) : Covered(m)}
<1>0. \A s : Said(s, words) <=> \E j \in DOMAIN s : In(s[j])
  BY DEF Said
<1> HIDE DEF In
<1>3. Len(passages) \in Nat /\ DOMAIN passages = 1..Len(passages)
      /\ Len(passages) \in 0..Len(passages) /\ 0 \in 0..Len(passages)
  OBVIOUS
<1>4. 0 \in P
  <2>1. h[0] = <<>> /\ 1..0 = {}
    BY <1>2 DEF MergeFold
  <2>2. <<>> \in Seq(Units)
    OBVIOUS
  <2> QED
    BY <1>3, <2>1, <2>2
<1>5. ASSUME NEW m \in 0..(Len(passages) - 1), m \in P PROVE m + 1 \in P
  <2> DEFINE r == h[m]
             u == passages[m + 1]
  <2>1. m + 1 \in 0..Len(passages) /\ u \in Units /\ 1..(m + 1) = (1..m) \cup {m + 1}
    BY <1>3
  <2>2. r \in Seq(Units) /\ \A k \in 1..m : In(passages[k]) => Said(r, words)
    BY <1>5
  <2>3. h[m + 1] = IF r # <<>> /\ Mergeable(Last(r), u)
                   THEN Front(r) \o <<Merged(Last(r), u, counter)>>
                   ELSE Append(r, u)
    BY <1>2 DEF MergeFold
  <2> HIDE DEF r
  <2>4. ASSUME h[m + 1] \in Seq(Units), Said(r, words) \/ In(u) => Said(h[m + 1], words)
        PROVE  m + 1 \in P
    BY <2>1, <2>2, <2>4
  <2> HIDE DEF u, P
  <2>5. CASE r # <<>> /\ Mergeable(Last(r), u)
    <3> DEFINE last == Last(r)
               joined == Merged(last, u, counter)
               front == Front(r)
               size == Len(r)
    <3>1. /\ size \in Nat \ {0} /\ last \in Units /\ last = r[size]
          /\ front \in Seq(Units) /\ Len(front) = size - 1
          /\ \A i \in 1..(size - 1) : front[i] = r[i]
      BY <2>2, <2>5, FrontAndLast
    <3>2. joined \in Units /\ (In(last) \/ In(u) => In(joined))
      <4>1. joined \in Units /\ joined.text.words = last.text.words \o u.text.words
        BY <2>1, <3>1, MergedHolds
      <4>2. last.text.words \in Seq(Words) /\ u.text.words \in Seq(Words)
        BY <2>1, <3>1 DEF Units, Texts
      <4> HIDE DEF last, joined
      <4> QED
        BY <4>1, <4>2, StandsInJoined DEF In
    <3>3. h[m + 1] = front \o <<joined>>
      BY <2>3, <2>5
    <3>4. DOMAIN r = 1..size
      BY <2>2
    <3> HIDE DEF last, joined, front, size
    <3>5. /\ h[m + 1] \in Seq(Units) /\ DOMAIN h[m + 1] = 1..size /\ h[m + 1][size] = joined
          /\ \A i \in 1..(size - 1) : h[m + 1][i] = front[i]
      <4>1. front \o <<joined>> \in Seq(Units)
        BY <3>1, <3>2, Extends
      <4>2. <<joined>> \in Seq(Units) /\ Len(<<joined>>) = 1 /\ <<joined>>[1] = joined
        BY <3>2
      <4>3. DOMAIN (front \o <<joined>>) = 1..size
        BY <3>1, <4>2
      <4>4. (front \o <<joined>>)[size] = joined
        BY <3>1, <4>2
      <4>5. \A i \in 1..(size - 1) : (front \o <<joined>>)[i] = front[i]
        BY <3>1, <4>2
      <4> QED
        BY <3>3, <4>1, <4>3, <4>4, <4>5
    <3>6. ASSUME Said(r, words) \/ In(u) PROVE Said(h[m + 1], words)
      <4>1. size \in DOMAIN h[m + 1] /\ (In(last) \/ In(u) => In(h[m + 1][size]))
        BY <3>1, <3>2, <3>5
      <4>2. CASE In(last) \/ In(u)
        BY <1>0, <4>1, <4>2
      <4>3. CASE ~(In(last) \/ In(u))
        <5>1. PICK j \in 1..size : In(r[j])
          BY <1>0, <3>4, <3>6, <4>3
        <5>2. j \in 1..(size - 1)
          BY <3>1, <4>3, <5>1
        <5>3. j \in DOMAIN h[m + 1] /\ h[m + 1][j] = r[j]
          BY <3>1, <3>5, <5>1, <5>2
        <5> QED
          BY <1>0, <5>1, <5>3
      <4> QED
        BY <4>2, <4>3
    <3> QED
      BY <2>4, <3>5, <3>6
  <2>6. CASE ~(r # <<>> /\ Mergeable(Last(r), u))
    <3> DEFINE size == Len(r)
    <3>1. size \in Nat /\ DOMAIN r = 1..size /\ h[m + 1] = Append(r, u)
      BY <2>2, <2>3, <2>6
    <3>2. /\ h[m + 1] \in Seq(Units) /\ DOMAIN h[m + 1] = 1..(size + 1)
          /\ h[m + 1][size + 1] = u /\ \A i \in 1..size : h[m + 1][i] = r[i]
      BY <2>1, <2>2, <3>1
    <3> HIDE DEF size
    <3>3. size + 1 \in DOMAIN h[m + 1] /\ \A i \in 1..size : i \in DOMAIN h[m + 1]
      BY <3>1, <3>2
    <3>4. Said(r, words) \/ In(u) => Said(h[m + 1], words)
      BY <1>0, <3>1, <3>2, <3>3
    <3> QED
      BY <2>4, <3>2, <3>4
  <2> QED
    BY <2>5, <2>6
<1>6. Covered(Len(passages))
  <2>1. \A m \in P : Covered(m)
    OBVIOUS
  <2> HIDE DEF P, Covered
  <2> QED
    BY <1>3, <1>4, <1>5, <2>1, InductTo
<1>7. PICK k \in 1..Len(passages) : In(passages[k])
  BY <1>0, <1>3
<1> QED
  BY <1>2, <1>6, <1>7

\* The units of the request are what optimization makes of its corpus
UnitsAreOptimized == Optimized => units = Optimize(corpus, machine.counter)
FiguresInv == corpus \in Corpora /\ Refused /\ UnitsAreOptimized

\* Every step keeps it: nothing else touches the units.
LEMMA FiguresStep == FiguresInv /\ [Next]_vars => FiguresInv'
<1> SUFFICES ASSUME FiguresInv, [Next]_vars PROVE FiguresInv'
  OBVIOUS
<1> USE DEF FiguresInv, Refused, UnitsAreOptimized, Optimized
<1>1. CASE Ask
  BY <1>1 DEF Ask
<1>2. CASE OptimizeContext
  BY <1>2 DEF OptimizeContext, EndsStage
<1>3. CASE ScoreUnits
  BY <1>3 DEF ScoreUnits
<1>4. CASE SelectBest
  BY <1>4 DEF SelectBest
<1>5. CASE FinishSelection
  BY <1>5 DEF FinishSelection, EndsStage
<1>6. CASE AssemblePrompt
  BY <1>6 DEF AssemblePrompt, EndsStage
<1>7. CASE Infer
  BY <1>7 DEF Infer, EndsStage
<1>8. CASE Validate
  BY <1>8 DEF Validate, EndsStage
<1>9. CASE NextRequest
  BY <1>9 DEF NextRequest
<1>10. CASE UNCHANGED vars
  BY <1>10 DEF vars
<1>11. CASE FinalizeMetrics
  BY <1>11 DEF FinalizeMetrics
<1> QED
  BY <1>1, <1>2, <1>3, <1>4, <1>5, <1>6, <1>7, <1>8, <1>9, <1>10, <1>11 DEF Next

\* Noise, duplicates and fragments one after the other.
LEMMA FiguresMeans == FiguresInv => FiguresStayWhole
<1> SUFFICES ASSUME FiguresInv, Optimized,
                    NEW i \in DOMAIN corpus, WorthKeeping(corpus[i]), ~LostToTwin(i)
             PROVE  \E m \in DOMAIN corpus, j \in DOMAIN units :
                      /\ Numbers(corpus[m]) = Numbers(corpus[i]) /\ Topic(corpus[m]) = Topic(corpus[i])
                      /\ StandsIn(corpus[m].text.words, units[j].text.words)
  BY DEF FiguresStayWhole
<1> DEFINE worthy == DropNoise(corpus)
           different == DropExactDuplicates(worthy)
           distinct == DropNearDuplicates(different)
           S == {k \in DOMAIN corpus : WorthKeeping(corpus[k])}
           content(unit) == ContentWords(unit.text.words)
<1>1. corpus \in Seq(Units) /\ units = MergeFragments(distinct, machine.counter)
  BY PathAssumption DEF FiguresInv, UnitsAreOptimized, Optimize
<1>2. worthy \in Seq(Units) /\ \E at : Places(at, worthy, corpus, S)
  <2>1. worthy = At(corpus, S)
    BY DEF DropNoise
  <2> HIDE DEF S, worthy
  <2> QED
    BY <1>1, <2>1, AtInOrder
<1>3. PICK at : Places(at, worthy, corpus, S)
  BY <1>2
<1>4. /\ DOMAIN corpus = 1..Len(corpus) /\ Len(corpus) \in Nat
      /\ DOMAIN worthy = 1..Len(worthy) /\ Len(worthy) \in Nat
  BY <1>1, <1>2
<1>5. i \in S /\ S \cap DOMAIN corpus = S
  OBVIOUS
<1> HIDE DEF worthy
<1>6. PICK w \in DOMAIN worthy : at[w] = i
  BY <1>3, <1>5 DEF Places
\* The first passage with these content words stays in place of this one
<1>7. different \in Seq(Units)
      /\ \E k \in DOMAIN worthy, j \in DOMAIN different :
           k <= w /\ different[j] = worthy[k] /\ content(worthy[k]) = content(worthy[w])
  BY <1>2, <1>6, ExactKeepsFirst
<1>8. PICK k \in DOMAIN worthy, d \in DOMAIN different :
        k <= w /\ different[d] = worthy[k] /\ content(worthy[k]) = content(worthy[w])
  BY <1>7
<1> HIDE DEF different
<1>9. /\ at[k] \in S /\ worthy[k] = corpus[at[k]] /\ worthy[w] = corpus[i] /\ at[k] <= i
  <2>1. at[k] \in S /\ worthy[k] = corpus[at[k]] /\ worthy[w] = corpus[at[w]]
    BY <1>3, <1>6 DEF Places
  <2>2. CASE k = w
    BY <1>4, <1>6, <2>1, <2>2
  <2>3. CASE k < w
    <3>1. at[k] < at[w]
      BY <1>3, <2>3 DEF Places
    <3> QED
      BY <1>4, <1>6, <2>1, <3>1
  <2> QED
    BY <1>4, <1>6, <1>8, <2>1, <2>2, <2>3
<1>10. Numbers(corpus[at[k]]) = Numbers(corpus[i])
  <2>1. content(corpus[at[k]]) = content(corpus[i]) /\ WorthKeeping(corpus[at[k]])
    BY <1>8, <1>9
  <2>2. at[k] = i \/ at[k] \in 1..(i - 1)
    BY <1>4, <1>9
  <2> QED
    BY <2>1, <2>2 DEF LostToTwin
<1>11. Says(different[d]) = Says(corpus[i])
  <2>1. Terms(corpus[at[k]].text.words) = Terms(corpus[i].text.words)
    BY <1>8, <1>9 DEF Terms
  <2>2. Topic(corpus[at[k]]) = Topic(corpus[i])
    BY <2>1 DEF Topic, RarestTerm
  <2> QED
    BY <1>8, <1>9, <1>10, <2>2 DEF Says
<1>12. distinct \in Seq(Units)
       /\ \E n \in DOMAIN different, j \in DOMAIN distinct :
            Says(different[n]) = Says(different[d]) /\ distinct[j] = different[n]
  BY <1>7, NearKeepsFigures
<1>13. PICK j \in DOMAIN distinct : Says(distinct[j]) = Says(corpus[i])
  BY <1>11, <1>12
\* What is left is of the corpus
<1>14. PICK m \in DOMAIN corpus : distinct[j] = corpus[m]
  <2>1. \A e \in DOMAIN distinct : \E n \in DOMAIN different : distinct[e] = different[n]
    <3>1. PICK h : distinct = At(different, DOMAIN different \ h[Len(different)])
      BY <1>7, NearUnfolds
    <3> HIDE DEF distinct
    <3> QED
      BY <1>7, <3>1, AtKeeps
  <2>2. \A e \in DOMAIN different : \E n \in DOMAIN worthy : different[e] = worthy[n]
    <3> DEFINE first == {f \in DOMAIN worthy : \A g \in 1..(f - 1) :
                           ContentWords(worthy[g].text.words) # ContentWords(worthy[f].text.words)}
    <3>1. different = At(worthy, first)
      BY DEF different, DropExactDuplicates
    <3> HIDE DEF first
    <3> QED
      BY <1>2, <3>1, AtKeeps
  <2>3. \A e \in DOMAIN worthy : \E n \in DOMAIN corpus : worthy[e] = corpus[n]
    BY <1>3 DEF Places
  <2> HIDE DEF distinct
  <2> QED
    BY <2>1, <2>2, <2>3
<1> HIDE DEF distinct
<1>15. Said(units, corpus[m].text.words)
  <2>1. corpus[m].text.words \in Seq(Words)
    <3>1. corpus[m] \in Units
      BY <1>1, <1>14
    <3> QED
      BY <3>1 DEF Units, Texts
  <2>2. Said(distinct, corpus[m].text.words)
    BY <1>14, <2>1, StandsInItself DEF Said
  <2> QED
    BY <1>1, <1>12, <2>1, <2>2, MergeKeepsWords
<1>16. PICK n \in DOMAIN units : StandsIn(corpus[m].text.words, units[n].text.words)
  BY <1>15 DEF Said
<1>17. Numbers(corpus[m]) = Numbers(corpus[i]) /\ Topic(corpus[m]) = Topic(corpus[i])
  BY <1>13, <1>14 DEF Says
<1> QED
  BY <1>16, <1>17

\* What a passage worth keeping says with its figures reaches the selection word for word,
\* in a passage with the same figures on the same topic, whatever the corpus, the
\* threshold, the order of the duplicates and the counter (ContextOptimizer.optimize).
\* Only an exact duplicate of an earlier passage with other figures is lost.
THEOREM FiguresSurvive == Spec => []FiguresStayWhole
<1>1. Init => FiguresInv
  BY DEF Init, FiguresInv, Refused, UnitsAreOptimized, Optimized
<1> QED
  BY <1>1, FiguresStep, FiguresMeans, PTL DEF Spec

-----------------------------------------------------------------------------
(* Growth *)

\* TokensOf adds the estimates one by one: g is the sum so far
TokenSums(g, passages) ==
  /\ g[0] = 0
  /\ \A m \in 0..(Len(passages) - 1) : g[m + 1] = g[m] + passages[m + 1].tokens

\* The fold behind TokensOf has such steps.
LEMMA TokensUnfold ==
  ASSUME NEW passages \in Seq(Units)
  PROVE  \E g \in [0..Len(passages) -> Nat] :
           TokenSums(g, passages) /\ TokensOf(passages) = g[Len(passages)]
<1> DEFINE N == Len(passages)
           D == 1..N
           c == [s \in SUBSET D |-> Max(s)]
           F == [p \in Nat \X D |-> p[1] + passages[p[2]].tokens]
           Eq(g) == g = [s \in SUBSET DOMAIN passages |->
                           IF s = {} THEN 0 ELSE g[s \ {Max(s)}] + passages[Max(s)].tokens]
<1>1. N \in Nat /\ DOMAIN passages = D /\ \A i \in D : passages[i].tokens \in Nat
  <2>1. N \in Nat /\ DOMAIN passages = D /\ \A i \in D : passages[i] \in Units
    OBVIOUS
  <2>2. \A u \in Units : u.tokens \in Nat
    BY DEF Units
  <2> HIDE DEF D
  <2> QED
    BY <2>1, <2>2
<1>2. \A s \in SUBSET D : s # {} => Max(s) \in s
  BY <1>1, MaxIsGreatest
<1>3. \A s \in SUBSET D : s # {} => c[s] \in s
  BY <1>2
<1>4. F \in [Nat \X D -> Nat]
  BY <1>1
<1>5. 0 \in Nat /\ IsFiniteSet(D)
  BY <1>1, FS_Interval
<1>6. \E g : IsFold(g, D, Nat, 0, F, c)
  <2> HIDE DEF c, F, D
  <2> QED
    BY <1>3, <1>4, <1>5, FoldExists, Zenon
<1>7. PICK g \in [SUBSET D -> Nat] :
         \A s \in SUBSET D : g[s] = IF s = {} THEN 0 ELSE F[<<g[s \ {c[s]}], c[s]>>]
  BY <1>6 DEF IsFold
<1>8. ASSUME NEW s \in SUBSET D, s # {}
      PROVE  g[s] = g[s \ {Max(s)}] + passages[Max(s)].tokens
  <2>1. c[s] = Max(s) /\ Max(s) \in D /\ s \ {Max(s)} \in SUBSET D
    BY <1>1, <1>2, <1>8
  <2>2. g[s \ {Max(s)}] \in Nat
    BY <2>1
  <2>3. F[<<g[s \ {Max(s)}], Max(s)>>] = g[s \ {Max(s)}] + passages[Max(s)].tokens
    <3> HIDE DEF D
    <3> QED
      BY <2>1, <2>2
  <2> HIDE DEF c, F
  <2> QED
    BY <1>7, <1>8, <2>1, <2>3
<1>9. Eq(g)
  <2>1. g = [s \in SUBSET D |-> g[s]]
    OBVIOUS
  <2> QED
    BY <1>1, <1>7, <1>8, <2>1
<1>10. TokensOf(passages) = (CHOOSE h : Eq(h))[DOMAIN passages]
  BY Zenon DEF TokensOf, SumOf, FoldLeft, MapThenFoldSet
<1> DEFINE f == CHOOSE h : Eq(h)
           sums == [m \in 0..N |-> f[1..m]]
<1>11. Eq(f)
  <2> HIDE DEF Eq
  <2> QED
    BY <1>9
<1>12. f[{}] = 0
  BY <1>11
<1>13. ASSUME NEW m \in 0..(N - 1) PROVE f[1..(m + 1)] = f[1..m] + passages[m + 1].tokens
  <2>0. m \in Nat
    BY <1>1
  <2>1. Max(1..(m + 1)) = m + 1 /\ (1..(m + 1)) \ {m + 1} = 1..m
    BY <2>0, LastPosition
  <2>2. 1..(m + 1) \in SUBSET DOMAIN passages /\ 1..(m + 1) # {}
    BY <1>1
  <2> HIDE DEF f
  <2>3. f[1..(m + 1)] = f[(1..(m + 1)) \ {Max(1..(m + 1))}] + passages[Max(1..(m + 1))].tokens
    BY <1>11, <2>2
  <2> QED
    BY <2>1, <2>3
<1>14. 1..0 = {} /\ 0 \in 0..N /\ N \in 0..N /\ \A m \in 0..(N - 1) : m \in 0..N /\ m + 1 \in 0..N
  BY <1>1
<1>15. TokenSums(sums, passages)
  <2> HIDE DEF f
  <2> QED
    BY <1>12, <1>13, <1>14 DEF TokenSums
<1>16. TokensOf(passages) = sums[N]
  <2> HIDE DEF Eq
  <2> QED
    BY <1>1, <1>10, <1>14
<1>17. sums \in [0..N -> Nat]
  <2> DEFINE P == {m \in 0..N : sums[m] \in Nat}
  <2>1. 0 \in P
    BY <1>14, <1>15 DEF TokenSums
  <2>2. ASSUME NEW m \in 0..(N - 1), m \in P PROVE m + 1 \in P
    <3>1. sums[m] \in Nat /\ m + 1 \in 0..N /\ m + 1 \in D
      BY <1>1, <2>2
    <3>2. sums[m + 1] = sums[m] + passages[m + 1].tokens
      BY <1>15 DEF TokenSums
    <3> HIDE DEF sums
    <3> QED
      BY <1>1, <3>1, <3>2
  <2>3. \A m \in 0..N : m \in P
    <3> HIDE DEF P
    <3> QED
      BY <1>1, <2>1, <2>2, InductTo
  <2>4. \A m \in 0..N : sums[m] \in Nat
    BY <2>3
  <2>5. sums = [m \in 0..N |-> sums[m]]
    OBVIOUS
  <2> HIDE DEF sums
  <2> QED
    BY <2>4, <2>5
<1> HIDE DEF sums
<1> QED
  BY <1>15, <1>16, <1>17

\* Nothing costs nothing, and something a number of tokens.
LEMMA TokensAreNumber ==
  ASSUME NEW passages \in Seq(Units)
  PROVE  TokensOf(passages) \in Nat /\ TokensOf(<<>>) = 0
<1>1. <<>> \in Seq(Units) /\ Len(<<>>) = 0
  OBVIOUS
<1>2. PICK z \in [0..Len(<<>>) -> Nat] : TokenSums(z, <<>>) /\ TokensOf(<<>>) = z[Len(<<>>)]
  BY <1>1, TokensUnfold, Zenon
<1>3. PICK g \in [0..Len(passages) -> Nat] : TokensOf(passages) = g[Len(passages)]
  BY TokensUnfold
<1>4. Len(passages) \in 0..Len(passages)
  OBVIOUS
<1> QED
  BY <1>1, <1>2, <1>3, <1>4 DEF TokenSums

\* One more unit costs its estimate more.
LEMMA TokensOfOneMore ==
  ASSUME NEW passages \in Seq(Units), NEW u \in Units
  PROVE  /\ TokensOf(passages) \in Nat /\ u.tokens \in Nat
         /\ TokensOf(Append(passages, u)) = TokensOf(passages) + u.tokens
<1> DEFINE more == Append(passages, u)
           N == Len(passages)
<1>1. N \in Nat /\ more \in Seq(Units) /\ Len(more) = N + 1 /\ more[N + 1] = u
      /\ \A i \in 1..N : more[i] = passages[i]
  OBVIOUS
<1>2. PICK g \in [0..N -> Nat] : TokenSums(g, passages) /\ TokensOf(passages) = g[N]
  BY TokensUnfold
<1> HIDE DEF more
<1>3. PICK h \in [0..(N + 1) -> Nat] : TokenSums(h, more) /\ TokensOf(more) = h[N + 1]
  BY <1>1, TokensUnfold
<1> HIDE DEF N
<1> DEFINE P == {m \in 0..N : g[m] = h[m]}
<1>4. 0 \in P
  BY <1>1, <1>2, <1>3 DEF TokenSums
<1>5. ASSUME NEW m \in 0..(N - 1), m \in P PROVE m + 1 \in P
  <2>1. m + 1 \in 0..N /\ m + 1 \in 1..N /\ m \in 0..N
    BY <1>1
  <2>2. g[m + 1] = g[m] + passages[m + 1].tokens
    BY <1>2 DEF TokenSums, N
  <2>3. h[m + 1] = h[m] + more[m + 1].tokens
    <3>1. m \in 0..(Len(more) - 1)
      BY <1>1
    <3> QED
      BY <1>3, <3>1 DEF TokenSums
  <2> QED
    BY <1>1, <1>5, <2>1, <2>2, <2>3
<1>6. g[N] = h[N]
  <2>1. \A m \in 0..N : m \in P
    <3> HIDE DEF P
    <3> QED
      BY <1>1, <1>4, <1>5, InductTo
  <2> QED
    BY <1>1, <2>1
<1>7. h[N + 1] = h[N] + u.tokens
  <2>1. N \in 0..(Len(more) - 1)
    BY <1>1
  <2> QED
    BY <1>1, <1>3, <2>1 DEF TokenSums
<1>8. TokensOf(passages) \in Nat /\ u.tokens \in Nat
  BY <1>1, <1>2 DEF Units
<1> QED
  BY <1>2, <1>3, <1>6, <1>7, <1>8 DEF more

\* What is left of some units costs no more than all of them.
LEMMA FewerTokens ==
  ASSUME NEW passages \in Seq(Units), NEW S
  PROVE  /\ At(passages, S) \in Seq(Units)
         /\ TokensOf(At(passages, S)) \in Nat /\ TokensOf(passages) \in Nat
         /\ TokensOf(At(passages, S)) <= TokensOf(passages)
<1> DEFINE N == Len(passages)
<1>1. N \in Nat /\ \A i \in 1..N : passages[i] \in Units
  OBVIOUS
<1>2. PICK h : AtFold(h, passages, S) /\ At(passages, S) = h[N]
  BY AtUnfolds
<1>3. PICK g \in [0..N -> Nat] : TokenSums(g, passages) /\ TokensOf(passages) = g[N]
  BY TokensUnfold
<1> HIDE DEF N
<1> DEFINE P == {m \in 0..N : h[m] \in Seq(Units) /\ TokensOf(h[m]) <= g[m]}
<1>4. 0 \in P
  <2>1. h[0] = <<>> /\ g[0] = 0
    BY <1>2, <1>3 DEF AtFold, TokenSums
  <2>2. <<>> \in Seq(Units)
    OBVIOUS
  <2>3. TokensOf(<<>>) = 0
    BY <2>2, TokensAreNumber
  <2> QED
    BY <1>1, <2>1, <2>2, <2>3
<1>5. ASSUME NEW m \in 0..(N - 1), m \in P PROVE m + 1 \in P
  <2>1. /\ m + 1 \in 0..N /\ m \in 0..N /\ passages[m + 1] \in Units
        /\ h[m] \in Seq(Units) /\ TokensOf(h[m]) <= g[m]
    BY <1>1, <1>5
  <2>2. /\ h[m + 1] = IF m + 1 \in S THEN Append(h[m], passages[m + 1]) ELSE h[m]
        /\ g[m + 1] = g[m] + passages[m + 1].tokens
    BY <1>2, <1>3 DEF AtFold, TokenSums, N
  <2>3. /\ TokensOf(h[m]) \in Nat /\ passages[m + 1].tokens \in Nat
        /\ TokensOf(Append(h[m], passages[m + 1])) = TokensOf(h[m]) + passages[m + 1].tokens
    BY <2>1, TokensOfOneMore
  <2>4. h[m + 1] \in Seq(Units)
    BY <2>1, <2>2, Extends
  <2>5. TokensOf(h[m + 1]) <= g[m + 1]
    <3>1. g[m] \in Nat
      BY <2>1
    <3> QED
      BY <2>1, <2>2, <2>3, <3>1
  <2> QED
    BY <2>1, <2>4, <2>5
<1>6. h[N] \in Seq(Units) /\ TokensOf(h[N]) <= g[N]
  <2>1. \A m \in 0..N : m \in P
    <3> HIDE DEF P
    <3> QED
      BY <1>1, <1>4, <1>5, InductTo
  <2> QED
    BY <1>1, <2>1
<1>7. TokensOf(h[N]) \in Nat
  BY <1>6, TokensAreNumber
<1>8. g[N] \in Nat
  BY <1>1
<1> QED
  BY <1>2, <1>3, <1>6, <1>7, <1>8

\* Units with the estimate the heuristic counter gives
Estimated == {u \in Units : u.tokens = HeuristicCount(u.text)}

\* Rounding up: the shares of two parts, one line break between them, and the whole.
LEMMA RoundingUp ==
  /\ \A a, b \in Nat : CeilDiv(132 * (a + b), 100) <= CeilDiv(132 * a, 100) + CeilDiv(132 * b, 100)
  /\ \A a, b \in Nat : CeilDiv(10 * (a + 1 + b), 36) <= CeilDiv(10 * a, 36) + CeilDiv(10 * b, 36) + 1
  /\ \A a \in Nat : CeilDiv(132 * a, 100) \in Nat /\ CeilDiv(10 * a, 36) \in Nat
  /\ CeilDiv(132 * 0, 100) = 0
  BY DEF CeilDiv

\* Two texts joined are estimated one token above their sum, at most.
LEMMA JoiningIsRounding ==
  ASSUME NEW a \in Texts, NEW b \in Texts
  PROVE  HeuristicCount(Joined(a, b)) <= HeuristicCount(a) + HeuristicCount(b) + 1
<1> DEFINE v == Len(a.words)
           w == Len(b.words)
           c == a.chars
           d == b.chars
           W(n) == CeilDiv(132 * n, 100)
           C(n) == CeilDiv(10 * n, 36)
<1>1. v \in Nat /\ w \in Nat /\ c \in Nat /\ d \in Nat /\ v <= c /\ w <= d
  BY DEF Texts
<1>2. Len(Joined(a, b).words) = v + w /\ Joined(a, b).chars = c + 1 + d
  BY DEF Joined, Text, Texts
<1>3. /\ W(v + w) <= W(v) + W(w) /\ W(v) \in Nat /\ W(w) \in Nat /\ W(v + w) \in Nat /\ W(0) = 0
      /\ C(c + 1 + d) <= C(c) + C(d) + 1 /\ C(c) \in Nat /\ C(d) \in Nat /\ C(c + 1 + d) \in Nat
  <2>1. v + w \in Nat /\ c + 1 + d \in Nat
    <3> HIDE DEF W, C, v, w, c, d
    <3> QED
      BY <1>1
  <2>2. /\ \A n, m \in Nat : W(n + m) <= W(n) + W(m) /\ C(n + 1 + m) <= C(n) + C(m) + 1
        /\ \A n \in Nat : W(n) \in Nat /\ C(n) \in Nat
        /\ W(0) = 0
    BY RoundingUp
  <2> HIDE DEF W, C, v, w, c, d
  <2> QED
    BY <1>1, <2>1, <2>2
<1>4. C(0) = 0
  BY DEF CeilDiv
<1>5. HeuristicCount(Joined(a, b)) = AtLeast(1, AtLeast(W(v + w), C(c + 1 + d)))
  <2>1. c + 1 + d # 0
    BY <1>1
  <2>2. HeuristicCount(Joined(a, b)) =
          IF Joined(a, b).chars = 0 THEN 0
          ELSE AtLeast(1, AtLeast(W(Len(Joined(a, b).words)), C(Joined(a, b).chars)))
    BY DEF HeuristicCount
  <2> HIDE DEF W, C, v, w, c, d
  <2> QED
    BY <1>2, <2>1, <2>2
<1>6. HeuristicCount(a) = IF c = 0 THEN 0 ELSE AtLeast(1, AtLeast(W(v), C(c)))
  BY DEF HeuristicCount
<1>7. HeuristicCount(b) = IF d = 0 THEN 0 ELSE AtLeast(1, AtLeast(W(w), C(d)))
  BY DEF HeuristicCount
<1>8. (c = 0 => v = 0) /\ (d = 0 => w = 0)
  BY <1>1
<1> HIDE DEF W, C, v, w, c, d
<1> QED
  BY <1>1, <1>3, <1>4, <1>5, <1>6, <1>7, <1>8 DEF AtLeast

\* Merging estimated units costs a token for each that is merged away, at most.
LEMMA MergingIsRounding ==
  ASSUME NEW passages \in Seq(Estimated)
  PROVE  /\ MergeFragments(passages, "heuristic") \in Seq(Units)
         /\ TokensOf(MergeFragments(passages, "heuristic"))
              <= TokensOf(passages) + Len(passages) - Len(MergeFragments(passages, "heuristic"))
<1> DEFINE N == Len(passages)
           E == Estimated
<1>1. /\ E \subseteq Units /\ passages \in Seq(Units) /\ N \in Nat
      /\ \A i \in 1..N : passages[i] \in E
  <2>1. E \subseteq Units
    BY DEF Estimated
  <2> QED
    BY <2>1, SequencesWiden
<1>2. ASSUME NEW a \in E, NEW b \in E
      PROVE  /\ Merged(a, b, "heuristic") \in E
             /\ Merged(a, b, "heuristic").tokens <= a.tokens + b.tokens + 1
             /\ a.tokens \in Nat /\ b.tokens \in Nat /\ Merged(a, b, "heuristic").tokens \in Nat
  <2> DEFINE text == Joined(a.text, b.text)
             both == Merged(a, b, "heuristic")
  <2>1. /\ a \in Units /\ b \in Units /\ a.text \in Texts /\ b.text \in Texts
        /\ a.tokens = HeuristicCount(a.text) /\ b.tokens = HeuristicCount(b.text)
    BY DEF Estimated, Units
  <2>2. both \in Units
    BY <2>1, MergedHolds
  <2>3. both = [a EXCEPT !.text = text, !.tokens = HeuristicCount(text)]
    BY DEF Merged, Count
  <2>4. HeuristicCount(text) <= HeuristicCount(a.text) + HeuristicCount(b.text) + 1
    BY <2>1, JoiningIsRounding
  <2> HIDE DEF text, both
  <2>5. both.text = text /\ both.tokens = HeuristicCount(text)
    BY <2>1, <2>3 DEF Units
  <2>6. a.tokens \in Nat /\ b.tokens \in Nat /\ both.tokens \in Nat
    BY <2>1, <2>2 DEF Units
  <2> QED
    BY <2>1, <2>2, <2>4, <2>5, <2>6 DEF Estimated, both
<1>3. ClosedUnderMerging(E, "heuristic")
  BY <1>2 DEF ClosedUnderMerging
<1>4. PICK h : MergeFold(h, passages, "heuristic") /\ MergeFragments(passages, "heuristic") = h[N]
  BY <1>3, MergeUnfolds
<1>5. PICK g \in [0..N -> Nat] : TokenSums(g, passages) /\ TokensOf(passages) = g[N]
  BY <1>1, TokensUnfold
<1> HIDE DEF E
<1> DEFINE P == {m \in 0..N : h[m] \in Seq(E) /\ TokensOf(h[m]) + Len(h[m]) <= g[m] + m}
<1>6. 0 \in P
  <2>1. h[0] = <<>> /\ g[0] = 0
    BY <1>4, <1>5 DEF MergeFold, TokenSums
  <2>2. <<>> \in Seq(E) /\ Len(<<>>) = 0
    OBVIOUS
  <2>3. TokensOf(<<>>) = 0
    BY <1>1, TokensAreNumber
  <2>4. TokensOf(h[0]) + Len(h[0]) <= g[0] + 0
    BY <2>1, <2>2, <2>3
  <2>5. h[0] \in Seq(E) /\ 0 \in 0..N
    BY <1>1, <2>1, <2>2
  <2> QED
    BY <2>4, <2>5
<1>7. ASSUME NEW m \in 0..(N - 1), m \in P PROVE m + 1 \in P
  <2> DEFINE r == h[m]
             u == passages[m + 1]
  <2>1. /\ m \in Nat /\ m + 1 \in 0..N /\ u \in E /\ u \in Units
        /\ r \in Seq(E) /\ TokensOf(r) + Len(r) <= g[m] + m
        /\ g[m] \in Nat
    BY <1>1, <1>7
  <2>2. /\ h[m + 1] = IF r # <<>> /\ Mergeable(Last(r), u)
                      THEN Front(r) \o <<Merged(Last(r), u, "heuristic")>>
                      ELSE Append(r, u)
        /\ g[m + 1] = g[m] + u.tokens
    BY <1>4, <1>5 DEF MergeFold, TokenSums
  <2> HIDE DEF r, u
  <2>3. CASE r # <<>> /\ Mergeable(Last(r), u)
    <3> DEFINE last == Last(r)
               front == Front(r)
               both == Merged(last, u, "heuristic")
    <3>1. /\ Len(r) \in Nat \ {0} /\ last \in E /\ last = r[Len(r)]
          /\ front \in Seq(E) /\ Len(front) = Len(r) - 1
          /\ \A i \in 1..(Len(r) - 1) : front[i] = r[i]
      BY <2>1, <2>3, FrontAndLast
    <3>2. /\ both \in E /\ both.tokens <= last.tokens + u.tokens + 1
          /\ last.tokens \in Nat /\ u.tokens \in Nat /\ both.tokens \in Nat
      BY <1>2, <2>1, <3>1
    <3> HIDE DEF last, front, both
    <3>3. h[m + 1] = Append(front, both)
      <4>1. h[m + 1] = front \o <<both>>
        BY <2>2, <2>3 DEF front, both, last
      <4>2. front \o <<both>> = Append(front, both)
        BY <3>1, <3>2
      <4> QED
        BY <4>1, <4>2
    <3>4. r = Append(front, last)
      <4>1. Len(Append(front, last)) = Len(r) /\ Append(front, last) \in Seq(E)
            /\ \A i \in 1..Len(r) : Append(front, last)[i] = r[i]
        BY <3>1
      <4> QED
        BY <2>1, <4>1
    <3>5. front \in Seq(Units) /\ last \in Units /\ both \in Units
      BY <1>1, <3>1, <3>2, SequencesWiden
    <3>6. /\ TokensOf(front) \in Nat
          /\ TokensOf(r) = TokensOf(front) + last.tokens
          /\ TokensOf(h[m + 1]) = TokensOf(front) + both.tokens
      BY <3>3, <3>4, <3>5, TokensOfOneMore
    <3>7. h[m + 1] \in Seq(E) /\ Len(h[m + 1]) = Len(r)
      BY <3>1, <3>2, <3>3
    <3>8. TokensOf(h[m + 1]) + Len(h[m + 1]) <= g[m + 1] + (m + 1)
      <4>1. \A t, x, y, z, k, n, i \in Nat :
              z <= x + y + 1 /\ t + x + k <= n + i => t + z + k <= n + y + (i + 1)
        OBVIOUS
      <4>2. TokensOf(front) + last.tokens + Len(r) <= g[m] + m /\ Len(r) \in Nat
        BY <2>1, <3>1, <3>6
      <4>3. TokensOf(front) + both.tokens + Len(r) <= g[m] + u.tokens + (m + 1)
        BY <2>1, <3>2, <3>6, <4>1, <4>2
      <4> QED
        BY <2>2, <3>6, <3>7, <4>3
    <3> QED
      BY <2>1, <3>7, <3>8
  <2>4. CASE ~(r # <<>> /\ Mergeable(Last(r), u))
    <3>1. h[m + 1] = Append(r, u)
      BY <2>2, <2>4
    <3>2. h[m + 1] \in Seq(E) /\ Len(h[m + 1]) = Len(r) + 1 /\ Len(r) \in Nat
      BY <2>1, <3>1
    <3>3. r \in Seq(Units)
      BY <1>1, <2>1, SequencesWiden
    <3>4. TokensOf(h[m + 1]) = TokensOf(r) + u.tokens /\ TokensOf(r) \in Nat /\ u.tokens \in Nat
      BY <2>1, <3>1, <3>3, TokensOfOneMore
    <3>5. TokensOf(h[m + 1]) + Len(h[m + 1]) <= g[m + 1] + (m + 1)
      BY <2>1, <2>2, <3>2, <3>4
    <3> QED
      BY <2>1, <3>2, <3>5
  <2> QED
    BY <2>3, <2>4
<1>8. h[N] \in Seq(E) /\ TokensOf(h[N]) + Len(h[N]) <= g[N] + N
  <2>1. \A m \in 0..N : m \in P
    <3> HIDE DEF P, N
    <3> QED
      BY <1>1, <1>6, <1>7, InductTo
  <2> QED
    BY <1>1, <2>1
<1>9. h[N] \in Seq(Units) /\ Len(h[N]) \in Nat
  BY <1>1, <1>8, SequencesWiden
<1>10. TokensOf(h[N]) \in Nat /\ g[N] \in Nat
  BY <1>1, <1>9, TokensAreNumber
<1> QED
  BY <1>1, <1>4, <1>5, <1>8, <1>9, <1>10

\* What the duplicates leave has the estimates it had, and costs no more.
LEMMA GrowthMeans == FiguresInv => GrowthIsRounding
<1> SUFFICES ASSUME FiguresInv, Optimized, machine.counter = "heuristic", StoredWithHeuristic
             PROVE  TokensOf(units) <= TokensOf(corpus) + MergedBy(corpus, machine.counter)
  BY DEF GrowthIsRounding
<1> DEFINE worthy == DropNoise(corpus)
           different == DropExactDuplicates(worthy)
           distinct == DropNearDuplicates(different)
<1>0. Estimated \subseteq Units
  BY DEF Estimated
<1>1. corpus \in Seq(Estimated)
  <2>1. corpus \in Seq(Units)
    BY PathAssumption DEF FiguresInv
  <2>2. Len(corpus) \in Nat /\ DOMAIN corpus = 1..Len(corpus)
        /\ corpus = [i \in 1..Len(corpus) |-> corpus[i]]
    BY <2>1
  <2>3. \A i \in 1..Len(corpus) : corpus[i] \in Estimated
    BY <2>1, <2>2 DEF Estimated, StoredWithHeuristic
  <2> QED
    BY <2>2, <2>3
<1>2. /\ units = MergeFragments(distinct, "heuristic")
      /\ MergedBy(corpus, machine.counter) = Len(distinct) - Len(units)
  BY DEF FiguresInv, UnitsAreOptimized, Optimize, MergedBy
<1>3. ASSUME NEW s \in Seq(Estimated), NEW S
      PROVE  /\ At(s, S) \in Seq(Estimated)
             /\ TokensOf(At(s, S)) \in Nat /\ TokensOf(s) \in Nat
             /\ TokensOf(At(s, S)) <= TokensOf(s)
  <2>1. s \in Seq(Units)
    BY <1>0, SequencesWiden
  <2>2. At(s, S) \in Seq(Estimated)
    BY AtKeeps
  <2> QED
    BY <2>1, <2>2, FewerTokens
<1>4. /\ worthy \in Seq(Estimated) /\ TokensOf(worthy) \in Nat /\ TokensOf(corpus) \in Nat
      /\ TokensOf(worthy) <= TokensOf(corpus)
  BY <1>1, <1>3 DEF DropNoise
<1> HIDE DEF worthy
<1>5. /\ different \in Seq(Estimated) /\ TokensOf(different) \in Nat
      /\ TokensOf(different) <= TokensOf(worthy)
  BY <1>3, <1>4 DEF DropExactDuplicates
<1> HIDE DEF different
<1>6. /\ distinct \in Seq(Estimated) /\ TokensOf(distinct) \in Nat
      /\ TokensOf(distinct) <= TokensOf(different)
  BY <1>3, <1>5 DEF DropNearDuplicates
<1> HIDE DEF distinct
<1>7. /\ units \in Seq(Units)
      /\ TokensOf(units) <= TokensOf(distinct) + Len(distinct) - Len(units)
  BY <1>2, <1>6, MergingIsRounding
<1>8. TokensOf(units) \in Nat /\ Len(units) \in Nat /\ Len(distinct) \in Nat
  BY <1>6, <1>7, TokensAreNumber
<1> QED
  BY <1>2, <1>4, <1>5, <1>6, <1>7, <1>8

\* Where passages were stored and are counted with the heuristic, optimization adds at
\* most one token for each fragment it merges away, whatever the corpus: the check
\* behind CTX-003 can refuse no more than rounding (ContextOptimizer._merge_fragments).
THEOREM GrowthIsBounded == Spec => []GrowthIsRounding
<1>1. Init => FiguresInv
  BY DEF Init, FiguresInv, Refused, UnitsAreOptimized, Optimized
<1> QED
  BY <1>1, FiguresStep, GrowthMeans, PTL DEF Spec
=============================================================================
