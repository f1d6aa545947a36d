----------------------------- MODULE AnswerPath -----------------------------
(***************************************************************************)
(* The data of one request on its way through the capabilities: the units  *)
(* of the corpus are optimized for the question and the machine, evidence  *)
(* is selected under the budget, the prompt is cut to its length, the      *)
(* model answers, the answer is cleaned and judged.  LeanLMRuntime is the  *)
(* control around it; here a failed check just ends the request.           *)
(***************************************************************************)
EXTENDS AnswerText, ResourceSampling

CONSTANTS
  Corpora,        \* the sequences of units a corpus can consist of
  Questions,      \* records: text, hits
  Hosts,          \* what the machine can say of itself, see ResourceSampling
  Machines,       \* model (context, output and footprint of its profile),
                  \* backend, and the token counter it brings
  Outputs,        \* what a model can return
  MaxEvidenceChars,
  HeaderChars     \* the line above a passage of the prompt

ASSUME PathAssumption ==
  /\ \A m \in Machines : {m.model.context, m.model.output, m.model.footprint} \subseteq Nat
  /\ Corpora \subseteq Seq(Units) /\ Outputs \subseteq Seq(Words)
  /\ Labels \cup ToSet(Insufficient) \subseteq Words
  /\ \A q \in Questions : /\ q.text \in Texts
                          /\ \A i \in ToSet(Intents) : q.hits[i] \in Nat
  /\ \A h \in Hosts : /\ {h.ram, h.total, h.cpu} \subseteq Nat
                      /\ {h.chip, h.zone} \subseteq Nat \cup {Unknown}
  /\ HeaderChars \in Nat

VARIABLES
  stage,      \* the capability that works next
  corpus,     \* context_package.units
  question,
  machine,    \* the profile, the counter and the backend of the runtime
  seen,       \* iec.resources
  peak,       \* the highest readings since the request began
  warnings,   \* those of the metrics stage
  budget,
  units,      \* optimized_context.units
  pool,       \* candidates not chosen yet
  chosen,     \* evidence, in the order of the labels
  used,       \* used_tokens of the greedy fit
  sent,       \* how many passages the prompt contains
  answer,
  raw,        \* what the model returned
  verdict,
  error       \* the code of the check that failed

vars == <<stage, corpus, question, machine, seen, peak, warnings, budget, units, pool, chosen,
          used, sent, answer, raw, verdict, error>>

Observations == {Sample(h) : h \in Hosts}

Nobody == [ram |-> 0, total |-> 0, cpu |-> 0, temperature |-> Unknown]
NoBudget == [evidence |-> 0, passages |-> 0]
NoQuestion == [text |-> NoText, hits |-> [i \in ToSet(Intents) |-> 0]]
Unjudged == [passed |-> FALSE, confidence |-> "none"]

Init ==
  /\ stage = "waiting"
  /\ question = NoQuestion /\ seen = Nobody /\ budget = NoBudget
  /\ peak = NoPeak /\ warnings = {}
  /\ units = <<>> /\ pool = <<>> /\ chosen = <<>>
  /\ used = 0 /\ sent = 0
  /\ answer = <<>> /\ raw = <<>> /\ verdict = Unjudged /\ error = "none"
  /\ corpus \in Corpora
  /\ machine \in Machines

\* Every stage ends with a sample; those after the metrics stage are read by nobody
EndsStage(next) ==
  /\ stage' = next
  /\ \E o \in Observations : peak' = Raised(peak, o)

\* Mutant: the peaks of the request are forgotten with the observation they contain
AskThenReset ==
  /\ stage = "waiting"
  /\ stage' = "optimize"
  /\ question' \in Questions
  /\ seen' \in Observations
  /\ \E o, p \in Observations : peak' = Raised(Raised(NoPeak, o), p)
  /\ UNCHANGED <<corpus, machine, warnings, budget, units, pool, chosen, used, sent,
                 answer, raw, verdict, error>>

\* ask() resets the peaks; session, resources and documents are stages of their own, and
\* one of their samples is the observation of the request
Ask ==
  /\ stage = "waiting"
  /\ stage' = "optimize"
  /\ question' \in Questions
  /\ seen' \in Observations
  /\ \E o, p \in Observations : peak' = Raised(Raised(Raised(NoPeak, seen'), o), p)
  /\ UNCHANGED <<corpus, machine, warnings, budget, units, pool, chosen, used, sent,
                 answer, raw, verdict, error>>

\* CTX-003 if the units have grown
OptimizeContext ==
  /\ stage = "optimize"
  /\ budget' = Budget(machine.model, question, seen, machine.counter)
  /\ units' = Optimize(corpus, machine.counter)
  /\ LET grown == TokensOf(units') > TokensOf(corpus)
     IN /\ error' = IF grown THEN "CTX-003" ELSE error
        /\ EndsStage(IF grown THEN "measure" ELSE "retrieve")
  /\ UNCHANGED <<corpus, question, machine, seen, warnings, pool, chosen, used, sent,
                 answer, raw, verdict>>

ScoreUnits ==
  /\ stage = "retrieve"
  /\ IF units = <<>> \/ OffTopic(question, units) THEN pool' = <<>>
     ELSE \E lexical \in LexicalScores(question, units) :
            \E ranked \in Rankings(question, units, lexical) : pool' = Pool(ranked)
  /\ stage' = "select"
  /\ UNCHANGED <<corpus, question, machine, seen, peak, warnings, budget, units, chosen,
                 used, sent, answer, raw, verdict, error>>

Selectable ==
  IF Len(chosen) < budget.passages
  THEN Best(pool, chosen, used, budget, machine.counter)
  ELSE {}

SelectBest ==
  /\ stage = "select"
  /\ \E k \in Selectable :
       /\ chosen' = Append(chosen, pool[k])
       /\ used' = used + Cost(pool[k].unit, machine.counter)
       /\ pool' = RemoveAt(pool, k)
  /\ UNCHANGED <<stage, corpus, question, machine, seen, peak, warnings, budget, units,
                 sent, answer, raw, verdict, error>>

\* RET-002 if several passages are above the budget together
FinishSelection ==
  /\ stage = "select"
  /\ Selectable = {}
  /\ LET over == Len(chosen) > 1
                 /\ SumOf(chosen, LAMBDA c : c.unit.tokens) > budget.evidence
     IN /\ error' = IF over THEN "RET-002" ELSE error
        /\ EndsStage(IF over THEN "measure" ELSE "assemble")
  /\ UNCHANGED <<corpus, question, machine, seen, warnings, budget, units, pool, chosen,
                 used, sent, answer, raw, verdict>>

\* render_evidence stops at the first block that would exceed the limit
BlockChars(n) == SumOf(SubSeq(chosen, 1, n), LAMBDA c : HeaderChars + c.unit.text.chars)
AssemblePrompt ==
  /\ stage = "assemble"
  /\ sent' = Max({n \in 0..Len(chosen) : \A m \in 1..n : BlockChars(m) <= MaxEvidenceChars})
  /\ EndsStage("infer")
  /\ UNCHANGED <<corpus, question, machine, seen, warnings, budget, units, pool, chosen,
                 used, answer, raw, verdict, error>>

Evidence == [k \in DOMAIN chosen |-> chosen[k].unit]

\* A model returns what it likes, the stand-in what its prompt makes it
Generated ==
  IF machine.backend = "simulated" THEN {Simulated(Evidence, sent, question)} ELSE Outputs

\* llama-cli raises INF-126 when nothing is left, INF-124 when there was nothing
Infer ==
  /\ stage = "infer"
  /\ raw' \in Generated
  /\ answer' = BackendAnswer(machine.backend, raw')
  /\ LET empty == answer' = <<>> /\ machine.backend = "llama-cli"
     IN /\ error' = CASE empty /\ raw' # <<>> -> "INF-126"
                      [] empty /\ raw' = <<>> -> "INF-124"
                      [] OTHER -> error
        /\ EndsStage(IF empty THEN "measure" ELSE "validate")
  /\ UNCHANGED <<corpus, question, machine, seen, warnings, budget, units, pool, chosen,
                 used, sent, verdict>>

Validate ==
  /\ stage = "validate"
  /\ verdict' = Verdict(answer, Evidence, question)
  /\ EndsStage("measure")
  /\ UNCHANGED <<corpus, question, machine, seen, warnings, budget, units, pool, chosen,
                 used, sent, answer, raw, error>>

\* Also after a failure: a failed run still produces metrics
FinalizeMetrics ==
  /\ stage = "measure"
  /\ warnings' = Warnings(Metrics(peak, seen), seen)
  /\ stage' = "ended"
  /\ UNCHANGED <<corpus, question, machine, seen, peak, budget, units, pool, chosen, used,
                 sent, answer, raw, verdict, error>>

NextRequest ==
  /\ stage = "ended"
  /\ stage' = "waiting"
  /\ question' = NoQuestion /\ seen' = Nobody /\ budget' = NoBudget
  /\ peak' = NoPeak /\ warnings' = {}
  /\ units' = <<>> /\ pool' = <<>> /\ chosen' = <<>>
  /\ used' = 0 /\ sent' = 0
  /\ answer' = <<>> /\ raw' = <<>> /\ verdict' = Unjudged /\ error' = "none"
  /\ UNCHANGED <<corpus, machine>>

Next ==
  \/ Ask \/ OptimizeContext \/ ScoreUnits \/ SelectBest \/ FinishSelection
  \/ AssemblePrompt \/ Infer \/ Validate \/ FinalizeMetrics \/ NextRequest

Spec == Init /\ [][Next]_vars

-----------------------------------------------------------------------------
(* Properties *)

\* The context has just been optimized; what it is made of stays from here on
Optimized == stage = "retrieve" \/ error = "CTX-003"

\* What a passage is about: its rarest content word, under which its near-duplicates
\* are looked for
Topic(unit) == IF Terms(unit.text.words) = {} THEN {} ELSE {RarestTerm(unit)}

\* An earlier passage has the same content words and other figures.  Digits that stand
\* alone are no content words: "5 500" and "9 500" are exact duplicates, against the
\* docstring of numeric_signature
LostToTwin(i) ==
  \E j \in 1..(i - 1) :
    /\ WorthKeeping(corpus[j])
    /\ ContentWords(corpus[j].text.words) = ContentWords(corpus[i].text.words)
    /\ Numbers(corpus[j]) # Numbers(corpus[i])

\* The words stand in the text, one behind the other
StandsIn(words, text) ==
  \E k \in 0..(Len(text) - Len(words)) : \A n \in 1..Len(words) : text[k + n] = words[n]

\* What a passage worth keeping says with its figures is still said, word for word, by
\* some passage with exactly these figures on the same topic, whichever order duplicates
\* come in and whatever is merged: only an exact duplicate of an earlier passage with
\* other figures is lost
FiguresStayWhole ==
  Optimized =>
    \A i \in DOMAIN corpus : WorthKeeping(corpus[i]) /\ ~LostToTwin(i) =>
      \E m \in DOMAIN corpus, j \in DOMAIN units :
        /\ Numbers(corpus[m]) = Numbers(corpus[i]) /\ Topic(corpus[m]) = Topic(corpus[i])
        /\ StandsIn(corpus[m].text.words, units[j].text.words)

\* The token counts of the corpus were made by the heuristic counter, as an ingest
\* with no model loaded makes them
StoredWithHeuristic ==
  \A i \in DOMAIN corpus : corpus[i].tokens = HeuristicCount(corpus[i].text)

\* Counted with the counter the corpus was stored with, optimization adds at
\* most one token for each fragment merged: what CTX-003 can refuse is rounding
GrowthIsRounding ==
  Optimized /\ machine.counter = "heuristic" /\ StoredWithHeuristic =>
    TokensOf(units) <= TokensOf(corpus) + MergedBy(corpus, machine.counter)

\* A machine under more pressure gets no more context and no more passages for
\* the same question, and the window holds evidence, question and answer
\* unless the evidence is at its floor
Calmer(a, b) == a.ram >= b.ram /\ a.temperature <= b.temperature /\ a.cpu <= b.cpu
BudgetFollowsMachine ==
  Optimized =>
    /\ \A other \in Observations :
         Calmer(other, seen) /\ seen.ram > 0 =>
           LET calm == Budget(machine.model, question, other, machine.counter)
           IN budget.evidence <= calm.evidence /\ budget.passages <= calm.passages
    /\ budget.evidence # MinContext =>
         budget.evidence + Overhead(question, machine.counter) + machine.model.output
           <= machine.model.context

\* Several passages are never selected over the budget, whatever the order of
\* the candidates, the estimates and the counter: the first one alone may exceed it,
\* and then nothing is selected beside it (the selection behind RET-002)
EvidenceFitsBudget == Len(chosen) > 1 => used <= budget.evidence

\* An answer that passes and does not declare uncertainty repeats wording of
\* one document of the corpus, about a question the corpus knows the words of
OfDocument(doc) == UNION {ToSet(corpus[i].text.words) :
                            i \in {n \in DOMAIN corpus : corpus[n].doc = doc}}
PassedIsSupported ==
  verdict.passed /\ ~DeclaresUncertainty(answer) =>
    /\ \E i \in DOMAIN corpus, s \in ToSet(Judged(answer)) :
         \E gram \in Shingles(s, GroundingSize) : ToSet(gram) \subseteq OfDocument(corpus[i].doc)
    /\ ~OffTopic(question, units)

\* A machine that is given less context because it is hot says so with the same
\* request, answered or failed: the budget looks at one observation, the warning at
\* the peak of the request, and the two have thresholds of their own
HeatIsReported ==
  stage = "ended" /\ ThermalFactor(seen) < 100 =>
    warnings \cap {"thermal warning", "thermal critical"} # {}
=============================================================================
