------------------------ MODULE ContextOptimization ------------------------
(***************************************************************************)
(* packages/context: what the question asks for, how much context the      *)
(* machine can afford for it, and which units of the corpus are worth      *)
(* keeping.  A unit is a passage with the token estimate it was stored     *)
(* with.                                                                   *)
(***************************************************************************)
EXTENDS PassageText

CONSTANTS
  Boilerplate,     \* word sequences the boilerplate patterns match
  NearDuplicate    \* near_duplicate_threshold, in hundredths

\* SemanticUnit: where it stands and what it says
Units == [id : Nat, doc : STRING, name : Seq(Words), section : Seq(Words),
          kind : STRING, text : Texts, tokens : Nat]

-----------------------------------------------------------------------------
(* Intent and budget *)

\* Intents in the order of their names, with their share of the window and
\* their number of passages
Intents == <<"comparison", "drafting", "explanation", "extraction", "factual", "summary">>
IntentFactor == [comparison |-> 90, drafting |-> 85, explanation |-> 80,
                 extraction |-> 65, factual |-> 55, summary |-> 100]
IntentPassages == [comparison |-> 8, drafting |-> 6, explanation |-> 6,
                   extraction |-> 5, factual |-> 4, summary |-> 10]

\* A question is its text and, for each intent, the markers found in it
IntentOf(question) ==
  LET hits(i) == question.hits[Intents[i]]
      marked == {i \in DOMAIN Intents : hits(i) > 0}
      best == {i \in marked : \A j \in marked : hits(j) <= hits(i)}
  IN IF marked = {} THEN "factual" ELSE Intents[Min(best)]

MinContext == 256
PromptOverhead == 160
MaxPassagesCap == 12
RamHeadroom == 512
RamSoftFloor == 900
ThermalWarn == 78
ThermalCritical == 92
CpuWarn == 85

\* Mutant: no usable memory is taken for no reading
RamFactorWithoutFloor(seen, footprint) ==
  LET usable == seen.ram - RamHeadroom - footprint
  IN IF usable <= 0 \/ usable >= RamSoftFloor THEN 100
     ELSE 35 + (65 * usable) \div RamSoftFloor

\* -1 where the probe has no reading
RamFactor(seen, footprint) ==
  LET usable == seen.ram - RamHeadroom - footprint
  IN CASE seen.ram <= 0 -> 100
       [] seen.ram > 0 /\ usable <= 0 -> 35
       [] seen.ram > 0 /\ usable >= RamSoftFloor -> 100
       [] OTHER -> 35 + (65 * usable) \div RamSoftFloor

ThermalFactor(seen) ==
  CASE seen.temperature < ThermalWarn -> 100
    [] seen.temperature >= ThermalCritical -> 40
    [] OTHER -> AtLeast(40, 100 - (60 * (seen.temperature - ThermalWarn))
                                   \div (ThermalCritical - ThermalWarn))

CpuFactor(seen) ==
  IF seen.cpu < CpuWarn THEN 100
  ELSE AtLeast(60, 100 - (40 * (seen.cpu - CpuWarn)) \div (100 - CpuWarn))

\* min(ram, thermal, cpu) * intent, in units of 1/10000
Multiplier(seen, footprint, intent) ==
  Min({RamFactor(seen, footprint), ThermalFactor(seen), CpuFactor(seen)}) * IntentFactor[intent]

Overhead(question, counter) == PromptOverhead + Count(counter, question.text)

\* model: context_tokens, max_output_tokens and footprint of the profile
Budget(model, question, seen, counter) ==
  LET intent == IntentOf(question)
      base == AtLeast(MinContext, model.context - model.output - Overhead(question, counter))
      factor == Multiplier(seen, model.footprint, intent)
      passages == AtMost(MaxPassagesCap, IntentPassages[intent])
  IN [evidence |-> AtLeast(MinContext, AtMost(base, (base * factor) \div 10000)),
      passages |-> IF factor < 5000 THEN AtLeast(2, passages \div 2) ELSE passages]

-----------------------------------------------------------------------------
(* Optimization *)

MergeBelow == 70
DropBelow == 4
ShingleSize == 4

\* A figure begins with a digit and runs on over spaces, points, commas and percent
\* signs; the points and commas behind it are not part of it.  "5 500" is one figure.
Linked(words, i, j) == \A k \in i..j : words[k] \in Figures \cup Points \cup Percents
FigureRuns(words) ==
  {run \in (DOMAIN words) \X (DOMAIN words) :
     LET first == run[1]
         last == run[2]
     IN /\ first <= last /\ Linked(words, first, last)
        /\ words[first] \in Figures /\ words[last] \notin Points
        /\ \A k \in 1..(first - 1) : words[k] \in Figures => ~Linked(words, k, first)
        /\ \A k \in (last + 1)..Len(words) : words[k] \notin Points => ~Linked(words, last, k)}

\* Without the spaces in them
Numbers(unit) ==
  {FoldLeft(LAMBDA figure, w : figure \o Spelling[w], <<>>, SubSeq(unit.text.words, run[1], run[2])) :
     run \in FigureRuns(unit.text.words)}

WorthKeeping(unit) ==
  /\ unit.text.words \notin Boilerplate
  /\ Len(ContentWords(unit.text.words)) >= DropBelow \/ unit.kind = "table"

DropNoise(units) == At(units, {i \in DOMAIN units : WorthKeeping(units[i])})

\* Units are the same when their content words are
DropExactDuplicates(units) ==
  LET digest(i) == ContentWords(units[i].text.words)
  IN At(units, {i \in DOMAIN units : \A j \in 1..(i - 1) : digest(j) # digest(i)})

RarestTerm(unit) ==
  LET terms == Terms(unit.text.words)
  IN CHOOSE t \in terms : \A other \in terms : WordOrder[t] <= WordOrder[other]

\* Mutant: the figures of two passages are not compared
NearDuplicatesInWords(a, b) ==
  Jaccard(Shingles(a.text.words, ShingleSize), Shingles(b.text.words, ShingleSize))
    >= NearDuplicate

NearDuplicates(a, b) ==
  /\ Numbers(a) = Numbers(b)
  /\ Jaccard(Shingles(a.text.words, ShingleSize), Shingles(b.text.words, ShingleSize))
       >= NearDuplicate

\* Only units with a term to look them up by are compared
Indexed(units) == {i \in DOMAIN units : Terms(units[i].text.words) # {}}

Rivals(units, i, dropped) ==
  {j \in Indexed(units) \ dropped : /\ j < i
                                    /\ RarestTerm(units[j]) = RarestTerm(units[i])
                                    /\ NearDuplicates(units[i], units[j])}

\* The first kept unit of the bucket that is a near duplicate decides: the
\* one with more tokens stays
Decide(units, dropped, i) ==
  IF i \notin Indexed(units) \/ Rivals(units, i, dropped) = {} THEN dropped
  ELSE LET other == Min(Rivals(units, i, dropped))
       IN dropped \cup {IF units[i].tokens <= units[other].tokens THEN i ELSE other}

DropNearDuplicates(units) ==
  LET dropped == FoldLeft(LAMBDA sofar, i : Decide(units, sofar, i), {},
                          [i \in DOMAIN units |-> i])
  IN At(units, DOMAIN units \ dropped)

\* Neighbours of one section, both short, become one unit, which is counted again
Mergeable(a, b) ==
  /\ a.tokens < MergeBelow /\ b.tokens < MergeBelow
  /\ a.doc = b.doc /\ a.section = b.section

\* Mutant: the merged unit keeps the first estimate and adds the new count to it
MergeOvercounting(units, counter) ==
  LET Add(result, unit) ==
        IF result # <<>> /\ Mergeable(Last(result), unit)
        THEN LET text == Joined(Last(result).text, unit.text)
             IN Front(result) \o
                <<[Last(result) EXCEPT !.text = text, !.tokens = @ + Count(counter, text)]>>
        ELSE Append(result, unit)
  IN FoldLeft(Add, <<>>, units)

Merged(a, b, counter) ==
  LET text == Joined(a.text, b.text)
  IN [a EXCEPT !.text = text, !.tokens = Count(counter, text)]

MergeFragments(units, counter) ==
  LET Add(result, unit) ==
        IF result # <<>> /\ Mergeable(Last(result), unit)
        THEN Front(result) \o <<Merged(Last(result), unit, counter)>>
        ELSE Append(result, unit)
  IN FoldLeft(Add, <<>>, units)

TokensOf(units) == SumOf(units, LAMBDA u : u.tokens)

Optimize(units, counter) ==
  MergeFragments(DropNearDuplicates(DropExactDuplicates(DropNoise(units))), counter)

\* Fragments merged away by Optimize
MergedBy(units, counter) ==
  Len(DropNearDuplicates(DropExactDuplicates(DropNoise(units)))) - Len(Optimize(units, counter))
=============================================================================
