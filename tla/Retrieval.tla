----------------------------- MODULE Retrieval -----------------------------
(***************************************************************************)
(* packages/retrieval: is the question about the corpus at all, how well   *)
(* does each unit match it, and which units fit the budget together.       *)
(*                                                                         *)
(* A BM25 weight is a real number; here it is any of the Weights that is   *)
(* zero exactly when the unit has none of the terms.  All scores are in    *)
(* hundredths.                                                             *)
(***************************************************************************)
EXTENDS ContextOptimization

CONSTANTS
  GenericTerms,     \* words that frame a question and carry no topic
  NumericMarkers,   \* words that ask for a number
  Weights           \* the lexical scores a matching unit can have

ASSUME WeightsAssumption == Weights \subseteq Nat \ {0}

UnsupportedRatio == 40
MinScore == 2
RelativeFloor == 15
CandidatePool == 40
MaxPerDocument == 4
DiversityLambda == 35

-----------------------------------------------------------------------------
(* The off-topic gate *)

Vocabulary(units) ==
  UNION {Terms(units[i].text.words) \cup Terms(units[i].section) : i \in DOMAIN units}

Unsupported(term, units) ==
  /\ term \notin Vocabulary(units)
  /\ \A known \in Vocabulary(units) : StemOf[known] # StemOf[term]

OffTopic(question, units) ==
  LET topical == Terms(question.text.words) \ GenericTerms
      unsupported == {t \in topical : Unsupported(t, units)}
  IN topical # {} /\ 100 * Cardinality(unsupported) >= UnsupportedRatio * Cardinality(topical)

-----------------------------------------------------------------------------
(* Scores *)

Matches(question, unit) == Terms(question.text.words) \cap Terms(unit.text.words) # {}

LexicalScores(question, units) ==
  {f \in [DOMAIN units -> Weights \cup {0}] :
     \A i \in DOMAIN units : f[i] = 0 <=> ~Matches(question, units[i])}

IsPhraseOf(words, text) ==
  \E i \in 1..(Len(text) - Len(words) + 1) : SubSeq(text, i, i + Len(words) - 1) = words

StructuralBoost(question, unit) ==
  LET terms == Terms(question.text.words)
      inSection == Cardinality(Terms(unit.section) \cap terms)
      phrases == {SubSeq(question.text.words, i, i + 2) : i \in 1..(Len(question.text.words) - 2)}
      numeric == ToSet(question.text.words) \cap NumericMarkers # {}
  IN (IF inSection = 0 THEN 0
      ELSE (22 * AtMost(100, Percent(2 * inSection, AtLeast(1, Cardinality(terms))))) \div 100)
     + (IF Terms(unit.name) \cap terms # {} THEN 10 ELSE 0)
     + (IF unit.kind = "table" THEN 6 ELSE 0)
     + (IF \E p \in phrases : IsPhraseOf(p, unit.text.words) THEN 18 ELSE 0)
     + (IF numeric /\ Numbers(unit) # {} THEN 12 ELSE 0)

\* The boost is a share of the lexical score
Total(question, units, lexical, i) ==
  (lexical[i] * (100 + StructuralBoost(question, units[i]))) \div 100

\* The candidates, best first, ties in the order of the unit ids
Rankings(question, units, lexical) ==
  LET total(i) == Total(question, units, lexical, i)
      Before(i, j) == total(i) > total(j) \/ (total(i) = total(j) /\ units[i].id < units[j].id)
      orders == {p \in Bijection(DOMAIN units, DOMAIN units) :
                   \A k, m \in DOMAIN units : Before(p[k], p[m]) => k < m}
  IN {[k \in DOMAIN units |-> [unit |-> units[p[k]], total |-> total(p[k])]] : p \in orders}

\* Above both floors; a weak best score keeps the top three
Pool(ranked) ==
  LET best == ranked[1].total
      floor == AtLeast(MinScore, (best * RelativeFloor) \div 100)
      above == At(ranked, {k \in DOMAIN ranked : ranked[k].total >= floor})
  IN IF above = <<>> /\ best > MinScore THEN SubSeq(ranked, 1, AtMost(3, Len(ranked)))
     ELSE SubSeq(above, 1, AtMost(CandidatePool, Len(above)))

-----------------------------------------------------------------------------
(* One round of the greedy fit: chosen and pool are sequences of candidates *)

Cost(unit, counter) == IF unit.tokens # 0 THEN unit.tokens ELSE Count(counter, unit.text)

\* Mutant: what a passage costs is checked after it has been taken
FitsBefore(c, chosen, used, budget, counter) ==
  /\ Cardinality({k \in DOMAIN chosen : chosen[k].unit.doc = c.unit.doc}) < MaxPerDocument
  /\ used <= budget.evidence \/ chosen = <<>>

Fits(c, chosen, used, budget, counter) ==
  /\ Cardinality({k \in DOMAIN chosen : chosen[k].unit.doc = c.unit.doc}) < MaxPerDocument
  /\ used + Cost(c.unit, counter) <= budget.evidence \/ chosen = <<>>

Likeness(c, chosen) ==
  LET grams(u) == Shingles(u.text.words, ShingleSize)
  IN Max({0} \cup {Jaccard(grams(c.unit), grams(chosen[k].unit)) : k \in DOMAIN chosen})

Value(c, chosen) == c.total - (DiversityLambda * Likeness(c, chosen)) \div 100

\* The most valuable candidate that fits, the first id among equals
Best(pool, chosen, used, budget, counter) ==
  LET fitting == {k \in DOMAIN pool : Fits(pool[k], chosen, used, budget, counter)}
  IN {k \in fitting : \A j \in fitting :
        \/ Value(pool[k], chosen) > Value(pool[j], chosen)
        \/ /\ Value(pool[k], chosen) = Value(pool[j], chosen)
           /\ pool[k].unit.id <= pool[j].unit.id}
=============================================================================
