---------------------------- MODULE PassageText ----------------------------
(***************************************************************************)
(* What shared/text.py tells about a piece of text.  A text is the         *)
(* sequence of its words and its length in characters; the counters, the   *)
(* content words, the shingles and their overlap are computed from these.  *)
(* Fractions are kept in hundredths.                                       *)
(***************************************************************************)
EXTENDS Integers, Sequences, FiniteSets, FiniteSetsExt, SequencesExt

CONSTANTS
  Ignored,      \* the words content_words leaves out: stop words and single characters
  Figures,      \* groups of digits
  Points,       \* points and commas that stand alone
  Percents,     \* percent signs that stand alone
  Spelling,     \* the characters of all these
  WordOrder,    \* a rank of the words, shorter and alphabetically first ones lower
  StemOf,       \* what a word shares with its inflected forms: its first seven letters
  ModelDensity  \* tokens of the loaded model per 100 characters

\* The words are those the tables speak of, and a rank tells two words apart
ASSUME TextAssumption ==
  /\ Ignored \cup Figures \cup Points \cup Percents \subseteq DOMAIN WordOrder
  /\ DOMAIN Spelling = Figures \cup Points \cup Percents
  /\ DOMAIN StemOf = DOMAIN WordOrder
  /\ \A v, w \in DOMAIN WordOrder : WordOrder[v] = WordOrder[w] => v = w
  /\ ModelDensity \in Nat

Words == DOMAIN WordOrder
\* A word takes a character at least
Texts == {t \in [words : Seq(Words), chars : Nat] : Len(t.words) <= t.chars}
Text(words, chars) == [words |-> words, chars |-> chars]
NoText == Text(<<>>, 0)

CeilDiv(a, b) == (a + b - 1) \div b
AtLeast(low, x) == IF x < low THEN low ELSE x
AtMost(high, x) == IF x > high THEN high ELSE x
Percent(part, whole) == (100 * part) \div whole

\* 3.6 characters a token and 1.32 tokens a word, whichever is more
HeuristicCount(text) ==
  IF text.chars = 0 THEN 0
  ELSE AtLeast(1, AtLeast(CeilDiv(132 * Len(text.words), 100), CeilDiv(10 * text.chars, 36)))

\* The tokenizer of the loaded model
ModelCount(text) == CeilDiv(ModelDensity * text.chars, 100)

Count(counter, text) ==
  IF counter = "heuristic" THEN HeuristicCount(text) ELSE ModelCount(text)

\* The elements of a sequence at the positions in S, in order
At(seq, S) ==
  FoldLeftDomain(LAMBDA kept, i : IF i \in S THEN Append(kept, seq[i]) ELSE kept, <<>>, seq)

ContentWords(words) == At(words, {i \in DOMAIN words : words[i] \notin Ignored})
Terms(words) == ToSet(ContentWords(words))

\* Two texts joined by a line break
Joined(a, b) == Text(a.words \o b.words, a.chars + 1 + b.chars)

\* The n-grams of the content words; a text too short for one is its own
Shingles(words, size) ==
  LET terms == ContentWords(words)
  IN IF Len(terms) < size THEN {terms} \ {<<>>}
     ELSE {SubSeq(terms, i, i + size - 1) : i \in 1..(Len(terms) - size + 1)}

Jaccard(a, b) ==
  CASE a = {} /\ b = {} -> 100
    [] a = {} \/ b = {} -> 0
    [] OTHER -> Percent(Cardinality(a \cap b), Cardinality(a \cup b))

SumOf(seq, Value(_)) == FoldLeft(LAMBDA sum, x : sum + Value(x), 0, seq)
=============================================================================
