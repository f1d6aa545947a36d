----------------------------- MODULE AnswerText -----------------------------
(***************************************************************************)
(* What happens to the text a model returns: packages/inference/cleaning   *)
(* takes the scaffolding off, packages/validation judges the rest.         *)
(*                                                                         *)
(* An output is a sequence of words, full stops, citation labels and the   *)
(* marks the cleaner looks for:                                            *)
(*   "banner"   a line of the chat UI       "/command"  its command list   *)
(*   "echo"     the prompt printed back     "status"    its status line    *)
(*   "<think>"  opens a block of reasoning  "</think>"  closes it          *)
(*   "answer:"  announces the final answer                                 *)
(*   "answer"   is just the word                                           *)
(***************************************************************************)
EXTENDS Retrieval

CONSTANT
  Width  \* the characters of a word of an output, with the space before it if it has one

ASSUME OutputAssumption == Width \in [Words -> Nat \ {0}]

Labels == {"S1", "S2", "S3", "S4"}
LabelOf(position) == <<"S1", "S2", "S3", "S4">>[position]
Marks == {"banner", "/command", "echo", "status", "<think>", "</think>", "answer:"}

-----------------------------------------------------------------------------
(* Cleaning *)

After(text, i) == SubSeq(text, i + 1, Len(text))
Occurrences(text, S) == {i \in DOMAIN text : text[i] \in S}
AfterLast(text, S) ==
  IF Occurrences(text, S) = {} THEN text ELSE After(text, Max(Occurrences(text, S)))

WithoutLeading(text, S) ==
  LET others == {i \in DOMAIN text : text[i] \notin S}
  IN IF others = {} THEN <<>> ELSE After(text, Min(others) - 1)

\* The banner, the command list behind it, the echo if it comes first, the
\* status line; never everything
StripToolScaffolding(raw) ==
  LET body == WithoutLeading(AfterLast(raw, {"banner"}), {"/command"})
      spoken == IF body # <<>> /\ Head(body) = "echo" THEN AfterLast(body, {"echo"}) ELSE body
      cleaned == At(spoken, {i \in DOMAIN spoken : spoken[i] # "status"})
  IN IF cleaned = <<>> THEN raw ELSE cleaned

\* A block goes with its marks; one that is never closed takes everything behind it along
StripThinking(text) ==
  LET inside == {i \in DOMAIN text : \E j \in 1..(i - 1) :
                   text[j] = "<think>" /\ \A m \in j..(i - 1) : text[m] # "</think>"}
  IN At(text, {i \in DOMAIN text \ inside : text[i] # "<think>"})

ShortAnswer == 8
Characters(text) == FoldLeft(LAMBDA sum, w : sum + Width[w], 0, text) - 1

\* What follows the last marker, unless it is short: then the text as it was, with the
\* marker.  The colon is optional: the word alone is a marker.
ExtractFinalAnswer(text) ==
  LET tail == AfterLast(text, {"answer:", "answer"})
  IN IF Characters(tail) < ShortAnswer THEN text ELSE tail

CleanGeneration(raw) == ExtractFinalAnswer(StripThinking(StripToolScaffolding(raw)))

\* What a backend makes of the cleaned text: llama-cli refuses to return
\* nothing, the others return the output as it was.  The stand-in cleans nothing.
BackendAnswer(backend, raw) ==
  LET text == CleanGeneration(raw)
  IN CASE backend = "simulated" -> raw
       [] backend # "simulated" /\ text # <<>> -> text
       [] backend \notin {"simulated", "llama-cli"} /\ text = <<>> -> raw
       [] backend = "llama-cli" /\ text = <<>> -> <<>>

-----------------------------------------------------------------------------
(* The stand-in, when there is no model: it answers out of its prompt *)

\* The sentence the prompt prescribes when the excerpts say nothing
Insufficient == <<"supplied", "documents", "allow", "conclusion", ".">>

QuotedSentences == 3
Quotable == 25     \* characters a line needs to be taken for a sentence
Quotation(words) ==
  LET stops == {i \in DOMAIN words : words[i] = "."}
      ends == {i \in stops : Cardinality({j \in stops : j <= i}) = QuotedSentences}
  IN IF ends = {} THEN words ELSE SubSeq(words, 1, Min(ends))

\* The first excerpt is quoted under its label; without one it refuses.  Evidence
\* that has all been cut off leaves an empty block, and behind it the question.
Simulated(evidence, sent, question) ==
  CASE evidence = <<>> -> Insufficient
    [] evidence # <<>> /\ sent > 0 -> Append(Quotation(evidence[1].text.words), LabelOf(1))
    [] OTHER ->
         IF question.text.chars > Quotable THEN question.text.words ELSE Insufficient

-----------------------------------------------------------------------------
(* Validation *)

SentenceGrounding == 34
GroundingPass == 60
HighGrounding == 85
GroundingSize == 3

\* The words that give a refusal away
DeclaresUncertainty(answer) == IsPhraseOf(<<"allow", "conclusion">>, answer)

Cited(answer) == ToSet(answer) \cap Labels

\* The sentence that begins at each position, the labels taken out; nothing in between
Sentences(answer) ==
  LET text == At(answer, {i \in DOMAIN answer : answer[i] \notin Labels})
      ends == {j \in 1..(Len(text) + 1) : j = Len(text) + 1 \/ text[j] = "."}
  IN [i \in 1..(Len(text) + 1) |->
        IF i = 1 \/ text[i - 1] = "." THEN SubSeq(text, i, Min({j \in ends : j >= i}) - 1)
        ELSE <<>>]

Judged(answer) ==
  LET sentences == Sentences(answer)
  IN At(sentences, {i \in DOMAIN sentences : Len(ContentWords(sentences[i])) >= 3})

Overlap(sentence, words) ==
  LET grams == Shingles(sentence, GroundingSize)
  IN Percent(Cardinality(grams \cap Shingles(words, GroundingSize)), Cardinality(grams))

\* evidence: the sequence of selected units
Grounded(sentence, evidence) ==
  \E k \in DOMAIN evidence : Overlap(sentence, evidence[k].text.words) >= SentenceGrounding

\* Mutant: an answer without a sentence to judge counts as grounded
GroundingRateOfNothing(answer, evidence) ==
  LET judged == Judged(answer)
  IN IF judged = <<>> THEN 100
     ELSE Percent(Cardinality({k \in DOMAIN judged : Grounded(judged[k], evidence)}), Len(judged))

GroundingRate(answer, evidence) ==
  LET judged == Judged(answer)
  IN IF judged = <<>> \/ evidence = <<>> THEN 0
     ELSE Percent(Cardinality({k \in DOMAIN judged : Grounded(judged[k], evidence)}), Len(judged))

Confidence(answer, evidence, question) ==
  LET rate == GroundingRate(answer, evidence)
      available == {LabelOf(k) : k \in DOMAIN evidence}
      coverage == IF available = {} THEN 0
                  ELSE Percent(Cardinality(Cited(answer) \cap available), Cardinality(available))
      onTopic == Terms(question.text.words) \cap Terms(answer) # {}
  IN CASE evidence = <<>> \/ DeclaresUncertainty(answer) -> "insufficient"
       [] rate >= HighGrounding /\ Cited(answer) # {} /\ coverage >= 30 /\ onTopic -> "high"
       [] rate >= GroundingPass /\ Cited(answer) # {} -> "medium"
       [] rate > 0 -> "low"
       [] OTHER -> "insufficient"

Passes(answer, evidence) ==
  LET available == {LabelOf(k) : k \in DOMAIN evidence}
  IN IF evidence = <<>> THEN DeclaresUncertainty(answer)
     ELSE /\ answer # <<>>
          /\ Cited(answer) \subseteq available
          /\ GroundingRate(answer, evidence) >= GroundingPass
          /\ Cited(answer) # {} \/ DeclaresUncertainty(answer)

Verdict(answer, evidence, question) ==
  [passed |-> Passes(answer, evidence), confidence |-> Confidence(answer, evidence, question)]
=============================================================================
