-------------------------- MODULE IngestionProofs --------------------------
(***************************************************************************)
(* What the report of an ingest call may be believed about, and what the   *)
(* corpus then holds: for every folder, every edit of its files while the  *)
(* call runs, every sequence of calls and every policy of the segmenter.   *)
(*                                                                         *)
(* The report does not depend on what segmentation makes of a text.  The   *)
(* units do: reading, cutting, folding and collecting are folds over lines *)
(* and blocks, and each gets an invariant of its steps.                    *)
(***************************************************************************)
EXTENDS Ingestion, FoldLemmas

IsSeq(s) == \E S : s \in Seq(S)

\* A report grows by one element at a time.
LEMMA Reporting ==
  ASSUME NEW s, IsSeq(s), NEW e
  PROVE  /\ IsSeq(Append(s, e))
         /\ Len(s) \in Nat
         /\ Len(Append(s, e)) = Len(s) + 1
         /\ ToSet(Append(s, e)) = ToSet(s) \cup {e}
<1>1. PICK S : s \in Seq(S)
  BY DEF IsSeq
<1>2. s \in Seq(S \cup {e}) /\ e \in S \cup {e}
  BY <1>1
<1>3. Append(s, e) \in Seq(S \cup {e}) /\ Len(Append(s, e)) = Len(s) + 1
  BY <1>2
<1>4. /\ DOMAIN s = 1..Len(s) /\ DOMAIN Append(s, e) = 1..(Len(s) + 1)
      /\ \A i \in 1..Len(s) : Append(s, e)[i] = s[i]
      /\ Append(s, e)[Len(s) + 1] = e
  BY <1>2, <1>3
<1>5. Len(s) \in Nat
  BY <1>2
<1>6. ToSet(Append(s, e)) \subseteq ToSet(s) \cup {e}
  <2> SUFFICES ASSUME NEW i \in 1..(Len(s) + 1)
               PROVE  Append(s, e)[i] \in ToSet(s) \cup {e}
    BY <1>4 DEF ToSet
  <2>1. CASE i \in 1..Len(s)
    BY <1>4, <2>1 DEF ToSet
  <2>2. CASE i = Len(s) + 1
    BY <1>4, <2>2
  <2> QED
    BY <1>5, <2>1, <2>2
<1>7. ToSet(s) \cup {e} \subseteq ToSet(Append(s, e))
  <2>1. \A i \in 1..Len(s) : s[i] \in ToSet(Append(s, e))
    BY <1>4, <1>5 DEF ToSet
  <2>2. e \in ToSet(Append(s, e))
    BY <1>4, <1>5 DEF ToSet
  <2> QED
    BY <1>4, <2>1, <2>2 DEF ToSet
<1> QED
  BY <1>3, <1>5, <1>6, <1>7 DEF IsSeq

\* Every call starts from an empty report.
LEMMA NoReport == IsSeq(<<>>) /\ Len(<<>>) = 0 /\ ToSet(<<>>) = {}
<1>1. <<>> \in Seq({}) /\ Len(<<>>) = 0 /\ DOMAIN <<>> = {}
  OBVIOUS
<1>2. IsSeq(<<>>)
  BY <1>1 DEF IsSeq
<1> QED
  BY <1>1, <1>2 DEF ToSet

-----------------------------------------------------------------------------
(* The strengthened invariant: the property speaks of a call that has       *)
(* ended, the invariant of the files before the one in work.               *)

Shape ==
  /\ IsSeq(ingested) /\ IsSeq(failed)
  /\ at \in Nat
  /\ pc # "idle" => result = "none"

\* Every file before the one in work is ingested or failed
FilesCounted ==
  /\ pc = "clear" => at = 1 /\ ingested = <<>> /\ failed = <<>>
  /\ pc \in {"describe", "load", "store"} => Len(ingested) + Len(failed) = at - 1
  /\ pc = "report" => Len(ingested) + Len(failed) = Len(files)

\* What was ingested is stored, and with replace nothing else is
StoreMatches ==
  /\ ToSet(ingested) \subseteq DOMAIN store
  /\ request.replace => DOMAIN store = ToSet(ingested)

ReportInv ==
  /\ Shape /\ FilesCounted
  /\ pc \in {"describe", "load", "store", "report"} => StoreMatches
  /\ ReportIsCorpus

-----------------------------------------------------------------------------
(* The steps *)

\* An empty runtime has reported nothing.
LEMMA ReportInit == Init => ReportInv
<1> SUFFICES ASSUME Init PROVE ReportInv
  OBVIOUS
<1> QED
  BY NoReport DEF Init, ReportInv, Shape, FilesCounted, ReportIsCorpus

\* A file whose code goes into the report is counted, whatever its code.
LEMMA FailsKeeps ==
  ASSUME ReportInv, pc \in {"describe", "load", "store"}, NEW code, Fails(code),
         UNCHANGED <<request, files>>
  PROVE  ReportInv'
<1>1. /\ IsSeq(failed') /\ Len(failed') = Len(failed) + 1
      /\ Len(failed) \in Nat /\ Len(ingested) \in Nat
  BY Reporting DEF Fails, ReportInv, Shape
<1>2. /\ UNCHANGED <<store, ingested, result, request, files>>
      /\ result = "none" /\ StoreMatches
      /\ Len(ingested) + Len(failed) = at - 1 /\ at \in Nat
  BY DEF Fails, ReportInv, Shape, FilesCounted
<1>3. CASE at = Len(files)
  BY <1>1, <1>2, <1>3
  DEF Fails, NextFile, ReportInv, Shape, FilesCounted, StoreMatches, ReportIsCorpus
<1>4. CASE at # Len(files)
  BY <1>1, <1>2, <1>4
  DEF Fails, NextFile, ReportInv, Shape, FilesCounted, StoreMatches, ReportIsCorpus
<1> QED
  BY <1>3, <1>4

\* A stored document is counted and in the corpus; one of the same id gives way.
LEMMA UpsertKeeps == ReportInv /\ Upsert => ReportInv'
<1> SUFFICES ASSUME ReportInv, Upsert PROVE ReportInv'
  OBVIOUS
<1> DEFINE units == BuildStructuredDocument(text)
<1>1. CASE units = <<>>
  <2>1. Fails("UND-002") /\ pc = "store" /\ UNCHANGED <<request, files>>
    BY <1>1 DEF Upsert
  <2> QED
    BY <2>1, FailsKeeps
<1>2. CASE units # <<>>
  <2>1. /\ pc = "store" /\ UNCHANGED <<request, files, failed, result>>
        /\ ingested' = Append(ingested, DocumentId)
        /\ DOMAIN store' = DOMAIN store \cup {DocumentId}
        /\ NextFile
    BY <1>2 DEF Upsert
  <2>2. /\ IsSeq(ingested') /\ Len(ingested') = Len(ingested) + 1
        /\ Len(failed) \in Nat /\ Len(ingested) \in Nat
        /\ ToSet(ingested') = ToSet(ingested) \cup {DocumentId}
    BY <2>1, Reporting DEF ReportInv, Shape
  <2>3. /\ result = "none" /\ StoreMatches
        /\ Len(ingested) + Len(failed) = at - 1 /\ at \in Nat
    BY <2>1 DEF ReportInv, Shape, FilesCounted
  <2>4. StoreMatches'
    BY <2>1, <2>2, <2>3 DEF StoreMatches
  <2>5. CASE at = Len(files)
    BY <2>1, <2>2, <2>3, <2>4, <2>5
    DEF NextFile, ReportInv, Shape, FilesCounted, ReportIsCorpus
  <2>6. CASE at # Len(files)
    BY <2>1, <2>2, <2>3, <2>4, <2>6
    DEF NextFile, ReportInv, Shape, FilesCounted, ReportIsCorpus
  <2> QED
    BY <2>5, <2>6
<1> QED
  BY <1>1, <1>2

\* Every step keeps the report in line with the corpus.
LEMMA ReportStep == ReportInv /\ [Next]_vars => ReportInv'
<1> SUFFICES ASSUME ReportInv, [Next]_vars PROVE ReportInv'
  OBVIOUS
<1>1. ASSUME NEW call \in Requests, Ingest(call) PROVE ReportInv'
  BY <1>1, NoReport
  DEF Ingest, ReportInv, Shape, FilesCounted, ReportIsCorpus
<1>2. CASE Clear
  <2>1. DOMAIN EmptyStore = {}
    BY DEF EmptyStore
  <2>2. /\ pc = "clear" /\ pc' = "describe"
        /\ UNCHANGED <<request, files, at, ingested, failed, result>>
        /\ store' = IF request.replace THEN EmptyStore ELSE store
    BY <1>2 DEF Clear
  <2>3. at = 1 /\ ingested = <<>> /\ failed = <<>> /\ result = "none"
    BY <2>2 DEF ReportInv, Shape, FilesCounted
  <2>4. StoreMatches'
    BY <2>1, <2>2, <2>3, NoReport DEF StoreMatches
  <2> QED
    BY <2>2, <2>3, <2>4, NoReport DEF ReportInv, Shape, FilesCounted, ReportIsCorpus
<1>3. CASE Describe
  <2>1. CASE DescribeError(Path) # "none"
    BY <1>3, <2>1, FailsKeeps DEF Describe
  <2>2. CASE DescribeError(Path) = "none"
    BY <1>3, <2>2
    DEF Describe, ReportInv, Shape, FilesCounted, StoreMatches, ReportIsCorpus
  <2> QED
    BY <2>1, <2>2
<1>4. CASE Load
  <2>1. CASE \E code : Fails(code)
    BY <1>4, <2>1, FailsKeeps DEF Load
  <2>2. CASE ~ \E code : Fails(code)
    <3>1. /\ pc = "load" /\ pc' \in {"idle", "store"}
          /\ UNCHANGED <<store, request, files, at, ingested, failed>>
          /\ \/ pc' = "idle" /\ result' = "OSError"
             \/ pc' = "store" /\ result' = result
      BY <1>4, <2>2 DEF Load
    <3> QED
      BY <3>1 DEF ReportInv, Shape, FilesCounted, StoreMatches, ReportIsCorpus
  <2> QED
    BY <2>1, <2>2
<1>5. CASE Upsert
  BY <1>5, UpsertKeeps
<1>6. CASE Report
  BY <1>6 DEF Report, ReportInv, Shape, FilesCounted, StoreMatches, ReportIsCorpus
<1>7. CASE Dies
  BY <1>7 DEF Dies, ReportInv, Shape, FilesCounted, StoreMatches, ReportIsCorpus
<1>8. CASE Edited
  BY <1>8 DEF Edited, ReportInv, Shape, FilesCounted, StoreMatches, ReportIsCorpus
<1>9. CASE UNCHANGED vars
  BY <1>9 DEF vars, ReportInv, Shape, FilesCounted, StoreMatches, ReportIsCorpus
<1> QED
  BY <1>1, <1>2, <1>3, <1>4, <1>5, <1>6, <1>7, <1>8, <1>9 DEF Next

-----------------------------------------------------------------------------
(* The theorems *)

\* Whatever earlier calls did, however files change and however often a call dies:
\* after a report, every file is accounted for, what was ingested is in the
\* corpus, and with replace nothing else is (runtime.ingest).
THEOREM ReportsAreTrue == Spec => []ReportIsCorpus
<1>1. ReportInv => ReportIsCorpus
  BY DEF ReportInv
<1> QED
  BY <1>1, ReportInit, ReportStep, PTL DEF Spec

\* A call that finds no file is refused before the corpus is emptied, so it leaves
\* the corpus as it was (runtime.ingest, the COR-002 check before clear()).
THEOREM RefusalsKeepCorpus == Spec => RefusedLeavesCorpus
<1>1. ReportInv /\ [Next]_vars => [result' = "COR-002" => store' = store]_vars
  <2> SUFFICES ASSUME ReportInv, [Next]_vars, result' = "COR-002" PROVE store' = store
    OBVIOUS
  <2>1. pc # "idle" => result = "none"
    BY DEF ReportInv, Shape
  <2>2. ASSUME NEW call \in Requests, Ingest(call) PROVE store' = store
    BY <2>2 DEF Ingest
  <2>3. ~Clear
    BY <2>1 DEF Clear
  <2>4. ~Upsert
    BY <2>1 DEF Upsert, Fails
  <2>5. CASE Describe \/ Load \/ Report \/ Dies \/ Edited \/ UNCHANGED vars
    BY <2>5 DEF Describe, Load, Report, Dies, Edited, Fails, vars
  <2> QED
    BY <2>2, <2>3, <2>4, <2>5 DEF Next
<1> QED
  BY <1>1, ReportInit, ReportStep, PTL DEF Spec, RefusedLeavesCorpus

-----------------------------------------------------------------------------
(* Texts: sequences of positions of lines *)

Rising(t) == \A i, j \in DOMAIN t : i < j => t[i] < t[j]

\* Whatever is in A comes before whatever is in B
Before(A, B) == \A x \in A, y \in B : x < y

LinesOf(texts) == UNION {ToSet(texts[k]) : k \in DOMAIN texts}

\* One text after the other, each line after the ones before it
InOrder(texts) ==
  /\ \A k \in DOMAIN texts : Rising(texts[k])
  /\ \A k, l \in DOMAIN texts : k < l => Before(ToSet(texts[k]), ToSet(texts[l]))

TextsOf(records) == [k \in DOMAIN records |-> records[k].text]

\* No text.
LEMMA NoText ==
  /\ LinesOf(<<>>) = {} /\ InOrder(<<>>) /\ TextsOf(<<>>) = <<>>
  /\ ToSet(<<>>) = {} /\ Rising(<<>>)
<1>1. DOMAIN <<>> = {}
  OBVIOUS
<1>2. TextsOf(<<>>) = <<>>
  BY <1>1 DEF TextsOf
<1> QED
  BY <1>1, <1>2 DEF LinesOf, InOrder, ToSet, Rising

\* What a line is in when it is the whole text.
LEMMA OneLine ==
  ASSUME NEW i
  PROVE  ToSet(<<i>>) = {i} /\ Rising(<<i>>)
<1>1. DOMAIN <<i>> = 1..1 /\ <<i>>[1] = i
  OBVIOUS
<1> QED
  BY <1>1 DEF ToSet, Rising

\* What is in a sequence is at one of its positions.
LEMMA InText ==
  ASSUME NEW S, NEW s \in Seq(S)
  PROVE  /\ DOMAIN s = 1..Len(s) /\ Len(s) \in Nat /\ ToSet(s) \subseteq S
         /\ \A x : x \in ToSet(s) <=> \E i \in 1..Len(s) : x = s[i]
  BY DEF ToSet

\* A text that follows another one.
LEMMA TextAfterText ==
  ASSUME NEW P, P \subseteq Nat, NEW a \in Seq(P), NEW b \in Seq(P)
  PROVE  /\ a \o b \in Seq(P) /\ ToSet(a \o b) = ToSet(a) \cup ToSet(b)
         /\ Rising(a) /\ Rising(b) /\ Before(ToSet(a), ToSet(b)) => Rising(a \o b)
<1>1. /\ a \o b \in Seq(P) /\ Len(a) \in Nat /\ Len(b) \in Nat
      /\ Len(a \o b) = Len(a) + Len(b)
      /\ \A i \in 1..Len(a) : a[i] \in P /\ (a \o b)[i] = a[i]
      /\ \A i \in 1..Len(b) : b[i] \in P
      /\ \A i \in (Len(a) + 1)..(Len(a) + Len(b)) :
           i - Len(a) \in 1..Len(b) /\ (a \o b)[i] = b[i - Len(a)]
  OBVIOUS
<1>2. /\ DOMAIN a = 1..Len(a) /\ DOMAIN b = 1..Len(b)
      /\ DOMAIN (a \o b) = 1..(Len(a) + Len(b))
  BY <1>1
<1> DEFINE c == a \o b
           N == Len(a)
           M == Len(b)
<1>3. N \in Nat /\ M \in Nat
  BY <1>1
<1>4. /\ \A i \in 1..N : i \in 1..(N + M) /\ c[i] = a[i]
      /\ \A i \in (N + 1)..(N + M) : i - N \in 1..M /\ c[i] = b[i - N]
      /\ \A i \in 1..M : i + N \in 1..(N + M) /\ c[i + N] = b[i]
  <2>1. \A i \in 1..M : i + N \in (N + 1)..(N + M) /\ (i + N) - N = i
    BY <1>3
  <2>2. \A i \in 1..N : i \in 1..(N + M) /\ c[i] = a[i]
    BY <1>1
  <2>3. \A i \in (N + 1)..(N + M) : i - N \in 1..M /\ c[i] = b[i - N]
    BY <1>1
  <2>4. \A i \in 1..M : i + N \in 1..(N + M)
    BY <1>3
  <2> HIDE DEF c, N, M
  <2> QED
    BY <2>1, <2>2, <2>3, <2>4
<1>5. \A i \in 1..(N + M) : i \in 1..N \/ i \in (N + 1)..(N + M)
  BY <1>3
<1> HIDE DEF c, N, M
<1>6. DOMAIN a = 1..N /\ DOMAIN b = 1..M /\ DOMAIN c = 1..(N + M)
  BY <1>2 DEF c, N, M
<1>7. ToSet(c) = ToSet(a) \cup ToSet(b)
  <2>1. ASSUME NEW i \in 1..(N + M) PROVE c[i] \in ToSet(a) \cup ToSet(b)
    BY <1>4, <1>5, <1>6 DEF ToSet
  <2>2. ASSUME NEW i \in 1..N PROVE a[i] \in ToSet(c)
    BY <1>4, <1>6 DEF ToSet
  <2>3. ASSUME NEW i \in 1..M PROVE b[i] \in ToSet(c)
    BY <1>4, <1>6 DEF ToSet
  <2> QED
    BY <1>6, <2>1, <2>2, <2>3 DEF ToSet
<1>8. ASSUME Rising(a), Rising(b), Before(ToSet(a), ToSet(b)) PROVE Rising(c)
  <2> SUFFICES ASSUME NEW i \in 1..(N + M), NEW j \in 1..(N + M), i < j PROVE c[i] < c[j]
    BY <1>6 DEF Rising
  <2>1. CASE i \in 1..N /\ j \in 1..N
    BY <1>4, <1>6, <1>8, <2>1 DEF Rising
  <2>2. CASE i \in 1..N /\ j \in (N + 1)..(N + M)
    <3>1. c[i] = a[i] /\ c[j] = b[j - N] /\ j - N \in 1..M
      BY <1>4, <2>2
    <3>2. c[i] \in ToSet(a) /\ c[j] \in ToSet(b)
      BY <1>6, <2>2, <3>1 DEF ToSet
    <3> QED
      BY <1>8, <3>2 DEF Before
  <2>3. CASE i \in (N + 1)..(N + M) /\ j \in (N + 1)..(N + M)
    <3>1. c[i] = b[i - N] /\ c[j] = b[j - N] /\ i - N \in 1..M /\ j - N \in 1..M
      BY <1>4, <2>3
    <3>2. i - N < j - N
      BY <1>3, <2>3
    <3> QED
      BY <1>6, <1>8, <3>1, <3>2 DEF Rising
  <2>4. ~(i \in (N + 1)..(N + M) /\ j \in 1..N)
    BY <1>3
  <2> QED
    BY <1>5, <2>1, <2>2, <2>3, <2>4
<1> QED
  BY <1>1, <1>7, <1>8 DEF c

\* A line that follows a text.
LEMMA LineAfterText ==
  ASSUME NEW P, P \subseteq Nat, NEW a \in Seq(P), NEW i \in P
  PROVE  /\ Append(a, i) \in Seq(P) /\ ToSet(Append(a, i)) = ToSet(a) \cup {i}
         /\ Rising(a) /\ Before(ToSet(a), {i}) => Rising(Append(a, i))
<1>1. <<i>> \in Seq(P) /\ Append(a, i) = a \o <<i>>
  OBVIOUS
<1>2. ToSet(<<i>>) = {i} /\ Rising(<<i>>)
  BY OneLine
<1>3. /\ a \o <<i>> \in Seq(P) /\ ToSet(a \o <<i>>) = ToSet(a) \cup ToSet(<<i>>)
      /\ Rising(a) /\ Rising(<<i>>) /\ Before(ToSet(a), ToSet(<<i>>)) => Rising(a \o <<i>>)
  BY <1>1, TextAfterText
<1> QED
  BY <1>1, <1>2, <1>3

\* A sequence with one more element: what is where.
LEMMA OneMore ==
  ASSUME NEW S, NEW s \in Seq(S), NEW x \in S
  PROVE  /\ Append(s, x) \in Seq(S) /\ Len(Append(s, x)) = Len(s) + 1 /\ Len(s) \in Nat
         /\ Append(s, x) # <<>>
         /\ DOMAIN s = 1..Len(s) /\ DOMAIN Append(s, x) = 1..(Len(s) + 1)
         /\ Append(s, x)[Len(s) + 1] = x
         /\ \A i \in 1..Len(s) : Append(s, x)[i] = s[i]
         /\ \A i \in 1..(Len(s) + 1) : i \in 1..Len(s) \/ i = Len(s) + 1
  OBVIOUS

\* A text after others.
LEMMA OneMoreText ==
  ASSUME NEW P, P \subseteq Nat, NEW S \in Seq(Seq(P)), NEW t \in Seq(P)
  PROVE  /\ LinesOf(Append(S, t)) = LinesOf(S) \cup ToSet(t)
         /\ InOrder(S) /\ Rising(t) /\ Before(LinesOf(S), ToSet(t)) => InOrder(Append(S, t))
<1> DEFINE c == Append(S, t)
           N == Len(S)
<1>1. /\ N \in Nat /\ DOMAIN S = 1..N /\ DOMAIN c = 1..(N + 1) /\ c[N + 1] = t
      /\ \A i \in 1..N : c[i] = S[i]
      /\ \A i \in 1..(N + 1) : i \in 1..N \/ i = N + 1
      /\ \A i \in 1..N : i \in 1..(N + 1)
      /\ N + 1 \in 1..(N + 1)
  BY OneMore
<1> HIDE DEF c, N
<1>2. LinesOf(c) = LinesOf(S) \cup ToSet(t)
  BY <1>1 DEF LinesOf
<1>3. ASSUME InOrder(S), Rising(t), Before(LinesOf(S), ToSet(t)) PROVE InOrder(c)
  <2>1. \A k \in DOMAIN c : Rising(c[k])
    BY <1>1, <1>3 DEF InOrder
  <2>2. ASSUME NEW k \in 1..(N + 1), NEW l \in 1..(N + 1), k < l
        PROVE  Before(ToSet(c[k]), ToSet(c[l]))
    <3>1. k \in 1..N
      BY <1>1, <2>2
    <3>2. CASE l \in 1..N
      BY <1>1, <1>3, <2>2, <3>1, <3>2 DEF InOrder
    <3>3. CASE l = N + 1
      <4>1. ToSet(c[k]) \subseteq LinesOf(S) /\ c[l] = t
        BY <1>1, <3>1, <3>3 DEF LinesOf
      <4> QED
        BY <1>3, <4>1 DEF Before
    <3> QED
      BY <1>1, <3>2, <3>3
  <2> QED
    BY <1>1, <2>1, <2>2 DEF InOrder
<1> QED
  BY <1>2, <1>3 DEF c

\* All but the last, and the last.
LEMMA ButLast ==
  ASSUME NEW S, NEW s \in Seq(S), s # <<>>
  PROVE  /\ Front(s) \in Seq(S) /\ Last(s) \in S
         /\ s = Append(Front(s), Last(s)) /\ Len(Front(s)) + 1 = Len(s)
<1> DEFINE N == Len(s)
           f == SubSeq(s, 1, N - 1)
<1>1. /\ N \in Nat \ {0} /\ f \in Seq(S) /\ Len(f) = N - 1 /\ s[N] \in S
      /\ \A i \in 1..(N - 1) : f[i] = s[i]
      /\ DOMAIN s = 1..N
  <2>1. N \in Nat \ {0} /\ s[N] \in S /\ DOMAIN s = 1..N
    OBVIOUS
  <2>2. N - 1 \in Nat /\ \A i \in 1..(N - 1) : s[i] \in S
    BY <2>1
  <2>3. f \in Seq(S) /\ Len(f) = N - 1 /\ \A i \in 1..(N - 1) : f[i] = s[i]
    BY <2>1, <2>2
  <2> QED
    BY <2>1, <2>3
<1>2. s = [i \in 1..N |-> s[i]]
  BY <1>1
<1> HIDE DEF f, N
<1>3. Append(f, s[N]) = [i \in 1..N |-> s[i]]
  <2>1. Append(f, s[N]) = [i \in 1..((N - 1) + 1) |-> IF i = (N - 1) + 1 THEN s[N] ELSE f[i]]
    BY <1>1
  <2>2. (N - 1) + 1 = N
    BY <1>1
  <2>3. \A i \in 1..N : i # N => i \in 1..(N - 1)
    BY <1>1
  <2> QED
    BY <1>1, <2>1, <2>2, <2>3
<1> QED
  BY <1>1, <1>2, <1>3 DEF Front, Last, f, N

\* The last text goes on.
LEMMA LastTextGrows ==
  ASSUME NEW P, P \subseteq Nat, NEW S \in Seq(Seq(P)), S # <<>>, NEW t \in Seq(P)
  PROVE  LET T == Append(Front(S), Last(S) \o t)
         IN /\ LinesOf(T) = LinesOf(S) \cup ToSet(t) /\ Len(T) = Len(S)
            /\ InOrder(S) /\ Rising(t) /\ Before(LinesOf(S), ToSet(t)) => InOrder(T)
<1> DEFINE f == Front(S)
           a == Last(S)
           T == Append(f, a \o t)
<1>1. f \in Seq(Seq(P)) /\ a \in Seq(P) /\ S = Append(f, a) /\ Len(f) + 1 = Len(S)
  BY ButLast
<1> HIDE DEF f, a
<1>2. /\ a \o t \in Seq(P) /\ ToSet(a \o t) = ToSet(a) \cup ToSet(t)
      /\ Rising(a) /\ Rising(t) /\ Before(ToSet(a), ToSet(t)) => Rising(a \o t)
  BY <1>1, TextAfterText
<1>3. LinesOf(S) = LinesOf(f) \cup ToSet(a)
  BY <1>1, OneMoreText
<1>4. LinesOf(T) = LinesOf(f) \cup ToSet(a \o t)
      /\ (InOrder(f) /\ Rising(a \o t) /\ Before(LinesOf(f), ToSet(a \o t)) => InOrder(T))
  BY <1>1, <1>2, OneMoreText
<1>5. Len(T) = Len(S)
  BY <1>1, <1>2
<1>6. ASSUME InOrder(S), Rising(t), Before(LinesOf(S), ToSet(t)) PROVE InOrder(T)
  <2>1. /\ DOMAIN f = 1..Len(f) /\ DOMAIN S = 1..(Len(f) + 1) /\ Len(f) \in Nat
        /\ \A i \in 1..Len(f) : S[i] = f[i] /\ i \in 1..(Len(f) + 1) /\ i < Len(f) + 1
        /\ S[Len(f) + 1] = a /\ Len(f) + 1 \in 1..(Len(f) + 1)
    BY <1>1, OneMore
  <2>2. InOrder(f)
    BY <1>6, <2>1 DEF InOrder
  <2>3. Rising(a)
    BY <1>6, <2>1 DEF InOrder
  <2>4. Before(LinesOf(f), ToSet(a))
    <3>1. \A i \in 1..Len(f) : Before(ToSet(f[i]), ToSet(a))
      BY <1>6, <2>1 DEF InOrder
    <3> QED
      BY <2>1, <3>1 DEF Before, LinesOf
  <2>5. Before(ToSet(a), ToSet(t)) /\ Before(LinesOf(f), ToSet(t))
    BY <1>3, <1>6 DEF Before
  <2>6. Before(LinesOf(f), ToSet(a \o t))
    BY <1>2, <2>4, <2>5 DEF Before
  <2> QED
    BY <1>2, <1>4, <1>6, <2>2, <2>3, <2>5, <2>6
<1>7. LinesOf(T) = LinesOf(S) \cup ToSet(t)
  BY <1>2, <1>3, <1>4
<1> QED
  BY <1>5, <1>6, <1>7 DEF f, a

\* The texts of records, one after the other as the records are.
LEMMA TextsOfOneMore ==
  ASSUME NEW R, NEW P, \A y \in R : y.text \in Seq(P), NEW r \in Seq(R), NEW x \in R
  PROVE  /\ TextsOf(r) \in Seq(Seq(P)) /\ Len(TextsOf(r)) = Len(r)
         /\ DOMAIN TextsOf(r) = DOMAIN r
         /\ \A k \in DOMAIN r : TextsOf(r)[k] = r[k].text
         /\ TextsOf(Append(r, x)) = Append(TextsOf(r), x.text)
<1> DEFINE N == Len(r)
           c == Append(r, x)
<1>1. /\ N \in Nat /\ DOMAIN r = 1..N /\ DOMAIN c = 1..(N + 1) /\ c[N + 1] = x
      /\ \A i \in 1..N : c[i] = r[i] /\ r[i] \in R
      /\ \A i \in 1..(N + 1) : i \in 1..N \/ i = N + 1
  BY OneMore
<1> HIDE DEF N, c
<1>2. \A i \in 1..N : r[i].text \in Seq(P)
  BY <1>1
<1>3. TextsOf(r) = [k \in 1..N |-> r[k].text]
  BY <1>1 DEF TextsOf
<1>4. TextsOf(r) \in Seq(Seq(P)) /\ Len(TextsOf(r)) = N /\ DOMAIN TextsOf(r) = 1..N
  BY <1>1, <1>2, <1>3
<1>5. TextsOf(c) = [k \in 1..(N + 1) |-> IF k = N + 1 THEN x.text ELSE r[k].text]
  <2>1. TextsOf(c) = [k \in 1..(N + 1) |-> c[k].text]
    BY <1>1 DEF TextsOf
  <2>2. \A k \in 1..(N + 1) : c[k].text = IF k = N + 1 THEN x.text ELSE r[k].text
    BY <1>1
  <2> QED
    BY <2>1, <2>2
<1>6. Append(TextsOf(r), x.text) = [k \in 1..(N + 1) |-> IF k = N + 1 THEN x.text ELSE r[k].text]
  <2>1. Append(TextsOf(r), x.text) =
          [k \in 1..(N + 1) |-> IF k = N + 1 THEN x.text ELSE TextsOf(r)[k]]
    BY <1>4
  <2>2. \A k \in 1..(N + 1) : k # N + 1 => TextsOf(r)[k] = r[k].text
    BY <1>1, <1>3
  <2> QED
    BY <2>1, <2>2
<1> QED
  BY <1>1, <1>3, <1>4, <1>5, <1>6 DEF N, c

\* FlattenSeq puts one text after the other
LEMMA FlattenSteps ==
  ASSUME NEW P, NEW S \in Seq(Seq(P)), S # <<>>
  PROVE  \E f \in [1..Len(S) -> Seq(P)] :
           /\ f[1] = S[1] /\ \A i \in 1..(Len(S) - 1) : f[i + 1] = f[i] \o S[i + 1]
           /\ FlattenSeq(S) = f[Len(S)]
<1> DEFINE N == Len(S)
           V == Seq(P)
           F == [p \in V \X (1..N) |-> IF p[2] = 1 THEN S[1] ELSE p[1] \o S[p[2]]]
           Eq(f) == f = [i \in 1..N |-> IF i = 1 THEN S[i] ELSE f[i - 1] \o S[i]]
<1>1. N \in Nat \ {0} /\ \A i \in 1..N : S[i] \in V
  OBVIOUS
<1>2. F \in [V \X (1..N) -> V]
  <2>1. ASSUME NEW v \in V, NEW i \in 1..N PROVE v \o S[i] \in V /\ S[1] \in V
    <3>1. S[i] \in Seq(P) /\ S[1] \in Seq(P) /\ v \in Seq(P)
      BY <1>1
    <3> QED
      BY <3>1
  <2> HIDE DEF V, N
  <2> QED
    BY <1>1, <2>1
<1>3. <<>> \in V
  OBVIOUS
<1>4. PICK g : SolvesFold(g, N, V, <<>>, F)
  <2>1. N \in Nat
    BY <1>1
  <2> HIDE DEF F, V, N
  <2> QED
    BY <1>2, <1>3, <2>1, FoldSolves, Zenon
<1>5. PICK h : FoldRun(h, N, V, <<>>, F, g[1..N])
  <2> HIDE DEF F, V, N
  <2>1. N \in Nat
    BY <1>1
  <2>2. Unfolds(g, N, V, <<>>, F)
    BY <1>4 DEF SolvesFold, Unfolds
  <2> QED
    BY <1>2, <1>3, <2>1, <2>2, FoldSteps, Zenon
<1> DEFINE e == [i \in 1..N |-> h[i]]
<1>6. ASSUME NEW i \in 1..N PROVE h[i] = IF i = 1 THEN S[1] ELSE h[i - 1] \o S[i]
  <2>1. i - 1 \in 0..(N - 1) /\ i - 1 \in 0..N /\ (i - 1) + 1 = i
    BY <1>1
  <2>2. h[i] = F[<<h[i - 1], i>>]
    BY <1>5, <2>1 DEF FoldRun
  <2>3. h[i - 1] \in V
    BY <1>5, <2>1 DEF FoldRun
  <2> HIDE DEF V, N
  <2> QED
    BY <2>2, <2>3
<1>7. Eq(e)
  <2>1. ASSUME NEW i \in 1..N PROVE e[i] = IF i = 1 THEN S[i] ELSE e[i - 1] \o S[i]
    <3>1. i # 1 => i - 1 \in 1..N
      BY <1>1
    <3> QED
      BY <1>6, <3>1
  <2>2. e = [i \in 1..N |-> e[i]]
    OBVIOUS
  <2> HIDE DEF e
  <2> QED
    BY <2>1, <2>2
<1>8. FlattenSeq(S) = (CHOOSE f : Eq(f))[N]
  <2>1. Len(S) # 0
    BY <1>1
  <2> QED
    BY <2>1, Zenon DEF FlattenSeq
<1> DEFINE f == CHOOSE f : Eq(f)
<1>9. Eq(f)
  <2> HIDE DEF Eq
  <2> QED
    BY <1>7
<1>10. \A i \in 1..N : f[i] = IF i = 1 THEN S[1] ELSE f[i - 1] \o S[i]
  <2> HIDE DEF f
  <2> QED
    BY <1>9
<1>11. DOMAIN f = 1..N /\ f = [i \in 1..N |-> f[i]]
  <2> HIDE DEF f
  <2> QED
    BY <1>9
<1> HIDE DEF f
<1>12. \A i \in 1..N : f[i] \in V
  <2> DEFINE Q == {m \in 0..N : m = 0 \/ f[m] \in V}
  <2>1. 0 \in Q
    BY <1>1
  <2>2. ASSUME NEW m \in 0..(N - 1), m \in Q PROVE m + 1 \in Q
    <3>1. m + 1 \in 1..N /\ m + 1 \in 0..N /\ (m + 1) - 1 = m
      BY <1>1
    <3>2. CASE m = 0
      BY <1>1, <1>10, <3>1, <3>2
    <3>3. CASE m # 0
      <4>0. m + 1 # 1 /\ f[m] \in V /\ S[m + 1] \in V
        BY <1>1, <2>2, <3>1, <3>3
      <4>1. f[m + 1] = f[m] \o S[m + 1] /\ f[m] \in Seq(P) /\ S[m + 1] \in Seq(P)
        BY <1>10, <3>1, <4>0
      <4>2. f[m + 1] \in V
        BY <4>1
      <4> QED
        BY <3>1, <4>2
    <3> QED
      BY <3>2, <3>3
  <2> HIDE DEF Q
  <2>3. \A m \in 0..N : m \in Q
    BY <1>1, <2>1, <2>2, InductTo
  <2> QED
    BY <2>3, <1>1 DEF Q
<1>13. f \in [1..N -> V]
  BY <1>11, <1>12
<1>14. f[1] = S[1] /\ \A i \in 1..(N - 1) : f[i + 1] = f[i] \o S[i + 1]
  <2>1. 1 \in 1..N /\ \A i \in 1..(N - 1) : i + 1 \in 1..N /\ i + 1 # 1 /\ (i + 1) - 1 = i
    BY <1>1
  <2> QED
    BY <1>10, <2>1
<1>15. FlattenSeq(S) = f[N]
  BY <1>8 DEF f
<1> QED
  BY <1>13, <1>14, <1>15

\* Several texts one after the other are one text of the same lines.
LEMMA Flattened ==
  ASSUME NEW P, P \subseteq Nat, NEW S \in Seq(Seq(P))
  PROVE  /\ FlattenSeq(S) \in Seq(P) /\ ToSet(FlattenSeq(S)) = LinesOf(S)
         /\ InOrder(S) => Rising(FlattenSeq(S))
<1>1. CASE S = <<>>
  <2>1. FlattenSeq(S) = <<>>
    BY <1>1 DEF FlattenSeq
  <2>2. <<>> \in Seq(P)
    OBVIOUS
  <2> QED
    BY <1>1, <2>1, <2>2, NoText
<1>2. CASE S # <<>>
  <2> DEFINE N == Len(S)
             Upto(i) == UNION {ToSet(S[k]) : k \in 1..i}
  <2>1. N \in Nat \ {0} /\ DOMAIN S = 1..N /\ \A i \in 1..N : S[i] \in Seq(P)
    BY <1>2
  <2>2. PICK f \in [1..N -> Seq(P)] :
           /\ f[1] = S[1] /\ \A i \in 1..(N - 1) : f[i + 1] = f[i] \o S[i + 1]
           /\ FlattenSeq(S) = f[N]
    BY <1>2, FlattenSteps, Zenon
  <2> HIDE DEF N
  <2> DEFINE Flat(i) == ToSet(f[i]) = Upto(i) /\ (InOrder(S) => Rising(f[i]))
             Q == {m \in 0..N : m = 0 \/ Flat(m)}
  <2>3. 0 \in Q
    BY <2>1
  <2>4. ASSUME NEW m \in 0..(N - 1), m \in Q PROVE m + 1 \in Q
    <3>1. m + 1 \in 1..N /\ m + 1 \in 0..N
      BY <2>1
    <3>2. CASE m = 0
      <4>1. 1..1 = {1}
        OBVIOUS
      <4>2. ToSet(f[1]) = Upto(1)
        BY <2>2, <4>1
      <4>3. InOrder(S) => Rising(f[1])
        <5>1. 1 \in DOMAIN S
          BY <2>1
        <5> QED
          BY <2>2, <5>1 DEF InOrder
      <4> QED
        BY <3>1, <3>2, <4>2, <4>3
    <3>3. CASE m # 0
      <4>1. m \in 1..(N - 1) /\ m \in 1..N /\ Flat(m)
        BY <2>1, <2>4, <3>3
      <4>2. f[m + 1] = f[m] \o S[m + 1] /\ f[m] \in Seq(P) /\ S[m + 1] \in Seq(P)
        BY <2>1, <2>2, <3>1, <4>1
      <4> HIDE DEF Upto
      <4>3. /\ ToSet(f[m + 1]) = ToSet(f[m]) \cup ToSet(S[m + 1])
            /\ Rising(f[m]) /\ Rising(S[m + 1]) /\ Before(ToSet(f[m]), ToSet(S[m + 1]))
                 => Rising(f[m + 1])
        <5> DEFINE a == f[m]
                   b == S[m + 1]
        <5>1. a \in Seq(P) /\ b \in Seq(P)
          BY <4>2
        <5> HIDE DEF a, b
        <5>2. /\ ToSet(a \o b) = ToSet(a) \cup ToSet(b)
              /\ Rising(a) /\ Rising(b) /\ Before(ToSet(a), ToSet(b)) => Rising(a \o b)
          BY <5>1, TextAfterText
        <5> QED
          BY <4>2, <5>2 DEF a, b
      <4>4. Upto(m + 1) = Upto(m) \cup ToSet(S[m + 1])
        <5>1. 1..(m + 1) = (1..m) \cup {m + 1}
          BY <4>1
        <5> QED
          BY <5>1 DEF Upto
      <4>5. ASSUME InOrder(S) PROVE Rising(f[m + 1])
        <5>1. \A k \in 1..m : k \in 1..N /\ k < m + 1
          BY <2>1, <3>1
        <5>2. \A k \in 1..m : Before(ToSet(S[k]), ToSet(S[m + 1]))
          BY <2>1, <3>1, <4>5, <5>1 DEF InOrder
        <5>3. Before(Upto(m), ToSet(S[m + 1]))
          BY <5>2 DEF Before, Upto
        <5>4. Rising(S[m + 1])
          BY <2>1, <3>1, <4>5 DEF InOrder
        <5> QED
          BY <4>1, <4>3, <4>5, <5>3, <5>4
      <4> QED
        BY <3>1, <4>1, <4>3, <4>4, <4>5
    <3> QED
      BY <3>2, <3>3
  <2> HIDE DEF Flat
  <2>5. Flat(N)
    <3> HIDE DEF Q
    <3>1. \A m \in 0..N : m \in Q
      BY <2>1, <2>3, <2>4, InductTo
    <3> QED
      BY <2>1, <3>1 DEF Q
  <2>6. LinesOf(S) = Upto(N)
    BY <2>1 DEF LinesOf
  <2>7. f[N] \in Seq(P)
    BY <2>1
  <2> QED
    BY <2>2, <2>5, <2>6, <2>7 DEF Flat
<1> QED
  BY <1>1, <1>2

-----------------------------------------------------------------------------
(* Texts are sentences *)

Positions(lines) == 1..Len(lines)

\* f is what the first texts of S make, one after the other; all of them make whole
Adds(f, S, whole) ==
  /\ f[0] = <<>> /\ f[Len(S)] = whole
  /\ \A m \in 0..(Len(S) - 1) : f[m + 1] = f[m] \o S[m + 1]
Joins(P, S, whole) == \E f \in [0..Len(S) -> Seq(P)] : Adds(f, S, whole)

\* A sentence is a run of lines none of which ends it, but for the last
Sentence(lines, t) ==
  t # <<>> /\ \A k \in 1..(Len(t) - 1) : SameSentence(lines, t[k], t[k + 1])

\* The sentences of a text are all of it, in its order
SentencesOf(lines, whole, S) ==
  /\ S \in Seq(Seq(Positions(lines)))
  /\ LinesOf(S) = ToSet(whole) /\ (Rising(whole) => InOrder(S))
  /\ Joins(Positions(lines), S, whole)
  /\ \A k \in 1..Len(S) : Sentence(lines, S[k])

\* A longer beginning has one element more.
LEMMA BeginningGrows ==
  ASSUME NEW S, NEW s \in Seq(S), NEW m \in 0..(Len(s) - 1)
  PROVE  SubSeq(s, 1, m + 1) = Append(SubSeq(s, 1, m), s[m + 1])
<1> DEFINE a == SubSeq(s, 1, m)
           b == SubSeq(s, 1, m + 1)
           x == s[m + 1]
<1>1. m \in Nat /\ m + 1 \in 1..Len(s) /\ \A k \in 1..(m + 1) : s[k] \in S
  OBVIOUS
<1>2. /\ a \in Seq(S) /\ Len(a) = m /\ \A k \in 1..m : a[k] = s[k]
      /\ b \in Seq(S) /\ Len(b) = m + 1 /\ \A k \in 1..(m + 1) : b[k] = s[k]
  BY <1>1
<1> HIDE DEF a, b, x
<1>3. x \in S /\ b[m + 1] = x /\ \A k \in 1..m : k \in 1..(m + 1)
  BY <1>1, <1>2 DEF x
<1> DEFINE c == Append(a, x)
<1>4. /\ c \in Seq(S) /\ Len(c) = m + 1 /\ c[m + 1] = x
      /\ \A k \in 1..m : c[k] = a[k]
  BY <1>2, <1>3
<1> HIDE DEF c
<1>5. ASSUME NEW k \in 1..(m + 1) PROVE b[k] = c[k]
  <2>1. k \in 1..m \/ k = m + 1
    BY <1>1
  <2> QED
    BY <1>2, <1>3, <1>4, <2>1
<1>6. b = [k \in 1..(m + 1) |-> b[k]] /\ c = [k \in 1..(m + 1) |-> c[k]]
  BY <1>2, <1>4
<1>7. b = c
  BY <1>5, <1>6
<1> QED
  BY <1>7 DEF a, b, c, x

\* A part more makes the whole longer by it.
LEMMA OneMorePart ==
  ASSUME NEW P, NEW S \in Seq(Seq(P)), NEW t \in Seq(P), NEW w \in Seq(P), Joins(P, S, w)
  PROVE  Joins(P, Append(S, t), w \o t)
<1> DEFINE N == Len(S)
           c == Append(S, t)
           x == w \o t
<1>1. /\ N \in Nat /\ Len(c) = N + 1 /\ c[N + 1] = t
      /\ \A i \in 1..N : c[i] = S[i]
  OBVIOUS
<1>2. PICK f \in [0..N -> Seq(P)] : Adds(f, S, w)
  BY DEF Joins
<1>3. x \in Seq(P) /\ w \in Seq(P)
  OBVIOUS
<1>4. /\ f[0] = <<>> /\ f[N] = w
      /\ \A m \in 0..(N - 1) : f[m + 1] = f[m] \o S[m + 1]
  BY <1>2 DEF Adds
<1> DEFINE g == [k \in 0..(N + 1) |-> IF k = N + 1 THEN x ELSE f[k]]
<1> HIDE DEF N, c
<1>5. g \in [0..(N + 1) -> Seq(P)]
  <2> HIDE DEF x
  <2>1. \A k \in 0..(N + 1) : k # N + 1 => k \in 0..N
    BY <1>1
  <2> QED
    BY <1>2, <1>3, <2>1
<1>6. g[0] = <<>> /\ g[N + 1] = x /\ \A m \in 0..N : g[m] = f[m]
  <2> HIDE DEF x
  <2>1. 0 \in 0..(N + 1) /\ 0 # N + 1 /\ N + 1 \in 0..(N + 1)
        /\ \A m \in 0..N : m \in 0..(N + 1) /\ m # N + 1
    BY <1>1
  <2> QED
    BY <1>4, <2>1
<1>7. ASSUME NEW m \in 0..N PROVE g[m + 1] = g[m] \o c[m + 1]
  <2>1. CASE m = N
    <3>1. m \in 0..N /\ g[m] = w
      BY <1>4, <1>6, <2>1
    <3> HIDE DEF g
    <3> QED
      BY <1>1, <1>6, <2>1, <3>1
  <2>2. CASE m # N
    <3>1. m \in 0..(N - 1) /\ m + 1 \in 1..N /\ m + 1 \in 0..N
      BY <1>1, <2>2
    <3> HIDE DEF g
    <3> QED
      BY <1>1, <1>4, <1>6, <3>1
  <2> QED
    BY <2>1, <2>2
<1> HIDE DEF g, x
<1>8. Adds(g, c, x)
  <2>1. (N + 1) - 1 = N
    BY <1>1
  <2> QED
    BY <1>1, <1>6, <1>7, <2>1 DEF Adds
<1>9. Joins(P, c, x)
  BY <1>1, <1>5, <1>8 DEF Joins
<1> QED
  BY <1>9 DEF c, x

\* A line more at the end of the last part is one more at the end of the whole.
LEMMA LastPartGrows ==
  ASSUME NEW P, NEW S \in Seq(Seq(P)), S # <<>>, NEW i \in P, NEW w \in Seq(P), Joins(P, S, w)
  PROVE  Joins(P, Append(Front(S), Append(Last(S), i)), Append(w, i))
<1> DEFINE F == Front(S)
           a == Last(S)
           n == Len(F)
           c == Append(F, Append(a, i))
           x == Append(w, i)
<1>1. F \in Seq(Seq(P)) /\ a \in Seq(P) /\ S = Append(F, a) /\ n + 1 = Len(S)
  BY ButLast
<1> HIDE DEF F, a
<1>2. Append(a, i) \in Seq(P) /\ x \in Seq(P)
  BY <1>1
<1>3. /\ n \in Nat /\ Len(c) = n + 1 /\ c[n + 1] = Append(a, i) /\ S[n + 1] = a
      /\ \A k \in 1..n : c[k] = F[k] /\ S[k] = F[k]
  BY <1>1, <1>2
<1>4. PICK f \in [0..Len(S) -> Seq(P)] : Adds(f, S, w)
  BY DEF Joins
<1>5. f \in [0..(n + 1) -> Seq(P)]
  BY <1>1, <1>4
<1>6. /\ f[0] = <<>> /\ f[n + 1] = w
      /\ \A m \in 0..n : f[m + 1] = f[m] \o S[m + 1]
  <2>1. Len(S) - 1 = n
    BY <1>1, <1>3
  <2> QED
    BY <1>1, <1>4, <2>1 DEF Adds
<1> DEFINE g == [k \in 0..(n + 1) |-> IF k = n + 1 THEN x ELSE f[k]]
<1> HIDE DEF n, c
<1>7. g \in [0..(n + 1) -> Seq(P)]
  <2> HIDE DEF x
  <2> QED
    BY <1>2, <1>5
<1>8. g[0] = <<>> /\ g[n + 1] = x /\ \A m \in 0..n : g[m] = f[m]
  <2> HIDE DEF x
  <2>1. 0 \in 0..(n + 1) /\ 0 # n + 1 /\ n + 1 \in 0..(n + 1)
        /\ \A m \in 0..n : m \in 0..(n + 1) /\ m # n + 1
    BY <1>3
  <2> QED
    BY <1>6, <2>1
<1>9. ASSUME NEW m \in 0..n PROVE g[m + 1] = g[m] \o c[m + 1]
  <2> DEFINE b == f[m]
  <2>0. b \in Seq(P) /\ g[m] = b
    <3>1. m \in 0..(n + 1)
      BY <1>3
    <3> QED
      BY <1>5, <1>8, <3>1
  <2>1. CASE m = n
    <3>1. g[m + 1] = x /\ c[m + 1] = Append(a, i) /\ w = b \o a
      BY <1>3, <1>6, <1>8, <2>1
    <3>0. a \in Seq(P)
      BY <1>1
    <3> HIDE DEF a, b, g
    <3>2. b \o Append(a, i) = Append(b \o a, i)
      BY <2>0, <3>0, SMTT(60)
    <3> QED
      BY <2>0, <3>1, <3>2
  <2>2. CASE m # n
    <3>1. m + 1 \in 1..n /\ m + 1 \in 0..n
      BY <1>3, <2>2
    <3>2. g[m + 1] = f[m + 1] /\ c[m + 1] = S[m + 1]
      BY <1>3, <1>8, <3>1
    <3> HIDE DEF g
    <3> QED
      BY <1>6, <2>0, <3>2
  <2> QED
    BY <2>1, <2>2
<1> HIDE DEF g, x
<1>10. Adds(g, c, x)
  <2>1. (n + 1) - 1 = n
    BY <1>3
  <2> QED
    BY <1>3, <1>8, <1>9, <2>1 DEF Adds
<1>11. Joins(P, c, x)
  BY <1>3, <1>7, <1>10 DEF Joins
<1> QED
  BY <1>11 DEF c, x, F, a

\* One line more belongs to the last sentence, or begins one.
LEMMA LineOfSentence ==
  ASSUME NEW lines \in Seq(Lines), NEW w \in Seq(Positions(lines)), NEW S,
         SentencesOf(lines, w, S), NEW i \in Positions(lines)
  PROVE  SentencesOf(lines, Append(w, i), AddLine(lines, S, i))
<1> DEFINE P == Positions(lines)
           x == Append(w, i)
<1>1. /\ P \subseteq Nat /\ i \in P /\ w \in Seq(P) /\ S \in Seq(Seq(P))
      /\ LinesOf(S) = ToSet(w) /\ (Rising(w) => InOrder(S)) /\ Joins(P, S, w)
      /\ \A k \in 1..Len(S) : Sentence(lines, S[k])
  BY DEF SentencesOf, Positions
<1>2. /\ <<i>> \in Seq(P) /\ x = w \o <<i>> /\ ToSet(<<i>>) = {i} /\ Rising(<<i>>)
      /\ x \in Seq(P) /\ ToSet(x) = ToSet(w) \cup {i}
  <2> HIDE DEF P
  <2>1. <<i>> \in Seq(P) /\ x = w \o <<i>>
    <3>1. i \in P /\ w \in Seq(P)
      BY <1>1
    <3> QED
      BY <3>1
  <2>2. x \in Seq(P) /\ ToSet(x) = ToSet(w) \cup {i}
    <3> HIDE DEF x
    <3>1. Append(w, i) \in Seq(P) /\ ToSet(Append(w, i)) = ToSet(w) \cup {i}
      <4>1. P \subseteq Nat /\ w \in Seq(P) /\ i \in P
        BY <1>1
      <4> QED
        BY <4>1, LineAfterText, Zenon
    <3> QED
      BY <3>1 DEF x
  <2> HIDE DEF x
  <2> QED
    BY <2>1, <2>2, OneLine
<1>3. Rising(x) => Rising(w) /\ Before(ToSet(w), {i})
  <2>1. /\ Len(w) \in Nat /\ DOMAIN w = 1..Len(w) /\ DOMAIN x = 1..(Len(w) + 1)
        /\ x[Len(w) + 1] = i /\ \A k \in 1..Len(w) : x[k] = w[k]
    OBVIOUS
  <2>2. \A k \in 1..Len(w) : k \in 1..(Len(w) + 1) /\ k < Len(w) + 1
        /\ Len(w) + 1 \in 1..(Len(w) + 1)
    BY <2>1
  <2> HIDE DEF x
  <2> QED
    BY <2>1, <2>2 DEF Rising, Before, ToSet
<1> HIDE DEF P, x
<1>4. CASE S # <<>> /\ SameSentence(lines, Last(Last(S)), i)
  <2> DEFINE F == Front(S)
             a == Last(S)
             t == Append(a, i)
             c == Append(F, t)
  <2>1. AddLine(lines, S, i) = c
    BY <1>4 DEF AddLine
  <2>2. F \in Seq(Seq(P)) /\ a \in Seq(P) /\ S = Append(F, a) /\ Len(F) + 1 = Len(S)
    BY <1>1, <1>4, ButLast
  <2>3. Last(a) = a[Len(a)]
    BY DEF Last
  <2>4. Joins(P, c, x)
    BY <1>1, <1>4, LastPartGrows, Zenon DEF x
  <2>5. LET T == Append(Front(S), Last(S) \o <<i>>)
        IN /\ LinesOf(T) = LinesOf(S) \cup ToSet(<<i>>) /\ Len(T) = Len(S)
           /\ InOrder(S) /\ Rising(<<i>>) /\ Before(LinesOf(S), ToSet(<<i>>)) => InOrder(T)
    BY <1>1, <1>2, <1>4, LastTextGrows
  <2> HIDE DEF F, a
  <2>6. t = a \o <<i>> /\ t \in Seq(P)
    BY <1>1, <2>2
  <2>7. /\ LinesOf(c) = LinesOf(S) \cup {i}
        /\ InOrder(S) /\ Before(LinesOf(S), {i}) => InOrder(c)
    BY <1>2, <2>5, <2>6 DEF F, a
  <2>8. /\ Len(F) \in Nat /\ c \in Seq(Seq(P)) /\ Len(c) = Len(F) + 1 /\ c[Len(F) + 1] = t
        /\ S[Len(F) + 1] = a
        /\ \A k \in 1..Len(F) : c[k] = S[k]
        /\ \A k \in 1..(Len(F) + 1) : k \in 1..Len(F) \/ k = Len(F) + 1
    <3> HIDE DEF t
    <3> QED
      BY <2>2, <2>6
  <2>9. Sentence(lines, a)
    <3>1. Len(F) + 1 \in 1..Len(S)
      BY <2>2, <2>8
    <3> QED
      BY <1>1, <2>8, <3>1
  <2>10. Sentence(lines, t)
    <3>1. /\ Len(a) \in Nat /\ a # <<>> /\ Len(t) = Len(a) + 1 /\ t # <<>> /\ t[Len(a) + 1] = i
          /\ \A k \in 1..Len(a) : t[k] = a[k]
      <4>1. a \in Seq(P) /\ i \in P /\ a # <<>>
        BY <1>1, <2>2, <2>9 DEF Sentence
      <4> QED
        BY <4>1, OneMore
    <3>2. SameSentence(lines, a[Len(a)], i)
      BY <1>4, <2>3 DEF a
    <3> HIDE DEF t
    <3>3. ASSUME NEW k \in 1..Len(a) PROVE SameSentence(lines, t[k], t[k + 1])
      <4>1. CASE k = Len(a)
        BY <3>1, <3>2, <4>1
      <4>2. CASE k # Len(a)
        <5>1. k \in 1..(Len(a) - 1) /\ k + 1 \in 1..Len(a)
          BY <3>1, <4>2
        <5> QED
          BY <2>9, <3>1, <5>1 DEF Sentence
      <4> QED
        BY <4>1, <4>2
    <3>4. Len(t) - 1 = Len(a)
      BY <3>1
    <3> QED
      BY <3>1, <3>3, <3>4 DEF Sentence
  <2> HIDE DEF c, t
  <2>11. \A k \in 1..Len(c) : Sentence(lines, c[k])
    <3>1. \A k \in 1..Len(F) : k \in 1..Len(S)
      BY <2>2, <2>8
    <3> QED
      BY <1>1, <2>8, <2>10, <3>1
  <2> QED
    BY <1>1, <1>2, <1>3, <2>1, <2>4, <2>7, <2>8, <2>11 DEF SentencesOf, P, x
<1>5. CASE ~(S # <<>> /\ SameSentence(lines, Last(Last(S)), i))
  <2> DEFINE t == <<i>>
             c == Append(S, t)
  <2>1. AddLine(lines, S, i) = c
    BY <1>5 DEF AddLine
  <2>2. /\ LinesOf(c) = LinesOf(S) \cup ToSet(t)
        /\ InOrder(S) /\ Rising(t) /\ Before(LinesOf(S), ToSet(t)) => InOrder(c)
    BY <1>1, <1>2, OneMoreText
  <2>3. Joins(P, c, x)
    BY <1>1, <1>2, OneMorePart
  <2>4. Sentence(lines, t)
    <3>1. t # <<>> /\ 1..(Len(t) - 1) = {}
      OBVIOUS
    <3> QED
      BY <3>1 DEF Sentence
  <2>5. /\ Len(S) \in Nat /\ c \in Seq(Seq(P)) /\ Len(c) = Len(S) + 1 /\ c[Len(S) + 1] = t
        /\ \A k \in 1..Len(S) : c[k] = S[k]
        /\ \A k \in 1..(Len(S) + 1) : k \in 1..Len(S) \/ k = Len(S) + 1
    <3>1. t \in Seq(P)
      BY <1>2
    <3> HIDE DEF t
    <3> QED
      BY <1>1, <3>1
  <2> HIDE DEF c
  <2>6. \A k \in 1..Len(c) : Sentence(lines, c[k])
    BY <1>1, <2>4, <2>5
  <2> QED
    BY <1>1, <1>2, <1>3, <2>1, <2>2, <2>3, <2>5, <2>6 DEF SentencesOf, P, x
<1> QED
  BY <1>4, <1>5

\* Sentences goes through the lines one by one: h is the sentences so far
SentencesRun(h, lines, whole) ==
  /\ h \in [0..Len(whole) -> Seq(Seq(Positions(lines)))]
  /\ h[0] = <<>>
  /\ \A m \in 0..(Len(whole) - 1) : h[m + 1] = AddLine(lines, h[m], whole[m + 1])
  /\ Sentences(lines, whole) = h[Len(whole)]

\* The fold behind Sentences has such steps.
LEMMA SentencesRuns ==
  ASSUME NEW lines \in Seq(Lines), NEW whole \in Seq(Positions(lines))
  PROVE  \E h : SentencesRun(h, lines, whole)
<1> DEFINE N == Len(whole)
           P == Positions(lines)
           V == Seq(Seq(P))
           b == <<>>
           F == [p \in V \X (1..N) |-> AddLine(lines, p[1], whole[p[2]])]
           Eq(g) == g = [s \in SUBSET DOMAIN whole |->
                           IF s = {} THEN b ELSE AddLine(lines, g[s \ {Max(s)}], whole[Max(s)])]
           f == CHOOSE g : Eq(g)
<1>1. N \in Nat /\ DOMAIN whole = 1..N /\ \A i \in 1..N : whole[i] \in P
  OBVIOUS
<1>2. F \in [V \X (1..N) -> V]
  <2> SUFFICES ASSUME NEW v \in V, NEW i \in 1..N PROVE AddLine(lines, v, whole[i]) \in V
    <3> HIDE DEF V
    <3> QED
      OBVIOUS
  <2> DEFINE j == whole[i]
  <2>0. j \in P /\ v \in Seq(Seq(P))
    BY <1>1
  <2> HIDE DEF j, P
  <2>1. <<j>> \in Seq(P) /\ Append(v, <<j>>) \in V
    <3>1. <<j>> \in Seq(P)
      BY <2>0
    <3> QED
      BY <2>0, <3>1
  <2>2. v # <<>> => Append(Front(v), Append(Last(v), j)) \in V
    <3> SUFFICES ASSUME v # <<>> PROVE Append(Front(v), Append(Last(v), j)) \in V
      OBVIOUS
    <3> DEFINE a == Front(v)
               z == Last(v)
               t == Append(z, j)
    <3>1. a \in Seq(Seq(P)) /\ z \in Seq(P)
      BY <2>0, ButLast
    <3> HIDE DEF a, z
    <3>2. t \in Seq(P)
      BY <2>0, <3>1
    <3> HIDE DEF t
    <3>3. Append(a, t) \in V
      BY <3>1, <3>2
    <3> QED
      BY <3>3 DEF a, z, t
  <2> QED
    BY <2>1, <2>2 DEF AddLine, j
<1>3. b \in V
  OBVIOUS
<1>4. PICK g : SolvesFold(g, N, V, b, F)
  <2> HIDE DEF F, V, N, b
  <2> QED
    BY <1>1, <1>2, <1>3, FoldSolves, Zenon
<1>5. \A s \in SUBSET (1..N) : s # {} => Max(s) \in 1..N /\ s \ {Max(s)} \in SUBSET (1..N)
  BY <1>1, MaxIsGreatest
<1>6. \A v \in V, i \in 1..N : F[<<v, i>>] = AddLine(lines, v, whole[i])
  <2> HIDE DEF V, N
  <2> QED
    OBVIOUS
<1> HIDE DEF F, V, N, b
<1>7. Eq(g)
  <2>1. g = [s \in SUBSET (1..N) |-> g[s]]
    BY <1>4 DEF SolvesFold
  <2>2. ASSUME NEW s \in SUBSET (1..N)
        PROVE  g[s] = IF s = {} THEN b ELSE AddLine(lines, g[s \ {Max(s)}], whole[Max(s)])
    BY <1>4, <1>5, <1>6 DEF SolvesFold
  <2> QED
    BY <1>1, <2>1, <2>2
<1>8. Sentences(lines, whole) = f[DOMAIN whole]
  BY Zenon DEF Sentences, FoldLeft, MapThenFoldSet, b
<1>9. Eq(f)
  <2> HIDE DEF Eq
  <2> QED
    BY <1>7
<1> HIDE DEF f
<1>10. Unfolds(f, N, V, b, F)
  BY <1>1, <1>5, <1>6, <1>9 DEF Unfolds
<1>11. PICK h : FoldRun(h, N, V, b, F, f[1..N])
  BY <1>1, <1>2, <1>3, <1>10, FoldSteps, Zenon
<1>12. \A m \in 0..(N - 1) : h[m + 1] = AddLine(lines, h[m], whole[m + 1])
  <2>1. \A m \in 0..(N - 1) : m \in 0..N /\ m + 1 \in 1..N
    BY <1>1
  <2> QED
    BY <1>6, <1>11, <2>1 DEF FoldRun
<1>13. SentencesRun(h, lines, whole)
  BY <1>1, <1>8, <1>11, <1>12 DEF SentencesRun, FoldRun, V, N, b, P
<1> QED
  BY <1>13

\* A text is its sentences.
LEMMA TextIsSentences ==
  ASSUME NEW lines \in Seq(Lines), NEW whole \in Seq(Positions(lines))
  PROVE  SentencesOf(lines, whole, Sentences(lines, whole))
<1> DEFINE P == Positions(lines)
           N == Len(whole)
<1>1. N \in Nat /\ 0 \in 0..N /\ N \in 0..N /\ whole \in Seq(P) /\ SubSeq(whole, 1, N) = whole
      /\ SubSeq(whole, 1, 0) = <<>>
  OBVIOUS
<1>2. PICK h : SentencesRun(h, lines, whole)
  BY SentencesRuns
<1> HIDE DEF N, P
<1> DEFINE Q == {m \in 0..N : SentencesOf(lines, SubSeq(whole, 1, m), h[m])}
<1>3. 0 \in Q
  <2>1. h[0] = <<>>
    BY <1>2 DEF SentencesRun
  <2>2. Joins(P, <<>>, <<>>)
    <3> DEFINE g == [k \in 0..0 |-> <<>>]
    <3>1. Len(<<>>) = 0 /\ 0..(0 - 1) = {} /\ <<>> \in Seq(P) /\ 0 \in 0..0
      OBVIOUS
    <3>2. g \in [0..0 -> Seq(P)] /\ g[0] = <<>>
      BY <3>1
    <3> HIDE DEF g
    <3>3. Adds(g, <<>>, <<>>)
      BY <3>1, <3>2 DEF Adds
    <3> QED
      BY <3>1, <3>2, <3>3 DEF Joins
  <2>3. <<>> \in Seq(Seq(P)) /\ 1..Len(<<>>) = {}
    OBVIOUS
  <2>4. SentencesOf(lines, <<>>, <<>>)
    BY <2>2, <2>3, NoText DEF SentencesOf, P
  <2> QED
    BY <1>1, <2>1, <2>4
<1>4. ASSUME NEW m \in 0..(N - 1), m \in Q PROVE m + 1 \in Q
  <2> DEFINE a == SubSeq(whole, 1, m)
             i == whole[m + 1]
  <2>1. m \in 0..N /\ m + 1 \in 0..N /\ m \in 0..(Len(whole) - 1) /\ m + 1 \in 1..N
    BY <1>1 DEF N
  <2>2. h[m + 1] = AddLine(lines, h[m], i)
    BY <1>2, <2>1 DEF SentencesRun, N
  <2>3. SentencesOf(lines, a, h[m])
    BY <1>4
  <2>4. SubSeq(whole, 1, m + 1) = Append(a, i)
    BY <1>1, <2>1, BeginningGrows, Zenon
  <2>5. a \in Seq(P) /\ i \in P
    BY <1>1, <2>1 DEF N
  <2> HIDE DEF Q, a, i
  <2>6. SentencesOf(lines, Append(a, i), h[m + 1])
    BY <2>2, <2>3, <2>5, LineOfSentence DEF P
  <2> QED
    BY <2>1, <2>4, <2>6 DEF Q
<1>5. SentencesOf(lines, SubSeq(whole, 1, N), h[N])
  <2> HIDE DEF Q
  <2>1. \A m \in 0..N : m \in Q
    BY <1>1, <1>3, <1>4, InductTo
  <2> QED
    BY <1>1, <2>1 DEF Q
<1> QED
  BY <1>1, <1>2, <1>5 DEF SentencesRun, N

-----------------------------------------------------------------------------
(* Long texts are split *)

SplitStates(lines) ==
  [pieces : Seq(Seq(Positions(lines))), current : Seq(Positions(lines))]

\* SplitOversized goes through the sentences one by one: h is what it has so far
SplitRun(h, lines, sentences, split) ==
  /\ h \in [0..Len(sentences) -> SplitStates(lines)]
  /\ h[0] = [pieces |-> <<>>, current |-> <<>>]
  /\ \A m \in 0..(Len(sentences) - 1) : h[m + 1] = AddSentence(lines, h[m], sentences[m + 1])
  /\ split = Append(h[Len(sentences)].pieces, h[Len(sentences)].current)

\* One sentence more.
LEMMA SentenceAdded ==
  ASSUME NEW lines \in Seq(Lines), NEW s \in SplitStates(lines), NEW t \in Seq(Positions(lines))
  PROVE  AddSentence(lines, s, t) \in SplitStates(lines)
<1>1. s.pieces \in Seq(Seq(Positions(lines))) /\ s.current \in Seq(Positions(lines))
      /\ s = [pieces |-> s.pieces, current |-> s.current]
  BY DEF SplitStates
<1> DEFINE P == Positions(lines)
<1>2. Append(s.pieces, s.current) \in Seq(Seq(P)) /\ s.current \o t \in Seq(P)
  <2> HIDE DEF P
  <2>1. t \in Seq(P) /\ s.pieces \in Seq(Seq(P)) /\ s.current \in Seq(P)
    BY <1>1 DEF P
  <2> QED
    BY <2>1
<1>3. /\ [s EXCEPT !.current = @ \o t] \in SplitStates(lines)
      /\ [pieces |-> Append(s.pieces, s.current), current |-> t] \in SplitStates(lines)
  BY <1>1, <1>2 DEF SplitStates
<1> QED
  BY <1>3 DEF AddSentence

\* The fold behind SplitOversized has such steps.
LEMMA SplitRuns ==
  ASSUME NEW lines \in Seq(Lines), NEW whole \in Seq(Positions(lines))
  PROVE  \E h : SplitRun(h, lines, Sentences(lines, whole), SplitOversized(lines, whole))
<1> DEFINE sens == Sentences(lines, whole)
           N == Len(sens)
           V == SplitStates(lines)
           b == [pieces |-> <<>>, current |-> <<>>]
           F == [p \in V \X (1..N) |-> AddSentence(lines, p[1], sens[p[2]])]
           Eq(g) == g = [s \in SUBSET DOMAIN sens |->
                           IF s = {} THEN b ELSE AddSentence(lines, g[s \ {Max(s)}], sens[Max(s)])]
           f == CHOOSE g : Eq(g)
<1>0. sens \in Seq(Seq(Positions(lines)))
  BY TextIsSentences DEF SentencesOf
<1>8. SplitOversized(lines, whole) = Append(f[DOMAIN sens].pieces, f[DOMAIN sens].current)
  BY Zenon DEF SplitOversized, FoldLeft, MapThenFoldSet, b
<1> HIDE DEF sens
<1>1. N \in Nat /\ DOMAIN sens = 1..N /\ \A i \in 1..N : sens[i] \in Seq(Positions(lines))
  BY <1>0
<1>2. F \in [V \X (1..N) -> V]
  <2> HIDE DEF V
  <2> SUFFICES ASSUME NEW v \in V, NEW i \in 1..N PROVE AddSentence(lines, v, sens[i]) \in V
    OBVIOUS
  <2> QED
    BY <1>1, SentenceAdded DEF V
<1>3. b \in V
  BY DEF SplitStates
<1>4. PICK g : SolvesFold(g, N, V, b, F)
  <2> HIDE DEF F, V, N, b
  <2> QED
    BY <1>1, <1>2, <1>3, FoldSolves, Zenon
<1>5. \A s \in SUBSET (1..N) : s # {} => Max(s) \in 1..N /\ s \ {Max(s)} \in SUBSET (1..N)
  BY <1>1, MaxIsGreatest
<1>6. \A v \in V, i \in 1..N : F[<<v, i>>] = AddSentence(lines, v, sens[i])
  <2> HIDE DEF V, N
  <2> QED
    OBVIOUS
<1> HIDE DEF F, V, N, b
<1>7. Eq(g)
  <2>1. g = [s \in SUBSET (1..N) |-> g[s]]
    BY <1>4 DEF SolvesFold
  <2>2. ASSUME NEW s \in SUBSET (1..N)
        PROVE  g[s] = IF s = {} THEN b ELSE AddSentence(lines, g[s \ {Max(s)}], sens[Max(s)])
    BY <1>4, <1>5, <1>6 DEF SolvesFold
  <2> QED
    BY <1>1, <2>1, <2>2
<1>9. Eq(f)
  <2> HIDE DEF Eq
  <2> QED
    BY <1>7
<1> HIDE DEF f
<1>10. Unfolds(f, N, V, b, F)
  BY <1>1, <1>5, <1>6, <1>9 DEF Unfolds
<1>11. PICK h : FoldRun(h, N, V, b, F, f[1..N])
  BY <1>1, <1>2, <1>3, <1>10, FoldSteps, Zenon
<1>12. \A m \in 0..(N - 1) : h[m + 1] = AddSentence(lines, h[m], sens[m + 1])
  <2>1. \A m \in 0..(N - 1) : m \in 0..N /\ m + 1 \in 1..N
    BY <1>1
  <2> QED
    BY <1>6, <1>11, <2>1 DEF FoldRun
<1>13. SplitRun(h, lines, sens, SplitOversized(lines, whole))
  BY <1>1, <1>8, <1>11, <1>12 DEF SplitRun, FoldRun, V, N, b
<1> QED
  BY <1>13 DEF sens

-----------------------------------------------------------------------------
(* Pieces become units *)

Kinds == {"paragraph", "list", "table", "code"}
UnitsOf(lines) == [kind : Kinds, text : Seq(Positions(lines)), path : Seq(STRING)]

\* One piece more.
LEMMA UnitAdded ==
  ASSUME NEW lines \in Seq(Lines), NEW units \in Seq(UnitsOf(lines)),
         NEW t \in Seq(Positions(lines)), NEW kind \in Kinds, NEW path \in Seq(STRING)
  PROVE  AddUnit(lines, units, t, kind, path) \in Seq(UnitsOf(lines))
<1> DEFINE U == UnitsOf(lines)
<1>1. CASE Foldable(lines, units, t, path)
  <2>1. units # <<>>
    BY <1>1 DEF Foldable
  <2>2. Front(units) \in Seq(U) /\ Last(units) \in U
    BY <2>1, ButLast
  <2>3. [Last(units) EXCEPT !.text = @ \o t] \in U
    <3>1. Last(units).text \o t \in Seq(Positions(lines))
      <4>1. Last(units).text \in Seq(Positions(lines))
        BY <2>2 DEF UnitsOf
      <4> QED
        BY <4>1
    <3> QED
      BY <2>2, <3>1 DEF UnitsOf
  <2> HIDE DEF U
  <2>4. Append(Front(units), [Last(units) EXCEPT !.text = @ \o t]) \in Seq(U)
    BY <2>2, <2>3
  <2> QED
    BY <1>1, <2>4 DEF AddUnit, U
<1>2. CASE ~Foldable(lines, units, t, path)
  <2>1. [kind |-> kind, text |-> t, path |-> path] \in U
    BY DEF UnitsOf
  <2> HIDE DEF U
  <2>2. Append(units, [kind |-> kind, text |-> t, path |-> path]) \in Seq(U)
    BY <2>1 DEF U
  <2> QED
    BY <1>2, <2>2 DEF AddUnit, U
<1> QED
  BY <1>1, <1>2

\* AddPieces goes through the pieces one by one: h is the units so far
PiecesRun(h, lines, units, pieces, kind, path) ==
  /\ h \in [0..Len(pieces) -> Seq(UnitsOf(lines))]
  /\ h[0] = units
  /\ \A m \in 0..(Len(pieces) - 1) : h[m + 1] = AddUnit(lines, h[m], pieces[m + 1], kind, path)
  /\ AddPieces(lines, units, pieces, kind, path) = h[Len(pieces)]

\* The fold behind AddPieces has such steps.
LEMMA PiecesRuns ==
  ASSUME NEW lines \in Seq(Lines), NEW units \in Seq(UnitsOf(lines)),
         NEW pieces \in Seq(Seq(Positions(lines))), NEW kind \in Kinds, NEW path \in Seq(STRING)
  PROVE  \E h : PiecesRun(h, lines, units, pieces, kind, path)
<1> DEFINE N == Len(pieces)
           V == Seq(UnitsOf(lines))
           b == units
           F == [p \in V \X (1..N) |-> AddUnit(lines, p[1], pieces[p[2]], kind, path)]
           Eq(g) == g = [s \in SUBSET DOMAIN pieces |->
                           IF s = {} THEN b ELSE AddUnit(lines, g[s \ {Max(s)}], pieces[Max(s)], kind, path)]
           f == CHOOSE g : Eq(g)
<1>1. N \in Nat /\ DOMAIN pieces = 1..N /\ \A i \in 1..N : pieces[i] \in Seq(Positions(lines))
  OBVIOUS
<1>2. F \in [V \X (1..N) -> V]
  <2> HIDE DEF V
  <2> SUFFICES ASSUME NEW v \in V, NEW i \in 1..N PROVE AddUnit(lines, v, pieces[i], kind, path) \in V
    OBVIOUS
  <2> QED
    BY <1>1, UnitAdded DEF V
<1>3. b \in V
  OBVIOUS
<1>4. PICK g : SolvesFold(g, N, V, b, F)
  <2> HIDE DEF F, V, N, b
  <2> QED
    BY <1>1, <1>2, <1>3, FoldSolves, Zenon
<1>5. \A s \in SUBSET (1..N) : s # {} => Max(s) \in 1..N /\ s \ {Max(s)} \in SUBSET (1..N)
  BY <1>1, MaxIsGreatest
<1>6. \A v \in V, i \in 1..N : F[<<v, i>>] = AddUnit(lines, v, pieces[i], kind, path)
  <2> HIDE DEF V, N
  <2> QED
    OBVIOUS
<1> HIDE DEF F, V, N, b
<1>7. Eq(g)
  <2>1. g = [s \in SUBSET (1..N) |-> g[s]]
    BY <1>4 DEF SolvesFold
  <2>2. ASSUME NEW s \in SUBSET (1..N)
        PROVE  g[s] = IF s = {} THEN b ELSE AddUnit(lines, g[s \ {Max(s)}], pieces[Max(s)], kind, path)
    BY <1>4, <1>5, <1>6 DEF SolvesFold
  <2> QED
    BY <1>1, <2>1, <2>2
<1>8. AddPieces(lines, units, pieces, kind, path) = f[DOMAIN pieces]
  BY Zenon DEF AddPieces, FoldLeft, MapThenFoldSet, b
<1>9. Eq(f)
  <2> HIDE DEF Eq
  <2> QED
    BY <1>7
<1> HIDE DEF f
<1>10. Unfolds(f, N, V, b, F)
  BY <1>1, <1>5, <1>6, <1>9 DEF Unfolds
<1>11. PICK h : FoldRun(h, N, V, b, F, f[1..N])
  BY <1>1, <1>2, <1>3, <1>10, FoldSteps, Zenon
<1>12. \A m \in 0..(N - 1) : h[m + 1] = AddUnit(lines, h[m], pieces[m + 1], kind, path)
  <2>1. \A m \in 0..(N - 1) : m \in 0..N /\ m + 1 \in 1..N
    BY <1>1
  <2> QED
    BY <1>6, <1>11, <2>1 DEF FoldRun
<1>13. PiecesRun(h, lines, units, pieces, kind, path)
  BY <1>1, <1>8, <1>11, <1>12 DEF PiecesRun, FoldRun, V, N, b
<1> QED
  BY <1>13

\* What a text is cut into are texts.
LEMMA PiecesAreTexts ==
  ASSUME NEW lines \in Seq(Lines), NEW t \in Seq(Positions(lines))
  PROVE  Pieces(lines, t) \in Seq(Seq(Positions(lines)))
<1> DEFINE T == Seq(Positions(lines))
<1>1. <<t>> \in Seq(T)
  <2> HIDE DEF T
  <2>1. t \in T
    BY DEF T
  <2> QED
    BY <2>1
<1>2. SplitOversized(lines, t) \in Seq(T)
  <2> DEFINE sens == Sentences(lines, t)
             N == Len(sens)
  <2>1. PICK h : SplitRun(h, lines, sens, SplitOversized(lines, t))
    BY SplitRuns
  <2>0. sens \in Seq(T)
    BY TextIsSentences DEF SentencesOf
  <2> HIDE DEF sens
  <2>2. N \in 0..N
    <3> HIDE DEF T
    <3> QED
      BY <2>0
  <2>3. h[N] \in SplitStates(lines)
    BY <2>1, <2>2 DEF SplitRun
  <2>4. h[N].pieces \in Seq(T) /\ h[N].current \in T
    BY <2>3 DEF SplitStates
  <2>5. SplitOversized(lines, t) = Append(h[N].pieces, h[N].current)
    BY <2>1 DEF SplitRun
  <2> HIDE DEF T
  <2> QED
    BY <2>4, <2>5
<1> QED
  BY <1>1, <1>2 DEF Pieces

-----------------------------------------------------------------------------
(* Blocks become pieces, headings make the path *)

ProseBlocks(lines) ==
  [kind : Kinds, text : Seq(Positions(lines)), title : {""}, level : {0}]
HeadingBlocks(lines) ==
  [kind : {"heading"}, text : Seq(Positions(lines)), title : STRING, level : Nat]
BlocksOf(lines) == ProseBlocks(lines) \cup HeadingBlocks(lines)

SegmentStates(lines) ==
  [units : Seq(UnitsOf(lines)), path : Seq(STRING), pending : Seq(ProseBlocks(lines)),
   full : BOOLEAN]

\* What is collected is a text.
LEMMA CollectedIsText ==
  ASSUME NEW lines \in Seq(Lines), NEW blocks \in Seq(ProseBlocks(lines))
  PROVE  TextOf(blocks) \in Seq(Positions(lines)) /\ TextsOf(blocks) \in Seq(Seq(Positions(lines)))
         /\ TextOf(blocks) = FlattenSeq(TextsOf(blocks))
<1> DEFINE P == Positions(lines)
           N == Len(blocks)
<1>1. N \in Nat /\ DOMAIN blocks = 1..N /\ \A i \in 1..N : blocks[i] \in ProseBlocks(lines)
  OBVIOUS
<1>2. \A i \in 1..N : blocks[i].text \in Seq(P)
  BY <1>1 DEF ProseBlocks
<1>3. TextsOf(blocks) = [k \in 1..N |-> blocks[k].text]
  BY <1>1 DEF TextsOf
<1> HIDE DEF N, P
<1>4. TextsOf(blocks) \in Seq(Seq(P))
  BY <1>1, <1>2, <1>3
<1>5. P \subseteq Nat
  BY DEF P, Positions
<1>6. FlattenSeq(TextsOf(blocks)) \in Seq(P)
  BY <1>4, <1>5, Flattened
<1> QED
  BY <1>4, <1>6 DEF P, TextOf, TextsOf

\* Emitting what is collected.
LEMMA Emitted ==
  ASSUME NEW lines \in Seq(Lines), NEW s \in SegmentStates(lines)
  PROVE  /\ Emit(lines, s) \in SegmentStates(lines)
         /\ Emit(lines, s).pending = <<>> /\ Emit(lines, s).path = s.path
         /\ Emit(lines, s).full = s.full
         /\ s.pending = <<>> => Emit(lines, s).units = s.units
         /\ s.pending # <<>> =>
              /\ Head(s.pending).kind \in Kinds
              /\ Emit(lines, s).units =
                   AddPieces(lines, s.units, Pieces(lines, TextOf(s.pending)), Head(s.pending).kind, s.path)
<1>1. /\ s = [units |-> s.units, path |-> s.path, pending |-> s.pending, full |-> s.full]
      /\ s.units \in Seq(UnitsOf(lines)) /\ s.path \in Seq(STRING)
      /\ s.pending \in Seq(ProseBlocks(lines)) /\ s.full \in BOOLEAN
  BY DEF SegmentStates
<1>2. CASE s.pending = <<>>
  BY <1>1, <1>2 DEF Emit
<1>3. CASE s.pending # <<>>
  <2> DEFINE new == AddPieces(lines, s.units, Pieces(lines, TextOf(s.pending)),
                              Head(s.pending).kind, s.path)
  <2>1. Head(s.pending) \in ProseBlocks(lines)
    <3> HIDE DEF new
    <3> QED
      BY <1>1, <1>3
  <2>2. Head(s.pending).kind \in Kinds
    BY <2>1 DEF ProseBlocks
  <2>3. Pieces(lines, TextOf(s.pending)) \in Seq(Seq(Positions(lines)))
    BY <1>1, CollectedIsText, PiecesAreTexts
  <2>4. new \in Seq(UnitsOf(lines))
    <3> DEFINE pieces == Pieces(lines, TextOf(s.pending))
               kind == Head(s.pending).kind
    <3>1. PICK h : PiecesRun(h, lines, s.units, pieces, kind, s.path)
      <4> HIDE DEF pieces, kind
      <4>1. pieces \in Seq(Seq(Positions(lines))) /\ kind \in Kinds
        BY <2>2, <2>3 DEF pieces, kind
      <4> QED
        BY <1>1, <4>1, PiecesRuns
    <3>2. Len(pieces) \in 0..Len(pieces)
      BY <2>3
    <3> HIDE DEF pieces, kind
    <3>3. AddPieces(lines, s.units, pieces, kind, s.path) \in Seq(UnitsOf(lines))
      BY <3>1, <3>2 DEF PiecesRun
    <3> QED
      BY <3>3 DEF pieces, kind
  <2>5. Emit(lines, s) = [s EXCEPT !.units = new, !.pending = <<>>]
    BY <1>3 DEF Emit
  <2>6. <<>> \in Seq(ProseBlocks(lines))
    OBVIOUS
  <2> HIDE DEF new
  <2>7. Emit(lines, s) = [units |-> new, path |-> s.path, pending |-> <<>>, full |-> s.full]
    BY <1>1, <2>5
  <2>8. Emit(lines, s) \in SegmentStates(lines)
    BY <1>1, <2>4, <2>6, <2>7 DEF SegmentStates
  <2> QED
    BY <1>3, <2>2, <2>7, <2>8 DEF new
<1> QED
  BY <1>2, <1>3

\* A path cut at a level, with a title added
Replaced(path, new, level, title) ==
  /\ new \in Seq(STRING) /\ new # <<>> /\ Last(new) = title
  /\ level # 0 /\ level - 1 <= Len(path) =>
       /\ Len(new) = level /\ new[level] = title
       /\ \A k \in 1..(level - 1) : new[k] = path[k]

\* A heading cuts the path at its level and adds its title.
LEMMA PathUnder ==
  ASSUME NEW path \in Seq(STRING), NEW level \in Nat, NEW title \in STRING, NEW heading,
         heading.level = level, heading.title = title
  PROVE  Replaced(path, Under(path, heading), level, title)
<1> DEFINE m == Min({level - 1, Len(path)})
           front == SubSeq(path, 1, m)
<1>1. Len(path) \in Nat
  OBVIOUS
<1>2. m \in {level - 1, Len(path)} /\ m <= level - 1 /\ m <= Len(path)
  <2>1. \E x \in {level - 1, Len(path)} : \A y \in {level - 1, Len(path)} : x <= y
    BY <1>1
  <2> QED
    BY <2>1 DEF Min
<1> HIDE DEF m
<1>3. /\ front \in Seq(STRING) /\ \A k \in 1..m : front[k] = path[k]
      /\ Len(front) = IF 1 <= m THEN m ELSE 0
  <2>1. m \in Int /\ \A k \in 1..m : path[k] \in STRING
    BY <1>1, <1>2
  <2> QED
    BY <2>1
<1>4. Under(path, heading) = Append(front, title)
  BY DEF Under, m
<1> HIDE DEF front
<1>5. /\ Append(front, title) \in Seq(STRING) /\ Len(Append(front, title)) = Len(front) + 1
      /\ Append(front, title)[Len(front) + 1] = title /\ Len(front) \in Nat
      /\ \A k \in 1..Len(front) : Append(front, title)[k] = front[k]
      /\ Append(front, title) # <<>>
  BY <1>3, OneMore
<1>6. Last(Append(front, title)) = title
  BY <1>5 DEF Last
<1>7. level # 0 /\ level - 1 <= Len(path) => m = level - 1 /\ Len(front) = level - 1
  BY <1>1, <1>2, <1>3
<1> QED
  BY <1>3, <1>4, <1>5, <1>6, <1>7 DEF Replaced

\* One block more: a heading ends what was collected, prose is collected and
\* emitted when it is enough.
LEMMA BlockAdded ==
  ASSUME NEW lines \in Seq(Lines), NEW s \in SegmentStates(lines), NEW block \in BlocksOf(lines)
  PROVE  /\ AddBlock(lines, s, block) \in SegmentStates(lines)
         /\ s.full => AddBlock(lines, s, block) = s
         /\ ~s.full /\ block.kind = "heading" =>
              /\ AddBlock(lines, s, block).units = Emit(lines, s).units
              /\ AddBlock(lines, s, block).pending = <<>>
              /\ AddBlock(lines, s, block).path = Under(s.path, block)
              /\ ~AddBlock(lines, s, block).full
         /\ ~s.full /\ block.kind # "heading" =>
              LET collected == [s EXCEPT !.pending = Append(@, block)]
                  next == IF TokensIn(lines, TextOf(collected.pending)) >= MergeBelowTokens
                          THEN Emit(lines, collected) ELSE collected
              IN /\ collected \in SegmentStates(lines)
                 /\ collected.units = s.units /\ collected.path = s.path
                 /\ collected.pending = Append(s.pending, block)
                 /\ AddBlock(lines, s, block).units = next.units
                 /\ AddBlock(lines, s, block).pending = next.pending
                 /\ AddBlock(lines, s, block).path = s.path
                 /\ AddBlock(lines, s, block).full = (Len(next.units) >= MaxUnits)
<1>1. /\ s = [units |-> s.units, path |-> s.path, pending |-> s.pending, full |-> s.full]
      /\ s.units \in Seq(UnitsOf(lines)) /\ s.path \in Seq(STRING)
      /\ s.pending \in Seq(ProseBlocks(lines)) /\ s.full \in BOOLEAN
  BY DEF SegmentStates
<1>2. CASE s.full
  BY <1>2 DEF AddBlock
<1>3. CASE ~s.full /\ block.kind = "heading"
  <2> DEFINE e == Emit(lines, s)
             path == Under(s.path, block)
  <2>1. e \in SegmentStates(lines) /\ e.pending = <<>> /\ e.path = s.path /\ e.full = s.full
    BY Emitted
  <2>2. block.level \in Nat /\ block.title \in STRING
    BY <1>3 DEF BlocksOf, ProseBlocks, HeadingBlocks, Kinds
  <2>3. path \in Seq(STRING)
    BY <1>1, <2>2, PathUnder DEF Replaced
  <2>4. AddBlock(lines, s, block) = [e EXCEPT !.path = Under(e.path, block)]
    BY <1>3 DEF AddBlock
  <2> HIDE DEF e
  <2>5. AddBlock(lines, s, block) = [e EXCEPT !.path = path]
    BY <2>1, <2>4
  <2> HIDE DEF path
  <2>6. [e EXCEPT !.path = path] = [units |-> e.units, path |-> path, pending |-> <<>>, full |-> s.full]
    <3>1. e = [units |-> e.units, path |-> e.path, pending |-> e.pending, full |-> e.full]
      BY <2>1 DEF SegmentStates
    <3> DEFINE u == e.units
    <3>2. e = [units |-> u, path |-> s.path, pending |-> <<>>, full |-> s.full]
      BY <2>1, <3>1
    <3> HIDE DEF u
    <3>3. [e EXCEPT !.path = path] = [units |-> u, path |-> path, pending |-> <<>>, full |-> s.full]
      BY <3>2
    <3> QED
      BY <3>3 DEF u
  <2>7. AddBlock(lines, s, block) \in SegmentStates(lines)
    BY <2>1, <2>3, <2>5 DEF SegmentStates
  <2> QED
    BY <1>3, <2>5, <2>6, <2>7 DEF e, path
<1>4. CASE ~s.full /\ block.kind # "heading"
  <2> DEFINE pending == Append(s.pending, block)
             collected == [s EXCEPT !.pending = Append(@, block)]
             next == IF TokensIn(lines, TextOf(collected.pending)) >= MergeBelowTokens
                     THEN Emit(lines, collected) ELSE collected
             full == Len(next.units) >= MaxUnits
  <2>1. block \in ProseBlocks(lines)
    BY <1>4 DEF BlocksOf, HeadingBlocks
  <2>2. pending \in Seq(ProseBlocks(lines))
    <3> DEFINE B == ProseBlocks(lines)
    <3>1. block \in B /\ s.pending \in Seq(B)
      BY <1>1, <2>1
    <3> HIDE DEF B
    <3>2. pending \in Seq(B)
      BY <3>1
    <3> QED
      BY <3>2 DEF B
  <2> HIDE DEF pending
  <2>3. collected = [units |-> s.units, path |-> s.path, pending |-> pending, full |-> s.full]
    <3>1. collected = [s EXCEPT !.pending = pending]
      BY <1>1 DEF pending
    <3> HIDE DEF collected
    <3> QED
      BY <1>1, <3>1
  <2>4. collected \in SegmentStates(lines)
    BY <1>1, <2>2, <2>3 DEF SegmentStates
  <2> HIDE DEF collected
  <2>5. next \in SegmentStates(lines) /\ next.path = s.path
    BY <2>3, <2>4, Emitted
  <2>6. AddBlock(lines, s, block) = [next EXCEPT !.full = full]
    BY <1>4 DEF AddBlock, collected
  <2> HIDE DEF next
  <2>7. full \in BOOLEAN
    OBVIOUS
  <2> HIDE DEF full
  <2>8. [next EXCEPT !.full = full] =
          [units |-> next.units, path |-> s.path, pending |-> next.pending, full |-> full]
    <3>1. next = [units |-> next.units, path |-> next.path, pending |-> next.pending,
                  full |-> next.full]
      BY <2>5 DEF SegmentStates
    <3> DEFINE u == next.units
               q == next.pending
    <3>2. next = [units |-> u, path |-> s.path, pending |-> q, full |-> next.full]
      BY <2>5, <3>1
    <3> HIDE DEF u, q
    <3>3. [next EXCEPT !.full = full] = [units |-> u, path |-> s.path, pending |-> q, full |-> full]
      BY <3>2
    <3> QED
      BY <3>3 DEF u, q
  <2>9. AddBlock(lines, s, block) \in SegmentStates(lines)
    BY <2>5, <2>6, <2>7 DEF SegmentStates
  <2>10. /\ AddBlock(lines, s, block).units = next.units
         /\ AddBlock(lines, s, block).pending = next.pending
         /\ AddBlock(lines, s, block).path = s.path
         /\ AddBlock(lines, s, block).full = full
    BY <2>6, <2>8
  <2>11. collected.units = s.units /\ collected.path = s.path /\ collected.pending = pending
    BY <2>3
  <2> QED
    BY <1>4, <2>4, <2>9, <2>10, <2>11 DEF full, next, collected, pending
<1> QED
  BY <1>1, <1>2, <1>3, <1>4

\* Segment goes through the blocks one by one: h is its state so far
SegmentRun(h, lines, blocks) ==
  /\ h \in [0..Len(blocks) -> SegmentStates(lines)]
  /\ h[0] = Unsegmented
  /\ \A m \in 0..(Len(blocks) - 1) : h[m + 1] = AddBlock(lines, h[m], blocks[m + 1])
  /\ Segment(lines, blocks) = Emit(lines, h[Len(blocks)]).units

\* The fold behind Segment has such steps.
LEMMA SegmentRuns ==
  ASSUME NEW lines \in Seq(Lines), NEW blocks \in Seq(BlocksOf(lines))
  PROVE  \E h : SegmentRun(h, lines, blocks)
<1> DEFINE N == Len(blocks)
           V == SegmentStates(lines)
           b == Unsegmented
           F == [p \in V \X (1..N) |-> AddBlock(lines, p[1], blocks[p[2]])]
           Eq(g) == g = [s \in SUBSET DOMAIN blocks |->
                           IF s = {} THEN b ELSE AddBlock(lines, g[s \ {Max(s)}], blocks[Max(s)])]
           f == CHOOSE g : Eq(g)
<1>1. N \in Nat /\ DOMAIN blocks = 1..N /\ \A i \in 1..N : blocks[i] \in BlocksOf(lines)
  OBVIOUS
<1>2. F \in [V \X (1..N) -> V]
  <2> HIDE DEF V
  <2> SUFFICES ASSUME NEW v \in V, NEW i \in 1..N PROVE AddBlock(lines, v, blocks[i]) \in V
    OBVIOUS
  <2> QED
    BY <1>1, BlockAdded DEF V
<1>3. b \in V
  BY DEF Unsegmented, SegmentStates
<1>4. PICK g : SolvesFold(g, N, V, b, F)
  <2> HIDE DEF F, V, N, b
  <2> QED
    BY <1>1, <1>2, <1>3, FoldSolves, Zenon
<1>5. \A s \in SUBSET (1..N) : s # {} => Max(s) \in 1..N /\ s \ {Max(s)} \in SUBSET (1..N)
  BY <1>1, MaxIsGreatest
<1>6. \A v \in V, i \in 1..N : F[<<v, i>>] = AddBlock(lines, v, blocks[i])
  <2> HIDE DEF V, N
  <2> QED
    OBVIOUS
<1> HIDE DEF F, V, N, b
<1>7. Eq(g)
  <2>1. g = [s \in SUBSET (1..N) |-> g[s]]
    BY <1>4 DEF SolvesFold
  <2>2. ASSUME NEW s \in SUBSET (1..N)
        PROVE  g[s] = IF s = {} THEN b ELSE AddBlock(lines, g[s \ {Max(s)}], blocks[Max(s)])
    BY <1>4, <1>5, <1>6 DEF SolvesFold
  <2> QED
    BY <1>1, <2>1, <2>2
<1>8. Segment(lines, blocks) = Emit(lines, f[DOMAIN blocks]).units
  BY Zenon DEF Segment, FoldLeft, MapThenFoldSet, b
<1>9. Eq(f)
  <2> HIDE DEF Eq
  <2> QED
    BY <1>7
<1> HIDE DEF f
<1>10. Unfolds(f, N, V, b, F)
  BY <1>1, <1>5, <1>6, <1>9 DEF Unfolds
<1>11. PICK h : FoldRun(h, N, V, b, F, f[1..N])
  BY <1>1, <1>2, <1>3, <1>10, FoldSteps, Zenon
<1>12. \A m \in 0..(N - 1) : h[m + 1] = AddBlock(lines, h[m], blocks[m + 1])
  <2>1. \A m \in 0..(N - 1) : m \in 0..N /\ m + 1 \in 1..N
    BY <1>1
  <2> QED
    BY <1>6, <1>11, <2>1 DEF FoldRun
<1>13. SegmentRun(h, lines, blocks)
  BY <1>1, <1>8, <1>11, <1>12 DEF SegmentRun, FoldRun, V, N, b
<1> QED
  BY <1>13

-----------------------------------------------------------------------------
(* Lines become blocks *)

ReadStates(lines) ==
  [blocks : Seq(BlocksOf(lines)), buffer : Seq(Positions(lines)), kind : Kinds,
   fenced : BOOLEAN, skip : BOOLEAN]

\* What is buffered becomes a block.
LEMMA Flushed ==
  ASSUME NEW lines \in Seq(Lines), NEW s \in ReadStates(lines)
  PROVE  /\ Flush(s) \in ReadStates(lines) /\ Flush(s).buffer = <<>>
         /\ Flush(s).fenced = s.fenced /\ Flush(s).skip = s.skip
         /\ s.buffer = <<>> => Flush(s) = s
         /\ s.buffer # <<>> =>
              /\ [kind |-> s.kind, text |-> s.buffer, title |-> "", level |-> 0] \in ProseBlocks(lines)
              /\ Flush(s).blocks =
                   Append(s.blocks, [kind |-> s.kind, text |-> s.buffer, title |-> "", level |-> 0])
<1>1. /\ s = [blocks |-> s.blocks, buffer |-> s.buffer, kind |-> s.kind,
              fenced |-> s.fenced, skip |-> s.skip]
      /\ s.blocks \in Seq(BlocksOf(lines)) /\ s.buffer \in Seq(Positions(lines))
      /\ s.kind \in Kinds /\ s.fenced \in BOOLEAN /\ s.skip \in BOOLEAN
  BY DEF ReadStates
<1>2. CASE s.buffer = <<>>
  BY <1>2 DEF Flush
<1>3. CASE s.buffer # <<>>
  <2> DEFINE block == [kind |-> s.kind, text |-> s.buffer, title |-> "", level |-> 0]
             B == BlocksOf(lines)
             blocks == Append(s.blocks, block)
  <2>1. block \in ProseBlocks(lines)
    BY <1>1 DEF ProseBlocks
  <2>2. block \in B /\ s.blocks \in Seq(B)
    BY <1>1, <2>1 DEF BlocksOf
  <2>3. Flush(s) = [s EXCEPT !.blocks = blocks, !.buffer = <<>>, !.kind = "paragraph"]
    BY <1>3 DEF Flush
  <2> HIDE DEF block, B
  <2>4. blocks \in Seq(B)
    BY <2>2
  <2> HIDE DEF blocks
  <2>5. Flush(s) = [blocks |-> blocks, buffer |-> <<>>, kind |-> "paragraph",
                    fenced |-> s.fenced, skip |-> s.skip]
    BY <1>1, <2>3
  <2>6. <<>> \in Seq(Positions(lines)) /\ "paragraph" \in Kinds
    BY DEF Kinds
  <2>7. Flush(s) \in ReadStates(lines)
    BY <1>1, <2>4, <2>5, <2>6 DEF ReadStates, B
  <2> QED
    <3>1. /\ Flush(s).buffer = <<>> /\ Flush(s).fenced = s.fenced /\ Flush(s).skip = s.skip
          /\ Flush(s).blocks = blocks
      BY <2>5
    <3> QED
      BY <1>3, <2>1, <2>7, <3>1 DEF block, blocks
<1> QED
  BY <1>2, <1>3

\* A block of prose holds the line
InProse(blocks, i) == \E k \in DOMAIN blocks : blocks[k].kind # "heading" /\ i \in ToSet(blocks[k].text)

\* A heading is one line, with its title and its level
HeadingsNamed(lines, blocks) ==
  \A k \in DOMAIN blocks : blocks[k].kind = "heading" =>
    \E i \in Positions(lines) : /\ blocks[k].text = <<i>> /\ blocks[k].title = lines[i].title
                                /\ blocks[k].level = HeadingLevel(lines, i) /\ blocks[k].level # 0

\* What the first m lines have become: in order, and no prose of them is missing
Kept(lines, m, blocks, buffer) ==
  /\ InOrder(TextsOf(blocks)) /\ LinesOf(TextsOf(blocks)) \subseteq 1..m
  /\ Rising(buffer) /\ ToSet(buffer) \subseteq 1..m
  /\ Before(LinesOf(TextsOf(blocks)), ToSet(buffer))
  /\ HeadingsNamed(lines, blocks)
  /\ \A i \in 1..m : i \in Prose(lines) => i \in ToSet(buffer) \/ InProse(blocks, i)

\* The texts of blocks.
LEMMA BlocksHaveTexts ==
  ASSUME NEW lines, NEW blocks \in Seq(BlocksOf(lines)), NEW block \in BlocksOf(lines)
  PROVE  /\ Positions(lines) \subseteq Nat /\ block.text \in Seq(Positions(lines))
         /\ TextsOf(blocks) \in Seq(Seq(Positions(lines)))
         /\ TextsOf(Append(blocks, block)) = Append(TextsOf(blocks), block.text)
         /\ LinesOf(TextsOf(Append(blocks, block))) = LinesOf(TextsOf(blocks)) \cup ToSet(block.text)
         /\ (InOrder(TextsOf(blocks)) /\ Rising(block.text) /\ Before(LinesOf(TextsOf(blocks)), ToSet(block.text))
              => InOrder(TextsOf(Append(blocks, block))))
<1> DEFINE P == Positions(lines)
           B == BlocksOf(lines)
<1>1. P \subseteq Nat
  BY DEF Positions
<1>2. \A x \in B : x.text \in Seq(P)
  BY DEF BlocksOf, ProseBlocks, HeadingBlocks
<1>3. blocks \in Seq(B) /\ block \in B
  OBVIOUS
<1> HIDE DEF P, B
<1> DEFINE T == TextsOf(blocks)
           t == block.text
           new == TextsOf(Append(blocks, block))
<1>4. T \in Seq(Seq(P)) /\ new = Append(T, t)
  <2>1. TextsOf(blocks) \in Seq(Seq(P))
    BY <1>2, <1>3, TextsOfOneMore
  <2>2. TextsOf(Append(blocks, block)) = Append(TextsOf(blocks), block.text)
    BY <1>2, <1>3, TextsOfOneMore, ZenonT(60)
  <2> QED
    BY <2>1, <2>2, Zenon
<1>5. t \in Seq(P)
  BY <1>2, <1>3
<1> HIDE DEF T, t, new
<1>6. /\ LinesOf(new) = LinesOf(T) \cup ToSet(t)
      /\ InOrder(T) /\ Rising(t) /\ Before(LinesOf(T), ToSet(t)) => InOrder(new)
  BY <1>1, <1>4, <1>5, OneMoreText
<1>7. TextsOf(Append(blocks, block)) = Append(TextsOf(blocks), block.text)
  BY <1>4, Zenon DEF T, t, new
<1>8. P \subseteq Nat /\ block.text \in Seq(P) /\ TextsOf(blocks) \in Seq(Seq(P))
  BY <1>1, <1>4, <1>5 DEF T, t
<1>9. /\ LinesOf(TextsOf(Append(blocks, block))) = LinesOf(TextsOf(blocks)) \cup ToSet(block.text)
      /\ (InOrder(TextsOf(blocks)) /\ Rising(block.text) /\ Before(LinesOf(TextsOf(blocks)), ToSet(block.text))
           => InOrder(TextsOf(Append(blocks, block))))
  BY <1>6 DEF T, t, new
<1> QED
  BY <1>7, <1>8, <1>9, Zenon DEF P

\* A block more holds what it holds.
LEMMA MoreProse ==
  ASSUME NEW lines \in Seq(Lines), NEW blocks \in Seq(BlocksOf(lines)), NEW block \in BlocksOf(lines)
  PROVE  /\ \A i : InProse(blocks, i) => InProse(Append(blocks, block), i)
         /\ block.kind # "heading" => \A i \in ToSet(block.text) : InProse(Append(blocks, block), i)
         /\ HeadingsNamed(lines, blocks) /\
              (block.kind = "heading" =>
                 \E i \in Positions(lines) :
                   /\ block.text = <<i>> /\ block.title = lines[i].title
                   /\ block.level = HeadingLevel(lines, i) /\ block.level # 0)
              => HeadingsNamed(lines, Append(blocks, block))
<1> DEFINE c == Append(blocks, block)
           N == Len(blocks)
<1>1. /\ N \in Nat /\ DOMAIN blocks = 1..N /\ DOMAIN c = 1..(N + 1) /\ c[N + 1] = block
      /\ \A i \in 1..N : c[i] = blocks[i]
      /\ \A i \in 1..(N + 1) : i \in 1..N \/ i = N + 1
      /\ \A i \in 1..N : i \in 1..(N + 1)
      /\ N + 1 \in 1..(N + 1)
  BY OneMore
<1> HIDE DEF c, N
<1>2. \A i : InProse(blocks, i) => InProse(c, i)
  BY <1>1 DEF InProse
<1>3. block.kind # "heading" => \A i \in ToSet(block.text) : InProse(c, i)
  BY <1>1 DEF InProse
<1>4. ASSUME HeadingsNamed(lines, blocks),
             block.kind = "heading" =>
               \E i \in Positions(lines) :
                 /\ block.text = <<i>> /\ block.title = lines[i].title
                 /\ block.level = HeadingLevel(lines, i) /\ block.level # 0
      PROVE  HeadingsNamed(lines, c)
  BY <1>1, <1>4 DEF HeadingsNamed
<1> QED
  BY <1>2, <1>3, <1>4 DEF c

\* A buffer that becomes a block of prose.
LEMMA KeptFlushed ==
  ASSUME NEW lines \in Seq(Lines), NEW m \in 0..Len(lines), NEW blocks \in Seq(BlocksOf(lines)),
         NEW block \in ProseBlocks(lines), Kept(lines, m, blocks, block.text)
  PROVE  Kept(lines, m, Append(blocks, block), <<>>)
<1>1. block \in BlocksOf(lines) /\ block.kind # "heading"
  BY DEF BlocksOf, ProseBlocks, Kinds
<1>2. /\ LinesOf(TextsOf(Append(blocks, block))) = LinesOf(TextsOf(blocks)) \cup ToSet(block.text)
      /\ (InOrder(TextsOf(blocks)) /\ Rising(block.text) /\ Before(LinesOf(TextsOf(blocks)), ToSet(block.text))
           => InOrder(TextsOf(Append(blocks, block))))
  BY <1>1, BlocksHaveTexts
<1>3. /\ \A i : InProse(blocks, i) => InProse(Append(blocks, block), i)
      /\ \A i \in ToSet(block.text) : InProse(Append(blocks, block), i)
      /\ HeadingsNamed(lines, blocks) => HeadingsNamed(lines, Append(blocks, block))
  BY <1>1, MoreProse
<1>4. ToSet(<<>>) = {} /\ Rising(<<>>)
  BY NoText
<1> QED
  BY <1>2, <1>3, <1>4 DEF Kept, Before

\* One line more, of which nothing is kept because it is no prose.
LEMMA KeptDropped ==
  ASSUME NEW lines \in Seq(Lines), NEW m \in 0..(Len(lines) - 1), NEW blocks, NEW buffer,
         Kept(lines, m, blocks, buffer), m + 1 \notin Prose(lines)
  PROVE  Kept(lines, m + 1, blocks, buffer)
<1>1. 1..m \subseteq 1..(m + 1) /\ \A i \in 1..(m + 1) : i \in 1..m \/ i = m + 1
  OBVIOUS
<1> QED
  BY <1>1 DEF Kept

\* One line more, which is buffered.
LEMMA KeptBuffered ==
  ASSUME NEW lines \in Seq(Lines), NEW m \in 0..(Len(lines) - 1),
         NEW blocks \in Seq(BlocksOf(lines)), NEW buffer \in Seq(Positions(lines)),
         Kept(lines, m, blocks, buffer)
  PROVE  /\ Kept(lines, m + 1, blocks, Append(buffer, m + 1))
         /\ Append(buffer, m + 1) \in Seq(Positions(lines))
<1> DEFINE P == Positions(lines)
<1>1. P \subseteq Nat /\ m + 1 \in P /\ buffer \in Seq(P) /\ m \in Nat
  BY DEF Positions
<1> HIDE DEF P
<1>2. /\ Append(buffer, m + 1) \in Seq(P) /\ ToSet(Append(buffer, m + 1)) = ToSet(buffer) \cup {m + 1}
      /\ Rising(buffer) /\ Before(ToSet(buffer), {m + 1}) => Rising(Append(buffer, m + 1))
  BY <1>1, LineAfterText
<1>3. /\ 1..m \subseteq 1..(m + 1) /\ m + 1 \in 1..(m + 1) /\ \A i \in 1..(m + 1) : i \in 1..m \/ i = m + 1
      /\ \A i \in 1..m : i < m + 1
  BY <1>1
<1>4. Before(ToSet(buffer), {m + 1}) /\ Before(LinesOf(TextsOf(blocks)), ToSet(buffer) \cup {m + 1})
  BY <1>3 DEF Kept, Before
<1> QED
  BY <1>2, <1>3, <1>4 DEF Kept, P

\* One line more, which is a heading.
LEMMA KeptHeading ==
  ASSUME NEW lines \in Seq(Lines), NEW m \in 0..(Len(lines) - 1),
         NEW blocks \in Seq(BlocksOf(lines)), NEW block \in HeadingBlocks(lines),
         Kept(lines, m, blocks, <<>>), m + 1 \notin Prose(lines),
         block.text = <<m + 1>>, block.title = lines[m + 1].title,
         block.level = HeadingLevel(lines, m + 1), block.level # 0
  PROVE  Kept(lines, m + 1, Append(blocks, block), <<>>)
<1>1. block \in BlocksOf(lines) /\ m + 1 \in Positions(lines) /\ m \in Nat
  BY DEF BlocksOf, Positions
<1>2. ToSet(block.text) = {m + 1} /\ Rising(block.text)
  BY OneLine
<1>3. /\ LinesOf(TextsOf(Append(blocks, block))) = LinesOf(TextsOf(blocks)) \cup ToSet(block.text)
      /\ (InOrder(TextsOf(blocks)) /\ Rising(block.text) /\ Before(LinesOf(TextsOf(blocks)), ToSet(block.text))
           => InOrder(TextsOf(Append(blocks, block))))
  BY <1>1, BlocksHaveTexts
<1>4. /\ \A i : InProse(blocks, i) => InProse(Append(blocks, block), i)
      /\ HeadingsNamed(lines, blocks) => HeadingsNamed(lines, Append(blocks, block))
  BY <1>1, MoreProse
<1>5. ToSet(<<>>) = {} /\ Rising(<<>>)
  BY NoText
<1>6. /\ 1..m \subseteq 1..(m + 1) /\ m + 1 \in 1..(m + 1) /\ \A i \in 1..(m + 1) : i \in 1..m \/ i = m + 1
      /\ \A i \in 1..m : i < m + 1
  BY <1>1
<1>7. Before(LinesOf(TextsOf(blocks)), ToSet(block.text))
  BY <1>2, <1>6 DEF Before, Kept
<1> QED
  BY <1>2, <1>3, <1>4, <1>5, <1>6, <1>7 DEF Kept, Before

\* What holds of a document that has been read up to line m: nothing is missing, and
\* only a rule is skipped
ReadUpTo(lines, m, s) ==
  /\ Kept(lines, m, s.blocks, s.buffer)
  /\ s.skip => m < Len(lines) /\ lines[m + 1].class = "rule"

\* A state of the reader is its five parts.
LEMMA ReadParts ==
  ASSUME NEW lines
  PROVE  /\ \A s \in ReadStates(lines) :
              /\ s = [blocks |-> s.blocks, buffer |-> s.buffer, kind |-> s.kind,
                      fenced |-> s.fenced, skip |-> s.skip]
              /\ s.blocks \in Seq(BlocksOf(lines)) /\ s.buffer \in Seq(Positions(lines))
              /\ s.kind \in Kinds /\ s.fenced \in BOOLEAN /\ s.skip \in BOOLEAN
         /\ \A blocks \in Seq(BlocksOf(lines)), buffer \in Seq(Positions(lines)), kind \in Kinds,
               fenced \in BOOLEAN, skip \in BOOLEAN :
              [blocks |-> blocks, buffer |-> buffer, kind |-> kind, fenced |-> fenced,
               skip |-> skip] \in ReadStates(lines)
  BY DEF ReadStates

\* Flushing keeps everything.
LEMMA FlushedIsKept ==
  ASSUME NEW lines \in Seq(Lines), NEW m \in 0..Len(lines), NEW s \in ReadStates(lines),
         Kept(lines, m, s.blocks, s.buffer)
  PROVE  Kept(lines, m, Flush(s).blocks, <<>>)
<1>1. CASE s.buffer = <<>>
  BY <1>1, Flushed
<1>2. CASE s.buffer # <<>>
  <2> DEFINE block == [kind |-> s.kind, text |-> s.buffer, title |-> "", level |-> 0]
             blocks == s.blocks
  <2>1. block \in ProseBlocks(lines) /\ Flush(s).blocks = Append(blocks, block)
    BY <1>2, Flushed
  <2>2. blocks \in Seq(BlocksOf(lines)) /\ Kept(lines, m, blocks, block.text)
    BY ReadParts
  <2> HIDE DEF block, blocks
  <2> QED
    BY <2>1, <2>2, KeptFlushed
<1> QED
  BY <1>1, <1>2

\* A line that is buffered.
LEMMA LineBuffered ==
  ASSUME NEW lines \in Seq(Lines), NEW m \in 0..(Len(lines) - 1), NEW s \in ReadStates(lines)
  PROVE  /\ Buffered(s, m + 1) \in ReadStates(lines)
         /\ Buffered(s, m + 1).blocks = s.blocks /\ Buffered(s, m + 1).kind = s.kind
         /\ Buffered(s, m + 1).fenced = s.fenced /\ Buffered(s, m + 1).skip = s.skip
         /\ Buffered(s, m + 1).buffer = Append(s.buffer, m + 1)
         /\ Kept(lines, m, s.blocks, s.buffer) =>
              Kept(lines, m + 1, Buffered(s, m + 1).blocks, Buffered(s, m + 1).buffer)
<1> DEFINE buffer == Append(s.buffer, m + 1)
           b == Buffered(s, m + 1)
<1>1. /\ s = [blocks |-> s.blocks, buffer |-> s.buffer, kind |-> s.kind,
              fenced |-> s.fenced, skip |-> s.skip]
      /\ s.blocks \in Seq(BlocksOf(lines)) /\ s.buffer \in Seq(Positions(lines))
      /\ s.kind \in Kinds /\ s.fenced \in BOOLEAN /\ s.skip \in BOOLEAN
  BY ReadParts
<1>2. /\ buffer \in Seq(Positions(lines))
      /\ Kept(lines, m, s.blocks, s.buffer) => Kept(lines, m + 1, s.blocks, buffer)
  <2>1. buffer \in Seq(Positions(lines))
    <3> DEFINE P == Positions(lines)
    <3>1. m + 1 \in P /\ s.buffer \in Seq(P)
      BY <1>1 DEF Positions
    <3> HIDE DEF P
    <3>2. buffer \in Seq(P)
      BY <3>1
    <3> QED
      BY <3>2 DEF P
  <2> QED
    BY <1>1, <2>1, KeptBuffered
<1>3. b = [s EXCEPT !.buffer = buffer]
  BY DEF Buffered
<1> HIDE DEF buffer, b
<1>4. b = [blocks |-> s.blocks, buffer |-> buffer, kind |-> s.kind,
           fenced |-> s.fenced, skip |-> s.skip]
  BY <1>1, <1>3
<1>5. b \in ReadStates(lines)
  BY <1>1, <1>2, <1>4, ReadParts
<1>6. /\ b.blocks = s.blocks /\ b.kind = s.kind /\ b.fenced = s.fenced /\ b.skip = s.skip
      /\ b.buffer = buffer
  BY <1>4
<1> QED
  BY <1>2, <1>5, <1>6 DEF b, buffer

\* One line read: the state stays one, and keeps what it has read.
LEMMA LineRead ==
  ASSUME NEW lines \in Seq(Lines), NEW m \in 0..(Len(lines) - 1), NEW s \in ReadStates(lines)
  PROVE  /\ ReadLine(lines, s, m + 1) \in ReadStates(lines)
         /\ ReadUpTo(lines, m, s) => ReadUpTo(lines, m + 1, ReadLine(lines, s, m + 1))
<1> DEFINE i == m + 1
           line == lines[i]
           f == Flush(s)
           r == ReadLine(lines, s, i)
           heading == Heading(lines, i, HeadingLevel(lines, i))
<1>1. /\ i \in 1..Len(lines) /\ m \in Nat /\ m \in 0..Len(lines) /\ i \in 0..Len(lines)
      /\ line \in Lines /\ Len(lines) \in Nat
  OBVIOUS
<1>2. /\ s = [blocks |-> s.blocks, buffer |-> s.buffer, kind |-> s.kind,
              fenced |-> s.fenced, skip |-> s.skip]
      /\ s.blocks \in Seq(BlocksOf(lines)) /\ s.buffer \in Seq(Positions(lines))
      /\ s.kind \in Kinds /\ s.fenced \in BOOLEAN /\ s.skip \in BOOLEAN
  BY ReadParts
<1>3. /\ f \in ReadStates(lines) /\ f.buffer = <<>> /\ f.fenced = s.fenced /\ f.skip = s.skip
      /\ Kept(lines, m, s.blocks, s.buffer) => Kept(lines, m, f.blocks, <<>>)
  BY <1>1, Flushed, FlushedIsKept
<1>4. /\ f = [blocks |-> f.blocks, buffer |-> f.buffer, kind |-> f.kind,
              fenced |-> f.fenced, skip |-> f.skip]
      /\ f.blocks \in Seq(BlocksOf(lines)) /\ f.kind \in Kinds
  BY <1>3, ReadParts
<1>5. r = CASE s.skip -> [s EXCEPT !.skip = FALSE]
            [] ~s.skip /\ s.fenced /\ line.class = "fence" ->
                 [Flush(Buffered(s, i)) EXCEPT !.fenced = FALSE]
            [] ~s.skip /\ s.fenced /\ ~(line.class = "fence") -> Buffered(s, i)
            [] ~s.skip /\ ~s.fenced /\ line.class = "fence" ->
                 [f EXCEPT !.fenced = TRUE, !.kind = "code", !.buffer = <<i>>]
            [] ~s.skip /\ ~s.fenced /\ line.class = "blank" -> f
            [] ~s.skip /\ ~s.fenced /\ ~(line.class = "fence") /\ IsHeading(lines, i) ->
                 [f EXCEPT !.blocks = Append(@, heading),
                           !.skip = line.class # "atx" /\ Underlined(lines, i)]
            [] OTHER ->
                 [Buffered(IF KindOf(line) # s.kind THEN f ELSE s, i) EXCEPT !.kind = KindOf(line)]
  BY Zenon DEF ReadLine
<1>6. i \in Prose(lines) <=>
        line.class \in {"text", "table", "bullet", "fence"} /\ ~Underlined(lines, i)
  <2>1. DOMAIN lines = 1..Len(lines)
    OBVIOUS
  <2> QED
    BY <1>1, <2>1 DEF Prose
<1>7. Kept(lines, m, s.blocks, s.buffer) /\ i \notin Prose(lines) => Kept(lines, i, s.blocks, s.buffer)
  BY KeptDropped
<1>8. Kept(lines, m, f.blocks, <<>>) /\ i \notin Prose(lines) => Kept(lines, i, f.blocks, <<>>)
  BY KeptDropped
<1>9. CASE s.skip
  <2>1. r = [s EXCEPT !.skip = FALSE]
    BY <1>5, <1>9
  <2> HIDE DEF r, i, f, line, heading
  <2>2. r = [blocks |-> s.blocks, buffer |-> s.buffer, kind |-> s.kind, fenced |-> s.fenced,
             skip |-> FALSE]
    BY <1>2, <2>1
  <2>3. r \in ReadStates(lines)
    BY <1>2, <2>2, ReadParts
  <2>4. ASSUME ReadUpTo(lines, m, s) PROVE ReadUpTo(lines, i, r)
    <3>1. line.class = "rule" /\ Kept(lines, m, s.blocks, s.buffer)
      BY <1>9, <2>4 DEF ReadUpTo, line, i
    <3>2. Kept(lines, i, s.blocks, s.buffer)
      BY <1>6, <1>7, <3>1
    <3> QED
      BY <2>2, <3>2 DEF ReadUpTo
  <2> QED
    BY <2>3, <2>4 DEF r, i
<1>10. CASE ~s.skip /\ s.fenced /\ line.class = "fence"
  <2> DEFINE b == Buffered(s, i)
             g == Flush(b)
  <2>1. /\ b \in ReadStates(lines) /\ b.skip = s.skip
        /\ Kept(lines, m, s.blocks, s.buffer) => Kept(lines, i, b.blocks, b.buffer)
    BY LineBuffered
  <2>2. r = [g EXCEPT !.fenced = FALSE]
    BY <1>5, <1>10
  <2> HIDE DEF b, r, i, f, line, heading
  <2>3. /\ g \in ReadStates(lines) /\ g.skip = s.skip /\ g.buffer = <<>>
        /\ Kept(lines, m, s.blocks, s.buffer) => Kept(lines, i, g.blocks, <<>>)
    BY <1>1, <2>1, Flushed, FlushedIsKept
  <2>4. /\ g = [blocks |-> g.blocks, buffer |-> g.buffer, kind |-> g.kind,
                fenced |-> g.fenced, skip |-> g.skip]
        /\ g.blocks \in Seq(BlocksOf(lines)) /\ g.buffer \in Seq(Positions(lines))
        /\ g.kind \in Kinds /\ g.skip \in BOOLEAN
    BY <2>3, ReadParts
  <2> HIDE DEF g
  <2>5. r = [blocks |-> g.blocks, buffer |-> <<>>, kind |-> g.kind, fenced |-> FALSE,
             skip |-> FALSE]
    BY <1>10, <2>2, <2>3, <2>4
  <2>6. r \in ReadStates(lines)
    BY <2>3, <2>4, <2>5, ReadParts
  <2>7. ReadUpTo(lines, m, s) => ReadUpTo(lines, i, r)
    BY <2>3, <2>5 DEF ReadUpTo
  <2> QED
    BY <2>6, <2>7 DEF r, i
<1>11. CASE ~s.skip /\ s.fenced /\ ~(line.class = "fence")
  <2>1. r = Buffered(s, i)
    BY <1>5, <1>11
  <2>2. /\ Buffered(s, i) \in ReadStates(lines) /\ Buffered(s, i).skip = s.skip
        /\ Kept(lines, m, s.blocks, s.buffer)
             => Kept(lines, i, Buffered(s, i).blocks, Buffered(s, i).buffer)
    BY LineBuffered
  <2> HIDE DEF r, i, f, line, heading
  <2>3. ReadUpTo(lines, m, s) => ReadUpTo(lines, i, r)
    BY <1>11, <2>1, <2>2 DEF ReadUpTo
  <2> QED
    BY <2>1, <2>2, <2>3 DEF r, i
<1>12. CASE ~s.skip /\ ~s.fenced /\ line.class = "fence"
  <2>1. r = [f EXCEPT !.fenced = TRUE, !.kind = "code", !.buffer = <<i>>]
    BY <1>5, <1>12
  <2>2. Kept(lines, m, f.blocks, <<>>) =>
          Kept(lines, i, f.blocks, Append(<<>>, i)) /\ Append(<<>>, i) \in Seq(Positions(lines))
    <3>1. <<>> \in Seq(Positions(lines))
      OBVIOUS
    <3> HIDE DEF f
    <3> QED
      BY <1>4, <3>1, KeptBuffered
  <2>3. <<i>> \in Seq(Positions(lines)) /\ Append(<<>>, i) = <<i>>
    BY <1>1 DEF Positions
  <2> HIDE DEF r, i, f, line, heading
  <2>4. r = [blocks |-> f.blocks, buffer |-> <<i>>, kind |-> "code", fenced |-> TRUE,
             skip |-> FALSE]
    <3> DEFINE fb == f.blocks
               fk == f.kind
    <3>1. f = [blocks |-> fb, buffer |-> <<>>, kind |-> fk, fenced |-> FALSE, skip |-> FALSE]
      BY <1>2, <1>3, <1>4, <1>12
    <3> HIDE DEF fb, fk
    <3>2. r = [blocks |-> fb, buffer |-> <<i>>, kind |-> "code", fenced |-> TRUE, skip |-> FALSE]
      BY <2>1, <3>1
    <3> QED
      BY <3>2 DEF fb
  <2>5. r \in ReadStates(lines)
    BY <1>4, <2>3, <2>4, ReadParts DEF Kinds
  <2>6. ReadUpTo(lines, m, s) => ReadUpTo(lines, i, r)
    BY <1>3, <2>2, <2>3, <2>4 DEF ReadUpTo
  <2> QED
    BY <2>5, <2>6 DEF r, i
<1>13. CASE ~s.skip /\ ~s.fenced /\ line.class = "blank"
  <2>1. r = f
    <3>1. ~IsHeading(lines, i)
      BY <1>13 DEF IsHeading
    <3> HIDE DEF r, f, heading, i, line
    <3> QED
      BY <1>5, <1>13, <3>1
  <2> HIDE DEF r, i, f, line, heading
  <2>2. ReadUpTo(lines, m, s) => ReadUpTo(lines, i, r)
    BY <1>3, <1>6, <1>8, <1>13, <2>1 DEF ReadUpTo
  <2> QED
    BY <1>3, <2>1, <2>2 DEF r, i
<1>14. CASE ~s.skip /\ ~s.fenced /\ line.class # "fence" /\ line.class # "blank"
            /\ IsHeading(lines, i)
  <2> DEFINE skip == line.class # "atx" /\ Underlined(lines, i)
             level == HeadingLevel(lines, i)
             blocks == Append(f.blocks, heading)
  <2>1. r = [f EXCEPT !.blocks = Append(@, heading), !.skip = skip]
    BY <1>5, <1>14
  <2>2. /\ level \in Nat \ {0} /\ line.title \in STRING
        /\ skip => i < Len(lines) /\ lines[i + 1].class = "rule"
    <3>1. skip => i < Len(lines) /\ lines[i + 1].class = "rule" /\ lines[i + 1] \in Lines
      BY <1>1 DEF Underlined
    <3>2. CASE skip
      BY <1>1, <3>1, <3>2 DEF Lines, HeadingLevel
    <3>3. CASE ~skip
      <4>1. line.class \in {"atx", "caption"} /\ level = line.level
        BY <1>14, <3>3 DEF IsHeading, HeadingLevel
      <4> QED
        BY <1>1, <3>3, <4>1 DEF Lines
    <3> QED
      BY <3>1, <3>2, <3>3
  <2>3. i \notin Prose(lines)
    BY <1>6, <1>14 DEF IsHeading
  <2>4. heading = [kind |-> "heading", text |-> <<i>>, title |-> line.title, level |-> level]
    BY DEF Heading
  <2>5. <<i>> \in Seq(Positions(lines))
    BY <1>1 DEF Positions
  <2> HIDE DEF heading, level, f, skip
  <2>6. heading \in HeadingBlocks(lines)
    BY <2>2, <2>4, <2>5 DEF HeadingBlocks
  <2>7. heading.text = <<i>> /\ heading.title = line.title /\ heading.level = level /\ level # 0
    BY <2>2, <2>4
  <2>8. Kept(lines, m, f.blocks, <<>>) => Kept(lines, i, blocks, <<>>)
    BY <1>4, <2>3, <2>6, <2>7, KeptHeading DEF level
  <2>9. blocks \in Seq(BlocksOf(lines))
    <3> DEFINE B == BlocksOf(lines)
    <3>1. heading \in B /\ f.blocks \in Seq(B)
      BY <1>4, <2>6 DEF BlocksOf
    <3> HIDE DEF B
    <3>2. blocks \in Seq(B)
      BY <3>1
    <3> QED
      BY <3>2 DEF B
  <2> HIDE DEF r, i, line, blocks
  <2>10. r = [f EXCEPT !.blocks = blocks, !.skip = skip]
    BY <1>4, <2>1 DEF blocks
  <2>11. r = [blocks |-> blocks, buffer |-> <<>>, kind |-> f.kind, fenced |-> FALSE, skip |-> skip]
    <3> DEFINE fb == f.blocks
               fk == f.kind
    <3>1. f = [blocks |-> fb, buffer |-> <<>>, kind |-> fk, fenced |-> FALSE, skip |-> FALSE]
      BY <1>2, <1>3, <1>4, <1>14
    <3> HIDE DEF fb, fk
    <3>2. r = [blocks |-> blocks, buffer |-> <<>>, kind |-> fk, fenced |-> FALSE, skip |-> skip]
      BY <2>10, <3>1
    <3> QED
      BY <3>2 DEF fk
  <2>12. skip \in BOOLEAN /\ <<>> \in Seq(Positions(lines))
    BY DEF skip
  <2>13. r \in ReadStates(lines)
    BY <1>4, <2>9, <2>11, <2>12, ReadParts
  <2>14. ReadUpTo(lines, m, s) => ReadUpTo(lines, i, r)
    BY <1>3, <2>2, <2>8, <2>11 DEF ReadUpTo
  <2> QED
    BY <2>13, <2>14 DEF r, i
<1>15. CASE ~s.skip /\ ~s.fenced /\ line.class # "fence" /\ line.class # "blank"
            /\ ~IsHeading(lines, i)
  <2> DEFINE kept == IF KindOf(line) # s.kind THEN f ELSE s
             kind == KindOf(line)
             b == Buffered(kept, i)
  <2>1. r = [b EXCEPT !.kind = kind]
    BY <1>5, <1>15
  <2>2. /\ kept \in ReadStates(lines) /\ kept.skip = s.skip
        /\ Kept(lines, m, s.blocks, s.buffer) => Kept(lines, m, kept.blocks, kept.buffer)
    BY <1>3
  <2>3. kind \in Kinds
    BY DEF KindOf, Kinds
  <2> HIDE DEF kept, kind, f
  <2>4. /\ b \in ReadStates(lines) /\ b.skip = s.skip
        /\ Kept(lines, m, s.blocks, s.buffer) => Kept(lines, i, b.blocks, b.buffer)
    BY <2>2, LineBuffered
  <2>5. /\ b = [blocks |-> b.blocks, buffer |-> b.buffer, kind |-> b.kind,
                fenced |-> b.fenced, skip |-> b.skip]
        /\ b.blocks \in Seq(BlocksOf(lines)) /\ b.buffer \in Seq(Positions(lines))
        /\ b.fenced \in BOOLEAN /\ b.skip \in BOOLEAN
    BY <2>4, ReadParts
  <2> HIDE DEF b, r, i, line, heading
  <2>6. r = [blocks |-> b.blocks, buffer |-> b.buffer, kind |-> kind, fenced |-> b.fenced,
             skip |-> b.skip]
    BY <2>1, <2>5
  <2>7. r \in ReadStates(lines)
    BY <2>3, <2>5, <2>6, ReadParts
  <2>8. ReadUpTo(lines, m, s) => ReadUpTo(lines, i, r)
    BY <1>15, <2>4, <2>6 DEF ReadUpTo
  <2> QED
    BY <2>7, <2>8 DEF r, i
<1> QED
  <2> HIDE DEF line
  <2> QED
    BY <1>2, <1>9, <1>10, <1>11, <1>12, <1>13, <1>14, <1>15

\* Analyze goes through the lines one by one: h is its state so far
AnalyzeRun(h, lines) ==
  /\ h \in [0..Len(lines) -> ReadStates(lines)]
  /\ h[0] = Unread
  /\ \A m \in 0..(Len(lines) - 1) : h[m + 1] = ReadLine(lines, h[m], m + 1)
  /\ Analyze(lines) = Flush(h[Len(lines)]).blocks

\* The fold behind Analyze has such steps.
LEMMA AnalyzeRuns ==
  ASSUME NEW lines \in Seq(Lines)
  PROVE  \E h : AnalyzeRun(h, lines)
<1> DEFINE idx == [i \in DOMAIN lines |-> i]
           N == Len(lines)
           V == ReadStates(lines)
           b == Unread
           F == [p \in V \X (1..N) |-> ReadLine(lines, p[1], idx[p[2]])]
           Eq(g) == g = [s \in SUBSET DOMAIN idx |->
                           IF s = {} THEN b ELSE ReadLine(lines, g[s \ {Max(s)}], idx[Max(s)])]
           f == CHOOSE g : Eq(g)
<1>1. N \in Nat /\ DOMAIN idx = 1..N /\ \A i \in 1..N : idx[i] = i
  OBVIOUS
<1>2. F \in [V \X (1..N) -> V]
  <2> HIDE DEF V
  <2> SUFFICES ASSUME NEW v \in V, NEW i \in 1..N PROVE ReadLine(lines, v, idx[i]) \in V
    OBVIOUS
  <2>1. i - 1 \in 0..(Len(lines) - 1) /\ (i - 1) + 1 = i /\ idx[i] = i
    BY <1>1
  <2> HIDE DEF idx, N
  <2>2. ReadLine(lines, v, (i - 1) + 1) \in ReadStates(lines)
    BY <2>1, LineRead DEF V
  <2> QED
    BY <2>1, <2>2 DEF V
<1>3. b \in V
  BY DEF Unread, ReadStates, Kinds
<1>4. PICK g : SolvesFold(g, N, V, b, F)
  <2> HIDE DEF F, V, N, b
  <2> QED
    BY <1>1, <1>2, <1>3, FoldSolves, Zenon
<1>5. \A s \in SUBSET (1..N) : s # {} => Max(s) \in 1..N /\ s \ {Max(s)} \in SUBSET (1..N)
  BY <1>1, MaxIsGreatest
<1>6. \A v \in V, i \in 1..N : F[<<v, i>>] = ReadLine(lines, v, idx[i])
  <2> HIDE DEF V, N
  <2> QED
    OBVIOUS
<1> HIDE DEF F, V, N, b
<1>7. Eq(g)
  <2>1. g = [s \in SUBSET (1..N) |-> g[s]]
    BY <1>4 DEF SolvesFold
  <2>2. ASSUME NEW s \in SUBSET (1..N)
        PROVE  g[s] = IF s = {} THEN b ELSE ReadLine(lines, g[s \ {Max(s)}], idx[Max(s)])
    BY <1>4, <1>5, <1>6 DEF SolvesFold
  <2> QED
    BY <1>1, <2>1, <2>2
<1>8. Analyze(lines) = Flush(f[DOMAIN idx]).blocks
  BY Zenon DEF Analyze, FoldLeftDomain, FoldLeft, MapThenFoldSet, b
<1>9. Eq(f)
  <2> HIDE DEF Eq
  <2> QED
    BY <1>7
<1> HIDE DEF f, idx
<1>10. Unfolds(f, N, V, b, F)
  BY <1>1, <1>5, <1>6, <1>9 DEF Unfolds
<1>11. PICK h : FoldRun(h, N, V, b, F, f[1..N])
  BY <1>1, <1>2, <1>3, <1>10, FoldSteps, Zenon
<1>12. \A m \in 0..(N - 1) : h[m + 1] = ReadLine(lines, h[m], m + 1)
  <2>1. \A m \in 0..(N - 1) : m \in 0..N /\ m + 1 \in 1..N
    BY <1>1
  <2> QED
    BY <1>1, <1>6, <1>11, <2>1 DEF FoldRun
<1>13. AnalyzeRun(h, lines)
  BY <1>1, <1>8, <1>11, <1>12 DEF AnalyzeRun, FoldRun, V, N, b
<1> QED
  BY <1>13

\* The blocks of a document: all its prose and its headings, in order.
LEMMA Analyzed ==
  ASSUME NEW lines \in Seq(Lines)
  PROVE  Analyze(lines) \in Seq(BlocksOf(lines)) /\ Kept(lines, Len(lines), Analyze(lines), <<>>)
<1> DEFINE N == Len(lines)
<1>1. PICK h : AnalyzeRun(h, lines)
  BY AnalyzeRuns
<1>2. N \in Nat /\ 0 \in 0..N /\ N \in 0..N
  OBVIOUS
<1> DEFINE Q == {m \in 0..N : ReadUpTo(lines, m, h[m])}
<1>3. 0 \in Q
  <2>1. Kept(lines, 0, <<>>, <<>>)
    <3>1. 1..0 = {}
      OBVIOUS
    <3> QED
      BY <3>1, NoText DEF Kept, Before, HeadingsNamed
  <2>2. h[0].blocks = <<>> /\ h[0].buffer = <<>> /\ h[0].skip = FALSE
    BY <1>1 DEF AnalyzeRun, Unread
  <2> QED
    BY <1>2, <2>1, <2>2 DEF ReadUpTo
<1>4. ASSUME NEW m \in 0..(N - 1), m \in Q PROVE m + 1 \in Q
  <2>1. m \in 0..N /\ m + 1 \in 0..N
    BY <1>2
  <2>2. h[m] \in ReadStates(lines) /\ h[m + 1] = ReadLine(lines, h[m], m + 1)
    BY <1>1, <2>1 DEF AnalyzeRun
  <2>3. ReadUpTo(lines, m + 1, h[m + 1])
    BY <1>4, <2>2, LineRead
  <2> QED
    BY <2>1, <2>3
<1>5. ReadUpTo(lines, N, h[N])
  <2> HIDE DEF Q
  <2>1. \A m \in 0..N : m \in Q
    BY <1>2, <1>3, <1>4, InductTo
  <2> QED
    BY <1>2, <2>1 DEF Q
<1>6. h[N] \in ReadStates(lines) /\ Analyze(lines) = Flush(h[N]).blocks
  BY <1>1, <1>2 DEF AnalyzeRun
<1>7. Flush(h[N]) \in ReadStates(lines) /\ Kept(lines, N, Flush(h[N]).blocks, <<>>)
  BY <1>2, <1>5, <1>6, Flushed, FlushedIsKept DEF ReadUpTo
<1> QED
  BY <1>6, <1>7, ReadParts

-----------------------------------------------------------------------------
(* Counting tokens *)

\* TokensIn goes through a text line by line: h is the sum so far
TokensRun(h, lines, counted) ==
  /\ h \in [0..Len(counted) -> Nat]
  /\ h[0] = 0
  /\ \A m \in 0..(Len(counted) - 1) : h[m + 1] = h[m] + lines[counted[m + 1]].tokens
  /\ TokensIn(lines, counted) = h[Len(counted)]

\* A line has a number of tokens.
LEMMA LineTokens ==
  ASSUME NEW lines \in Seq(Lines), NEW i \in Positions(lines), NEW n \in Nat
  PROVE  n + lines[i].tokens \in Nat /\ lines[i].tokens \in Nat
<1>1. lines[i] \in Lines
  BY DEF Positions
<1>2. lines[i].tokens \in Nat
  BY <1>1 DEF Lines
<1> QED
  BY <1>2

\* The fold behind TokensIn has such steps.
LEMMA TokensRuns ==
  ASSUME NEW lines \in Seq(Lines), NEW counted \in Seq(Positions(lines))
  PROVE  \E h : TokensRun(h, lines, counted)
<1> DEFINE N == Len(counted)
           V == Nat
           b == 0
           F == [p \in V \X (1..N) |-> p[1] + lines[counted[p[2]]].tokens]
           Eq(g) == g = [s \in SUBSET DOMAIN counted |->
                           IF s = {} THEN b ELSE g[s \ {Max(s)}] + lines[counted[Max(s)]].tokens]
           f == CHOOSE g : Eq(g)
<1>1. N \in Nat /\ DOMAIN counted = 1..N /\ \A i \in 1..N : counted[i] \in Positions(lines)
  OBVIOUS
<1>2. F \in [V \X (1..N) -> V]
  <2> HIDE DEF V
  <2> SUFFICES ASSUME NEW v \in V, NEW i \in 1..N PROVE v + lines[counted[i]].tokens \in V
    OBVIOUS
  <2> QED
    BY <1>1, LineTokens DEF V
<1>3. b \in V
  OBVIOUS
<1>4. PICK g : SolvesFold(g, N, V, b, F)
  <2> HIDE DEF F, V, N, b
  <2> QED
    BY <1>1, <1>2, <1>3, FoldSolves, Zenon
<1>5. \A s \in SUBSET (1..N) : s # {} => Max(s) \in 1..N /\ s \ {Max(s)} \in SUBSET (1..N)
  BY <1>1, MaxIsGreatest
<1>6. \A v \in V, i \in 1..N : F[<<v, i>>] = v + lines[counted[i]].tokens
  <2> HIDE DEF V, N
  <2> QED
    OBVIOUS
<1> HIDE DEF F, V, N, b
<1>7. Eq(g)
  <2>1. g = [s \in SUBSET (1..N) |-> g[s]]
    BY <1>4 DEF SolvesFold
  <2>2. ASSUME NEW s \in SUBSET (1..N)
        PROVE  g[s] = IF s = {} THEN b ELSE g[s \ {Max(s)}] + lines[counted[Max(s)]].tokens
    BY <1>4, <1>5, <1>6 DEF SolvesFold
  <2> QED
    BY <1>1, <2>1, <2>2
<1>8. TokensIn(lines, counted) = f[DOMAIN counted]
  BY Zenon DEF TokensIn, FoldLeft, MapThenFoldSet, b
<1>9. Eq(f)
  <2> HIDE DEF Eq
  <2> QED
    BY <1>7
<1> HIDE DEF f
<1>10. Unfolds(f, N, V, b, F)
  BY <1>1, <1>5, <1>6, <1>9 DEF Unfolds
<1>11. PICK h : FoldRun(h, N, V, b, F, f[1..N])
  BY <1>1, <1>2, <1>3, <1>10, FoldSteps, Zenon
<1>12. \A m \in 0..(N - 1) : h[m + 1] = h[m] + lines[counted[m + 1]].tokens
  <2>1. \A m \in 0..(N - 1) : m \in 0..N /\ m + 1 \in 1..N
    BY <1>1
  <2> QED
    BY <1>6, <1>11, <2>1 DEF FoldRun
<1>13. TokensRun(h, lines, counted)
  BY <1>1, <1>8, <1>11, <1>12 DEF TokensRun, FoldRun, V, N, b
<1> QED
  BY <1>13

\* No text, a line more, and a text after a text.
LEMMA TokensSum ==
  ASSUME NEW lines \in Seq(Lines), NEW a \in Seq(Positions(lines))
  PROVE  /\ TokensIn(lines, a) \in Nat /\ TokensIn(lines, <<>>) = 0
         /\ \A i \in Positions(lines) :
              TokensIn(lines, Append(a, i)) = TokensIn(lines, a) + lines[i].tokens
<1> DEFINE N == Len(a)
           P == Positions(lines)
<1>1. PICK h : TokensRun(h, lines, a)
  BY TokensRuns
<1>2. N \in Nat /\ N \in 0..N /\ \A m \in 1..N : a[m] \in P
  OBVIOUS
<1>3. TokensIn(lines, a) \in Nat
  BY <1>1, <1>2 DEF TokensRun
<1>4. TokensIn(lines, <<>>) = 0
  <2>1. <<>> \in Seq(P) /\ Len(<<>>) = 0
    OBVIOUS
  <2> HIDE DEF P
  <2>2. PICK g : TokensRun(g, lines, <<>>)
    BY <2>1, TokensRuns DEF P
  <2> QED
    BY <2>1, <2>2 DEF TokensRun
<1>5. ASSUME NEW i \in P PROVE TokensIn(lines, Append(a, i)) = TokensIn(lines, a) + lines[i].tokens
  <2> DEFINE b == Append(a, i)
  <2> HIDE DEF P
  <2>1. b \in Seq(P) /\ Len(b) = N + 1 /\ b[N + 1] = i /\ \A m \in 1..N : b[m] = a[m]
    <3>1. a \in Seq(P)
      BY DEF P
    <3> QED
      BY <1>5, <3>1
  <2> HIDE DEF b
  <2>2. PICK g : TokensRun(g, lines, b)
    BY <2>1, TokensRuns DEF P
  <2> DEFINE Q == {m \in 0..N : g[m] = h[m]}
  <2>3. 0 \in Q
    BY <1>1, <1>2, <2>2 DEF TokensRun
  <2>4. ASSUME NEW m \in 0..(N - 1), m \in Q PROVE m + 1 \in Q
    <3>1. m + 1 \in 1..N /\ m + 1 \in 0..N /\ m \in 0..((N + 1) - 1) /\ m \in 0..(N - 1)
      BY <1>2
    <3>2. g[m + 1] = g[m] + lines[b[m + 1]].tokens
      BY <2>1, <2>2, <3>1 DEF TokensRun
    <3>3. h[m + 1] = h[m] + lines[a[m + 1]].tokens
      BY <1>1, <3>1 DEF TokensRun
    <3>4. b[m + 1] = a[m + 1]
      BY <2>1, <3>1
    <3> QED
      BY <2>4, <3>1, <3>2, <3>3, <3>4
  <2>5. g[N] = h[N]
    <3> HIDE DEF Q
    <3>1. \A m \in 0..N : m \in Q
      BY <1>2, <2>3, <2>4, InductTo
    <3> QED
      BY <1>2, <3>1 DEF Q
  <2>6. N \in 0..((N + 1) - 1)
    BY <1>2
  <2>7. g[N + 1] = g[N] + lines[i].tokens
    BY <2>1, <2>2, <2>6 DEF TokensRun
  <2>8. TokensIn(lines, b) = g[N + 1] /\ TokensIn(lines, a) = h[N]
    BY <1>1, <2>1, <2>2 DEF TokensRun
  <2> QED
    BY <2>5, <2>7, <2>8 DEF b
<1> QED
  BY <1>3, <1>4, <1>5 DEF P

\* A text after a text.
LEMMA TokensAdd ==
  ASSUME NEW lines \in Seq(Lines), NEW a \in Seq(Positions(lines)), NEW b \in Seq(Positions(lines))
  PROVE  TokensIn(lines, a \o b) = TokensIn(lines, a) + TokensIn(lines, b)
<1> DEFINE N == Len(b)
           P == Positions(lines)
           Part(m) == SubSeq(b, 1, m)
           Q == {m \in 0..N : TokensIn(lines, a \o Part(m)) = TokensIn(lines, a) + TokensIn(lines, Part(m))}
<1>1. a \in Seq(P) /\ b \in Seq(P) /\ N \in Nat /\ \A m \in 1..N : b[m] \in P
  OBVIOUS
<1> HIDE DEF P
<1>2. Part(0) = <<>> /\ Part(N) = b /\ a \o <<>> = a
  BY <1>1
<1>3. 0 \in Q
  <2>1. TokensIn(lines, a) \in Nat /\ TokensIn(lines, <<>>) = 0
    BY <1>1, TokensSum DEF P
  <2>2. a \o Part(0) = a
    BY <1>2, Zenon
  <2> HIDE DEF Part
  <2>3. TokensIn(lines, a \o Part(0)) = TokensIn(lines, a) + TokensIn(lines, Part(0))
    <3> DEFINE c == a \o Part(0)
               p == Part(0)
    <3>1. c = a /\ p = <<>>
      BY <1>2, <2>2, Zenon
    <3> HIDE DEF c, p
    <3>2. TokensIn(lines, c) = TokensIn(lines, a) + TokensIn(lines, p)
      BY <2>1, <3>1
    <3> QED
      BY <3>2, Zenon DEF c, p
  <2> QED
    BY <1>1, <2>3
<1>4. ASSUME NEW m \in 0..(N - 1), m \in Q PROVE m + 1 \in Q
  <2>1. m \in Nat /\ m + 1 \in 1..N /\ m + 1 \in 0..N /\ b[m + 1] \in P
    BY <1>1
  <2>2. /\ Part(m) \in Seq(P) /\ Part(m + 1) = Append(Part(m), b[m + 1])
        /\ a \o Part(m) \in Seq(P) /\ a \o Part(m + 1) = Append(a \o Part(m), b[m + 1])
    <3>1. Part(m) \in Seq(P)
      BY <1>1, <2>1
    <3>2. Part(m + 1) = Append(Part(m), b[m + 1])
      BY <1>1, <2>1
    <3> HIDE DEF Part
    <3>3. a \o Part(m) \in Seq(P) /\ a \o Append(Part(m), b[m + 1]) = Append(a \o Part(m), b[m + 1])
      BY <1>1, <2>1, <3>1
    <3> QED
      BY <3>1, <3>2, <3>3
  <2> HIDE DEF Part
  <2>3. /\ TokensIn(lines, Part(m + 1)) = TokensIn(lines, Part(m)) + lines[b[m + 1]].tokens
        /\ TokensIn(lines, a \o Part(m + 1)) = TokensIn(lines, a \o Part(m)) + lines[b[m + 1]].tokens
        /\ TokensIn(lines, Part(m)) \in Nat /\ TokensIn(lines, a) \in Nat
    BY <1>1, <2>1, <2>2, TokensSum DEF P
  <2>4. lines[b[m + 1]].tokens \in Nat
    BY <2>1, LineTokens DEF P
  <2> QED
    BY <1>4, <2>1, <2>3, <2>4
<1>5. \A m \in 0..N : m \in Q
  <2> HIDE DEF Q
  <2> QED
    BY <1>1, <1>3, <1>4, InductTo
<1>6. TokensIn(lines, a \o Part(N)) = TokensIn(lines, a) + TokensIn(lines, Part(N))
  BY <1>1, <1>5
<1> QED
  BY <1>2, <1>6

-----------------------------------------------------------------------------
(* Pieces are short *)

\* A sentence that is above the target by itself, and what holds if the limits agree
Within(lines, held, limit) ==
  LimitsAgree => TokensIn(lines, held) <= limit \/ LongSentence(lines, held)

\* Each two pieces in a row are more than one piece can hold
Packed(lines, pieces) ==
  \A k \in 1..(Len(pieces) - 1) :
    TokensIn(lines, pieces[k]) + TokensIn(lines, pieces[k + 1]) > TargetTokens

FirstLines(sentences, m) == UNION {ToSet(sentences[k]) : k \in 1..m}

\* What SplitOversized has made of the sentences before, which hold the lines in seen
SplitSoFar(lines, seen, ordered, before, s) ==
  /\ LinesOf(s.pieces) \cup ToSet(s.current) = seen
  /\ ordered => /\ InOrder(s.pieces) /\ Rising(s.current)
                           /\ Before(LinesOf(s.pieces), ToSet(s.current))
  /\ s.pieces = <<>> => s.current = before
  /\ \A k \in 1..Len(s.pieces) : Within(lines, s.pieces[k], TargetTokens)
  /\ Within(lines, s.current, TargetTokens)
  /\ Packed(lines, s.pieces)
  /\ s.pieces # <<>> =>
       TokensIn(lines, s.pieces[Len(s.pieces)]) + TokensIn(lines, s.current) > TargetTokens

\* The limits are numbers.
LEMMA Limits ==
  /\ TargetTokens \in Nat /\ MaxTokens \in Nat /\ MinTokens \in Nat /\ MergeBelowTokens \in Nat
  /\ MaxUnits \in Nat \ {0}
  /\ LimitsAgree => /\ 0 < MinTokens /\ MinTokens <= MergeBelowTokens
                    /\ 2 * MinTokens <= TargetTokens /\ TargetTokens + MinTokens <= MaxTokens
  BY SegmentationAssumption DEF LimitsAgree

\* Whoever holds what holds a long sentence holds it too.
LEMMA LongStaysLong ==
  ASSUME NEW lines, NEW a, NEW b, ToSet(a) \subseteq ToSet(b), LongSentence(lines, a)
  PROVE  LongSentence(lines, b)
<1>1. PICK first \in ToSet(a), last \in ToSet(a) :
        /\ first <= last /\ first..last \subseteq ToSet(a)
        /\ \A i \in first..(last - 1) : SameSentence(lines, i, i + 1)
        /\ TokensIn(lines, [k \in 1..(last - first + 1) |-> first + k - 1]) > TargetTokens
  BY Zenon DEF LongSentence
<1>2. first \in ToSet(b) /\ last \in ToSet(b) /\ first..last \subseteq ToSet(b)
  BY <1>1
<1> QED
  BY <1>1, <1>2, Zenon DEF LongSentence

\* A sentence is a piece within the target, or a long one.
LEMMA OneSentence ==
  ASSUME NEW lines \in Seq(Lines), NEW t \in Seq(Positions(lines)), Sentence(lines, t)
  PROVE  Within(lines, t, TargetTokens)
<1> DEFINE n == Len(t)
           first == t[1]
           last == t[n]
<1>1. n \in Nat \ {0} /\ DOMAIN t = 1..n /\ \A k \in 1..n : t[k] \in Nat
  BY DEF Sentence, Positions
<1>2. \A k \in 1..(n - 1) : SameSentence(lines, t[k], t[k + 1]) /\ t[k + 1] = t[k] + 1
  BY DEF Sentence, SameSentence
<1>3. t = [k \in 1..n |-> t[k]]
  BY <1>1
<1>4. TokensIn(lines, t) \in Nat
  BY TokensSum
<1> HIDE DEF n
<1> DEFINE Q == {m \in 0..n : m = 0 \/ t[m] = first + m - 1}
<1>5. \A m \in 0..n : m \in Q
  <2>1. 0 \in Q
    BY <1>1
  <2>2. ASSUME NEW m \in 0..(n - 1), m \in Q PROVE m + 1 \in Q
    <3>1. CASE m = 0
      BY <1>1, <3>1
    <3>2. CASE m # 0
      <4>1. m \in 1..(n - 1) /\ m + 1 \in 0..n /\ m \in Nat
        BY <1>1, <3>2
      <4>2. t[m + 1] = t[m] + 1 /\ t[m] = first + m - 1
        BY <1>2, <2>2, <3>2, <4>1
      <4>3. first \in Nat
        BY <1>1
      <4>4. t[m + 1] = first + (m + 1) - 1
        BY <4>1, <4>2, <4>3
      <4> QED
        BY <4>1, <4>4
    <3> QED
      BY <3>1, <3>2
  <2> HIDE DEF Q
  <2> QED
    BY <1>1, <2>1, <2>2, InductTo
<1>6. \A k \in 1..n : t[k] = first + k - 1
  <2>1. \A k \in 1..n : k \in 0..n /\ k # 0
    BY <1>1
  <2> QED
    BY <1>5, <2>1
<1>7. first \in Nat /\ last = first + n - 1 /\ first <= last /\ n = last - first + 1
  <2>1. first \in Nat /\ n \in 1..n
    BY <1>1
  <2>2. last = first + n - 1
    BY <1>6, <2>1
  <2> HIDE DEF first, last
  <2> QED
    BY <1>1, <2>1, <2>2
<1>8. first \in ToSet(t) /\ last \in ToSet(t)
  BY <1>1 DEF ToSet
<1> HIDE DEF first, last, Q
<1>9. ASSUME NEW i \in first..last PROVE i \in ToSet(t)
  <2> DEFINE k == i - first + 1
  <2>1. k \in 1..n /\ first + k - 1 = i
    BY <1>1, <1>7
  <2>2. t[k] = i
    BY <1>6, <2>1
  <2> HIDE DEF k
  <2> QED
    BY <1>1, <2>1, <2>2 DEF ToSet
<1>10. ASSUME NEW i \in first..(last - 1) PROVE SameSentence(lines, i, i + 1)
  <2> DEFINE k == i - first + 1
  <2>1. k \in 1..(n - 1) /\ k + 1 \in 1..n /\ k \in 1..n /\ first + k - 1 = i /\ first + (k + 1) - 1 = i + 1
    BY <1>1, <1>7
  <2>2. t[k] = i /\ t[k + 1] = i + 1
    BY <1>6, <2>1
  <2> HIDE DEF k
  <2> QED
    BY <1>2, <2>1, <2>2
<1>11. t = [k \in 1..(last - first + 1) |-> first + k - 1]
  BY <1>3, <1>6, <1>7
<1>12. TokensIn(lines, t) > TargetTokens => LongSentence(lines, t)
  <2> SUFFICES ASSUME TokensIn(lines, t) > TargetTokens PROVE LongSentence(lines, t)
    OBVIOUS
  <2>1. TokensIn(lines, [k \in 1..(last - first + 1) |-> first + k - 1]) > TargetTokens
    BY <1>11
  <2>2. first..last \subseteq ToSet(t)
    BY <1>9
  <2> QED
    BY <1>7, <1>8, <1>10, <2>1, <2>2, Zenon DEF LongSentence
<1> QED
  BY <1>4, <1>12, Limits DEF Within

\* One sentence more.
LEMMA SentenceFits ==
  ASSUME NEW lines \in Seq(Lines), NEW t \in Seq(Positions(lines)), Sentence(lines, t),
         NEW seen, NEW ordered \in BOOLEAN, ordered => Rising(t) /\ Before(seen, ToSet(t)),
         NEW before, NEW s \in SplitStates(lines), SplitSoFar(lines, seen, ordered, before, s)
  PROVE  SplitSoFar(lines, seen \cup ToSet(t), ordered, before \o t, AddSentence(lines, s, t))
<1> DEFINE P == Positions(lines)
           pieces == s.pieces
           current == s.current
           n == Len(pieces)
           r == AddSentence(lines, s, t)
<1>1. /\ P \subseteq Nat /\ t \in Seq(P) /\ pieces \in Seq(Seq(P)) /\ current \in Seq(P)
      /\ s = [pieces |-> pieces, current |-> current]
      /\ n \in Nat
  BY DEF SplitStates, Positions
<1>3. ordered => Rising(t) /\ Before(seen, ToSet(t))
  OBVIOUS
<1>4. r = IF current # <<>> /\ TokensIn(lines, current) + TokensIn(lines, t) > TargetTokens
          THEN [pieces |-> Append(pieces, current), current |-> t]
          ELSE [pieces |-> pieces, current |-> current \o t]
  <2>1. r = IF current # <<>> /\ TokensIn(lines, current) + TokensIn(lines, t) > TargetTokens
            THEN [pieces |-> Append(pieces, current), current |-> t]
            ELSE [s EXCEPT !.current = current \o t]
    BY DEF AddSentence
  <2>2. [s EXCEPT !.current = current \o t] = [pieces |-> pieces, current |-> current \o t]
    <3> DEFINE new == current \o t
    <3> HIDE DEF pieces, current, r, new
    <3>1. [s EXCEPT !.current = new] = [pieces |-> pieces, current |-> new]
      BY <1>1
    <3> QED
      BY <3>1 DEF new
  <2> HIDE DEF pieces, current, r
  <2> QED
    BY <2>1, <2>2, Zenon
<1>6. TokensIn(lines, t) \in Nat /\ Within(lines, t, TargetTokens)
  BY <1>1, OneSentence, TokensSum
<1>7. /\ TokensIn(lines, current) \in Nat
      /\ TokensIn(lines, current \o t) = TokensIn(lines, current) + TokensIn(lines, t)
      /\ \A k \in 1..n : TokensIn(lines, pieces[k]) \in Nat
  <2>1. \A k \in 1..n : pieces[k] \in Seq(P)
    BY <1>1
  <2> HIDE DEF pieces, current, n
  <2>2. \A k \in 1..n : TokensIn(lines, pieces[k]) \in Nat
    BY <2>1, TokensSum
  <2> QED
    BY <1>1, <2>2, TokensSum, TokensAdd
<1>8. /\ LinesOf(pieces) \cup ToSet(current) = seen
      /\ ordered => /\ InOrder(pieces) /\ Rising(current)
                          /\ Before(LinesOf(pieces), ToSet(current))
      /\ pieces = <<>> => current = before
      /\ \A k \in 1..n : Within(lines, pieces[k], TargetTokens)
      /\ Within(lines, current, TargetTokens)
      /\ Packed(lines, pieces)
      /\ pieces # <<>> => TokensIn(lines, pieces[n]) + TokensIn(lines, current) > TargetTokens
  BY DEF SplitSoFar
<1> HIDE DEF P, pieces, current, r, n
<1>9. CASE current # <<>> /\ TokensIn(lines, current) + TokensIn(lines, t) > TargetTokens
  <2> DEFINE c == Append(pieces, current)
  <2>1. r.pieces = c /\ r.current = t
    BY <1>4, <1>9
  <2>2. /\ LinesOf(c) = LinesOf(pieces) \cup ToSet(current)
        /\ InOrder(pieces) /\ Rising(current) /\ Before(LinesOf(pieces), ToSet(current)) => InOrder(c)
    BY <1>1, OneMoreText
  <2>3. /\ Len(c) = n + 1 /\ c # <<>> /\ c[n + 1] = current
        /\ \A k \in 1..n : c[k] = pieces[k]
        /\ \A k \in 1..(n + 1) : k \in 1..n \/ k = n + 1
    <3> DEFINE T == Seq(P)
    <3>1. pieces \in Seq(T) /\ current \in T
      BY <1>1
    <3> HIDE DEF T
    <3> QED
      BY <3>1, OneMore DEF n
  <2>4. pieces # <<>> \/ n = 0
    BY <1>1 DEF n
  <2> HIDE DEF c
  <2>5. \A k \in 1..Len(c) : Within(lines, c[k], TargetTokens)
    BY <1>8, <2>3
  <2>6. Packed(lines, c)
    <3> SUFFICES ASSUME NEW k \in 1..n
                 PROVE  TokensIn(lines, c[k]) + TokensIn(lines, c[k + 1]) > TargetTokens
      BY <1>1, <2>3 DEF Packed
    <3>1. CASE k = n
      BY <1>8, <2>3, <2>4, <3>1
    <3>2. CASE k # n
      <4>1. k \in 1..(n - 1) /\ k + 1 \in 1..n
        BY <1>1, <3>2
      <4> QED
        BY <1>8, <2>3, <4>1 DEF Packed, n
    <3> QED
      BY <3>1, <3>2
  <2>7. TokensIn(lines, c[Len(c)]) + TokensIn(lines, t) > TargetTokens
    BY <1>6, <1>9, <2>3
  <2>8. LinesOf(c) \cup ToSet(t) = seen \cup ToSet(t)
    BY <1>8, <2>2
  <2>9. ordered => /\ InOrder(c) /\ Rising(t) /\ Before(LinesOf(c), ToSet(t))
    BY <1>3, <1>8, <2>2
  <2> QED
    BY <1>6, <2>1, <2>3, <2>5, <2>6, <2>7, <2>8, <2>9 DEF SplitSoFar, r
<1>10. CASE ~(current # <<>> /\ TokensIn(lines, current) + TokensIn(lines, t) > TargetTokens)
  <2> DEFINE c == current \o t
  <2>1. r.pieces = pieces /\ r.current = c
    BY <1>4, <1>10
  <2>2. /\ ToSet(c) = ToSet(current) \cup ToSet(t)
        /\ Rising(current) /\ Rising(t) /\ Before(ToSet(current), ToSet(t)) => Rising(c)
    BY <1>1, TextAfterText
  <2>3. Within(lines, c, TargetTokens)
    <3>1. CASE current = <<>>
      <4>1. c = t
        BY <1>1, <3>1
      <4> QED
        BY <1>6, <4>1
    <3>2. CASE current # <<>>
      BY <1>6, <1>7, <1>10, <3>2, Limits DEF Within
    <3> QED
      BY <3>1, <3>2
  <2>4. TokensIn(lines, c) >= TokensIn(lines, current) /\ TokensIn(lines, c) \in Nat
    BY <1>6, <1>7
  <2>5. pieces = <<>> => c = before \o t
    BY <1>8
  <2>6. pieces # <<>> => n \in 1..n
    BY <1>1 DEF n
  <2> HIDE DEF c
  <2>7. pieces # <<>> => TokensIn(lines, pieces[n]) + TokensIn(lines, c) > TargetTokens
    BY <1>7, <1>8, <2>4, <2>6, Limits
  <2>8. LinesOf(pieces) \cup ToSet(c) = seen \cup ToSet(t)
    BY <1>8, <2>2
  <2>9. ordered => /\ InOrder(pieces) /\ Rising(c) /\ Before(LinesOf(pieces), ToSet(c))
    <3> SUFFICES ASSUME ordered
                 PROVE  InOrder(pieces) /\ Rising(c) /\ Before(LinesOf(pieces), ToSet(c))
      OBVIOUS
    <3>1. Before(ToSet(current), ToSet(t)) /\ Before(LinesOf(pieces), ToSet(t)) /\ Rising(t)
      BY <1>3, <1>8 DEF Before
    <3> QED
      BY <1>8, <2>2, <3>1 DEF Before
  <2> QED
    BY <1>8, <2>1, <2>3, <2>5, <2>7, <2>8, <2>9 DEF SplitSoFar, r, n
<1> QED
  BY <1>9, <1>10

\* How a text is cut: into pieces that are its lines, in order, none above the
\* maximum and, when there are several, none above the target.
Cut(lines, whole, pieces) ==
  /\ pieces \in Seq(Seq(Positions(lines))) /\ Len(pieces) \in Nat \ {0}
  /\ LinesOf(pieces) = ToSet(whole) /\ (Rising(whole) => InOrder(pieces))
  /\ Len(pieces) = 1 => pieces[1] = whole
  /\ \A k \in 1..Len(pieces) : Within(lines, pieces[k], MaxTokens)
  /\ Len(pieces) # 1 => \A k \in 1..Len(pieces) : Within(lines, pieces[k], TargetTokens)
  /\ Packed(lines, pieces)

\* SplitOversized cuts a text so.
LEMMA SplitCuts ==
  ASSUME NEW lines \in Seq(Lines), NEW whole \in Seq(Positions(lines))
  PROVE  Cut(lines, whole, SplitOversized(lines, whole))
<1> DEFINE P == Positions(lines)
           sens == Sentences(lines, whole)
           N == Len(sens)
<1>0. SentencesOf(lines, whole, sens)
  BY TextIsSentences
<1>2. PICK h : SplitRun(h, lines, sens, SplitOversized(lines, whole))
  BY SplitRuns
<1> HIDE DEF sens
<1>1. /\ N \in Nat /\ 0 \in 0..N /\ N \in 0..N /\ P \subseteq Nat /\ whole \in Seq(P)
      /\ sens \in Seq(Seq(P)) /\ LinesOf(sens) = ToSet(whole) /\ (Rising(whole) => InOrder(sens))
      /\ \A k \in 1..N : Sentence(lines, sens[k])
  <2>1. sens \in Seq(Seq(P))
    BY <1>0 DEF SentencesOf
  <2> QED
    BY <1>0, <2>1 DEF SentencesOf, Positions
<1>20. PICK f \in [0..N -> Seq(P)] : Adds(f, sens, whole)
  BY <1>0 DEF SentencesOf, Joins
<1> HIDE DEF N, P
<1> DEFINE Q == {m \in 0..N : SplitSoFar(lines, FirstLines(sens, m), InOrder(sens), f[m], h[m])}
<1>3. 0 \in Q
  <2>1. h[0] = [pieces |-> <<>>, current |-> <<>>]
    BY <1>2 DEF SplitRun
  <2>2. h[0].pieces = <<>> /\ h[0].current = <<>> /\ f[0] = <<>>
    BY <1>20, <2>1 DEF Adds
  <2>3. FirstLines(sens, 0) = {} /\ 1..0 = {} /\ Len(<<>>) = 0
    <3>1. 1..0 = {} /\ Len(<<>>) = 0
      OBVIOUS
    <3> QED
      BY <3>1 DEF FirstLines
  <2>4. Packed(lines, <<>>)
    BY DEF Packed
  <2>5. Within(lines, <<>>, TargetTokens)
    <3>1. <<>> \in Seq(Positions(lines))
      OBVIOUS
    <3>2. TokensIn(lines, <<>>) = 0
      BY <3>1, TokensSum
    <3> QED
      BY <3>2, Limits DEF Within
  <2>6. SplitSoFar(lines, FirstLines(sens, 0), InOrder(sens), f[0], h[0])
    BY <2>2, <2>3, <2>4, <2>5, NoText DEF SplitSoFar, Before
  <2> QED
    BY <1>1, <2>6
<1>4. ASSUME NEW m \in 0..(N - 1), m \in Q PROVE m + 1 \in Q
  <2>1. m \in 0..N /\ m + 1 \in 0..N /\ m \in 0..(Len(sens) - 1) /\ m + 1 \in 1..N
    BY <1>1 DEF N
  <2>2. /\ h[m] \in SplitStates(lines) /\ h[m + 1] = AddSentence(lines, h[m], sens[m + 1])
        /\ f[m + 1] = f[m] \o sens[m + 1]
    BY <1>2, <1>20, <2>1 DEF SplitRun, Adds, N
  <2> DEFINE t == sens[m + 1]
             seen == FirstLines(sens, m)
             ordered == InOrder(sens)
  <2>3. SplitSoFar(lines, seen, ordered, f[m], h[m])
    BY <1>4
  <2>5. Sentence(lines, t) /\ t \in Seq(Positions(lines)) /\ ordered \in BOOLEAN
    BY <1>1, <2>1 DEF P, InOrder, N
  <2>6. FirstLines(sens, m + 1) = seen \cup ToSet(t)
    <3>1. 1..(m + 1) = (1..m) \cup {m + 1}
      BY <2>1
    <3> QED
      BY <3>1 DEF FirstLines
  <2>7. ordered => Rising(t) /\ Before(seen, ToSet(t))
    <3>0. DOMAIN sens = 1..N
      BY <1>1 DEF N
    <3>1. m + 1 \in DOMAIN sens /\ \A k \in 1..m : k \in DOMAIN sens /\ k < m + 1
      BY <1>1, <2>1, <3>0
    <3> QED
      BY <3>1 DEF InOrder, Before, FirstLines
  <2>8. h[m] \in SplitStates(lines) /\ h[m + 1] = AddSentence(lines, h[m], t)
        /\ f[m + 1] = f[m] \o t
    BY <2>2
  <2> HIDE DEF Q, t, seen, ordered
  <2>9. SplitSoFar(lines, seen \cup ToSet(t), ordered, f[m + 1], h[m + 1])
    BY <2>3, <2>5, <2>7, <2>8, SentenceFits
  <2>4. SplitSoFar(lines, FirstLines(sens, m + 1), InOrder(sens), f[m + 1], h[m + 1])
    BY <2>6, <2>9 DEF ordered
  <2> QED
    BY <2>1, <2>4 DEF Q
<1>5. SplitSoFar(lines, FirstLines(sens, N), InOrder(sens), whole, h[N])
  <2> HIDE DEF Q
  <2>1. \A m \in 0..N : m \in Q
    BY <1>1, <1>3, <1>4, InductTo
  <2>2. f[N] = whole
    BY <1>20 DEF Adds, N
  <2> QED
    BY <1>1, <2>1, <2>2 DEF Q
<1> DEFINE pieces == h[N].pieces
           current == h[N].current
           c == Append(pieces, current)
           n == Len(pieces)
<1>6. /\ pieces \in Seq(Seq(P)) /\ current \in Seq(P) /\ n \in Nat
      /\ SplitOversized(lines, whole) = c
  <2>1. h[N] \in SplitStates(lines)
    BY <1>1, <1>2 DEF SplitRun, N
  <2> QED
    BY <1>2, <2>1 DEF SplitStates, SplitRun, N, P
<1>7. /\ LinesOf(pieces) \cup ToSet(current) = FirstLines(sens, N)
      /\ InOrder(sens) => /\ InOrder(pieces) /\ Rising(current)
                          /\ Before(LinesOf(pieces), ToSet(current))
      /\ pieces = <<>> => current = whole
      /\ \A k \in 1..n : Within(lines, pieces[k], TargetTokens)
      /\ Within(lines, current, TargetTokens)
      /\ Packed(lines, pieces)
      /\ pieces # <<>> => TokensIn(lines, pieces[n]) + TokensIn(lines, current) > TargetTokens
  BY <1>5 DEF SplitSoFar
<1> HIDE DEF pieces, current, n
<1>8. /\ LinesOf(c) = LinesOf(pieces) \cup ToSet(current)
      /\ InOrder(pieces) /\ Rising(current) /\ Before(LinesOf(pieces), ToSet(current)) => InOrder(c)
  BY <1>1, <1>6, OneMoreText
<1>9. /\ Len(c) = n + 1 /\ c # <<>> /\ c[n + 1] = current /\ c \in Seq(Seq(P))
      /\ \A k \in 1..n : c[k] = pieces[k]
      /\ \A k \in 1..(n + 1) : k \in 1..n \/ k = n + 1
  <2> DEFINE T == Seq(P)
  <2>1. pieces \in Seq(T) /\ current \in T
    BY <1>6
  <2> HIDE DEF T
  <2>2. /\ Len(c) = n + 1 /\ c # <<>> /\ c[n + 1] = current /\ c \in Seq(T)
        /\ \A k \in 1..n : c[k] = pieces[k]
        /\ \A k \in 1..(n + 1) : k \in 1..n \/ k = n + 1
    BY <2>1, OneMore DEF n
  <2> QED
    BY <2>2 DEF T
<1>10. ToSet(whole) = FirstLines(sens, N)
  <2>1. DOMAIN sens = 1..N
    BY <1>1 DEF N
  <2> QED
    BY <1>1, <2>1 DEF FirstLines, LinesOf
<1>11. pieces = <<>> \/ n # 0
  BY <1>6 DEF n
<1>12. pieces # <<>> \/ n = 0
  BY <1>6 DEF n
<1> HIDE DEF c
<1>13. \A k \in 1..Len(c) : Within(lines, c[k], TargetTokens)
  BY <1>7, <1>9
<1>14. Packed(lines, c)
  <2> SUFFICES ASSUME NEW k \in 1..n
               PROVE  TokensIn(lines, c[k]) + TokensIn(lines, c[k + 1]) > TargetTokens
    BY <1>6, <1>9 DEF Packed
  <2>1. CASE k = n
    BY <1>7, <1>9, <1>12, <2>1
  <2>2. CASE k # n
    <3>1. k \in 1..(n - 1) /\ k + 1 \in 1..n
      BY <1>6, <2>2
    <3> QED
      BY <1>7, <1>9, <3>1 DEF Packed, n
  <2> QED
    BY <2>1, <2>2
<1>15. Len(c) = 1 => c[1] = whole
  <2>3. Len(c) = n + 1 /\ n \in Nat
    BY <1>6, <1>9
  <2>4. Len(c) = 1 => n = 0
    <3> DEFINE l == Len(c)
    <3>1. l = n + 1 /\ n \in Nat
      BY <2>3
    <3> HIDE DEF l
    <3>2. l = 1 => n = 0
      BY <3>1
    <3> QED
      BY <3>2 DEF l
  <2>1. Len(c) = 1 => n = 0 /\ pieces = <<>>
    BY <1>11, <2>4, Zenon
  <2>2. n = 0 => n + 1 = 1
    OBVIOUS
  <2> QED
    BY <1>7, <1>9, <2>1, <2>2
<1>16. \A k \in 1..Len(c) : TokensIn(lines, c[k]) \in Nat
  BY <1>9, TokensSum DEF P
<1>17. \A k \in 1..Len(c) : Within(lines, c[k], MaxTokens)
  BY <1>13, <1>16, Limits DEF Within
<1>18. LinesOf(c) = ToSet(whole) /\ (Rising(whole) => InOrder(c)) /\ Len(c) \in Nat \ {0}
  BY <1>1, <1>6, <1>7, <1>8, <1>9, <1>10
<1>19. Cut(lines, whole, c)
  BY <1>9, <1>13, <1>14, <1>15, <1>17, <1>18 DEF Cut, P
<1> QED
  BY <1>6, <1>19

\* A text is cut so also when it is left whole.
LEMMA PiecesCut ==
  ASSUME NEW lines \in Seq(Lines), NEW whole \in Seq(Positions(lines))
  PROVE  Cut(lines, whole, Pieces(lines, whole))
<1>1. TokensIn(lines, whole) \in Nat
  BY TokensSum
<1>2. CASE TokensIn(lines, whole) > MaxTokens
  BY <1>2, SplitCuts DEF Pieces
<1>3. CASE ~(TokensIn(lines, whole) > MaxTokens)
  <2> DEFINE c == <<whole>>
             T == Seq(Positions(lines))
  <2>1. c \in Seq(T)
    <3>1. whole \in T
      OBVIOUS
    <3> HIDE DEF T
    <3> QED
      BY <3>1
  <2>2. Len(c) = 1 /\ c[1] = whole /\ DOMAIN c = {1} /\ \A k \in 1..1 : k = 1
    OBVIOUS
  <2>3. LinesOf(c) = ToSet(whole) /\ (Rising(whole) => InOrder(c))
    BY <2>2 DEF LinesOf, InOrder
  <2>4. Within(lines, whole, MaxTokens)
    BY <1>1, <1>3, Limits DEF Within
  <2>5. Pieces(lines, whole) = c
    BY <1>3 DEF Pieces
  <2>6. Packed(lines, c)
    BY <2>2 DEF Packed
  <2>7. c \in Seq(Seq(Positions(lines)))
    BY <2>1
  <2> HIDE DEF c
  <2>8. \A k \in 1..Len(c) : Within(lines, c[k], MaxTokens)
    BY <2>2, <2>4
  <2>9. Len(c) \in Nat \ {0}
    BY <2>2
  <2>10. Cut(lines, whole, c)
    BY <2>2, <2>3, <2>6, <2>7, <2>8, <2>9, Zenon DEF Cut
  <2> QED
    BY <2>5, <2>10
<1> QED
  BY <1>2, <1>3

-----------------------------------------------------------------------------
(* Units take pieces *)

\* The texts of units, when there is one more.
LEMMA UnitsHaveTexts ==
  ASSUME NEW lines, NEW units \in Seq(UnitsOf(lines)), NEW unit \in UnitsOf(lines)
  PROVE  /\ TextsOf(units) \in Seq(Seq(Positions(lines))) /\ unit.text \in Seq(Positions(lines))
         /\ TextsOf(Append(units, unit)) = Append(TextsOf(units), unit.text)
<1>1. \A u \in UnitsOf(lines) : u.text \in Seq(Positions(lines))
  BY DEF UnitsOf
<1>2. TextsOf(units) \in Seq(Seq(Positions(lines)))
  BY <1>1, TextsOfOneMore
<1>3. TextsOf(Append(units, unit)) = Append(TextsOf(units), unit.text)
  BY <1>1, TextsOfOneMore, ZenonT(60)
<1> QED
  BY <1>1, <1>2, <1>3, Zenon

\* A unit more, or the last one with a small piece folded in: nothing else changes
Grown(lines, units, new, t, path) ==
  /\ new \in Seq(UnitsOf(lines)) /\ new # <<>> /\ Last(new).path = path
  /\ Len(new) \in Nat \ {0} /\ Last(new) = new[Len(new)] /\ Len(new) >= Len(units)
  /\ \A k \in 1..Len(new) : (k \in 1..Len(units) /\ new[k] = units[k]) \/ k = Len(new)
  /\ Foldable(lines, units, t, path) =>
       /\ Last(units).path = path /\ units # <<>> /\ Last(units).text \in Seq(Positions(lines))
       /\ Last(units) = units[Len(units)] /\ Len(units) \in 1..Len(units)
       /\ Last(new).text = Last(units).text \o t
       /\ TextsOf(new) = Append(Front(TextsOf(units)), Last(TextsOf(units)) \o t)
       /\ TextsOf(units) # <<>>
  /\ ~Foldable(lines, units, t, path) =>
       /\ Last(new).text = t
       /\ TextsOf(new) = Append(TextsOf(units), t)

\* This is how AddUnit grows the units.
LEMMA UnitGrows ==
  ASSUME NEW lines \in Seq(Lines), NEW units \in Seq(UnitsOf(lines)),
         NEW t \in Seq(Positions(lines)), NEW kind \in Kinds, NEW path \in Seq(STRING)
  PROVE  Grown(lines, units, AddUnit(lines, units, t, kind, path), t, path)
<1> DEFINE P == Positions(lines)
           U == UnitsOf(lines)
           new == AddUnit(lines, units, t, kind, path)
<1>0. /\ \A u \in U : u.text \in Seq(P) /\ u = [kind |-> u.kind, text |-> u.text, path |-> u.path]
      /\ \A k \in Kinds, s \in Seq(P), p \in Seq(STRING) : [kind |-> k, text |-> s, path |-> p] \in U
      /\ units \in Seq(U) /\ new \in Seq(U) /\ t \in Seq(P)
  BY UnitAdded DEF UnitsOf
<1>1. CASE Foldable(lines, units, t, path)
  <2> DEFINE f == Front(units)
             l == Last(units)
             n == Len(f)
             x == [l EXCEPT !.text = @ \o t]
  <2>1. /\ units # <<>> /\ l.path = path
        /\ new = Append(f, x)
    BY <1>1 DEF Foldable, AddUnit
  <2>2. /\ f \in Seq(U) /\ l \in U /\ units = Append(f, l) /\ n + 1 = Len(units)
    <3> HIDE DEF U
    <3> QED
      BY <1>0, <2>1, ButLast
  <2>3. l.text \in Seq(P) /\ l = [kind |-> l.kind, text |-> l.text, path |-> l.path]
    BY <1>0, <2>2
  <2>4. l.text \o t \in Seq(P)
    <3> DEFINE a == l.text
    <3>1. a \in Seq(P) /\ t \in Seq(P)
      BY <1>0, <2>3
    <3> HIDE DEF a, P
    <3>2. a \o t \in Seq(P)
      BY <3>1
    <3> QED
      BY <3>2 DEF a
  <2>5. x.text = l.text \o t /\ x.path = l.path /\ x \in U
    <3>1. x = [kind |-> l.kind, text |-> l.text \o t, path |-> l.path]
      <4> DEFINE k == l.kind
                 a == l.text
                 p == l.path
                 b == a \o t
      <4>1. l = [kind |-> k, text |-> a, path |-> p] /\ x = [l EXCEPT !.text = b]
        BY <2>3
      <4> HIDE DEF k, a, p, b, x, l
      <4>2. x = [kind |-> k, text |-> b, path |-> p]
        BY <4>1
      <4> QED
        BY <4>2 DEF k, a, p, b
    <3> HIDE DEF new, f
    <3> QED
      BY <1>0, <2>2, <2>4, <3>1 DEF UnitsOf
  <2> HIDE DEF f, l, x, new, U, P
  <2>6. /\ n \in Nat /\ Len(new) = n + 1 /\ new # <<>> /\ new[n + 1] = x
        /\ \A k \in 1..n : new[k] = f[k]
        /\ \A k \in 1..(n + 1) : k \in 1..n \/ k = n + 1
    BY <2>1, <2>2, <2>5, OneMore
  <2>7. /\ units[n + 1] = l /\ \A k \in 1..n : units[k] = f[k]
        /\ Len(units) = n + 1
    BY <2>2, OneMore
  <2>8. Last(new) = x /\ Last(units) = l
    <3>1. Last(new) = new[Len(new)]
      BY Zenon DEF Last
    <3> QED
      BY <2>6, <3>1 DEF l
  <2>9. /\ TextsOf(new) = Append(Front(TextsOf(units)), Last(TextsOf(units)) \o t)
        /\ TextsOf(units) # <<>>
    <3> DEFINE F == TextsOf(f)
               a == l.text
               b == x.text
    <3>1. F \in Seq(Seq(P)) /\ a \in Seq(P)
      BY <2>2, UnitsHaveTexts DEF U, P
    <3>2. TextsOf(Append(f, l)) = Append(F, a)
      BY <2>2, UnitsHaveTexts, Zenon DEF U
    <3>3. TextsOf(Append(f, x)) = Append(F, b)
      BY <2>2, <2>5, UnitsHaveTexts, Zenon DEF U
    <3>4. b = a \o t
      BY <2>5
    <3>5. TextsOf(units) = Append(F, a)
      BY <2>2, <3>2, Zenon
    <3>6. TextsOf(new) = Append(F, a \o t)
      BY <2>1, <3>3, <3>4, Zenon
    <3> HIDE DEF F, a, b
    <3>7. /\ Append(F, a) # <<>> /\ Len(Append(F, a)) = Len(F) + 1 /\ Append(F, a)[Len(F) + 1] = a
          /\ Append(F, a) \in Seq(Seq(P))
      <4> DEFINE T == Seq(P)
      <4>1. F \in Seq(T) /\ a \in T
        BY <3>1
      <4> HIDE DEF T
      <4>2. /\ Append(F, a) # <<>> /\ Len(Append(F, a)) = Len(F) + 1 /\ Append(F, a)[Len(F) + 1] = a
            /\ Append(F, a) \in Seq(T)
        BY <4>1, OneMore
      <4> QED
        BY <4>2 DEF T
    <3>8. Front(Append(F, a)) = F /\ Last(Append(F, a)) = a
      BY <3>1 DEF Front, Last
    <3> QED
      BY <3>5, <3>6, <3>7, <3>8, Zenon
  <2>10. Len(units) \in 1..Len(units) /\ Len(new) \in Nat \ {0} /\ Len(new) = Len(units)
         /\ Last(new) = new[Len(new)] /\ Last(units) = units[Len(units)]
    BY <2>6, <2>7, <2>8
  <2>11. \A k \in 1..Len(new) : (k \in 1..Len(units) /\ new[k] = units[k]) \/ k = Len(new)
    BY <2>6, <2>7
  <2> QED
    <3>1. Len(new) >= Len(units)
      BY <2>10
    <3>2. Last(units).text \in Seq(P) /\ Last(new).text = Last(units).text \o t
      BY <2>3, <2>5, <2>8
    <3>3. Last(units).path = path /\ Last(new).path = path
      BY <2>1, <2>5, <2>8
    <3> QED
      BY <1>0, <1>1, <2>1, <2>6, <2>9, <2>10, <2>11, <3>1, <3>2, <3>3, Zenon DEF Grown, new, U, P
<1>2. CASE ~Foldable(lines, units, t, path)
  <2> DEFINE x == [kind |-> kind, text |-> t, path |-> path]
             n == Len(units)
  <2>1. new = Append(units, x)
    BY <1>2 DEF AddUnit
  <2>2. x \in U /\ x.text = t /\ x.path = path
    BY <1>0
  <2> HIDE DEF x, new, U, P
  <2>3. /\ n \in Nat /\ Len(new) = n + 1 /\ new # <<>> /\ new[n + 1] = x
        /\ \A k \in 1..n : new[k] = units[k]
        /\ \A k \in 1..(n + 1) : k \in 1..n \/ k = n + 1
    BY <1>0, <2>1, <2>2, OneMore
  <2>4. Last(new) = new[Len(new)]
    BY Zenon DEF Last
  <2>5. TextsOf(new) = Append(TextsOf(units), t)
    <3>1. TextsOf(Append(units, x)) = Append(TextsOf(units), x.text)
      BY <1>0, <2>2, UnitsHaveTexts, Zenon DEF U
    <3> QED
      BY <2>1, <2>2, <3>1, Zenon
  <2>6. /\ Len(new) \in Nat \ {0} /\ Len(new) >= Len(units)
        /\ \A k \in 1..Len(new) : (k \in 1..Len(units) /\ new[k] = units[k]) \/ k = Len(new)
        /\ Last(new).path = path /\ Last(new).text = t
    BY <2>2, <2>3, <2>4
  <2> QED
    BY <1>0, <1>2, <2>3, <2>4, <2>5, <2>6, Zenon DEF Grown, new, U, P
<1> QED
  BY <1>1, <1>2

-----------------------------------------------------------------------------
(* What is true of the units *)

\* The path ends with the title of the last of some headings
EndsWith(lines, headings, path) ==
  IF headings = {} THEN path = <<>>
  ELSE /\ path # <<>>
       /\ \E g \in headings : (\A k \in headings : k <= g) /\ Last(path) = lines[g].title

\* The path after some headings
PathAfter(lines, headings, path) ==
  /\ EndsWith(lines, headings, path)
  /\ WellNested(lines) => path = TitlesAfter(lines, headings)

Placed(lines, held, path) ==
  \A i \in ToSet(held) : PathAfter(lines, HeadingsAbove(lines, i), path)
UnitsPlaced(lines, units) ==
  \A k \in 1..Len(units) : Placed(lines, units[k].text, units[k].path)

PathsAmong(units, paths) == \A k \in 1..Len(units) : units[k].path \in paths

\* Too long only by a small piece
Fits(lines, held) ==
  LimitsAgree => TokensIn(lines, held) < MaxTokens + MinTokens \/ LongSentence(lines, held)
UnitsFitting(lines, units) == \A k \in 1..Len(units) : Fits(lines, units[k].text)

\* The unit the next small piece may be folded into has room for it
Light(lines, units, path) ==
  units # <<>> /\ Last(units).path = path => Within(lines, Last(units).text, MaxTokens)

\* What the units are when they have taken one text more
Taken(lines, units, new, t, path) ==
  /\ new \in Seq(UnitsOf(lines)) /\ new # <<>> /\ Last(new).path = path
  /\ Len(new) >= Len(units) /\ Len(new) \in Nat
  /\ LinesOf(TextsOf(new)) = LinesOf(TextsOf(units)) \cup ToSet(t)
  /\ InOrder(TextsOf(units)) /\ Rising(t) /\ Before(LinesOf(TextsOf(units)), ToSet(t))
       => InOrder(TextsOf(new))
  /\ UnitsPlaced(lines, units) /\ Placed(lines, t, path) => UnitsPlaced(lines, new)
  /\ \A paths : PathsAmong(units, paths) /\ path \in paths => PathsAmong(new, paths)
  /\ UnitsFitting(lines, units) /\ Within(lines, t, MaxTokens)
       /\ (Light(lines, units, path) \/ TokensIn(lines, t) >= MinTokens)
       => UnitsFitting(lines, new)
  /\ TokensIn(lines, t) >= MinTokens => Last(new).text = t
  /\ units # <<>> /\ Last(units).path = path /\ Within(lines, Last(units).text, TargetTokens)
       /\ Within(lines, t, MaxTokens)
       => Within(lines, Last(new).text, MaxTokens)

\* AddUnit makes them take it.
LEMMA PieceAdded ==
  ASSUME NEW lines \in Seq(Lines), NEW units \in Seq(UnitsOf(lines)),
         NEW t \in Seq(Positions(lines)), NEW kind \in Kinds, NEW path \in Seq(STRING)
  PROVE  Taken(lines, units, AddUnit(lines, units, t, kind, path), t, path)
<1> DEFINE P == Positions(lines)
           U == UnitsOf(lines)
           new == AddUnit(lines, units, t, kind, path)
           l == Last(units).text
           T == TextsOf(units)
<1>0. P \subseteq Nat /\ t \in Seq(P)
  BY DEF Positions
<1>1. /\ new \in Seq(UnitsOf(lines)) /\ new # <<>> /\ Last(new).path = path
      /\ Len(new) \in Nat \ {0} /\ Last(new) = new[Len(new)] /\ Len(new) >= Len(units)
      /\ \A k \in 1..Len(new) :
           (k \in 1..Len(units) /\ new[k] = units[k]) \/ k = Len(new)
      /\ Foldable(lines, units, t, path) =>
           /\ Last(units).path = path /\ units # <<>> /\ l \in Seq(P)
           /\ Last(units) = units[Len(units)] /\ Len(units) \in 1..Len(units)
           /\ Last(new).text = l \o t
           /\ TextsOf(new) = Append(Front(T), Last(T) \o t)
           /\ T # <<>>
      /\ ~Foldable(lines, units, t, path) =>
           /\ Last(new).text = t
           /\ TextsOf(new) = Append(T, t)
  <2> HIDE DEF new
  <2>1. Grown(lines, units, new, t, path)
    BY UnitGrows DEF new
  <2> QED
    BY <2>1, Zenon DEF Grown
<1>2. T \in Seq(Seq(P))
  <2>1. \A u \in U : u.text \in Seq(P)
    BY DEF UnitsOf
  <2>2. CASE units = <<>>
    <3>1. T = <<>> /\ <<>> \in Seq(Seq(P))
      BY <2>2, NoText
    <3> QED
      BY <3>1
  <2>3. CASE units # <<>>
    <3>1. PICK u : u \in U
      BY <2>3, ButLast
    <3> QED
      BY <3>1, UnitsHaveTexts
  <2> QED
    BY <2>2, <2>3
<1>3. TokensIn(lines, t) \in Nat
  BY TokensSum
<1>4. Foldable(lines, units, t, path) <=> TokensIn(lines, t) < MinTokens /\ units # <<>> /\ Last(units).path = path
  BY DEF Foldable
<1>5. Foldable(lines, units, t, path) =>
        /\ ToSet(l \o t) = ToSet(l) \cup ToSet(t)
        /\ TokensIn(lines, l \o t) = TokensIn(lines, l) + TokensIn(lines, t)
        /\ TokensIn(lines, l) \in Nat
  <2> SUFFICES ASSUME Foldable(lines, units, t, path)
               PROVE  /\ ToSet(l \o t) = ToSet(l) \cup ToSet(t)
                      /\ TokensIn(lines, l \o t) = TokensIn(lines, l) + TokensIn(lines, t)
                      /\ TokensIn(lines, l) \in Nat
    OBVIOUS
  <2>1. l \in Seq(P)
    BY <1>1
  <2> HIDE DEF l, new
  <2>2. ToSet(l \o t) = ToSet(l) \cup ToSet(t)
    BY <1>0, <2>1, TextAfterText, Zenon
  <2>3. TokensIn(lines, l \o t) = TokensIn(lines, l) + TokensIn(lines, t)
    BY <2>1, TokensAdd
  <2>4. TokensIn(lines, l) \in Nat
    BY <2>1, TokensSum
  <2> QED
    BY <2>2, <2>3, <2>4, Zenon
<1> HIDE DEF new, l, T, P, U
<1>6. /\ LinesOf(TextsOf(new)) = LinesOf(T) \cup ToSet(t)
      /\ InOrder(T) /\ Rising(t) /\ Before(LinesOf(T), ToSet(t)) => InOrder(TextsOf(new))
  <2>1. CASE Foldable(lines, units, t, path)
    <3> DEFINE G == Append(Front(T), Last(T) \o t)
    <3>1. /\ LinesOf(G) = LinesOf(T) \cup ToSet(t)
          /\ InOrder(T) /\ Rising(t) /\ Before(LinesOf(T), ToSet(t)) => InOrder(G)
      <4>1. T # <<>>
        BY <1>1, <2>1
      <4> QED
        BY <1>0, <1>2, <4>1, LastTextGrows
    <3>2. TextsOf(new) = G
      BY <1>1, <2>1, Zenon
    <3> QED
      BY <3>1, <3>2, Zenon
  <2>2. CASE ~Foldable(lines, units, t, path)
    <3> DEFINE G == Append(T, t)
    <3>1. /\ LinesOf(G) = LinesOf(T) \cup ToSet(t)
          /\ InOrder(T) /\ Rising(t) /\ Before(LinesOf(T), ToSet(t)) => InOrder(G)
      <4>1. LinesOf(G) = LinesOf(T) \cup ToSet(t)
        BY <1>0, <1>2, OneMoreText
      <4>2. InOrder(T) /\ Rising(t) /\ Before(LinesOf(T), ToSet(t)) => InOrder(G)
        BY <1>0, <1>2, OneMoreText
      <4> QED
        BY <4>1, <4>2, Zenon
    <3>2. TextsOf(new) = G
      BY <1>1, <2>2, Zenon
    <3> QED
      BY <3>1, <3>2, Zenon
  <2> QED
    BY <2>1, <2>2
<1>7. ASSUME UnitsPlaced(lines, units), Placed(lines, t, path) PROVE UnitsPlaced(lines, new)
  <2> SUFFICES ASSUME NEW k \in 1..Len(new) PROVE Placed(lines, new[k].text, new[k].path)
    BY DEF UnitsPlaced
  <2>1. CASE k \in 1..Len(units) /\ new[k] = units[k]
    BY <1>7, <2>1 DEF UnitsPlaced
  <2>2. CASE k = Len(new) /\ Foldable(lines, units, t, path)
    <3>1. Placed(lines, l, path)
      BY <1>1, <1>7, <2>2 DEF UnitsPlaced, l
    <3>2. new[k].path = path /\ ToSet(new[k].text) = ToSet(l) \cup ToSet(t)
      BY <1>1, <1>5, <2>2
    <3> QED
      BY <1>7, <3>1, <3>2 DEF Placed
  <2>3. CASE k = Len(new) /\ ~Foldable(lines, units, t, path)
    BY <1>1, <1>7, <2>3
  <2> QED
    BY <1>1, <2>1, <2>2, <2>3
<1>8. ASSUME NEW paths, PathsAmong(units, paths), path \in paths PROVE PathsAmong(new, paths)
  BY <1>1, <1>8 DEF PathsAmong
<1>9. ASSUME UnitsFitting(lines, units), Within(lines, t, MaxTokens),
             Light(lines, units, path) \/ TokensIn(lines, t) >= MinTokens
      PROVE  UnitsFitting(lines, new)
  <2> SUFFICES ASSUME NEW k \in 1..Len(new) PROVE Fits(lines, new[k].text)
    BY DEF UnitsFitting
  <2>1. CASE k \in 1..Len(units) /\ new[k] = units[k]
    BY <1>9, <2>1 DEF UnitsFitting
  <2>2. CASE k = Len(new) /\ Foldable(lines, units, t, path)
    <3>1. Within(lines, l, MaxTokens)
      <4>1. ~(TokensIn(lines, t) >= MinTokens)
        BY <1>3, <1>4, <2>2, Limits
      <4> QED
        BY <1>1, <1>9, <2>2, <4>1 DEF Light, l
    <3>2. new[k].text = l \o t
      BY <1>1, <2>2
    <3>3. CASE LongSentence(lines, l)
      <4>1. ToSet(l) \subseteq ToSet(l \o t)
        BY <1>5, <2>2
      <4> QED
        BY <3>2, <3>3, <4>1, LongStaysLong, Zenon DEF Fits
    <3>4. CASE TokensIn(lines, l) <= MaxTokens
      <4> DEFINE x == TokensIn(lines, l)
                 y == TokensIn(lines, t)
                 z == TokensIn(lines, l \o t)
      <4>1. x \in Nat /\ y \in Nat /\ z = x + y /\ x <= MaxTokens /\ y < MinTokens
        BY <1>3, <1>4, <1>5, <2>2, <3>4
      <4> HIDE DEF x, y, z
      <4>2. LimitsAgree => z < MaxTokens + MinTokens
        BY <4>1, Limits
      <4> QED
        BY <3>2, <4>2 DEF Fits, z
    <3>5. CASE ~LimitsAgree
      BY <3>5 DEF Fits
    <3> QED
      BY <3>1, <3>3, <3>4, <3>5 DEF Within
  <2>3. CASE k = Len(new) /\ ~Foldable(lines, units, t, path)
    <3>1. new[k].text = t
      BY <1>1, <2>3
    <3>2. Fits(lines, t)
      BY <1>3, <1>9, Limits DEF Within, Fits
    <3> QED
      BY <3>1, <3>2
  <2> QED
    BY <1>1, <2>1, <2>2, <2>3
<1>10. TokensIn(lines, t) >= MinTokens => Last(new).text = t
  BY <1>1, <1>3, <1>4, Limits
<1>11. ASSUME units # <<>>, Last(units).path = path, Within(lines, l, TargetTokens),
              Within(lines, t, MaxTokens)
       PROVE  Within(lines, Last(new).text, MaxTokens)
  <2>1. CASE ~Foldable(lines, units, t, path)
    BY <1>1, <1>11, <2>1
  <2>2. CASE Foldable(lines, units, t, path)
    <3>1. Last(new).text = l \o t
      BY <1>1, <2>2
    <3>2. CASE LongSentence(lines, l)
      <4>1. ToSet(l) \subseteq ToSet(l \o t)
        BY <1>5, <2>2
      <4> QED
        BY <3>1, <3>2, <4>1, LongStaysLong, Zenon DEF Within
    <3>3. CASE TokensIn(lines, l) <= TargetTokens
      <4> DEFINE x == TokensIn(lines, l)
                 y == TokensIn(lines, t)
                 z == TokensIn(lines, l \o t)
      <4>1. x \in Nat /\ y \in Nat /\ z = x + y /\ x <= TargetTokens /\ y < MinTokens
        BY <1>3, <1>4, <1>5, <2>2, <3>3
      <4> HIDE DEF x, y, z
      <4>2. LimitsAgree => z <= MaxTokens
        BY <4>1, Limits
      <4> QED
        BY <3>1, <4>2 DEF Within, z
    <3>4. CASE ~LimitsAgree
      BY <3>4 DEF Within
    <3> QED
      BY <1>11, <3>2, <3>3, <3>4 DEF Within
  <2> QED
    BY <2>1, <2>2
<1>12. Len(new) \in Nat
  BY <1>1
<1> QED
  BY <1>1, <1>6, <1>7, <1>8, <1>9, <1>10, <1>11, <1>12, Zenon DEF Taken, new, T, l

\* What the units are when they have taken a whole text, whatever it was cut into
TakenWhole(lines, units, new, whole, path) ==
  /\ new \in Seq(UnitsOf(lines)) /\ Len(new) >= Len(units) /\ Len(new) \in Nat
  /\ LinesOf(TextsOf(new)) = LinesOf(TextsOf(units)) \cup ToSet(whole)
  /\ InOrder(TextsOf(units)) /\ Rising(whole) /\ Before(LinesOf(TextsOf(units)), ToSet(whole))
       => InOrder(TextsOf(new))
  /\ UnitsPlaced(lines, units) /\ Placed(lines, whole, path) => UnitsPlaced(lines, new)
  /\ \A paths : PathsAmong(units, paths) /\ path \in paths => PathsAmong(new, paths)
  /\ UnitsFitting(lines, units) /\ Light(lines, units, path) =>
       /\ UnitsFitting(lines, new)
       /\ TokensIn(lines, whole) >= MinTokens => Light(lines, new, path)

\* The same when they have taken the first m pieces
TakenSoFar(lines, units, new, pieces, m, path) ==
  /\ Len(new) >= Len(units) /\ Len(new) \in Nat
  /\ LinesOf(TextsOf(new)) = LinesOf(TextsOf(units)) \cup UNION {ToSet(pieces[k]) : k \in 1..m}
  /\ InOrder(TextsOf(units)) /\ InOrder(pieces) /\ Before(LinesOf(TextsOf(units)), LinesOf(pieces))
       => InOrder(TextsOf(new))
  /\ UnitsPlaced(lines, units) /\ (\A k \in 1..Len(pieces) : Placed(lines, pieces[k], path))
       => UnitsPlaced(lines, new)
  /\ \A paths : PathsAmong(units, paths) /\ path \in paths => PathsAmong(new, paths)
  /\ UnitsFitting(lines, units) /\ Light(lines, units, path) =>
       /\ UnitsFitting(lines, new)
       /\ m = 0 => Light(lines, new, path)
       /\ m # 0 =>
            /\ new # <<>> /\ Last(new).path = path
            /\ TokensIn(lines, pieces[m]) >= MinTokens => Last(new).text = pieces[m]
            /\ m # 1 \/ TokensIn(lines, pieces[m]) >= MinTokens
                 => Within(lines, Last(new).text, MaxTokens)

\* One piece more of those a text was cut into.
LEMMA PieceTaken ==
  ASSUME NEW lines \in Seq(Lines), NEW units \in Seq(UnitsOf(lines)),
         NEW whole \in Seq(Positions(lines)), NEW pieces, Cut(lines, whole, pieces),
         NEW kind \in Kinds, NEW path \in Seq(STRING),
         NEW m \in 0..(Len(pieces) - 1), NEW g \in Seq(UnitsOf(lines)),
         TakenSoFar(lines, units, g, pieces, m, path)
  PROVE  TakenSoFar(lines, units, AddUnit(lines, g, pieces[m + 1], kind, path), pieces, m + 1, path)
<1> DEFINE t == pieces[m + 1]
           new == AddUnit(lines, g, t, kind, path)
           upto(n) == UNION {ToSet(pieces[k]) : k \in 1..n}
           N == Len(pieces)
<1>1. /\ pieces \in Seq(Seq(Positions(lines))) /\ N \in Nat \ {0} /\ t \in Seq(Positions(lines))
      /\ m \in Nat /\ m + 1 \in 1..N /\ DOMAIN pieces = 1..N
  BY DEF Cut
<1>2. Taken(lines, g, new, t, path)
  BY <1>1, PieceAdded
<1>3. /\ \A k \in 1..N : Within(lines, pieces[k], MaxTokens)
      /\ N # 1 => \A k \in 1..N : Within(lines, pieces[k], TargetTokens)
      /\ Packed(lines, pieces)
  BY DEF Cut
<1>4. TokensIn(lines, t) \in Nat /\ (m # 0 => m \in 1..(N - 1) /\ m \in 1..N /\ N # 1)
  <2> DEFINE x == N
  <2>1. x \in Nat \ {0} /\ m \in 0..(x - 1)
    BY <1>1
  <2> HIDE DEF x
  <2>2. m # 0 => m \in 1..(x - 1) /\ m \in 1..x /\ x # 1
    BY <2>1
  <2>3. TokensIn(lines, t) \in Nat
    <3> HIDE DEF t
    <3>1. t \in Seq(Positions(lines))
      BY <1>1 DEF t
    <3> QED
      BY <3>1, TokensSum, Zenon
  <2> QED
    BY <2>2, <2>3 DEF x
<1>5. m # 0 => TokensIn(lines, pieces[m]) \in Nat
  <2>1. m # 0 => pieces[m] \in Seq(Positions(lines))
    BY <1>1, <1>4
  <2> QED
    BY <2>1, TokensSum
<1>6. upto(m + 1) = upto(m) \cup ToSet(t)
  <2>1. 1..(m + 1) = (1..m) \cup {m + 1}
    BY <1>1
  <2> QED
    BY <2>1
<1>7. upto(m) \subseteq LinesOf(pieces) /\ ToSet(t) \subseteq LinesOf(pieces)
  <2>1. \A k \in 1..m : k \in 1..N
    BY <1>1
  <2> QED
    BY <1>1, <2>1 DEF LinesOf
<1>8. InOrder(pieces) => Rising(t) /\ Before(upto(m), ToSet(t))
  <2>1. \A k \in 1..m : k \in 1..N /\ k < m + 1
    BY <1>1
  <2>2. ASSUME InOrder(pieces) PROVE Rising(t) /\ Before(upto(m), ToSet(t))
    <3>1. \A k \in 1..m : Before(ToSet(pieces[k]), ToSet(t))
      BY <1>1, <2>1, <2>2 DEF InOrder
    <3>2. Rising(t)
      BY <1>1, <2>2 DEF InOrder
    <3> QED
      BY <3>1, <3>2 DEF Before
  <2> QED
    BY <2>2
<1> HIDE DEF t, new, N, upto
<1>9. /\ Len(new) >= Len(units) /\ Len(new) \in Nat
      /\ LinesOf(TextsOf(new)) = LinesOf(TextsOf(units)) \cup upto(m + 1)
  <2>1. /\ Len(new) >= Len(g) /\ Len(new) \in Nat
        /\ LinesOf(TextsOf(new)) = LinesOf(TextsOf(g)) \cup ToSet(t)
    BY <1>2, Zenon DEF Taken
  <2>2. /\ Len(g) >= Len(units) /\ Len(g) \in Nat
        /\ LinesOf(TextsOf(g)) = LinesOf(TextsOf(units)) \cup upto(m)
    BY Zenon DEF TakenSoFar, upto
  <2>3. Len(units) \in Nat
    OBVIOUS
  <2>4. LinesOf(TextsOf(new)) = LinesOf(TextsOf(units)) \cup upto(m + 1)
    BY <1>6, <2>1, <2>2
  <2> DEFINE a == Len(new)
             b == Len(g)
             c == Len(units)
  <2>5. a >= b /\ b >= c /\ a \in Nat /\ b \in Nat /\ c \in Nat
    BY <2>1, <2>2, <2>3
  <2> HIDE DEF a, b, c
  <2>6. a >= c /\ a \in Nat
    BY <2>5
  <2> QED
    BY <2>4, <2>6 DEF a, c
<1>10. ASSUME InOrder(TextsOf(units)), InOrder(pieces), Before(LinesOf(TextsOf(units)), LinesOf(pieces))
       PROVE  InOrder(TextsOf(new))
  <2>1. InOrder(TextsOf(g)) /\ LinesOf(TextsOf(g)) = LinesOf(TextsOf(units)) \cup upto(m)
    BY <1>10, Zenon DEF TakenSoFar, upto
  <2>2. Before(LinesOf(TextsOf(g)), ToSet(t))
    BY <1>7, <1>8, <1>10, <2>1 DEF Before
  <2>3. Rising(t)
    BY <1>8, <1>10
  <2> QED
    BY <1>2, <2>1, <2>2, <2>3, Zenon DEF Taken
<1>11. ASSUME UnitsPlaced(lines, units), \A k \in 1..Len(pieces) : Placed(lines, pieces[k], path)
       PROVE  UnitsPlaced(lines, new)
  <2>1. UnitsPlaced(lines, g)
    BY <1>11, Zenon DEF TakenSoFar
  <2>2. Placed(lines, t, path)
    BY <1>1, <1>11 DEF t, N
  <2> QED
    BY <1>2, <2>1, <2>2, Zenon DEF Taken
<1>12. ASSUME NEW paths, PathsAmong(units, paths), path \in paths PROVE PathsAmong(new, paths)
  <2>1. PathsAmong(g, paths)
    BY <1>12, Zenon DEF TakenSoFar
  <2> QED
    BY <1>2, <1>12, <2>1, Zenon DEF Taken
<1>13. ASSUME UnitsFitting(lines, units), Light(lines, units, path)
       PROVE  /\ UnitsFitting(lines, new) /\ new # <<>> /\ Last(new).path = path
              /\ TokensIn(lines, t) >= MinTokens => Last(new).text = t
              /\ m + 1 # 1 \/ TokensIn(lines, t) >= MinTokens
                   => Within(lines, Last(new).text, MaxTokens)
  <2>1. /\ UnitsFitting(lines, g)
        /\ m = 0 => Light(lines, g, path)
        /\ m # 0 =>
             /\ g # <<>> /\ Last(g).path = path
             /\ TokensIn(lines, pieces[m]) >= MinTokens => Last(g).text = pieces[m]
    BY <1>13, Zenon DEF TakenSoFar
  <2>2. new # <<>> /\ Last(new).path = path /\ (TokensIn(lines, t) >= MinTokens => Last(new).text = t)
    BY <1>2, Zenon DEF Taken
  <2>3. Within(lines, t, MaxTokens)
    BY <1>1, <1>3 DEF t
  <2>4. m # 0 /\ ~(TokensIn(lines, t) >= MinTokens) =>
          g # <<>> /\ Last(g).path = path /\ Within(lines, Last(g).text, TargetTokens)
    <3> SUFFICES ASSUME m # 0, ~(TokensIn(lines, t) >= MinTokens)
                 PROVE  g # <<>> /\ Last(g).path = path /\ Within(lines, Last(g).text, TargetTokens)
      OBVIOUS
    <3>1. TokensIn(lines, pieces[m]) + TokensIn(lines, t) > TargetTokens
      BY <1>3, <1>4 DEF Packed, t, N
    <3>2. LimitsAgree => TokensIn(lines, pieces[m]) >= MinTokens
      <4> DEFINE x == TokensIn(lines, pieces[m])
                 y == TokensIn(lines, t)
      <4>1. x \in Nat /\ y \in Nat /\ x + y > TargetTokens /\ ~(y >= MinTokens)
        BY <1>4, <1>5, <3>1
      <4> HIDE DEF x, y
      <4>2. LimitsAgree => x >= MinTokens
        BY <4>1, Limits
      <4> QED
        BY <4>2 DEF x
    <3>3. Within(lines, pieces[m], TargetTokens)
      BY <1>3, <1>4
    <3>4. CASE ~LimitsAgree
      BY <2>1, <3>4 DEF Within
    <3>5. CASE LimitsAgree
      BY <2>1, <3>2, <3>3, <3>5
    <3> QED
      BY <3>4, <3>5
  <2>5. Light(lines, g, path) \/ TokensIn(lines, t) >= MinTokens
    <3> SUFFICES ASSUME m # 0, ~(TokensIn(lines, t) >= MinTokens)
                 PROVE  Light(lines, g, path)
      BY <2>1
    <3>1. Within(lines, Last(g).text, TargetTokens) /\ g # <<>>
      BY <2>4
    <3>2. Last(g).text \in Seq(Positions(lines))
      <4>1. Last(g) \in UnitsOf(lines)
        BY <3>1, ButLast
      <4> QED
        BY <4>1 DEF UnitsOf
    <3>3. TokensIn(lines, Last(g).text) \in Nat
      BY <3>2, TokensSum
    <3> QED
      BY <3>1, <3>3, Limits DEF Light, Within
  <2>6. UnitsFitting(lines, new)
    BY <1>2, <2>1, <2>3, <2>5, Zenon DEF Taken
  <2>7. ASSUME TokensIn(lines, t) >= MinTokens PROVE Within(lines, Last(new).text, MaxTokens)
    BY <2>2, <2>3, <2>7
  <2>8. ASSUME m # 0, ~(TokensIn(lines, t) >= MinTokens)
        PROVE  Within(lines, Last(new).text, MaxTokens)
    BY <1>2, <2>3, <2>4, <2>8, Zenon DEF Taken
  <2>9. m + 1 # 1 => m # 0
    BY <1>1
  <2> QED
    BY <2>2, <2>6, <2>7, <2>8, <2>9
<1>14. m + 1 # 0
  BY <1>1
<1> QED
  BY <1>9, <1>10, <1>11, <1>12, <1>13, <1>14, Zenon DEF TakenSoFar, new, t, upto

\* AddPieces makes the units take a whole text.
LEMMA PiecesTaken ==
  ASSUME NEW lines \in Seq(Lines), NEW units \in Seq(UnitsOf(lines)),
         NEW whole \in Seq(Positions(lines)), NEW kind \in Kinds, NEW path \in Seq(STRING)
  PROVE  TakenWhole(lines, units, AddPieces(lines, units, Pieces(lines, whole), kind, path), whole, path)
<1> DEFINE pieces == Pieces(lines, whole)
           N == Len(pieces)
<1>1. Cut(lines, whole, pieces)
  BY PiecesCut
<1> HIDE DEF pieces
<1>2. /\ pieces \in Seq(Seq(Positions(lines))) /\ N \in Nat \ {0} /\ N \in Nat
      /\ DOMAIN pieces = 1..N /\ 0 \in 0..N /\ N \in 0..N
  BY <1>1 DEF Cut
<1>3. PICK h : PiecesRun(h, lines, units, pieces, kind, path)
  BY <1>2, PiecesRuns
<1> HIDE DEF N
<1>4. /\ h \in [0..N -> Seq(UnitsOf(lines))] /\ h[0] = units
      /\ \A m \in 0..(N - 1) : h[m + 1] = AddUnit(lines, h[m], pieces[m + 1], kind, path)
      /\ AddPieces(lines, units, pieces, kind, path) = h[N]
  BY <1>3, Zenon DEF PiecesRun, N
<1> DEFINE Q == {m \in 0..N : TakenSoFar(lines, units, h[m], pieces, m, path)}
<1>5. 0 \in Q
  <2>1. UNION {ToSet(pieces[k]) : k \in 1..0} = {}
    <3>1. 1..0 = {}
      OBVIOUS
    <3> QED
      BY <3>1
  <2>2. Len(units) >= Len(units) /\ Len(units) \in Nat
    OBVIOUS
  <2>3. LinesOf(TextsOf(units)) = LinesOf(TextsOf(units)) \cup UNION {ToSet(pieces[k]) : k \in 1..0}
    BY <2>1
  <2>4. TakenSoFar(lines, units, units, pieces, 0, path)
    BY <2>2, <2>3, Zenon DEF TakenSoFar
  <2> QED
    BY <1>2, <1>4, <2>4
<1>6. ASSUME NEW m \in 0..(N - 1), m \in Q PROVE m + 1 \in Q
  <2>1. m \in 0..N /\ m + 1 \in 0..N /\ h[m] \in Seq(UnitsOf(lines)) /\ m \in 0..(Len(pieces) - 1)
    <3> HIDE DEF Q
    <3>1. m \in 0..N /\ m + 1 \in 0..N
      BY <1>2
    <3>2. h[m] \in Seq(UnitsOf(lines))
      <4> DEFINE T == Seq(UnitsOf(lines))
      <4> HIDE DEF T
      <4>1. h \in [0..N -> T]
        BY <1>4 DEF T
      <4>2. h[m] \in T
        BY <3>1, <4>1
      <4> QED
        BY <4>2 DEF T
    <3>3. m \in 0..(Len(pieces) - 1)
      BY DEF N
    <3> QED
      BY <3>1, <3>2, <3>3
  <2>2. TakenSoFar(lines, units, h[m], pieces, m, path)
    BY <1>6
  <2> HIDE DEF Q
  <2>3. TakenSoFar(lines, units, AddUnit(lines, h[m], pieces[m + 1], kind, path), pieces, m + 1, path)
    BY <1>1, <2>1, <2>2, PieceTaken
  <2>4. h[m + 1] = AddUnit(lines, h[m], pieces[m + 1], kind, path)
    BY <1>4
  <2> QED
    BY <2>1, <2>3, <2>4 DEF Q
<1>7. TakenSoFar(lines, units, h[N], pieces, N, path)
  <2> HIDE DEF Q
  <2>1. \A m \in 0..N : m \in Q
    BY <1>2, <1>5, <1>6, InductTo
  <2> QED
    BY <1>2, <2>1 DEF Q
<1> DEFINE new == h[N]
<1>8. new \in Seq(UnitsOf(lines))
  BY <1>2, <1>4
<1> HIDE DEF new
<1>9. TakenSoFar(lines, units, new, pieces, N, path)
  BY <1>7 DEF new
<1>10. UNION {ToSet(pieces[k]) : k \in 1..N} = ToSet(whole) /\ LinesOf(pieces) = ToSet(whole)
  BY <1>1, <1>2 DEF Cut, LinesOf
<1>11. Rising(whole) => InOrder(pieces)
  BY <1>1 DEF Cut
<1>12. Placed(lines, whole, path) => \A k \in 1..Len(pieces) : Placed(lines, pieces[k], path)
  <2>1. \A k \in 1..Len(pieces) : ToSet(pieces[k]) \subseteq ToSet(whole)
    BY <1>2, <1>10 DEF LinesOf, N
  <2> QED
    BY <2>1 DEF Placed
<1>13. ASSUME UnitsFitting(lines, units), Light(lines, units, path), TokensIn(lines, whole) >= MinTokens
       PROVE  Light(lines, new, path)
  <2>1. /\ new # <<>> /\ Last(new).path = path
        /\ N # 1 \/ TokensIn(lines, pieces[N]) >= MinTokens
             => Within(lines, Last(new).text, MaxTokens)
    BY <1>2, <1>9, <1>13 DEF TakenSoFar
  <2>2. N = 1 => pieces[N] = whole
    BY <1>1 DEF Cut, N
  <2> QED
    BY <1>13, <2>1, <2>2 DEF Light
<1>14. TakenWhole(lines, units, new, whole, path)
  BY <1>8, <1>9, <1>10, <1>11, <1>12, <1>13, Zenon DEF TakenSoFar, TakenWhole
<1> QED
  BY <1>4, <1>14 DEF new, pieces

-----------------------------------------------------------------------------
(* The segmenter block by block *)

\* Emitting makes the units take what is collected, which is the lines of the blocks.
LEMMA EmitTakes ==
  ASSUME NEW lines \in Seq(Lines), NEW s \in SegmentStates(lines)
  PROVE  /\ TakenWhole(lines, s.units, Emit(lines, s).units, TextOf(s.pending), s.path)
         /\ ToSet(TextOf(s.pending)) = LinesOf(TextsOf(s.pending))
         /\ InOrder(TextsOf(s.pending)) => Rising(TextOf(s.pending))
<1>1. /\ s.units \in Seq(UnitsOf(lines)) /\ s.path \in Seq(STRING)
      /\ s.pending \in Seq(ProseBlocks(lines))
  BY DEF SegmentStates
<1> DEFINE whole == TextOf(s.pending)
           texts == TextsOf(s.pending)
           new == Emit(lines, s).units
<1>2. whole \in Seq(Positions(lines)) /\ texts \in Seq(Seq(Positions(lines))) /\ whole = FlattenSeq(texts)
  BY <1>1, CollectedIsText
<1> HIDE DEF whole, texts
<1>3. /\ ToSet(whole) = LinesOf(texts)
      /\ InOrder(texts) => Rising(whole)
  <2>1. Positions(lines) \subseteq Nat
    BY DEF Positions
  <2> QED
    BY <1>2, <2>1, Flattened
<1> HIDE DEF new
<1>4. CASE s.pending = <<>>
  <2>1. new = s.units
    BY <1>4, Emitted, Zenon DEF new
  <2>2. texts = <<>> /\ ToSet(whole) = {}
    BY <1>3, <1>4, NoText, Zenon DEF texts
  <2>3. /\ Len(s.units) >= Len(s.units) /\ Len(s.units) \in Nat
        /\ LinesOf(TextsOf(s.units)) = LinesOf(TextsOf(s.units)) \cup ToSet(whole)
    BY <1>1, <2>2
  <2>4. TakenWhole(lines, s.units, s.units, whole, s.path)
    BY <1>1, <2>3, Zenon DEF TakenWhole
  <2> QED
    BY <1>3, <2>1, <2>4 DEF new, whole, texts
<1>5. CASE s.pending # <<>>
  <2> DEFINE kind == Head(s.pending).kind
  <2>1. kind \in Kinds /\ new = AddPieces(lines, s.units, Pieces(lines, whole), kind, s.path)
    BY <1>5, Emitted, Zenon DEF new, whole
  <2> HIDE DEF kind
  <2>2. TakenWhole(lines, s.units, new, whole, s.path)
    BY <1>1, <1>2, <2>1, PiecesTaken
  <2> QED
    BY <1>3, <2>2 DEF new, whole, texts
<1> QED
  BY <1>4, <1>5

\* The headings among the first n blocks, and the lines of the others
HeadingsAmong(blocks, n) ==
  {blocks[k].text[1] : k \in {l \in 1..n : blocks[l].kind = "heading"}}
ProseAmong(blocks, n) ==
  UNION {ToSet(blocks[k].text) : k \in {l \in 1..n : blocks[l].kind # "heading"}}

\* No block, and one block more.
LEMMA OneMoreBlock ==
  ASSUME NEW blocks, NEW n \in Nat
  PROVE  /\ HeadingsAmong(blocks, 0) = {} /\ ProseAmong(blocks, 0) = {}
         /\ HeadingsAmong(blocks, n + 1) =
              HeadingsAmong(blocks, n) \cup
                (IF blocks[n + 1].kind = "heading" THEN {blocks[n + 1].text[1]} ELSE {})
         /\ ProseAmong(blocks, n + 1) =
              ProseAmong(blocks, n) \cup
                (IF blocks[n + 1].kind = "heading" THEN {} ELSE ToSet(blocks[n + 1].text))
<1>1. 1..0 = {} /\ 1..(n + 1) = (1..n) \cup {n + 1}
  OBVIOUS
<1> QED
  BY <1>1 DEF HeadingsAmong, ProseAmong

\* What the text of a document has become after n of its blocks: each line once, in
\* order, and none is missing until the units are too many.
Whole(lines, blocks, n, s) ==
  /\ InOrder(TextsOf(s.units)) /\ InOrder(TextsOf(s.pending))
  /\ Before(LinesOf(TextsOf(s.units)), LinesOf(TextsOf(s.pending)))
  /\ LinesOf(TextsOf(s.units)) \cup LinesOf(TextsOf(s.pending)) \subseteq ProseAmong(blocks, n)
  /\ s.full => Len(s.units) >= MaxUnits
  /\ ~s.full => ProseAmong(blocks, n) \subseteq LinesOf(TextsOf(s.units)) \cup LinesOf(TextsOf(s.pending))

\* Emitting keeps that.
LEMMA EmitKeepsText ==
  ASSUME NEW lines \in Seq(Lines), NEW blocks, NEW n, NEW s \in SegmentStates(lines),
         Whole(lines, blocks, n, s)
  PROVE  Whole(lines, blocks, n, Emit(lines, s))
<1> DEFINE e == Emit(lines, s)
           whole == TextOf(s.pending)
<1>1. /\ TakenWhole(lines, s.units, e.units, whole, s.path)
      /\ ToSet(whole) = LinesOf(TextsOf(s.pending))
      /\ InOrder(TextsOf(s.pending)) => Rising(whole)
  BY EmitTakes
<1>2. e.pending = <<>> /\ e.full = s.full
  BY Emitted, Zenon
<1> HIDE DEF e, whole
<1>3. /\ Len(e.units) >= Len(s.units) /\ Len(e.units) \in Nat
      /\ LinesOf(TextsOf(e.units)) = LinesOf(TextsOf(s.units)) \cup LinesOf(TextsOf(s.pending))
  BY <1>1 DEF TakenWhole
<1>4. InOrder(TextsOf(e.units))
  BY <1>1, Zenon DEF TakenWhole, Whole
<1>5. LinesOf(TextsOf(e.pending)) = {} /\ InOrder(TextsOf(e.pending))
  BY <1>2, NoText, Zenon
<1>6. s.full => Len(e.units) >= MaxUnits
  <2>1. s.units \in Seq(UnitsOf(lines))
    BY DEF SegmentStates
  <2>2. Len(s.units) \in Nat /\ MaxUnits \in Nat
    BY <2>1, Limits
  <2>3. s.full => Len(s.units) >= MaxUnits
    BY DEF Whole
  <2> DEFINE a == Len(e.units)
             b == Len(s.units)
  <2>4. a \in Nat /\ b \in Nat /\ a >= b /\ (s.full => b >= MaxUnits)
    BY <1>3, <2>2, <2>3
  <2> HIDE DEF a, b
  <2> QED
    BY <2>2, <2>4 DEF a
<1>7. Before(LinesOf(TextsOf(e.units)), LinesOf(TextsOf(e.pending)))
  BY <1>5 DEF Before
<1>8. Whole(lines, blocks, n, e)
  BY <1>2, <1>3, <1>4, <1>5, <1>6, <1>7 DEF Whole
<1> QED
  BY <1>8 DEF e

\* Blocks in the order of the document, with the titles and levels of their headings
Document(lines, blocks) ==
  blocks \in Seq(BlocksOf(lines)) /\ InOrder(TextsOf(blocks)) /\ HeadingsNamed(lines, blocks)

\* Whatever comes before a block comes before its lines.
LEMMA BlocksInOrder ==
  ASSUME NEW lines \in Seq(Lines), NEW blocks, Document(lines, blocks),
         NEW n \in 0..(Len(blocks) - 1)
  PROVE  /\ n \in Nat /\ n + 1 \in 1..Len(blocks) /\ blocks[n + 1] \in BlocksOf(lines)
         /\ Rising(blocks[n + 1].text)
         /\ Before(ProseAmong(blocks, n), ToSet(blocks[n + 1].text))
         /\ Before(HeadingsAmong(blocks, n), ToSet(blocks[n + 1].text))
<1>1. blocks \in Seq(BlocksOf(lines)) /\ n \in Nat /\ n + 1 \in 1..Len(blocks) /\ DOMAIN blocks = 1..Len(blocks)
  BY DEF Document
<1>2. blocks[n + 1] \in BlocksOf(lines)
  BY <1>1
<1>3. /\ DOMAIN TextsOf(blocks) = 1..Len(blocks)
      /\ \A k \in 1..Len(blocks) : TextsOf(blocks)[k] = blocks[k].text
  BY <1>1 DEF TextsOf
<1>4. Rising(blocks[n + 1].text)
  BY <1>1, <1>3 DEF Document, InOrder
<1>5. \A k \in 1..n : k \in 1..Len(blocks) /\ k < n + 1
  BY <1>1
<1>6. \A k \in 1..n : Before(ToSet(blocks[k].text), ToSet(blocks[n + 1].text))
  BY <1>1, <1>3, <1>5 DEF Document, InOrder
<1>7. Before(ProseAmong(blocks, n), ToSet(blocks[n + 1].text))
  BY <1>6 DEF ProseAmong, Before
<1>8. Before(HeadingsAmong(blocks, n), ToSet(blocks[n + 1].text))
  <2> SUFFICES ASSUME NEW k \in 1..n, blocks[k].kind = "heading", NEW y \in ToSet(blocks[n + 1].text)
               PROVE  blocks[k].text[1] < y
    BY DEF Before, HeadingsAmong
  <2>1. PICK i \in Positions(lines) : blocks[k].text = <<i>>
    BY <1>1, <1>5 DEF Document, HeadingsNamed
  <2>2. blocks[k].text[1] \in ToSet(blocks[k].text)
    BY <2>1, OneLine
  <2> QED
    BY <1>6, <2>2 DEF Before
<1> QED
  BY <1>1, <1>2, <1>4, <1>7, <1>8

\* One block more keeps the text whole.
LEMMA BlockKeepsText ==
  ASSUME NEW lines \in Seq(Lines), NEW blocks, Document(lines, blocks),
         NEW n \in 0..(Len(blocks) - 1), NEW s \in SegmentStates(lines), Whole(lines, blocks, n, s)
  PROVE  Whole(lines, blocks, n + 1, AddBlock(lines, s, blocks[n + 1]))
<1> DEFINE b == blocks[n + 1]
           new == AddBlock(lines, s, b)
           L(x) == LinesOf(TextsOf(x))
<1>1. /\ n \in Nat /\ b \in BlocksOf(lines) /\ Rising(b.text)
      /\ Before(ProseAmong(blocks, n), ToSet(b.text))
  BY BlocksInOrder
<1>2. ProseAmong(blocks, n + 1) = ProseAmong(blocks, n) \cup (IF b.kind = "heading" THEN {} ELSE ToSet(b.text))
  BY <1>1, OneMoreBlock
<1> HIDE DEF b
<1>3. CASE s.full
  <2>1. new = s
    BY <1>1, <1>3, BlockAdded, Zenon
  <2>2. Whole(lines, blocks, n + 1, s)
    BY <1>2, <1>3 DEF Whole
  <2> QED
    BY <2>1, <2>2 DEF b
<1>4. CASE ~s.full /\ b.kind = "heading"
  <2>1. /\ new.units = Emit(lines, s).units /\ new.pending = <<>> /\ ~new.full
        /\ Emit(lines, s).pending = <<>> /\ ~Emit(lines, s).full
    <3>1. new.units = Emit(lines, s).units /\ new.pending = <<>> /\ ~new.full
      BY <1>1, <1>4, BlockAdded, Zenon
    <3>2. Emit(lines, s).pending = <<>> /\ Emit(lines, s).full = s.full
      BY Emitted, Zenon
    <3> HIDE DEF new
    <3> QED
      BY <1>4, <3>1, <3>2
  <2>2. Whole(lines, blocks, n, Emit(lines, s))
    BY EmitKeepsText
  <2>3. ProseAmong(blocks, n + 1) = ProseAmong(blocks, n)
    BY <1>2, <1>4
  <2> HIDE DEF new
  <2>4. Whole(lines, blocks, n + 1, new)
    BY <2>1, <2>2, <2>3 DEF Whole
  <2> QED
    BY <2>4 DEF new, b
<1>5. CASE ~s.full /\ b.kind # "heading"
  <2> DEFINE c == [s EXCEPT !.pending = Append(@, b)]
             next == IF TokensIn(lines, TextOf(c.pending)) >= MergeBelowTokens
                     THEN Emit(lines, c) ELSE c
  <2>1. /\ c \in SegmentStates(lines) /\ c.units = s.units
        /\ c.pending = Append(s.pending, b)
        /\ new.units = next.units /\ new.pending = next.pending
        /\ new.full = (Len(next.units) >= MaxUnits)
    BY <1>1, <1>5, BlockAdded, Zenon
  <2>2. c.full = s.full
    BY DEF SegmentStates
  <2>3. s.pending \in Seq(BlocksOf(lines))
    <3>1. s.pending \in Seq(ProseBlocks(lines))
      BY DEF SegmentStates
    <3>2. ProseBlocks(lines) \subseteq BlocksOf(lines)
      BY DEF BlocksOf
    <3> HIDE DEF c, next, new
    <3> DEFINE P == ProseBlocks(lines)
               B == BlocksOf(lines)
    <3>3. s.pending \in Seq(P) /\ P \subseteq B
      BY <3>1, <3>2
    <3> HIDE DEF P, B
    <3>4. s.pending \in Seq(B)
      BY <3>3
    <3> QED
      BY <3>4 DEF B
  <2> HIDE DEF c, next, new
  <2>4. Before(L(s.units), ToSet(b.text)) /\ Before(L(s.pending), ToSet(b.text))
    BY <1>1 DEF Whole, Before
  <2>5. /\ L(c.pending) = L(s.pending) \cup ToSet(b.text)
        /\ InOrder(TextsOf(c.pending))
    <3>1. /\ L(Append(s.pending, b)) = L(s.pending) \cup ToSet(b.text)
          /\ InOrder(TextsOf(s.pending)) /\ Rising(b.text) /\ Before(L(s.pending), ToSet(b.text))
               => InOrder(TextsOf(Append(s.pending, b)))
      BY <1>1, <2>3, BlocksHaveTexts
    <3>2. InOrder(TextsOf(s.pending))
      BY DEF Whole
    <3> QED
      BY <1>1, <2>1, <2>4, <3>1, <3>2
  <2>6. ProseAmong(blocks, n + 1) = ProseAmong(blocks, n) \cup ToSet(b.text)
    BY <1>2, <1>5
  <2>7. Whole(lines, blocks, n + 1, c)
    <3>1. Before(L(c.units), L(c.pending))
      BY <2>1, <2>4, <2>5 DEF Whole, Before
    <3>2. L(c.units) \cup L(c.pending) \subseteq ProseAmong(blocks, n + 1)
      BY <2>1, <2>5, <2>6 DEF Whole
    <3>3. ProseAmong(blocks, n + 1) \subseteq L(c.units) \cup L(c.pending)
      BY <1>5, <2>1, <2>5, <2>6 DEF Whole
    <3>4. InOrder(TextsOf(c.units))
      BY <2>1 DEF Whole
    <3>5. ~c.full
      BY <1>5, <2>2
    <3> QED
      BY <2>5, <3>1, <3>2, <3>3, <3>4, <3>5 DEF Whole
  <2>8. Whole(lines, blocks, n + 1, next) /\ ~next.full
    <3>1. Whole(lines, blocks, n + 1, Emit(lines, c))
      BY <2>1, <2>7, EmitKeepsText
    <3>2. Emit(lines, c).full = c.full
      BY <2>1, Emitted, Zenon
    <3> QED
      BY <1>5, <2>2, <2>7, <3>1, <3>2 DEF next
  <2>9. Whole(lines, blocks, n + 1, new)
    BY <2>1, <2>8 DEF Whole
  <2> QED
    BY <2>9 DEF new, b
<1> QED
  BY <1>3, <1>4, <1>5

-----------------------------------------------------------------------------
(* Headings and paths *)

\* A heading closes those of its level and above, and no two open ones are of one level
OpenedBy(lines, H, g) ==
  /\ Open(lines, H \cup {g}) =
       {i \in Open(lines, H) : HeadingLevel(lines, i) < HeadingLevel(lines, g)} \cup {g}
  /\ \A i, j \in Open(lines, H) : HeadingLevel(lines, i) = HeadingLevel(lines, j) => i = j

\* What a heading after some others leaves open.
LEMMA OpenAfter ==
  ASSUME NEW lines, NEW H \in SUBSET Nat, NEW g \in Nat, Before(H, {g}),
         \A h \in H \cup {g} : HeadingLevel(lines, h) \in Nat
  PROVE  OpenedBy(lines, H, g)
<1> DEFINE level(i) == HeadingLevel(lines, i)
<1>1. \A i \in H : i < g /\ i \in Nat
  BY DEF Before
<1>2. ASSUME NEW i \in Open(lines, H), NEW j \in Open(lines, H), level(i) = level(j)
      PROVE  i = j
  <2>1. /\ i \in H /\ j \in H /\ level(i) \in Nat /\ level(j) \in Nat
        /\ i < j => level(j) > level(i)
        /\ j < i => level(i) > level(j)
    BY DEF Open
  <2>2. ~(i < j) /\ ~(j < i)
    <3> DEFINE a == level(i)
               b == level(j)
    <3>1. a \in Nat /\ b \in Nat /\ a = b /\ (i < j => b > a) /\ (j < i => a > b)
      BY <1>2, <2>1
    <3> HIDE DEF a, b
    <3> QED
      BY <3>1
  <2>3. i \in Nat /\ j \in Nat
    BY <1>1, <2>1
  <2> QED
    BY <2>2, <2>3
<1>3. g \in Open(lines, H \cup {g})
  <2>1. \A j \in H \cup {g} : ~(j > g)
    BY <1>1
  <2> QED
    BY <2>1 DEF Open
<1>4. ASSUME NEW i \in H
      PROVE  i \in Open(lines, H \cup {g}) <=> i \in Open(lines, H) /\ level(g) > level(i)
  <2>1. g > i
    BY <1>1
  <2> QED
    BY <2>1 DEF Open
<1>5. \A i : i \in H => (level(g) > level(i) <=> level(i) < level(g))
  <2> SUFFICES ASSUME NEW i \in H PROVE level(g) > level(i) <=> level(i) < level(g)
    OBVIOUS
  <2> DEFINE a == level(i)
             b == level(g)
  <2>1. a \in Nat /\ b \in Nat
    OBVIOUS
  <2> HIDE DEF a, b
  <2>2. b > a <=> a < b
    BY <2>1
  <2> QED
    BY <2>2 DEF a, b
<1>6. /\ Open(lines, H) \subseteq H /\ Open(lines, H \cup {g}) \subseteq H \cup {g}
  BY DEF Open
<1> HIDE DEF level
<1>7. Open(lines, H \cup {g}) = {i \in Open(lines, H) : level(i) < level(g)} \cup {g}
  BY <1>3, <1>4, <1>5, <1>6
<1> QED
  BY <1>2, <1>7, Zenon DEF level, OpenedBy

\* The last heading is open.
LEMMA LastIsOpen ==
  ASSUME NEW lines, NEW N \in Nat, NEW H \in SUBSET (1..N), H # {}
  PROVE  \E m \in Open(lines, H) : \A h \in H : h <= m
<1>1. PICK m \in H : \A h \in H : h <= m
  BY MaxIsGreatest
<1>2. \A h \in H : h \in Nat
  OBVIOUS
<1>3. \A h \in H : ~(h > m)
  BY <1>1, <1>2
<1>4. m \in Open(lines, H)
  BY <1>1, <1>3 DEF Open
<1> QED
  BY <1>1, <1>4

\* The path after a heading is that of the headings up to it.
LEMMA PathGrows ==
  ASSUME NEW lines, NEW N \in Nat, NEW H \in SUBSET (1..N), NEW g \in 1..N, Before(H, {g}),
         H \cup {g} \subseteq HeadingsOf(lines), HeadingsAbove(lines, g) = H,
         \A h \in H \cup {g} : HeadingLevel(lines, h) \in Nat \ {0},
         NEW path \in Seq(STRING), PathAfter(lines, H, path),
         NEW heading, heading.level = HeadingLevel(lines, g), heading.title = lines[g].title,
         heading.title \in STRING
  PROVE  PathAfter(lines, H \cup {g}, Under(path, heading))
<1> DEFINE level(i) == HeadingLevel(lines, i)
           L == level(g)
           new == Under(path, heading)
           O == Open(lines, H)
           Q == Open(lines, H \cup {g})
<1>1. /\ L \in Nat /\ L # 0
      /\ new \in Seq(STRING) /\ new # <<>> /\ Last(new) = lines[g].title
      /\ L - 1 <= Len(path) =>
           /\ Len(new) = L /\ new[L] = lines[g].title
           /\ \A k \in 1..(L - 1) : new[k] = path[k]
  <2> DEFINE title == lines[g].title
  <2>1. g \in H \cup {g}
    OBVIOUS
  <2>2. L \in Nat \ {0} /\ heading.level = L
    BY <2>1
  <2>3. title \in STRING /\ heading.title = title
    BY Zenon
  <2> HIDE DEF L, title
  <2>4. L \in Nat /\ L # 0
    BY <2>2
  <2>5. Replaced(path, Under(path, heading), L, title)
    BY <2>2, <2>3, <2>4, PathUnder, Zenon
  <2> QED
    BY <2>4, <2>5, Zenon DEF title, Replaced
<1>2. EndsWith(lines, H \cup {g}, new)
  <2>1. \A k \in H : k < g /\ k \in Nat
    BY DEF Before
  <2> HIDE DEF new
  <2>2. g \in Nat
    OBVIOUS
  <2>3. \A k \in H \cup {g} : k <= g
    <3> SUFFICES ASSUME NEW k \in H \cup {g} PROVE k <= g
      OBVIOUS
    <3> QED
      BY <2>1, <2>2
  <2> QED
    BY <1>1, <2>3 DEF EndsWith
<1>3. ASSUME WellNested(lines)
      PROVE  new = TitlesAfter(lines, H \cup {g})
  <2>1. /\ Q = {i \in O : level(i) < L} \cup {g}
        /\ \A i, j \in O : level(i) = level(j) => i = j
    <3>1. H \in SUBSET Nat /\ g \in Nat /\ \A h \in H \cup {g} : HeadingLevel(lines, h) \in Nat
      <4>1. 1..N \subseteq Nat
        OBVIOUS
      <4>2. H \in SUBSET Nat /\ g \in Nat
        BY <4>1
      <4>3. \A h \in H \cup {g} : HeadingLevel(lines, h) \in Nat
        OBVIOUS
      <4> QED
        BY <4>2, <4>3
    <3>2. OpenedBy(lines, H, g)
      BY <3>1, OpenAfter, Zenon
    <3> QED
      BY <3>2, Zenon DEF OpenedBy
  <2>2. path = TitlesAfter(lines, H)
    BY <1>3 DEF PathAfter
  <2>3. /\ DOMAIN path = {level(i) : i \in O}
        /\ \A n \in DOMAIN path : path[n] = lines[CHOOSE i \in O : level(i) = n].title
    BY <2>2 DEF TitlesAfter
  <2>4. DOMAIN path = 1..Len(path) /\ Len(path) \in Nat
    OBVIOUS
  <2>5. O \subseteq H
    BY DEF Open
  <2>6. L - 1 <= Len(path)
    <3>1. CASE L = 1
      BY <2>4, <3>1
    <3>2. CASE L # 1
      <4>1. PICK j \in HeadingsOf(lines) :
              /\ j < g /\ level(j) >= L - 1
              /\ \A k \in HeadingsOf(lines) : j < k /\ k < g => level(k) >= L - 1
        BY <1>3, <3>2 DEF WellNested
      <4>2. j \in H
        BY <4>1 DEF HeadingsAbove
      <4>3. PICK m \in O : \A h \in H : h <= m
        BY <4>2, LastIsOpen
      <4>4. m \in H /\ m \in HeadingsOf(lines) /\ m < g /\ j <= m /\ level(m) \in 1..Len(path)
        BY <2>3, <2>4, <2>5, <4>2, <4>3 DEF Before
      <4>5. m = j \/ j < m
        <5>1. m \in Nat /\ j \in Nat /\ j <= m
          BY <4>2, <4>4
        <5> QED
          BY <5>1
      <4>6. level(m) >= L - 1
        BY <4>1, <4>4, <4>5
      <4> DEFINE a == level(m)
                 b == Len(path)
      <4>7. a \in 1..b /\ b \in Nat /\ a >= L - 1 /\ L \in Nat
        BY <1>1, <2>4, <4>4, <4>6
      <4> HIDE DEF a, b, L
      <4>8. L - 1 <= b
        BY <4>7
      <4> QED
        BY <4>8 DEF b
    <3> QED
      BY <3>1, <3>2
  <2>7. /\ Len(new) = L /\ new[L] = lines[g].title
        /\ \A k \in 1..(L - 1) : new[k] = path[k]
    BY <1>1, <2>6
  <2>8. \A n \in 1..(L - 1) : n \in DOMAIN path /\ n \in Nat /\ n < L
    <3> DEFINE b == Len(path)
    <3>1. L - 1 <= b /\ b \in Nat /\ L \in Nat /\ DOMAIN path = 1..b
      BY <1>1, <2>4, <2>6
    <3> HIDE DEF b, L
    <3> QED
      BY <3>1
  <2>9. \A n \in 1..(L - 1) : \E i \in O : level(i) = n
    BY <2>3, <2>8
  <2>10. \A i \in O : level(i) \in Nat /\ level(i) # 0
    BY <2>5
  <2>11. {level(i) : i \in Q} = 1..L
    <3>1. {level(i) : i \in Q} \subseteq 1..L
      <4> SUFFICES ASSUME NEW i \in Q PROVE level(i) \in 1..L
        OBVIOUS
      <4>1. CASE i = g
        BY <1>1, <4>1
      <4>2. CASE i \in O /\ level(i) < L
        <5> DEFINE a == level(i)
        <5>1. a \in Nat /\ a # 0 /\ a < L /\ L \in Nat
          BY <1>1, <2>10, <4>2
        <5> HIDE DEF a, L
        <5>2. a \in 1..L
          BY <5>1
        <5> QED
          BY <5>2 DEF a
      <4> QED
        BY <2>1, <4>1, <4>2
    <3>2. ASSUME NEW n \in 1..L PROVE n \in {level(i) : i \in Q}
      <4>1. CASE n = L
        BY <2>1, <4>1
      <4>2. CASE n # L
        <5>1. n \in 1..(L - 1)
          BY <1>1, <4>2
        <5>2. PICK i \in O : level(i) = n
          BY <2>9, <5>1
        <5>3. i \in Q
          BY <2>1, <2>8, <5>1, <5>2
        <5> QED
          BY <5>2, <5>3
      <4> QED
        BY <4>1, <4>2
    <3> QED
      BY <3>1, <3>2
  <2>12. TitlesAfter(lines, H \cup {g}) = [n \in 1..L |-> lines[CHOOSE i \in Q : level(i) = n].title]
    BY <2>11 DEF TitlesAfter
  <2>13. ASSUME NEW n \in 1..L PROVE new[n] = lines[CHOOSE i \in Q : level(i) = n].title
    <3>1. CASE n = L
      <4>1. \A i \in Q : level(i) = L => i = g
        <5> SUFFICES ASSUME NEW i \in O, level(i) < L, level(i) = L PROVE FALSE
          BY <2>1
        <5> QED
          BY <1>1
      <4>2. g \in Q /\ level(g) = L
        BY <2>1
      <4>3. (CHOOSE i \in Q : level(i) = L) = g
        BY <4>1, <4>2
      <4> QED
        BY <2>7, <3>1, <4>3
    <3>2. CASE n # L
      <4>1. n \in 1..(L - 1)
        BY <1>1, <3>2
      <4>2. PICK i \in O : level(i) = n
        BY <2>9, <4>1
      <4>3. i \in Q
        BY <2>1, <2>8, <4>1, <4>2
      <4>4. \A j \in Q : level(j) = n => j = i
        BY <2>1, <3>2, <4>2
      <4>5. (CHOOSE j \in Q : level(j) = n) = i
        BY <4>2, <4>3, <4>4
      <4>6. \A j \in O : level(j) = n => j = i
        BY <2>1, <4>2
      <4>7. (CHOOSE j \in O : level(j) = n) = i
        BY <4>2, <4>6
      <4>8. path[n] = lines[i].title
        BY <2>3, <2>8, <4>1, <4>7
      <4> QED
        BY <2>7, <4>1, <4>5, <4>8
    <3> QED
      BY <3>1, <3>2
  <2>14. new = [n \in 1..L |-> new[n]]
    BY <1>1, <2>7
  <2> DEFINE e == [n \in 1..L |-> lines[CHOOSE i \in Q : level(i) = n].title]
  <2>15. \A n \in 1..L : e[n] = new[n]
    BY <2>13
  <2>16. e = [n \in 1..L |-> e[n]]
    OBVIOUS
  <2> HIDE DEF new, L, e
  <2>17. [n \in 1..L |-> e[n]] = [n \in 1..L |-> new[n]]
    BY <2>15
  <2> QED
    BY <2>12, <2>14, <2>16, <2>17 DEF e
<1> HIDE DEF new
<1>4. PathAfter(lines, H \cup {g}, new)
  BY <1>2, <1>3, Zenon DEF PathAfter
<1> QED
  BY <1>4 DEF new

\* The block of a heading is its line, with its title and its level
HeadingAt(lines, block, g) ==
  /\ g \in Positions(lines) /\ ToSet(block.text) = {g}
  /\ block.title = lines[g].title /\ block.title \in STRING
  /\ block.level = HeadingLevel(lines, g) /\ HeadingLevel(lines, g) \in Nat \ {0}

\* So it is in every document.
LEMMA HeadingLine ==
  ASSUME NEW lines \in Seq(Lines), NEW blocks, Document(lines, blocks),
         NEW k \in 1..Len(blocks), blocks[k].kind = "heading"
  PROVE  HeadingAt(lines, blocks[k], blocks[k].text[1])
<1>1. blocks \in Seq(BlocksOf(lines)) /\ DOMAIN blocks = 1..Len(blocks)
  BY DEF Document
<1>2. blocks[k] \in HeadingBlocks(lines)
  <2>1. blocks[k] \in BlocksOf(lines)
    BY <1>1
  <2> QED
    BY <2>1 DEF BlocksOf, ProseBlocks, Kinds
<1>3. PICK i \in Positions(lines) : /\ blocks[k].text = <<i>> /\ blocks[k].title = lines[i].title
                                    /\ blocks[k].level = HeadingLevel(lines, i) /\ blocks[k].level # 0
  BY <1>1 DEF Document, HeadingsNamed
<1>4. blocks[k].text[1] = i /\ ToSet(blocks[k].text) = {i}
  BY <1>3, OneLine
<1>5. blocks[k].title \in STRING /\ blocks[k].level \in Nat
  BY <1>2 DEF HeadingBlocks
<1> QED
  BY <1>3, <1>4, <1>5 DEF HeadingAt

\* The headings of a document are those of its blocks.
HeadingsIn(lines, blocks) ==
  Document(lines, blocks) /\ HeadingsOf(lines) = HeadingsAmong(blocks, Len(blocks))

\* The headings above the lines of a block are those of the blocks before it.
LEMMA AboveABlock ==
  ASSUME NEW lines \in Seq(Lines), NEW blocks, HeadingsIn(lines, blocks),
         NEW n \in 0..(Len(blocks) - 1)
  PROVE  /\ HeadingsAmong(blocks, n) \subseteq HeadingsOf(lines)
         /\ HeadingsAmong(blocks, n) \in SUBSET Positions(lines)
         /\ \A h \in HeadingsAmong(blocks, n) : HeadingLevel(lines, h) \in Nat \ {0}
         /\ \A i \in ToSet(blocks[n + 1].text) : HeadingsAbove(lines, i) = HeadingsAmong(blocks, n)
<1>0. Document(lines, blocks) /\ HeadingsOf(lines) = HeadingsAmong(blocks, Len(blocks))
  BY DEF HeadingsIn
<1>1. /\ n \in Nat /\ n + 1 \in 1..Len(blocks) /\ \A k \in 1..n : k \in 1..Len(blocks) /\ k < n + 1
      /\ blocks \in Seq(BlocksOf(lines)) /\ Len(blocks) \in Nat /\ DOMAIN blocks = 1..Len(blocks)
  <2>1. blocks \in Seq(BlocksOf(lines))
    BY <1>0 DEF Document
  <2> QED
    BY <2>1
<1>9. ASSUME NEW k \in 1..Len(blocks), blocks[k].kind = "heading"
      PROVE  HeadingAt(lines, blocks[k], blocks[k].text[1])
  BY <1>0, <1>9, HeadingLine
<1>2. HeadingsAmong(blocks, n) \subseteq HeadingsOf(lines)
  BY <1>0, <1>1 DEF HeadingsAmong
<1>3. \A h \in HeadingsAmong(blocks, n) : h \in Positions(lines) /\ HeadingLevel(lines, h) \in Nat \ {0}
  <2> SUFFICES ASSUME NEW k \in 1..n, blocks[k].kind = "heading"
               PROVE  /\ blocks[k].text[1] \in Positions(lines)
                      /\ HeadingLevel(lines, blocks[k].text[1]) \in Nat \ {0}
    BY DEF HeadingsAmong
  <2>1. k \in 1..Len(blocks)
    BY <1>1
  <2> QED
    BY <1>9, <2>1 DEF HeadingAt
<1>4. ASSUME NEW i \in ToSet(blocks[n + 1].text)
      PROVE  HeadingsAbove(lines, i) = HeadingsAmong(blocks, n)
  <2>1. HeadingsAmong(blocks, n) \subseteq HeadingsAbove(lines, i)
    <3>1. Before(HeadingsAmong(blocks, n), ToSet(blocks[n + 1].text))
      BY <1>0, BlocksInOrder
    <3> QED
      BY <1>2, <3>1 DEF HeadingsAbove, Before
  <2>2. ASSUME NEW h \in HeadingsAbove(lines, i) PROVE h \in HeadingsAmong(blocks, n)
    <3>1. h \in HeadingsAmong(blocks, Len(blocks)) /\ h < i
      BY <1>0 DEF HeadingsAbove
    <3>2. PICK k \in 1..Len(blocks) : blocks[k].kind = "heading" /\ h = blocks[k].text[1]
      BY <3>1 DEF HeadingsAmong
    <3>3. h \in Positions(lines) /\ ToSet(blocks[k].text) = {h}
      <4>1. blocks[k].text[1] \in Positions(lines) /\ ToSet(blocks[k].text) = {blocks[k].text[1]}
        BY <1>9, <3>2, Zenon DEF HeadingAt
      <4> QED
        BY <3>2, <4>1
    <3>4. k # n + 1
      <4> SUFFICES ASSUME k = n + 1 PROVE FALSE
        OBVIOUS
      <4>1. i = h
        BY <3>3
      <4>2. h \in Nat
        BY <3>3 DEF Positions
      <4> QED
        BY <3>1, <4>1, <4>2
    <3>5. ~(n + 1 < k)
      <4> SUFFICES ASSUME n + 1 < k PROVE FALSE
        OBVIOUS
      <4>1. /\ DOMAIN TextsOf(blocks) = 1..Len(blocks)
            /\ \A l \in 1..Len(blocks) : TextsOf(blocks)[l] = blocks[l].text
        BY <1>1 DEF TextsOf
      <4>2. Before(ToSet(blocks[n + 1].text), ToSet(blocks[k].text))
        BY <1>0, <1>1, <4>1 DEF Document, InOrder
      <4>3. i < h
        BY <3>3, <4>2 DEF Before
      <4>4. i \in Nat
        <5>1. blocks[n + 1] \in BlocksOf(lines)
          BY <1>0, BlocksInOrder
        <5>2. blocks[n + 1].text \in Seq(Positions(lines))
          BY <5>1 DEF BlocksOf, ProseBlocks, HeadingBlocks
        <5>3. i \in Positions(lines)
          BY <5>2, InText
        <5> QED
          BY <5>3 DEF Positions
      <4> QED
        BY <3>1, <3>3, <4>3, <4>4 DEF Positions
    <3>6. k \in 1..n
      BY <1>1, <3>4, <3>5
    <3> QED
      BY <3>2, <3>6 DEF HeadingsAmong
  <2> QED
    BY <2>1, <2>2
<1> QED
  BY <1>2, <1>3, <1>4

\* A heading makes the path that of the headings up to it.
LEMMA HeadingMakesPath ==
  ASSUME NEW lines \in Seq(Lines), NEW blocks, HeadingsIn(lines, blocks),
         NEW n \in 0..(Len(blocks) - 1), blocks[n + 1].kind = "heading",
         NEW path \in Seq(STRING), PathAfter(lines, HeadingsAmong(blocks, n), path)
  PROVE  /\ PathAfter(lines, HeadingsAmong(blocks, n + 1), Under(path, blocks[n + 1]))
         /\ Under(path, blocks[n + 1]) \in Seq(STRING) /\ Under(path, blocks[n + 1]) # <<>>
         /\ Last(Under(path, blocks[n + 1])) = lines[blocks[n + 1].text[1]].title
<1> DEFINE b == blocks[n + 1]
           g == b.text[1]
           H == HeadingsAmong(blocks, n)
<1>0. Document(lines, blocks) /\ HeadingsOf(lines) = HeadingsAmong(blocks, Len(blocks))
  BY DEF HeadingsIn
<1>1. n \in Nat /\ n + 1 \in 1..Len(blocks) /\ Before(H, ToSet(b.text))
  BY <1>0, BlocksInOrder
<1>2. /\ g \in Positions(lines) /\ ToSet(b.text) = {g}
      /\ b.title = lines[g].title /\ b.title \in STRING
      /\ b.level = HeadingLevel(lines, g) /\ HeadingLevel(lines, g) \in Nat \ {0}
  BY <1>0, <1>1, HeadingLine DEF HeadingAt
<1>3. /\ H \subseteq HeadingsOf(lines) /\ H \in SUBSET Positions(lines)
      /\ \A h \in H : HeadingLevel(lines, h) \in Nat \ {0}
      /\ HeadingsAbove(lines, g) = H
  <2>1. g \in ToSet(b.text)
    BY <1>2
  <2> QED
    BY <2>1, AboveABlock
<1>4. g \in HeadingsOf(lines)
  BY <1>0, <1>1 DEF HeadingsAmong
<1>5. HeadingsAmong(blocks, n + 1) = H \cup {g}
  BY <1>1, OneMoreBlock
<1>6. Len(lines) \in Nat
  OBVIOUS
<1> HIDE DEF g, H, b
<1>7. Before(H, {g}) /\ H \cup {g} \subseteq HeadingsOf(lines)
      /\ \A h \in H \cup {g} : HeadingLevel(lines, h) \in Nat \ {0}
  BY <1>1, <1>2, <1>3, <1>4
<1> DEFINE N == Len(lines)
<1>8. N \in Nat /\ H \in SUBSET (1..N) /\ g \in 1..N
  BY <1>2, <1>3, <1>6 DEF Positions
<1>9. PathAfter(lines, H, path) /\ b.title = lines[g].title /\ b.title \in STRING
      /\ b.level = HeadingLevel(lines, g) /\ HeadingsAbove(lines, g) = H
  BY <1>2, <1>3 DEF H
<1> HIDE DEF N
<1>10. PathAfter(lines, H \cup {g}, Under(path, b))
  BY <1>7, <1>8, <1>9, PathGrows, Zenon
<1> DEFINE level == HeadingLevel(lines, g)
           title == lines[g].title
<1>11. level \in Nat /\ title \in STRING /\ b.level = level /\ b.title = title
  BY <1>2
<1> HIDE DEF level, title
<1>12. Replaced(path, Under(path, b), level, title)
  BY <1>11, PathUnder, Zenon
<1> QED
  BY <1>5, <1>10, <1>12, Zenon DEF Replaced, b, g, title

\* What a block of prose is collected with.
Collected(s, block) == [s EXCEPT !.pending = Append(@, block)]

\* Collecting a block, and emitting it or not.
BlockTaken(lines, s, block, c, next, new) ==
  /\ c \in SegmentStates(lines) /\ c.units = s.units /\ c.path = s.path
  /\ c.full = s.full
  /\ LinesOf(TextsOf(c.pending)) = LinesOf(TextsOf(s.pending)) \cup ToSet(block.text)
  /\ next = c \/ (next = Emit(lines, c) /\ TokensIn(lines, TextOf(c.pending)) >= MergeBelowTokens)
  /\ new.units = next.units /\ new.pending = next.pending /\ new.path = s.path /\ next.path = s.path

\* That is what happens to a block of prose.
LEMMA ProseTaken ==
  ASSUME NEW lines \in Seq(Lines), NEW s \in SegmentStates(lines), NEW block \in BlocksOf(lines),
         ~s.full, block.kind # "heading"
  PROVE  \E next : BlockTaken(lines, s, block, Collected(s, block), next, AddBlock(lines, s, block))
<1> DEFINE c == Collected(s, block)
           next == IF TokensIn(lines, TextOf(c.pending)) >= MergeBelowTokens
                   THEN Emit(lines, c) ELSE c
           new == AddBlock(lines, s, block)
<1>1. /\ c \in SegmentStates(lines) /\ c.units = s.units /\ c.path = s.path
      /\ c.pending = Append(s.pending, block)
      /\ new.units = next.units /\ new.pending = next.pending /\ new.path = s.path
  BY BlockAdded, Zenon DEF Collected
<1>2. c.full = s.full
  BY DEF SegmentStates, Collected
<1>3. s.pending \in Seq(BlocksOf(lines))
  <2> DEFINE P == ProseBlocks(lines)
             B == BlocksOf(lines)
  <2>1. s.pending \in Seq(P) /\ P \subseteq B
    BY DEF SegmentStates, BlocksOf
  <2> HIDE DEF P, B
  <2>2. s.pending \in Seq(B)
    BY <2>1
  <2> QED
    BY <2>2 DEF B
<1>4. LinesOf(TextsOf(Append(s.pending, block))) = LinesOf(TextsOf(s.pending)) \cup ToSet(block.text)
  BY <1>3, BlocksHaveTexts
<1> HIDE DEF c, new
<1>5. Emit(lines, c).path = c.path
  BY <1>1, Emitted, Zenon
<1>6. next = c \/ (next = Emit(lines, c) /\ TokensIn(lines, TextOf(c.pending)) >= MergeBelowTokens)
  OBVIOUS
<1>7. next.path = s.path
  BY <1>1, <1>5, <1>6
<1> HIDE DEF next
<1>8. BlockTaken(lines, s, block, c, next, new)
  BY <1>1, <1>2, <1>4, <1>6, <1>7 DEF BlockTaken
<1> QED
  BY <1>8 DEF c, new

\* The path of each unit is the one its lines are under, and so it will be of what is
\* collected; the path goes with the headings until the units are too many.
Sectioned(lines, blocks, n, s) ==
  /\ UnitsPlaced(lines, s.units)
  /\ \A i \in LinesOf(TextsOf(s.pending)) : PathAfter(lines, HeadingsAbove(lines, i), s.path)
  /\ ~s.full => PathAfter(lines, HeadingsAmong(blocks, n), s.path)

\* Emitting keeps the paths.
LEMMA EmitKeepsPaths ==
  ASSUME NEW lines \in Seq(Lines), NEW s \in SegmentStates(lines), UnitsPlaced(lines, s.units),
         \A i \in LinesOf(TextsOf(s.pending)) : PathAfter(lines, HeadingsAbove(lines, i), s.path)
  PROVE  /\ UnitsPlaced(lines, Emit(lines, s).units)
         /\ LinesOf(TextsOf(Emit(lines, s).pending)) = {}
<1>1. /\ TakenWhole(lines, s.units, Emit(lines, s).units, TextOf(s.pending), s.path)
      /\ ToSet(TextOf(s.pending)) = LinesOf(TextsOf(s.pending))
  BY EmitTakes
<1>2. Placed(lines, TextOf(s.pending), s.path)
  BY <1>1, Zenon DEF Placed
<1>3. UnitsPlaced(lines, Emit(lines, s).units)
  BY <1>1, <1>2, Zenon DEF TakenWhole
<1>4. Emit(lines, s).pending = <<>>
  BY Emitted, Zenon
<1> QED
  BY <1>3, <1>4, NoText, Zenon

\* One block more keeps the paths.
LEMMA BlockKeepsPaths ==
  ASSUME NEW lines \in Seq(Lines), NEW blocks, HeadingsIn(lines, blocks),
         NEW n \in 0..(Len(blocks) - 1), NEW s \in SegmentStates(lines),
         Sectioned(lines, blocks, n, s)
  PROVE  Sectioned(lines, blocks, n + 1, AddBlock(lines, s, blocks[n + 1]))
<1> DEFINE b == blocks[n + 1]
           new == AddBlock(lines, s, b)
<1>1. n \in Nat /\ b \in BlocksOf(lines)
  BY BlocksInOrder DEF HeadingsIn
<1>2. HeadingsAmong(blocks, n + 1) =
        HeadingsAmong(blocks, n) \cup (IF b.kind = "heading" THEN {b.text[1]} ELSE {})
  BY <1>1, OneMoreBlock
<1>3. \A i \in ToSet(b.text) : HeadingsAbove(lines, i) = HeadingsAmong(blocks, n)
  BY AboveABlock
<1>4. s.path \in Seq(STRING)
  BY DEF SegmentStates
<1> HIDE DEF b
<1>5. CASE s.full
  <2>1. new = s
    BY <1>1, <1>5, BlockAdded, Zenon
  <2>2. Sectioned(lines, blocks, n + 1, s)
    BY <1>5 DEF Sectioned
  <2> QED
    BY <2>1, <2>2 DEF b
<1>6. CASE ~s.full /\ b.kind = "heading"
  <2>1. new.units = Emit(lines, s).units /\ new.pending = <<>> /\ new.path = Under(s.path, b)
    BY <1>1, <1>6, BlockAdded, Zenon
  <2>2. UnitsPlaced(lines, Emit(lines, s).units)
    BY EmitKeepsPaths DEF Sectioned
  <2>3. PathAfter(lines, HeadingsAmong(blocks, n + 1), Under(s.path, b))
    <3>1. PathAfter(lines, HeadingsAmong(blocks, n), s.path)
      BY <1>6 DEF Sectioned
    <3> QED
      BY <1>4, <1>6, <3>1, HeadingMakesPath DEF b
  <2> HIDE DEF new
  <2>4. LinesOf(TextsOf(new.pending)) = {}
    BY <2>1, NoText, Zenon
  <2>5. Sectioned(lines, blocks, n + 1, new)
    BY <2>1, <2>2, <2>3, <2>4 DEF Sectioned
  <2> QED
    BY <2>5 DEF new, b
<1>7. CASE ~s.full /\ b.kind # "heading"
  <2> DEFINE c == Collected(s, b)
  <2>1. PICK next : BlockTaken(lines, s, b, c, next, new)
    BY <1>1, <1>7, ProseTaken
  <2> HIDE DEF c, new
  <2>2. PathAfter(lines, HeadingsAmong(blocks, n), s.path)
    BY <1>7 DEF Sectioned
  <2>3. \A i \in LinesOf(TextsOf(c.pending)) : PathAfter(lines, HeadingsAbove(lines, i), c.path)
    <3>1. /\ LinesOf(TextsOf(c.pending)) = LinesOf(TextsOf(s.pending)) \cup ToSet(b.text)
          /\ c.path = s.path
      BY <2>1 DEF BlockTaken
    <3> QED
      BY <1>3, <2>2, <3>1 DEF Sectioned
  <2>4. UnitsPlaced(lines, c.units) /\ c \in SegmentStates(lines)
    BY <2>1 DEF Sectioned, BlockTaken
  <2>5. /\ UnitsPlaced(lines, next.units)
        /\ \A i \in LinesOf(TextsOf(next.pending)) : PathAfter(lines, HeadingsAbove(lines, i), next.path)
    <3>1. CASE next = c
      BY <2>3, <2>4, <3>1
    <3>2. CASE next = Emit(lines, c)
      <4>1. UnitsPlaced(lines, Emit(lines, c).units) /\ LinesOf(TextsOf(Emit(lines, c).pending)) = {}
        BY <2>3, <2>4, EmitKeepsPaths
      <4> QED
        BY <3>2, <4>1
    <3> QED
      BY <2>1, <3>1, <3>2 DEF BlockTaken
  <2>6. HeadingsAmong(blocks, n + 1) = HeadingsAmong(blocks, n)
    BY <1>2, <1>7
  <2>7. new.units = next.units /\ new.pending = next.pending /\ new.path = s.path /\ next.path = s.path
    BY <2>1 DEF BlockTaken
  <2>8. Sectioned(lines, blocks, n + 1, new)
    BY <2>2, <2>5, <2>6, <2>7 DEF Sectioned
  <2> QED
    BY <2>8 DEF new, b
<1> QED
  BY <1>5, <1>6, <1>7

\* The empty path and those that end with the title of one of the headings
EndingAmong(lines, headings) ==
  {path \in Seq(STRING) : path # <<>> => \E g \in headings : Last(path) = lines[g].title}

\* Units have the paths of headings so far, are not too long, and the last one has room
\* if the next piece can still be folded into it.
Sized(lines, blocks, n, s) ==
  /\ PathsAmong(s.units, EndingAmong(lines, HeadingsAmong(blocks, n)))
  /\ s.path \in EndingAmong(lines, HeadingsAmong(blocks, n))
  /\ UnitsFitting(lines, s.units) /\ Light(lines, s.units, s.path)

\* Emitting keeps the units short, and leaves room when what it emits is not small.
LEMMA EmitKeepsSizes ==
  ASSUME NEW lines \in Seq(Lines), NEW s \in SegmentStates(lines), NEW paths,
         PathsAmong(s.units, paths), s.path \in paths,
         UnitsFitting(lines, s.units), Light(lines, s.units, s.path)
  PROVE  /\ PathsAmong(Emit(lines, s).units, paths) /\ UnitsFitting(lines, Emit(lines, s).units)
         /\ TokensIn(lines, TextOf(s.pending)) >= MinTokens => Light(lines, Emit(lines, s).units, s.path)
<1>1. TakenWhole(lines, s.units, Emit(lines, s).units, TextOf(s.pending), s.path)
  BY EmitTakes
<1> QED
  BY <1>1, Zenon DEF TakenWhole

\* A title that comes once is the end of no path before it.
LEMMA NewPath ==
  ASSUME NEW lines, NEW H, H \subseteq HeadingsOf(lines), NEW g \in HeadingsOf(lines), g \notin H,
         TitlesOnce(lines), NEW path, path # <<>>, Last(path) = lines[g].title
  PROVE  path \notin EndingAmong(lines, H)
<1> SUFFICES ASSUME NEW h \in H, Last(path) = lines[h].title PROVE FALSE
  BY DEF EndingAmong
<1>1. h \in HeadingsOf(lines) /\ lines[h].title = lines[g].title
  OBVIOUS
<1>2. h = g
  BY <1>1 DEF TitlesOnce
<1> QED
  BY <1>2

\* One block more keeps the units short.
LEMMA BlockKeepsSizes ==
  ASSUME NEW lines \in Seq(Lines), NEW blocks, HeadingsIn(lines, blocks), TitlesOnce(lines),
         NEW n \in 0..(Len(blocks) - 1), NEW s \in SegmentStates(lines),
         Sectioned(lines, blocks, n, s), Sized(lines, blocks, n, s)
  PROVE  Sized(lines, blocks, n + 1, AddBlock(lines, s, blocks[n + 1]))
<1> DEFINE b == blocks[n + 1]
           new == AddBlock(lines, s, b)
           H == HeadingsAmong(blocks, n)
           K == HeadingsAmong(blocks, n + 1)
<1>1. n \in Nat /\ n + 1 \in 1..Len(blocks) /\ b \in BlocksOf(lines) /\ Before(H, ToSet(b.text))
  BY BlocksInOrder DEF HeadingsIn
<1>2. K = H \cup (IF b.kind = "heading" THEN {b.text[1]} ELSE {})
  BY <1>1, OneMoreBlock
<1>3. EndingAmong(lines, H) \subseteq EndingAmong(lines, K)
  BY <1>2 DEF EndingAmong
<1>4. PathsAmong(s.units, EndingAmong(lines, K)) /\ s.path \in EndingAmong(lines, K)
  BY <1>3 DEF Sized, PathsAmong
<1>5. s.path \in Seq(STRING)
  BY DEF SegmentStates
<1> HIDE DEF b, H, K
<1>6. CASE s.full
  <2>1. new = s
    BY <1>1, <1>6, BlockAdded, Zenon
  <2>2. Sized(lines, blocks, n + 1, s)
    BY <1>4 DEF Sized, K
  <2> QED
    BY <2>1, <2>2 DEF b
<1>7. CASE ~s.full /\ b.kind = "heading"
  <2> DEFINE g == b.text[1]
  <2>1. new.units = Emit(lines, s).units /\ new.path = Under(s.path, b)
    BY <1>1, <1>7, BlockAdded, Zenon
  <2>2. PathsAmong(Emit(lines, s).units, EndingAmong(lines, H)) /\ UnitsFitting(lines, Emit(lines, s).units)
    <3>1. /\ PathsAmong(s.units, EndingAmong(lines, H)) /\ s.path \in EndingAmong(lines, H)
          /\ UnitsFitting(lines, s.units) /\ Light(lines, s.units, s.path)
      BY DEF Sized, H
    <3> QED
      BY <3>1, EmitKeepsSizes
  <2>3. /\ Under(s.path, b) \in Seq(STRING) /\ Under(s.path, b) # <<>>
        /\ Last(Under(s.path, b)) = lines[g].title
    <3>1. PathAfter(lines, HeadingsAmong(blocks, n), s.path)
      BY <1>7 DEF Sectioned
    <3> QED
      BY <1>5, <1>7, <3>1, HeadingMakesPath DEF b
  <2>4. HeadingAt(lines, b, g)
    BY <1>1, <1>7, HeadingLine DEF HeadingsIn, b
  <2>5. g \notin H /\ H \subseteq HeadingsOf(lines) /\ g \in HeadingsOf(lines)
    <3>1. g \in HeadingsOf(lines)
      BY <1>1, <1>7 DEF HeadingsIn, HeadingsAmong, b
    <3>2. H \subseteq HeadingsOf(lines)
      BY AboveABlock DEF H
    <3>3. g \in Nat /\ Before(H, {g})
      BY <1>1, <2>4 DEF HeadingAt, Positions
    <3>4. g \notin H
      BY <3>3 DEF Before
    <3> QED
      BY <3>1, <3>2, <3>4
  <2>6. g \in K
    BY <1>2, <1>7
  <2> HIDE DEF new, g
  <2>7. new.path \in EndingAmong(lines, K) /\ new.path \notin EndingAmong(lines, H)
    <3>1. new.path \in EndingAmong(lines, K)
      BY <2>1, <2>3, <2>6 DEF EndingAmong
    <3>2. Under(s.path, b) \notin EndingAmong(lines, H)
      BY <2>3, <2>5, NewPath
    <3> QED
      BY <2>1, <3>1, <3>2
  <2>8. PathsAmong(new.units, EndingAmong(lines, K)) /\ UnitsFitting(lines, new.units)
    BY <1>3, <2>1, <2>2 DEF PathsAmong
  <2>9. Light(lines, new.units, new.path)
    <3>1. new.units \in Seq(UnitsOf(lines))
      <4>1. Emit(lines, s) \in SegmentStates(lines)
        BY Emitted, Zenon
      <4> QED
        BY <2>1, <4>1 DEF SegmentStates
    <3>2. ASSUME new.units # <<>> PROVE Last(new.units).path # new.path
      <4>1. Last(new.units) = new.units[Len(new.units)] /\ Len(new.units) \in 1..Len(new.units)
        <5> DEFINE U == UnitsOf(lines)
                   u == new.units
        <5>1. u \in Seq(U) /\ u # <<>>
          BY <3>1, <3>2
        <5> HIDE DEF U, u
        <5>2. Last(u) = u[Len(u)] /\ Len(u) \in 1..Len(u)
          BY <5>1 DEF Last
        <5> QED
          BY <5>2 DEF u
      <4>2. Last(new.units).path \in EndingAmong(lines, H)
        BY <2>1, <2>2, <4>1 DEF PathsAmong
      <4> QED
        BY <2>7, <4>2
    <3> QED
      BY <3>2 DEF Light
  <2>10. Sized(lines, blocks, n + 1, new)
    BY <2>7, <2>8, <2>9, Zenon DEF Sized, K
  <2> QED
    BY <2>10 DEF new, b
<1>8. CASE ~s.full /\ b.kind # "heading"
  <2> DEFINE c == Collected(s, b)
  <2>1. PICK next : BlockTaken(lines, s, b, c, next, new)
    BY <1>1, <1>8, ProseTaken
  <2> HIDE DEF c, new
  <2>2. /\ c \in SegmentStates(lines) /\ c.units = s.units /\ c.path = s.path
        /\ new.units = next.units /\ new.path = s.path
    BY <2>1 DEF BlockTaken
  <2>3. UnitsFitting(lines, c.units) /\ Light(lines, c.units, c.path)
    BY <2>2 DEF Sized
  <2>4. PathsAmong(c.units, EndingAmong(lines, K)) /\ c.path \in EndingAmong(lines, K)
    BY <1>4, <2>2
  <2>5. CASE next = c
    <3>1. Sized(lines, blocks, n + 1, new)
      BY <2>2, <2>3, <2>4, <2>5 DEF Sized, K
    <3> QED
      BY <3>1 DEF new, b
  <2>6. CASE next = Emit(lines, c) /\ TokensIn(lines, TextOf(c.pending)) >= MergeBelowTokens
    <3>1. LimitsAgree => TokensIn(lines, TextOf(c.pending)) >= MinTokens
      <4>1. TokensIn(lines, TextOf(c.pending)) \in Nat
        <5>1. c.pending \in Seq(ProseBlocks(lines))
          BY <2>2 DEF SegmentStates
        <5>2. TextOf(c.pending) \in Seq(Positions(lines))
          BY <5>1, CollectedIsText
        <5> QED
          BY <5>2, TokensSum
      <4> DEFINE x == TokensIn(lines, TextOf(c.pending))
      <4>2. x \in Nat /\ x >= MergeBelowTokens
        BY <2>6, <4>1
      <4> HIDE DEF x
      <4>3. LimitsAgree => x >= MinTokens
        BY <4>2, Limits
      <4> QED
        BY <4>3 DEF x
    <3>2. /\ PathsAmong(Emit(lines, c).units, EndingAmong(lines, K))
          /\ UnitsFitting(lines, Emit(lines, c).units)
          /\ Light(lines, Emit(lines, c).units, c.path)
      <4>1. CASE LimitsAgree
        BY <2>2, <2>3, <2>4, <3>1, <4>1, EmitKeepsSizes
      <4>2. CASE ~LimitsAgree
        BY <2>2, <2>3, <2>4, <4>2, EmitKeepsSizes DEF Light, Within
      <4> QED
        BY <4>1, <4>2
    <3>3. Sized(lines, blocks, n + 1, new)
      BY <1>4, <2>2, <2>6, <3>2 DEF Sized, K
    <3> QED
      BY <3>3 DEF new, b
  <2> QED
    BY <2>1, <2>5, <2>6 DEF BlockTaken
<1> QED
  BY <1>6, <1>7, <1>8

\* Reading a document makes blocks of it with all its headings.
LEMMA BlocksRead ==
  ASSUME NEW lines \in Seq(Lines)
  PROVE  /\ HeadingsIn(lines, Analyze(lines)) /\ Analyze(lines) \in Seq(BlocksOf(lines))
         /\ Prose(lines) \subseteq ProseAmong(Analyze(lines), Len(Analyze(lines)))
<1> DEFINE blocks == Analyze(lines)
<1>1. blocks \in Seq(BlocksOf(lines)) /\ Kept(lines, Len(lines), blocks, <<>>)
  BY Analyzed
<1>2. HeadingsOf(lines) = {blocks[k].text[1] : k \in {n \in DOMAIN blocks : blocks[n].kind = "heading"}}
  BY DEF HeadingsOf
<1> HIDE DEF blocks
<1>3. DOMAIN blocks = 1..Len(blocks)
  BY <1>1
<1>4. HeadingsIn(lines, blocks)
  BY <1>1, <1>2, <1>3 DEF HeadingsIn, HeadingsAmong, Document, Kept
<1>5. ASSUME NEW i \in Prose(lines) PROVE i \in ProseAmong(blocks, Len(blocks))
  <2>1. i \in 1..Len(lines)
    BY DEF Prose
  <2>2. i \in ToSet(<<>>) \/ InProse(blocks, i)
    BY <1>1, <2>1 DEF Kept
  <2>3. InProse(blocks, i)
    BY <2>2, NoText
  <2> QED
    BY <1>3, <2>3 DEF InProse, ProseAmong
<1> QED
  BY <1>1, <1>4, <1>5 DEF blocks

\* A line of prose is no heading.
LEMMA ProseIsNoHeading ==
  ASSUME NEW lines \in Seq(Lines), NEW blocks, HeadingsIn(lines, blocks)
  PROVE  ProseAmong(blocks, Len(blocks)) \cap HeadingsOf(lines) = {}
<1>1. /\ HeadingsOf(lines) = HeadingsAmong(blocks, Len(blocks)) /\ Document(lines, blocks)
      /\ blocks \in Seq(BlocksOf(lines)) /\ InOrder(TextsOf(blocks))
  BY DEF HeadingsIn, Document
<1>2. /\ DOMAIN TextsOf(blocks) = 1..Len(blocks) /\ Len(blocks) \in Nat
      /\ \A l \in 1..Len(blocks) : TextsOf(blocks)[l] = blocks[l].text
  BY <1>1 DEF TextsOf
<1> SUFFICES ASSUME NEW k \in 1..Len(blocks), NEW l \in 1..Len(blocks),
                    blocks[k].kind = "heading", blocks[l].kind # "heading",
                    blocks[k].text[1] \in ToSet(blocks[l].text)
             PROVE  FALSE
  BY <1>1 DEF HeadingsAmong, ProseAmong
<1> DEFINE g == blocks[k].text[1]
<1>3. HeadingAt(lines, blocks[k], g)
  BY <1>1, HeadingLine
<1>4. g \in ToSet(blocks[k].text) /\ g \in Nat
  BY <1>3 DEF HeadingAt, Positions
<1>5. k # l
  OBVIOUS
<1>6. k < l => Before(ToSet(blocks[k].text), ToSet(blocks[l].text))
  BY <1>1, <1>2 DEF InOrder
<1>7. l < k => Before(ToSet(blocks[l].text), ToSet(blocks[k].text))
  BY <1>1, <1>2 DEF InOrder
<1>8. k < l \/ l < k
  BY <1>2, <1>5
<1> HIDE DEF g
<1>9. g < g
  BY <1>4, <1>6, <1>7, <1>8 DEF Before, g
<1> QED
  BY <1>4, <1>9

\* The segmenter has nothing before the first block.
LEMMA NothingSegmented ==
  ASSUME NEW lines \in Seq(Lines), NEW blocks
  PROVE  /\ Whole(lines, blocks, 0, Unsegmented) /\ Sectioned(lines, blocks, 0, Unsegmented)
         /\ Sized(lines, blocks, 0, Unsegmented)
<1>1. /\ Unsegmented.units = <<>> /\ Unsegmented.path = <<>> /\ Unsegmented.pending = <<>>
      /\ ~Unsegmented.full
  BY DEF Unsegmented
<1>2. HeadingsAmong(blocks, 0) = {} /\ ProseAmong(blocks, 0) = {}
  BY OneMoreBlock
<1>3. \A k \in 1..Len(<<>>) : FALSE
  OBVIOUS
<1>4. Whole(lines, blocks, 0, Unsegmented)
  BY <1>1, <1>2, NoText DEF Whole, Before
<1>5. PathAfter(lines, {}, <<>>)
  <2>1. Open(lines, {}) = {}
    BY DEF Open
  <2>2. TitlesAfter(lines, {}) = <<>>
    BY <2>1 DEF TitlesAfter
  <2> QED
    BY <2>2 DEF PathAfter, EndsWith
<1>6. Sectioned(lines, blocks, 0, Unsegmented)
  BY <1>1, <1>2, <1>3, <1>5, NoText DEF Sectioned, UnitsPlaced
<1>7. Sized(lines, blocks, 0, Unsegmented)
  BY <1>1, <1>2, <1>3 DEF Sized, PathsAmong, UnitsFitting, Light, EndingAmong
<1> QED
  BY <1>4, <1>6, <1>7

\* What is true of the units of a document
Segmented(lines, blocks, units) ==
  /\ units \in Seq(UnitsOf(lines)) /\ InOrder(TextsOf(units))
  /\ LinesOf(TextsOf(units)) \subseteq ProseAmong(blocks, Len(blocks))
  /\ Len(units) < MaxUnits => ProseAmong(blocks, Len(blocks)) \subseteq LinesOf(TextsOf(units))
  /\ UnitsPlaced(lines, units)
  /\ TitlesOnce(lines) => UnitsFitting(lines, units)

\* So they are when all blocks are segmented.
LEMMA AllSegmented ==
  ASSUME NEW lines \in Seq(Lines), NEW blocks, HeadingsIn(lines, blocks)
  PROVE  Segmented(lines, blocks, Segment(lines, blocks))
<1> DEFINE N == Len(blocks)
<1>1. blocks \in Seq(BlocksOf(lines))
  BY DEF HeadingsIn, Document
<1>2. PICK h : SegmentRun(h, lines, blocks)
  BY <1>1, SegmentRuns
<1>3. N \in Nat
  BY <1>1
<1> HIDE DEF N
<1>4. /\ h \in [0..N -> SegmentStates(lines)] /\ h[0] = Unsegmented
      /\ \A m \in 0..(N - 1) : h[m + 1] = AddBlock(lines, h[m], blocks[m + 1])
      /\ Segment(lines, blocks) = Emit(lines, h[N]).units
  BY <1>2, Zenon DEF SegmentRun, N
<1> DEFINE Good(m) == /\ Whole(lines, blocks, m, h[m]) /\ Sectioned(lines, blocks, m, h[m])
                      /\ TitlesOnce(lines) => Sized(lines, blocks, m, h[m])
           Q == {m \in 0..N : Good(m)}
<1>5. 0 \in Q
  <2>1. 0 \in 0..N
    BY <1>3
  <2>2. Good(0)
    BY <1>4, NothingSegmented, Zenon
  <2> HIDE DEF Good
  <2> QED
    BY <2>1, <2>2
<1>6. ASSUME NEW m \in 0..(N - 1), m \in Q PROVE m + 1 \in Q
  <2>1. Good(m)
    <3> HIDE DEF Good
    <3> QED
      BY <1>6
  <2>2. m \in 0..N /\ m + 1 \in 0..N /\ m \in 0..(Len(blocks) - 1)
    <3>1. m \in 0..(Len(blocks) - 1)
      BY DEF N
    <3> HIDE DEF Good, Q
    <3> QED
      BY <1>3, <3>1
  <2>3. h[m] \in SegmentStates(lines)
    <3> HIDE DEF Good, Q
    <3> DEFINE S == SegmentStates(lines)
    <3> HIDE DEF S
    <3>1. h \in [0..N -> S]
      BY <1>4 DEF S
    <3>2. h[m] \in S
      BY <2>2, <3>1
    <3> QED
      BY <3>2 DEF S
  <2>4. h[m + 1] = AddBlock(lines, h[m], blocks[m + 1])
    <3> HIDE DEF Good, Q
    <3> QED
      BY <1>4
  <2>5. Whole(lines, blocks, m + 1, AddBlock(lines, h[m], blocks[m + 1]))
    BY <2>1, <2>2, <2>3, BlockKeepsText, Zenon DEF HeadingsIn
  <2>6. Sectioned(lines, blocks, m + 1, AddBlock(lines, h[m], blocks[m + 1]))
    BY <2>1, <2>2, <2>3, BlockKeepsPaths, Zenon
  <2>7. TitlesOnce(lines) => Sized(lines, blocks, m + 1, AddBlock(lines, h[m], blocks[m + 1]))
    BY <2>1, <2>2, <2>3, BlockKeepsSizes, Zenon
  <2>8. Good(m + 1)
    BY <2>4, <2>5, <2>6, <2>7, Zenon
  <2> HIDE DEF Good
  <2> QED
    BY <2>2, <2>8
<1>7. Good(N)
  <2>1. \A m \in 0..N : m \in Q
    <3> HIDE DEF Q
    <3> QED
      BY <1>3, <1>5, <1>6, InductTo
  <2>2. N \in 0..N
    BY <1>3
  <2> HIDE DEF Good
  <2> QED
    BY <2>1, <2>2
<1> DEFINE s == h[N]
           e == Emit(lines, s)
<1>8. s \in SegmentStates(lines) /\ Whole(lines, blocks, N, s) /\ Sectioned(lines, blocks, N, s)
      /\ (TitlesOnce(lines) => Sized(lines, blocks, N, s))
  <2>1. N \in 0..N
    BY <1>3
  <2> HIDE DEF Good
  <2>2. s \in SegmentStates(lines)
    <3> DEFINE S == SegmentStates(lines)
    <3> HIDE DEF S
    <3>1. h \in [0..N -> S]
      BY <1>4 DEF S
    <3>2. h[N] \in S
      BY <2>1, <3>1
    <3> QED
      BY <3>2 DEF S
  <2> QED
    BY <1>7, <2>2, Zenon DEF Good
<1> HIDE DEF s
<1>9. Whole(lines, blocks, N, e) /\ e \in SegmentStates(lines) /\ e.pending = <<>>
  <2>1. Whole(lines, blocks, N, e)
    BY <1>8, EmitKeepsText
  <2>2. e \in SegmentStates(lines) /\ e.pending = <<>>
    BY <1>8, Emitted, Zenon
  <2> QED
    BY <2>1, <2>2
<1>10. UnitsPlaced(lines, e.units)
  BY <1>8, EmitKeepsPaths DEF Sectioned
<1>11. TitlesOnce(lines) => UnitsFitting(lines, e.units)
  BY <1>8, EmitKeepsSizes DEF Sized
<1> HIDE DEF e
<1>12. e.units \in Seq(UnitsOf(lines))
  BY <1>9 DEF SegmentStates
<1>13. LinesOf(TextsOf(e.pending)) = {}
  BY <1>9, NoText, Zenon
<1>14. Len(e.units) < MaxUnits => ~e.full
  <2> DEFINE a == Len(e.units)
  <2>1. a \in Nat /\ MaxUnits \in Nat /\ (e.full => a >= MaxUnits)
    BY <1>9, <1>12, Limits DEF Whole
  <2> HIDE DEF a
  <2>2. a < MaxUnits => ~e.full
    BY <2>1
  <2> QED
    BY <2>2 DEF a
<1>15. Segmented(lines, blocks, e.units)
  BY <1>9, <1>10, <1>11, <1>12, <1>13, <1>14 DEF Segmented, Whole, N
<1> QED
  BY <1>4, <1>15 DEF e, s

-----------------------------------------------------------------------------
(* What the properties say of one document *)

Conserves(lines, units) ==
  LET read == TextOfUnits(units)
  IN /\ \A i, j \in DOMAIN read : i < j => read[i] < read[j]
     /\ ToSet(read) \cap HeadingsOf(lines) = {}
     /\ Len(units) < MaxUnits => Prose(lines) \subseteq ToSet(read)

KeepsSections(lines, units) ==
  \A k \in DOMAIN units :
    LET held == ToSet(units[k].text)
    IN /\ WellNested(lines) =>
            \A line \in held : units[k].path = TitlesAfter(lines, HeadingsAbove(lines, line))
       /\ TitlesOnce(lines) =>
            \A line, other \in held : HeadingsAbove(lines, line) = HeadingsAbove(lines, other)

KeepsShort(lines, units) ==
  LimitsAgree /\ TitlesOnce(lines) =>
    \A k \in DOMAIN units :
      \/ TokensIn(lines, units[k].text) < MaxTokens + MinTokens
      \/ LongSentence(lines, units[k].text)

\* The text of the units is the prose of the document.
LEMMA DocumentConserved ==
  ASSUME NEW lines \in Seq(Lines)
  PROVE  Conserves(lines, BuildStructuredDocument(lines))
<1> DEFINE blocks == Analyze(lines)
           units == BuildStructuredDocument(lines)
           read == TextOfUnits(units)
<1>1. /\ HeadingsIn(lines, blocks) /\ Prose(lines) \subseteq ProseAmong(blocks, Len(blocks))
      /\ ProseAmong(blocks, Len(blocks)) \cap HeadingsOf(lines) = {}
  BY BlocksRead, ProseIsNoHeading
<1>2. Segmented(lines, blocks, units)
  BY <1>1, AllSegmented DEF BuildStructuredDocument
<1>3. read = FlattenSeq(TextsOf(units))
  BY DEF TextOfUnits, TextsOf
<1> HIDE DEF units, read, blocks
<1>4. TextsOf(units) \in Seq(Seq(Positions(lines)))
  <2>1. units \in Seq(UnitsOf(lines))
    BY <1>2 DEF Segmented
  <2> DEFINE P == Positions(lines)
             U == UnitsOf(lines)
  <2>2. \A y \in U : y.text \in Seq(P)
    BY DEF UnitsOf
  <2> HIDE DEF P, U
  <2>3. [k \in DOMAIN units |-> units[k].text] \in Seq(Seq(P))
    <3> DEFINE T == Seq(P)
    <3>1. \A y \in U : y.text \in T
      BY <2>2
    <3>2. units \in Seq(U)
      BY <2>1 DEF U
    <3> HIDE DEF T
    <3>3. [k \in DOMAIN units |-> units[k].text] \in Seq(T)
      BY <3>1, <3>2
    <3> QED
      BY <3>3 DEF T
  <2> QED
    BY <2>3 DEF P, TextsOf
<1>5. ToSet(read) = LinesOf(TextsOf(units)) /\ Rising(read)
  <2>1. Positions(lines) \subseteq Nat
    BY DEF Positions
  <2>2. InOrder(TextsOf(units))
    BY <1>2 DEF Segmented
  <2> QED
    BY <1>3, <1>4, <2>1, <2>2, Flattened
<1>6. \A i, j \in DOMAIN read : i < j => read[i] < read[j]
  BY <1>5, Zenon DEF Rising
<1>7. ToSet(read) \cap HeadingsOf(lines) = {}
  BY <1>1, <1>2, <1>5 DEF Segmented
<1>8. Len(units) < MaxUnits => Prose(lines) \subseteq ToSet(read)
  BY <1>1, <1>2, <1>5 DEF Segmented
<1> QED
  BY <1>6, <1>7, <1>8, Zenon DEF Conserves, units, read

\* Lines that end one path are under the same headings, if titles come once.
LEMMA OneSection ==
  ASSUME NEW lines, HeadingsOf(lines) \subseteq Nat, TitlesOnce(lines), NEW path,
         NEW i \in Nat, NEW j \in Nat,
         EndsWith(lines, HeadingsAbove(lines, i), path), EndsWith(lines, HeadingsAbove(lines, j), path)
  PROVE  HeadingsAbove(lines, i) = HeadingsAbove(lines, j)
<1>1. CASE path = <<>>
  BY <1>1 DEF EndsWith
<1>2. CASE path # <<>>
  <2>1. PICK g \in HeadingsAbove(lines, i) :
          (\A k \in HeadingsAbove(lines, i) : k <= g) /\ Last(path) = lines[g].title
    BY <1>2 DEF EndsWith
  <2>2. PICK h \in HeadingsAbove(lines, j) :
          (\A k \in HeadingsAbove(lines, j) : k <= h) /\ Last(path) = lines[h].title
    BY <1>2 DEF EndsWith
  <2>3. g \in HeadingsOf(lines) /\ h \in HeadingsOf(lines) /\ g < i /\ h < j
    BY DEF HeadingsAbove
  <2>4. g = h
    BY <2>1, <2>2, <2>3 DEF TitlesOnce
  <2>5. HeadingsAbove(lines, i) = {k \in HeadingsOf(lines) : k <= g}
    <3>1. \A k \in HeadingsOf(lines) : k <= g => k < i
      BY <2>3
    <3> QED
      BY <2>1, <3>1 DEF HeadingsAbove
  <2>6. HeadingsAbove(lines, j) = {k \in HeadingsOf(lines) : k <= g}
    <3>1. \A k \in HeadingsOf(lines) : k <= h => k < j
      BY <2>3
    <3> QED
      BY <2>2, <2>4, <3>1 DEF HeadingsAbove
  <2> QED
    BY <2>5, <2>6
<1> QED
  BY <1>1, <1>2

\* The units of a document keep to its sections.
LEMMA DocumentSections ==
  ASSUME NEW lines \in Seq(Lines)
  PROVE  KeepsSections(lines, BuildStructuredDocument(lines))
<1> DEFINE blocks == Analyze(lines)
           units == BuildStructuredDocument(lines)
<1>1. HeadingsIn(lines, blocks)
  BY BlocksRead
<1>2. Segmented(lines, blocks, units)
  BY <1>1, AllSegmented DEF BuildStructuredDocument
<1>3. HeadingsOf(lines) \subseteq Nat
  <2> SUFFICES ASSUME NEW k \in 1..Len(blocks), blocks[k].kind = "heading"
               PROVE  blocks[k].text[1] \in Nat
    BY <1>1 DEF HeadingsIn, HeadingsAmong
  <2>1. HeadingAt(lines, blocks[k], blocks[k].text[1])
    BY <1>1, HeadingLine DEF HeadingsIn
  <2> QED
    BY <2>1 DEF HeadingAt, Positions
<1> HIDE DEF units, blocks
<1>4. UnitsPlaced(lines, units) /\ units \in Seq(UnitsOf(lines)) /\ DOMAIN units = 1..Len(units)
  BY <1>2 DEF Segmented
<1> SUFFICES ASSUME NEW k \in 1..Len(units)
             PROVE  LET held == ToSet(units[k].text)
                    IN /\ WellNested(lines) =>
                            \A line \in held :
                              units[k].path = TitlesAfter(lines, HeadingsAbove(lines, line))
                       /\ TitlesOnce(lines) =>
                            \A line, other \in held :
                              HeadingsAbove(lines, line) = HeadingsAbove(lines, other)
  BY <1>4, Zenon DEF KeepsSections, units
<1> DEFINE held == ToSet(units[k].text)
           path == units[k].path
<1>5. \A line \in held : PathAfter(lines, HeadingsAbove(lines, line), path)
  BY <1>4 DEF UnitsPlaced, Placed
<1>6. held \subseteq Nat
  <2>1. units[k].text \in Seq(Positions(lines))
    <3>1. units[k] \in UnitsOf(lines)
      BY <1>4
    <3> QED
      BY <3>1 DEF UnitsOf
  <2> QED
    BY <2>1, InText DEF Positions
<1> HIDE DEF held, path
<1>7. WellNested(lines) => \A line \in held : path = TitlesAfter(lines, HeadingsAbove(lines, line))
  BY <1>5 DEF PathAfter
<1>8. TitlesOnce(lines) => \A line, other \in held : HeadingsAbove(lines, line) = HeadingsAbove(lines, other)
  BY <1>3, <1>5, <1>6, OneSection DEF PathAfter
<1> QED
  BY <1>7, <1>8, Zenon DEF held, path

\* The units of a document are short.
LEMMA DocumentShort ==
  ASSUME NEW lines \in Seq(Lines)
  PROVE  KeepsShort(lines, BuildStructuredDocument(lines))
<1> DEFINE blocks == Analyze(lines)
           units == BuildStructuredDocument(lines)
<1>1. HeadingsIn(lines, blocks)
  BY BlocksRead
<1>2. Segmented(lines, blocks, units)
  BY <1>1, AllSegmented DEF BuildStructuredDocument
<1> HIDE DEF units, blocks
<1>3. units \in Seq(UnitsOf(lines)) /\ (TitlesOnce(lines) => UnitsFitting(lines, units))
  BY <1>2, Zenon DEF Segmented
<1>4. DOMAIN units = 1..Len(units)
  BY <1>3
<1> QED
  BY <1>3, <1>4, Zenon DEF KeepsShort, UnitsFitting, Fits, units

-----------------------------------------------------------------------------
(* What the corpus holds *)

\* Files and the text in work are lines, and a stored document is what segmentation
\* makes of its lines
DocumentsInv ==
  /\ \A path \in DOMAIN disk : disk[path].lines \in Seq(Lines)
  /\ text \in Seq(Lines)
  /\ \A d \in DOMAIN store :
       /\ store[d].lines \in Seq(Lines)
       /\ store[d].units = BuildStructuredDocument(store[d].lines)

\* It holds at first.
LEMMA DocumentsInit == Init => DocumentsInv
<1> SUFFICES ASSUME Init PROVE DocumentsInv
  OBVIOUS
<1>1. \A path \in DOMAIN disk : disk[path].lines \in Seq(Lines)
  BY IngestionAssumption DEF Init
<1>2. text \in Seq(Lines)
  BY DEF Init
<1>3. DOMAIN store = {}
  BY DEF Init, EmptyStore
<1> QED
  BY <1>1, <1>2, <1>3 DEF DocumentsInv

\* Every step keeps it.
LEMMA DocumentsStep == DocumentsInv /\ [Next]_vars => DocumentsInv'
<1> SUFFICES ASSUME DocumentsInv, [Next]_vars PROVE DocumentsInv'
  OBVIOUS
<1>1. ASSUME NEW call \in Requests, Ingest(call) PROVE DocumentsInv'
  BY <1>1 DEF Ingest, DocumentsInv
<1>2. CASE Clear
  <2>1. UNCHANGED <<disk, text>> /\ (store' = EmptyStore \/ store' = store) /\ DOMAIN EmptyStore = {}
    BY <1>2 DEF Clear, EmptyStore
  <2> QED
    BY <2>1 DEF DocumentsInv
<1>3. CASE Describe
  <2>1. UNCHANGED <<disk, store, text>>
    BY <1>3 DEF Describe, Fails
  <2> QED
    BY <2>1 DEF DocumentsInv
<1>4. CASE Load
  <2>1. /\ UNCHANGED <<disk, store>>
        /\ text' = text \/ (Path \in DOMAIN disk /\ text' = disk[Path].lines)
    BY <1>4 DEF Load, Fails, Exists
  <2> QED
    BY <2>1 DEF DocumentsInv
<1>5. CASE Upsert
  <2> DEFINE units == BuildStructuredDocument(text)
  <2>1. UNCHANGED <<disk, text>>
    BY <1>5 DEF Upsert, Fails
  <2>2. CASE units = <<>>
    <3>1. store' = store
      BY <1>5, <2>2 DEF Upsert, Fails
    <3> QED
      BY <2>1, <3>1 DEF DocumentsInv
  <2>3. CASE units # <<>>
    <3>1. store' = [d \in DOMAIN store \cup {DocumentId} |->
                      IF d = DocumentId THEN [units |-> units, lines |-> text] ELSE store[d]]
      BY <1>5, <2>3 DEF Upsert
    <3>2. ASSUME NEW d \in DOMAIN store'
          PROVE  store'[d].lines \in Seq(Lines) /\ store'[d].units = BuildStructuredDocument(store'[d].lines)
      <4>1. CASE d = DocumentId
        <5>1. store'[d] = [units |-> units, lines |-> text]
          BY <3>1, <4>1
        <5> QED
          BY <5>1 DEF DocumentsInv
      <4>2. CASE d # DocumentId
        <5>1. d \in DOMAIN store /\ store'[d] = store[d]
          BY <3>1, <4>2
        <5> QED
          BY <5>1 DEF DocumentsInv
      <4> QED
        BY <4>1, <4>2
    <3> QED
      BY <2>1, <3>2 DEF DocumentsInv
  <2> QED
    BY <2>2, <2>3
<1>6. CASE Report
  BY <1>6 DEF Report, DocumentsInv
<1>7. CASE Dies
  BY <1>7 DEF Dies, DocumentsInv
<1>8. CASE Edited
  <2>1. UNCHANGED <<store, text>>
    BY <1>8 DEF Edited
  <2>2. CASE \E file \in Edits : disk' = [p \in DOMAIN disk \cup {Path} |-> IF p = Path THEN file ELSE disk[p]]
    <3>1. PICK file \in Edits : disk' = [p \in DOMAIN disk \cup {Path} |-> IF p = Path THEN file ELSE disk[p]]
      BY <2>2
    <3>2. file.lines \in Seq(Lines)
      BY IngestionAssumption
    <3> QED
      BY <2>1, <3>1, <3>2 DEF DocumentsInv
  <2>3. CASE disk' = [p \in DOMAIN disk \ {Path} |-> disk[p]]
    BY <2>1, <2>3 DEF DocumentsInv
  <2> QED
    BY <1>8, <2>2, <2>3 DEF Edited
<1>9. CASE UNCHANGED vars
  BY <1>9 DEF vars, DocumentsInv
<1> QED
  BY <1>1, <1>2, <1>3, <1>4, <1>5, <1>6, <1>7, <1>8, <1>9 DEF Next

\* Nothing but what segmentation makes of lines is in the corpus.
LEMMA StoredDocuments ==
  ASSUME DocumentsInv, NEW doc \in Stored
  PROVE  doc.lines \in Seq(Lines) /\ doc.units = BuildStructuredDocument(doc.lines)
  BY DEF DocumentsInv, Stored

\* Of every document in the corpus, the units read one after the other are the prose of
\* the file in order, each line once, and no heading; none is missing unless the document
\* reached max_units_per_document (understanding/services.py).
THEOREM LinesAreConserved == Spec => []LinesConserved
<1>1. DocumentsInv => LinesConserved
  <2> SUFFICES ASSUME DocumentsInv, NEW doc \in Stored PROVE Conserves(doc.lines, doc.units)
    BY Zenon DEF LinesConserved, Conserves
  <2> QED
    BY StoredDocuments, DocumentConserved
<1> QED
  BY <1>1, DocumentsInit, DocumentsStep, PTL DEF Spec

\* Of every document in the corpus, a unit has the path its lines are under when the
\* document skips no level, and stays within one section when titles come once
\* (Segmenter.segment, the section path and the fold).
THEOREM SectionsAreKept == Spec => []SectionsKept
<1>1. DocumentsInv => SectionsKept
  <2> SUFFICES ASSUME DocumentsInv, NEW doc \in Stored PROVE KeepsSections(doc.lines, doc.units)
    BY Zenon DEF SectionsKept, KeepsSections
  <2> QED
    BY StoredDocuments, DocumentSections
<1> QED
  BY <1>1, DocumentsInit, DocumentsStep, PTL DEF Spec

\* Of every document in the corpus whose titles come once, under limits that leave each
\* other room, a unit is above max_tokens by less than min_tokens, unless a single
\* sentence of it is above the target
\* (Segmenter._split_oversized and the fold of small pieces).
THEOREM UnitsAreFit == Spec => []UnitsFit
<1>1. DocumentsInv => UnitsFit
  <2> SUFFICES ASSUME DocumentsInv, NEW doc \in Stored PROVE KeepsShort(doc.lines, doc.units)
    BY Zenon DEF UnitsFit, KeepsShort
  <2> QED
    BY StoredDocuments, DocumentShort
<1> QED
  BY <1>1, DocumentsInit, DocumentsStep, PTL DEF Spec
=============================================================================
