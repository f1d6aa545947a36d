-------------------------- MODULE BenchmarksProofs --------------------------
(***************************************************************************)
(* What a report of Benchmarks may be believed about, for every campaign,  *)
(* evaluation file and machine: a campaign that passes has made every      *)
(* request its scenarios planned and none failed, the accuracy counts      *)
(* answers only, measured runs were taken under the conditions their       *)
(* scenario declares, and a silent sensor alone disqualifies nobody.  The  *)
(* properties speak of results that stay while other scenarios run; the    *)
(* strengthenings say, of each result, what it was made from: its scenario, *)
(* the whole plan, the verdict on exactly its runs, the selection and the  *)
(* loaded model its runs found, and finitely many readings of one machine. *)
(***************************************************************************)
EXTENDS Benchmarks, FoldLemmas

IsSeq(s) == \E S : s \in Seq(S)

\* Appending keeps what is there and adds one element, of whatever kind.
LEMMA Appending ==
  ASSUME NEW s, IsSeq(s), NEW e
  PROVE  /\ IsSeq(Append(s, e))
         /\ Len(s) \in Nat
         /\ Len(Append(s, e)) = Len(s) + 1
         /\ DOMAIN s = 1..Len(s)
         /\ DOMAIN Append(s, e) = 1..(Len(s) + 1)
         /\ \A i \in 1..Len(s) : Append(s, e)[i] = s[i]
         /\ Append(s, e)[Len(s) + 1] = e
<1>1. PICK S : s \in Seq(S)
  BY DEF IsSeq
<1>2. s \in Seq(S \cup {e}) /\ e \in S \cup {e}
  BY <1>1
<1>3. Append(s, e) \in Seq(S \cup {e})
  BY <1>2
<1> QED
  BY <1>2, <1>3 DEF IsSeq

\* No elements are a sequence.
LEMMA EmptyIsSeq == IsSeq(<<>>)
<1>1. <<>> \in Seq({})
  OBVIOUS
<1>2. \E S : <<>> \in Seq(S)
  BY <1>1
<1> QED
  BY <1>2 DEF IsSeq


-----------------------------------------------------------------------------
(* The strengthened invariant *)

\* A record says ok exactly when its request was answered without errors
RunsHonest(rs) == \A j \in DOMAIN rs : rs[j].ok = (rs[j].outcome.kind = "answer")

\* What the i-th result was made from
ResultMade(i) ==
  /\ results[i].scenario = campaign.scenarios[i]
  /\ Len(results[i].runs) = Planned(results[i].scenario)
  /\ RunsHonest(results[i].runs)
  /\ results[i].verdict = Judge(results[i].scenario, results[i].runs)

ProbeMade(i) == probed[i].result = ProbeResult(probes[i], probed[i].answer)

CampaignInv ==
  /\ IsSeq(results) /\ IsSeq(runs)
  /\ phase = "start" => results = <<>>
  /\ RunsHonest(runs)
  /\ \A i \in DOMAIN results : ResultMade(i)

EvaluationInv ==
  /\ IsSeq(probed)
  /\ phase = "start" => probed = <<>>
  /\ \A i \in DOMAIN probed : ProbeMade(i)

-----------------------------------------------------------------------------
(* The campaign *)

\* Nothing has been run.
LEMMA CampaignInit == Init => CampaignInv
<1> SUFFICES ASSUME Init PROVE CampaignInv
  OBVIOUS
<1>1. results = <<>> /\ runs = <<>>
  BY DEF Init
<1>2. DOMAIN results = {} /\ DOMAIN runs = {}
  BY <1>1
<1>3. IsSeq(results) /\ IsSeq(runs)
  BY <1>1, EmptyIsSeq
<1> QED
  BY <1>1, <1>2, <1>3 DEF CampaignInv, RunsHonest

\* Only a run that ends and a scenario that ends add to what there is.
LEMMA CampaignStep == CampaignInv /\ [Next]_vars => CampaignInv'
<1> SUFFICES ASSUME CampaignInv, [Next]_vars PROVE CampaignInv'
  OBVIOUS
<1>1. ASSUME NEW c \in Campaigns, Bench(c) PROVE CampaignInv'
  <2>1. results' = <<>> /\ runs' = runs
    BY <1>1 DEF Bench, CampaignInv
  <2>2. DOMAIN results' = {} /\ IsSeq(results')
    BY <2>1, EmptyIsSeq
  <2>3. RunsHonest(runs)' /\ IsSeq(runs')
    BY <2>1 DEF CampaignInv, RunsHonest
  <2> QED
    BY <2>1, <2>2, <2>3 DEF CampaignInv
<1>2. CASE RunOnce
  <2>1. PICK slot, result, r :
          /\ r.ok = (r.outcome.kind = "answer")
          /\ runs' = Append(runs, r)
    <3>1. PICK result \in Asks(Slot(Scenario, Len(runs) + 1).question, runtime, Answers) :
            runs' = Append(runs,
              [outcome |-> result[1], warmup |-> Slot(Scenario, Len(runs) + 1).warmup,
               ok |-> result[1].kind = "answer",
               loads |-> ~runtime.loaded /\ result[2].loaded,
               searched |-> Searched(runtime.selection)])
      BY <1>2 DEF RunOnce
    <3> QED
      BY <3>1
  <2>2. results' = results /\ campaign' = campaign /\ phase' = "asking"
    BY <1>2 DEF RunOnce
  <2>3. RunsHonest(runs)'
    BY <2>1, Appending DEF CampaignInv, RunsHonest
  <2>4. IsSeq(runs)'
    BY <2>1, Appending DEF CampaignInv
  <2>5. \A i \in DOMAIN results' : ResultMade(i)'
    BY <2>2 DEF CampaignInv, ResultMade, Planned, Questions, Indices
  <2> QED
    BY <2>2, <2>3, <2>4, <2>5 DEF CampaignInv
<1>3. CASE JudgeScenario
  <2> DEFINE new == [scenario |-> Scenario, runs |-> runs, verdict |-> Judge(Scenario, runs)]
  <2>1. /\ results' = Append(results, new) /\ runs' = <<>>
        /\ campaign' = campaign /\ phase' = "scenario"
        /\ Len(runs) = Planned(Scenario)
    BY <1>3 DEF JudgeScenario
  <2>2. /\ IsSeq(results) /\ IsSeq(results')
        /\ DOMAIN results = 1..Len(results)
        /\ DOMAIN results' = 1..(Len(results) + 1)
        /\ Len(results) \in Nat
        /\ \A i \in 1..Len(results) : results'[i] = results[i]
        /\ results'[Len(results) + 1] = new
    BY <2>1, Appending DEF CampaignInv
  <2>3. ASSUME NEW i \in DOMAIN results' PROVE ResultMade(i)'
    <3>1. CASE i \in DOMAIN results
      <4>1. ResultMade(i) /\ results'[i] = results[i]
        BY <2>2, <3>1 DEF CampaignInv
      <4> QED
        BY <4>1, <2>1 DEF ResultMade, Planned, Questions, Indices
    <3>2. CASE i = Len(results) + 1
      <4>1. results'[i] = new
        BY <2>2, <3>2
      <4>2. RunsHonest(runs)
        BY DEF CampaignInv
      <4>3. Scenario = campaign.scenarios[i]
        BY <3>2 DEF Scenario
      <4> QED
        BY <4>1, <4>2, <4>3, <2>1 DEF ResultMade, Planned, Questions, Indices, RunsHonest
    <3> QED
      BY <2>2, <3>1, <3>2
  <2>4. RunsHonest(runs)' /\ IsSeq(runs)'
    <3>1. DOMAIN runs' = {}
      BY <2>1
    <3> QED
      BY <2>1, <3>1, EmptyIsSeq DEF RunsHonest
  <2> QED
    BY <2>1, <2>2, <2>3, <2>4 DEF CampaignInv
<1>4. CASE StartScenario
  <2>1. /\ results' = results /\ campaign' = campaign /\ runs' = <<>>
        /\ phase' = "asking"
    BY <1>4 DEF StartScenario
  <2>2. \A i \in DOMAIN results' : ResultMade(i)'
    BY <2>1 DEF CampaignInv, ResultMade, Planned, Questions, Indices
  <2>3. RunsHonest(runs)' /\ IsSeq(runs)'
    <3>1. DOMAIN runs' = {}
      BY <2>1
    <3> QED
      BY <2>1, <3>1, EmptyIsSeq DEF RunsHonest
  <2> QED
    BY <2>1, <2>2, <2>3 DEF CampaignInv
<1>5. CASE /\ results' = results /\ runs' = runs /\ campaign' = campaign
           /\ phase' = "start" => phase = "start"
  <2>1. \A i \in DOMAIN results' : ResultMade(i)'
    BY <1>5 DEF CampaignInv, ResultMade, Planned, Questions, Indices
  <2>2. RunsHonest(runs)' /\ IsSeq(runs)'
    BY <1>5 DEF CampaignInv, RunsHonest
  <2> QED
    BY <1>5, <2>1, <2>2 DEF CampaignInv
<1>6. ASSUME NEW p \in Evaluations, Accuracy(p) PROVE CampaignInv'
  BY <1>5, <1>6 DEF Accuracy
<1>7. CASE EndCampaign
  BY <1>5, <1>7 DEF EndCampaign
<1>8. CASE ProbeOnce
  BY <1>5, <1>8 DEF ProbeOnce
<1>9. CASE EndAccuracy
  BY <1>5, <1>9 DEF EndAccuracy
<1>10. CASE ScoreCampaign
  BY <1>5, <1>10 DEF ScoreCampaign
<1>11. CASE UNCHANGED vars
  BY <1>5, <1>11 DEF vars
<1> QED
  BY <1>1, <1>2, <1>3, <1>4, <1>6, <1>7, <1>8, <1>9, <1>10, <1>11 DEF Next

\* What a passing verdict rests on: no failed run at all, and no run that vouched
\* for an answer to a question outside the corpus.
LEMMA PassMeansClean ==
  ASSUME NEW sc, NEW rs, RunsHonest(rs), Judge(sc, rs) = "pass"
  PROVE  /\ \A j \in DOMAIN rs : rs[j].outcome.kind = "answer"
         /\ sc.insufficient => \A j \in DOMAIN rs : rs[j].warmup \/ rs[j].outcome.honest
<1>1. ~ \E j \in DOMAIN rs : ~rs[j].ok
  BY DEF Judge
<1>2. ~Invented(sc, rs)
  BY <1>1 DEF Judge
<1>3. \A j \in DOMAIN rs : rs[j].outcome.kind = "answer"
  BY <1>1 DEF RunsHonest
<1>4. ASSUME sc.insufficient, NEW j \in DOMAIN rs, ~rs[j].warmup PROVE rs[j].outcome.honest
  <2>1. j \in Measured(rs)
    BY <1>1, <1>4 DEF Measured, IsMeasured
  <2> QED
    BY <1>2, <1>4, <2>1 DEF Invented
<1> QED
  BY <1>3, <1>4

\* A campaign that passes hides no failed, missing or invented run: in every
\* scenario every planned request was made and answered (BenchmarkHarness._judge,
\* _summarize).
THEOREM PassMeansEveryRun == Spec => []FailuresAreReported
<1>1. CampaignInv => FailuresAreReported
  <2> SUFFICES ASSUME CampaignInv,
                      Len(results) = Len(campaign.scenarios), CampaignVerdict = "pass",
                      NEW i \in DOMAIN results
               PROVE  LET sc == results[i].scenario
                          rs == results[i].runs
                      IN  /\ sc = campaign.scenarios[i] /\ Len(rs) = Planned(sc)
                          /\ \A j \in DOMAIN rs : rs[j].outcome.kind = "answer"
                          /\ sc.insufficient =>
                               \A j \in DOMAIN rs : rs[j].warmup \/ rs[j].outcome.honest
    BY DEF FailuresAreReported
  <2>1. ResultMade(i)
    BY DEF CampaignInv
  <2>2. results[i].verdict = "pass"
    BY DEF CampaignVerdict
  <2>3. /\ RunsHonest(results[i].runs)
        /\ Judge(results[i].scenario, results[i].runs) = "pass"
    BY <2>1, <2>2 DEF ResultMade
  <2> QED
    BY <2>1, <2>3, PassMeansClean DEF ResultMade
<1> QED
  BY <1>1, CampaignInit, CampaignStep, PTL DEF Spec

-----------------------------------------------------------------------------
(* The evaluation *)

\* Nothing has been asked.
LEMMA EvaluationInit == Init => EvaluationInv
<1> SUFFICES ASSUME Init PROVE EvaluationInv
  OBVIOUS
<1>1. probed = <<>>
  BY DEF Init
<1>2. DOMAIN probed = {}
  BY <1>1
<1>3. IsSeq(probed)
  BY <1>1, EmptyIsSeq
<1> QED
  BY <1>1, <1>2, <1>3 DEF EvaluationInv

\* Only an answered probe adds a result.
LEMMA EvaluationStep == EvaluationInv /\ [Next]_vars => EvaluationInv'
<1> SUFFICES ASSUME EvaluationInv, [Next]_vars PROVE EvaluationInv'
  OBVIOUS
<1>1. CASE ProbeOnce
  <2>1. PICK result :
          probed' = Append(probed,
            [answer |-> result[1],
             result |-> ProbeResult(probes[Len(probed) + 1], result[1])])
    BY <1>1 DEF ProbeOnce
  <2>2. probes' = probes /\ phase' = "accuracy"
    BY <1>1 DEF ProbeOnce
  <2>3. /\ IsSeq(probed')
        /\ DOMAIN probed = 1..Len(probed)
        /\ DOMAIN probed' = 1..(Len(probed) + 1)
        /\ Len(probed) \in Nat
        /\ \A i \in 1..Len(probed) : probed'[i] = probed[i]
        /\ probed'[Len(probed) + 1] =
             [answer |-> result[1],
              result |-> ProbeResult(probes[Len(probed) + 1], result[1])]
    BY <2>1, Appending DEF EvaluationInv
  <2>4. ASSUME NEW i \in DOMAIN probed' PROVE ProbeMade(i)'
    <3>1. CASE i \in DOMAIN probed
      BY <2>2, <2>3, <3>1 DEF EvaluationInv, ProbeMade
    <3>2. CASE i = Len(probed) + 1
      BY <2>2, <2>3, <3>2 DEF ProbeMade
    <3> QED
      BY <2>3, <3>1, <3>2
  <2> QED
    BY <2>2, <2>3, <2>4 DEF EvaluationInv
<1>2. ASSUME NEW p \in Evaluations, Accuracy(p) PROVE EvaluationInv'
  <2>1. probed' = <<>> /\ phase' = "accuracy"
    BY <1>2 DEF Accuracy, EvaluationInv
  <2>2. DOMAIN probed' = {}
    BY <2>1
  <2>3. IsSeq(probed')
    BY <2>1, EmptyIsSeq
  <2> QED
    BY <2>1, <2>2, <2>3 DEF EvaluationInv
<1>3. CASE probed' = probed /\ probes' = probes /\ (phase' = "start" => phase = "start")
  BY <1>3 DEF EvaluationInv, ProbeMade
<1>4. ASSUME NEW c \in Campaigns, Bench(c) PROVE EvaluationInv'
  BY <1>3, <1>4 DEF Bench
<1>5. CASE StartScenario
  BY <1>3, <1>5 DEF StartScenario
<1>6. CASE RunOnce
  BY <1>3, <1>6 DEF RunOnce
<1>7. CASE JudgeScenario
  BY <1>3, <1>7 DEF JudgeScenario
<1>8. CASE EndCampaign
  BY <1>3, <1>8 DEF EndCampaign
<1>9. CASE EndAccuracy
  BY <1>3, <1>9 DEF EndAccuracy
<1>10. CASE ScoreCampaign
  BY <1>3, <1>10 DEF ScoreCampaign
<1>11. CASE UNCHANGED vars
  BY <1>3, <1>11 DEF vars
<1> QED
  BY <1>1, <1>2, <1>4, <1>5, <1>6, <1>7, <1>8, <1>9, <1>10, <1>11 DEF Next

\* A result that counts comes from a whole, non-empty answer.
LEMMA OnlyWholeAnswers ==
  ASSUME NEW probe, NEW a,
         \/ ProbeResult(probe, a).declined
         \/ ProbeResult(probe, a).correct
  PROVE  a.kind = "answer" /\ ~a.truncated /\ ~a.empty
<1>1. \A failure : ~Unanswered(failure).declined /\ ~Unanswered(failure).correct
  BY DEF Unanswered
<1> QED
  BY <1>1 DEF ProbeResult

\* What was invented was asked outside the corpus, and was not declined.
LEMMA InventedIsNotDeclined ==
  ASSUME NEW probe, NEW a, ProbeResult(probe, a).hallucinated
  PROVE  probe.unanswerable /\ ~ProbeResult(probe, a).declined
<1>1. \A failure : ~Unanswered(failure).hallucinated
  BY DEF Unanswered
<1>2. ProbeResult(probe, a) = Weighed(probe, a)
  BY <1>1 DEF ProbeResult
<1>3. probe.unanswerable
  <2>1. CASE ~probe.unanswerable
    <3>1. Weighed(probe, a).hallucinated = FALSE
      BY <2>1 DEF Weighed
    <3> QED
      BY <1>2, <3>1
  <2> QED
    BY <2>1
<1>4. ~a.insufficient
  <2>1. Weighed(probe, a).hallucinated = Answered(a)
    BY <1>3 DEF Weighed
  <2> QED
    BY <1>2, <2>1 DEF Answered
<1>5. ~Weighed(probe, a).declined
  BY <1>3, <1>4 DEF Weighed
<1> QED
  BY <1>2, <1>3, <1>5

\* The accuracy counts no crash, no cut-off draft, no empty generation and no
\* invention, and what it does not count the report lists (AccuracyEvaluator).
THEOREM AccuracyCountsAnswers == Spec => []OnlyAnswersCount
<1>1. EvaluationInv => OnlyAnswersCount
  <2> SUFFICES ASSUME EvaluationInv, NEW i \in DOMAIN probed
               PROVE  LET a == probed[i].answer
                          r == probed[i].result
                      IN  /\ i \in Counted \cup Failures
                          /\ i \in Counted => a.kind = "answer" /\ ~a.truncated /\ ~a.empty
                          /\ r.hallucinated => i \in Failures \ Counted
    BY DEF OnlyAnswersCount
  <2>1. probed[i].result = ProbeResult(probes[i], probed[i].answer)
    BY DEF EvaluationInv, ProbeMade
  <2>2. i \in Counted \cup Failures
    BY DEF Failures
  <2>3. ASSUME i \in Counted
        PROVE  /\ probed[i].answer.kind = "answer"
               /\ ~probed[i].answer.truncated /\ ~probed[i].answer.empty
    <3>1. probed[i].result.declined \/ probed[i].result.correct
      BY <2>3 DEF Counted
    <3> QED
      BY <2>1, <3>1, OnlyWholeAnswers
  <2>4. ASSUME probed[i].result.hallucinated PROVE i \in Failures \ Counted
    <3>1. probes[i].unanswerable /\ ~probed[i].result.declined
      BY <2>1, <2>4, InventedIsNotDeclined
    <3>2. i \notin Counted
      BY <3>1 DEF Counted
    <3> QED
      BY <3>2 DEF Failures
  <2> QED
    BY <2>2, <2>3, <2>4
<1> QED
  BY <1>1, EvaluationInit, EvaluationStep, PTL DEF Spec

-----------------------------------------------------------------------------
(* The conditions of a run *)

\* The runtime as the campaign sees it
Runtimes == [loaded : BOOLEAN, usable : BOOLEAN, selection : SUBSET Nat]

\* A request leaves the selection alone; once asked, a question has the model
\* loaded or the runtime stuck; who is answered found a runtime that worked.
LEMMA AskLeaves ==
  ASSUME NEW rt \in Runtimes, NEW q, NEW answers, NEW result \in Asks(q, rt, answers)
  PROVE  /\ result[2] \in Runtimes /\ result[2].selection = rt.selection
         /\ q = Nothing \/ ~result[2].usable \/ result[2].loaded
         /\ result[1].kind = "answer" =>
              q # Nothing /\ rt.usable /\ result[2].loaded /\ result[1] \in answers
<1>1. Refusal.kind # "answer" /\ Crash.kind # "answer"
  BY DEF Refusal, Crash
<1>2. CASE q = Nothing \/ ~rt.usable
  <2>1. result = <<Refusal, rt>>
    BY <1>2 DEF Asks
  <2> QED
    BY <1>1, <1>2, <2>1
<1>3. CASE q # Nothing /\ rt.usable
  <2> DEFINE stuck == [rt EXCEPT !.usable = FALSE]
             warm == [rt EXCEPT !.loaded = TRUE]
             crashed(u) == [warm EXCEPT !.usable = u]
  <2>1. /\ stuck \in Runtimes /\ stuck.selection = rt.selection /\ ~stuck.usable
        /\ warm \in Runtimes /\ warm.selection = rt.selection /\ warm.loaded
        /\ \A u \in BOOLEAN : /\ crashed(u) \in Runtimes /\ crashed(u).loaded
                              /\ crashed(u).selection = rt.selection
    BY DEF Runtimes
  <2>2. \/ result = <<Refusal, stuck>> \/ result = <<Crash, stuck>>
        \/ \E u \in BOOLEAN : result = <<Crash, crashed(u)>>
        \/ \E a \in answers : result = <<a, warm>>
    BY <1>3 DEF Asks
  <2> HIDE DEF stuck, warm, crashed
  <2>3. CASE \/ result = <<Refusal, stuck>> \/ result = <<Crash, stuck>>
             \/ \E u \in BOOLEAN : result = <<Crash, crashed(u)>>
    BY <1>1, <2>1, <2>3
  <2>4. CASE \E a \in answers : result = <<a, warm>>
    BY <1>3, <2>1, <2>4
  <2> QED
    BY <2>2, <2>3, <2>4
<1> QED
  BY <1>2, <1>3

\* Within one round of the inner loop the question stays the same.
LEMMA SameRound ==
  ASSUME NEW a \in Nat, NEW n \in Nat \ {0}, 1 <= a % n
  PROVE  1 <= a /\ a \div n = (a - 1) \div n
<1>1. a % n <= a
  OBVIOUS
<1>2. /\ a = n * (a \div n) + (a % n) /\ a % n < n /\ a \div n \in Nat
  OBVIOUS
<1>3. /\ a - 1 = n * ((a - 1) \div n) + ((a - 1) % n) /\ 0 <= (a - 1) % n /\ (a - 1) % n < n
      /\ (a - 1) \div n \in Int /\ (a - 1) % n \in Int
  OBVIOUS
<1>4. \A p, q, r, s \in Int : n * p + r = n * q + s /\ 0 <= r /\ r < n /\ 0 <= s /\ s < n => p = q
  <2> SUFFICES ASSUME NEW p \in Int, NEW q \in Int, NEW r \in Int, NEW s \in Int,
                      n * p + r = n * q + s, 0 <= r, r < n, 0 <= s, s < n
               PROVE  p = q
    OBVIOUS
  <2>1. n * (p - q) = s - r
    OBVIOUS
  <2>2. p - q >= 1 => n * (p - q) >= n
    OBVIOUS
  <2>3. q - p >= 1 => n * (q - p) >= n
    OBVIOUS
  <2>4. n * (q - p) = r - s
    OBVIOUS
  <2> QED
    BY <2>1, <2>2, <2>3, <2>4
<1> QED
  BY <1>1, <1>2, <1>3, <1>4

\* The documents a scenario searches are the ones it declares.
LEMMA SearchesDeclared ==
  ASSUME NEW sc, sc.documents \in Nat, NEW old
  PROVE  /\ Select(sc, old) \in SUBSET Nat
         /\ Searched(Select(sc, old)) =
              IF sc.documents = 0 THEN 1..CorpusSize ELSE {d \in 1..CorpusSize : d <= sc.documents}
<1>0. CorpusSize \in Nat
  BY CampaignAssumption
<1>1. CASE sc.documents = 0
  BY <1>0, <1>1 DEF Select, Searched
<1>2. CASE sc.documents # 0
  <2> DEFINE low == Min({sc.documents, CorpusSize})
  <2>1. low \in {sc.documents, CorpusSize} /\ low <= sc.documents /\ low <= CorpusSize
    <3>1. \E x \in {sc.documents, CorpusSize} : \A y \in {sc.documents, CorpusSize} : x <= y
      BY <1>0
    <3> QED
      BY <3>1 DEF Min
  <2>2. Select(sc, old) = 1..low
    BY <1>2 DEF Select
  <2> HIDE DEF low
  <2>3. 1..low = {d \in 1..CorpusSize : d <= sc.documents}
    BY <1>0, <2>1
  <2>4. 1..low = {} => CorpusSize = 0
    BY <1>0, <1>2, <2>1
  <2>5. CorpusSize = 0 => 1..CorpusSize = {}
    BY <1>0
  <2>6. 1..low \in SUBSET Nat
    BY <1>0, <2>1
  <2> QED
    BY <1>2, <2>2, <2>3, <2>4, <2>5, <2>6 DEF Searched
<1> QED
  BY <1>1, <1>2

\* What a measured run of a scenario was measured under
AsDeclared(sc, rs, j) ==
  IsMeasured(rs[j]) =>
    /\ rs[j].searched =
         IF sc.documents = 0 THEN 1..CorpusSize
         ELSE {d \in 1..CorpusSize : d <= sc.documents}
    /\ sc.cold /\ j = 1 => rs[j].loads
    /\ rs[j].loads => sc.cold \/ campaign.warmup = 0

\* While a scenario is under way: its selection is in force, a cold start has
\* not loaded the model yet, and the question asked last has, or found it stuck
UnderWay ==
  /\ Len(results) < Len(campaign.scenarios)
  /\ Searched(runtime.selection) =
       IF Scenario.documents = 0 THEN 1..CorpusSize
       ELSE {d \in 1..CorpusSize : d <= Scenario.documents}
  /\ runs = <<>> /\ Scenario.cold => ~runtime.loaded
  /\ runs # <<>> => \/ Slot(Scenario, Len(runs)).question = Nothing
                    \/ ~runtime.usable
                    \/ runtime.loaded
  /\ \A j \in DOMAIN runs : AsDeclared(Scenario, runs, j)

ConditionsInv ==
  /\ runtime \in Runtimes
  /\ IsSeq(results) /\ IsSeq(runs)
  /\ phase = "start" => results = <<>>
  /\ phase \in {"scenario", "asking"} => campaign \in Campaigns
  /\ phase = "asking" => UnderWay
  /\ \A i \in DOMAIN results : \A j \in DOMAIN results[i].runs :
       AsDeclared(results[i].scenario, results[i].runs, j)

\* The scenario under way is one the campaign may have.
LEMMA ScenarioIsPlanned ==
  ASSUME campaign \in Campaigns, Len(results) \in Nat, Len(results) < Len(campaign.scenarios)
  PROVE  /\ Scenario.repeat \in Nat \ {0} /\ Scenario.documents \in Nat
         /\ Scenario.cold \in BOOLEAN
         /\ Indices(Scenario) \in Nat \ {0} /\ campaign.warmup \in Nat
<1>1. /\ campaign.repeat \in Nat \ {0} /\ campaign.warmup \in Nat /\ Len(campaign.scenarios) \in Nat
      /\ \A i \in 1..Len(campaign.scenarios) :
           /\ campaign.scenarios[i].repeat \in Nat \ {0} /\ campaign.scenarios[i].documents \in Nat
           /\ campaign.scenarios[i].cold \in BOOLEAN
  BY CampaignAssumption
<1>2. Len(results) + 1 \in 1..Len(campaign.scenarios)
  BY <1>1
<1> QED
  BY <1>1, <1>2 DEF Scenario, Indices

\* A run that is measured, in a scenario that is not cold and has warm-ups, is not
\* the first of its question: the question before it was the same.
LEMMA MeasuredIsNotFirst ==
  ASSUME campaign \in Campaigns, Len(results) \in Nat, Len(results) < Len(campaign.scenarios),
         NEW n \in Nat, ~Scenario.cold, campaign.warmup # 0, ~Slot(Scenario, n + 1).warmup
  PROVE  n # 0 /\ Slot(Scenario, n).question = Slot(Scenario, n + 1).question
<1>1. Indices(Scenario) \in Nat \ {0} /\ campaign.warmup \in Nat
  BY ScenarioIsPlanned
<1>2. (n + 1) - 1 = n
  OBVIOUS
<1>3. ~(n % Indices(Scenario) < campaign.warmup)
  <2>1. ~IsWarmup(Scenario, n + 1)
    BY DEF Slot
  <2> QED
    <3>1. ~(((n + 1) - 1) % Indices(Scenario) < campaign.warmup /\ ~Scenario.cold)
      BY <2>1, Zenon DEF IsWarmup
    <3>2. ~(((n + 1) - 1) % Indices(Scenario) < campaign.warmup)
      BY <3>1, Zenon
    <3>3. ((n + 1) - 1) % Indices(Scenario) = n % Indices(Scenario)
      BY <1>2, Zenon
    <3> QED
      BY <3>2, <3>3, Zenon
<1>4. n % Indices(Scenario) \in Nat
  BY <1>1
<1>5. 1 <= n % Indices(Scenario)
  BY <1>1, <1>3, <1>4
<1>6. 1 <= n /\ n \div Indices(Scenario) = (n - 1) \div Indices(Scenario)
  BY <1>1, <1>5, SameRound
<1> QED
  BY <1>2, <1>6 DEF Slot, QuestionOf

\* The next request is measured under the conditions the scenario declares.
LEMMA NextRunAsDeclared ==
  ASSUME ConditionsInv, phase = "asking", NEW rs, NEW r,
         NEW result \in Asks(Slot(Scenario, Len(runs) + 1).question, runtime, Answers),
         r = [outcome |-> result[1], warmup |-> Slot(Scenario, Len(runs) + 1).warmup,
              ok |-> result[1].kind = "answer",
              loads |-> ~runtime.loaded /\ result[2].loaded,
              searched |-> Searched(runtime.selection)],
         rs = Append(runs, r)
  PROVE  AsDeclared(Scenario, rs, Len(runs) + 1)
<1> DEFINE k == Len(runs) + 1
<1>0. UnderWay /\ runtime \in Runtimes /\ campaign \in Campaigns
      /\ Len(results) \in Nat /\ Len(runs) \in Nat /\ rs[k] = r
      /\ (Len(runs) = 0 => runs = <<>>)
  <2>1. Len(runs) = 0 => runs = <<>>
    <3>1. PICK S : runs \in Seq(S)
      BY DEF ConditionsInv, IsSeq
    <3> QED
      BY <3>1
  <2> QED
    BY <2>1, Appending DEF ConditionsInv
<1> SUFFICES ASSUME IsMeasured(r)
             PROVE  /\ r.searched = IF Scenario.documents = 0 THEN 1..CorpusSize
                                    ELSE {d \in 1..CorpusSize : d <= Scenario.documents}
                    /\ Scenario.cold /\ k = 1 => r.loads
                    /\ r.loads => Scenario.cold \/ campaign.warmup = 0
  BY <1>0 DEF AsDeclared
<1>1. /\ result[1].kind = "answer" /\ ~Slot(Scenario, k).warmup
      /\ r.loads = (~runtime.loaded /\ result[2].loaded)
      /\ r.searched = Searched(runtime.selection)
  BY DEF IsMeasured
<1>2. Slot(Scenario, k).question # Nothing /\ runtime.usable /\ result[2].loaded
  <2> HIDE DEF k
  <2>1. result \in Asks(Slot(Scenario, k).question, runtime, Answers)
    BY DEF k
  <2> QED
    BY <1>0, <1>1, <2>1, AskLeaves
<1>3. r.searched = IF Scenario.documents = 0 THEN 1..CorpusSize
                   ELSE {d \in 1..CorpusSize : d <= Scenario.documents}
  BY <1>0, <1>1 DEF UnderWay
<1>4. Scenario.cold /\ k = 1 => r.loads
  <2>1. k = 1 => runs = <<>>
    BY <1>0
  <2> QED
    BY <1>0, <1>1, <1>2, <2>1, Zenon DEF UnderWay
<1>5. ASSUME r.loads, ~Scenario.cold, campaign.warmup # 0 PROVE FALSE
  <2>1. Len(runs) # 0 /\ Slot(Scenario, Len(runs)).question = Slot(Scenario, k).question
    BY <1>0, <1>1, <1>5, MeasuredIsNotFirst DEF UnderWay
  <2>2. runs # <<>>
    BY <2>1
  <2>3. runtime.loaded
    BY <1>0, <1>2, <2>1, <2>2 DEF UnderWay
  <2> QED
    BY <1>1, <1>5, <2>3
<1> QED
  BY <1>3, <1>4, <1>5

\* At the start nothing has been measured.
LEMMA ConditionsInit == Init => ConditionsInv
<1> SUFFICES ASSUME Init PROVE ConditionsInv
  OBVIOUS
<1>1. results = <<>> /\ runs = <<>> /\ phase = "start" /\ runtime = Fresh
  BY DEF Init
<1>2. DOMAIN results = {} /\ IsSeq(results) /\ IsSeq(runs)
  BY <1>1, EmptyIsSeq
<1>3. runtime \in Runtimes
  BY <1>1 DEF Fresh, Runtimes
<1> QED
  BY <1>1, <1>2, <1>3 DEF ConditionsInv

\* Results that are kept keep what they were measured under.
LEMMA ResultsStay ==
  ASSUME ConditionsInv, results' = results, campaign' = campaign
  PROVE  /\ IsSeq(results')
         /\ \A i \in DOMAIN results' : \A j \in DOMAIN results'[i].runs :
              AsDeclared(results[i].scenario, results[i].runs, j)'
BY DEF ConditionsInv, AsDeclared

\* One request more keeps what the runs before it were measured under.
LEMMA RunOnceConditions == ConditionsInv /\ RunOnce => ConditionsInv'
<1> SUFFICES ASSUME ConditionsInv, RunOnce PROVE ConditionsInv'
  OBVIOUS
<1> DEFINE slot == Slot(Scenario, Len(runs) + 1)
<1>1. PICK result \in Asks(slot.question, runtime, Answers) :
        /\ runtime' = result[2]
        /\ runs' = Append(runs,
             [outcome |-> result[1], warmup |-> slot.warmup,
              ok |-> result[1].kind = "answer",
              loads |-> ~runtime.loaded /\ result[2].loaded,
              searched |-> Searched(runtime.selection)])
  BY DEF RunOnce
<1>2. /\ phase = "asking" /\ phase' = "asking"
      /\ campaign' = campaign /\ results' = results
  BY DEF RunOnce
<1>3. /\ runtime \in Runtimes /\ campaign \in Campaigns /\ UnderWay
      /\ IsSeq(results) /\ IsSeq(runs) /\ Len(results) \in Nat
  BY <1>2, Appending DEF ConditionsInv
<1> DEFINE r == [outcome |-> result[1], warmup |-> slot.warmup,
                 ok |-> result[1].kind = "answer",
                 loads |-> ~runtime.loaded /\ result[2].loaded,
                 searched |-> Searched(runtime.selection)]
<1>4. /\ IsSeq(runs') /\ Len(runs) \in Nat /\ Len(runs') = Len(runs) + 1
      /\ DOMAIN runs = 1..Len(runs) /\ DOMAIN runs' = 1..(Len(runs) + 1)
      /\ \A j \in 1..Len(runs) : runs'[j] = runs[j]
  <2> HIDE DEF r
  <2> QED
    BY <1>1, <1>3, Appending DEF r
<1>5. /\ runtime' \in Runtimes /\ runtime'.selection = runtime.selection
      /\ slot.question = Nothing \/ ~runtime'.usable \/ runtime'.loaded
  <2> HIDE DEF slot
  <2> QED
    BY <1>1, <1>3, AskLeaves
<1>6. AsDeclared(Scenario, runs', Len(runs) + 1)
  <2> HIDE DEF slot
  <2>1. r.warmup = slot.warmup /\ runs' = Append(runs, r)
    BY <1>1
  <2> QED
    BY <1>1, <1>2, <2>1, NextRunAsDeclared DEF slot
<1>7. \A j \in DOMAIN runs' : AsDeclared(Scenario, runs', j)
  <2> SUFFICES ASSUME NEW j \in DOMAIN runs' PROVE AsDeclared(Scenario, runs', j)
    OBVIOUS
  <2>1. CASE j = Len(runs) + 1
    BY <1>6, <2>1
  <2>2. CASE j \in 1..Len(runs)
    <3>1. AsDeclared(Scenario, runs, j) /\ runs'[j] = runs[j]
      BY <1>3, <1>4, <2>2 DEF UnderWay
    <3> QED
      BY <3>1 DEF AsDeclared
  <2> QED
    BY <1>4, <2>1, <2>2
<1>8. runs' # <<>>
  <2>1. Len(runs') # 0
    BY <1>4
  <2> QED
    BY <2>1
<1>9. UnderWay'
  <2>1. Scenario' = Scenario /\ Slot(Scenario, Len(runs))' = slot
    BY <1>2, <1>4 DEF Scenario, Slot, QuestionOf, IsWarmup, Questions, Indices
  <2>2. \A j \in DOMAIN runs' : AsDeclared(Scenario, runs, j)'
    BY <1>2, <1>7, <2>1 DEF AsDeclared
  <2>3. \/ slot.question = Nothing \/ ~runtime'.usable \/ runtime'.loaded
    BY <1>5
  <2> HIDE DEF slot
  <2> QED
    BY <1>2, <1>3, <1>5, <1>8, <2>1, <2>2, <2>3 DEF UnderWay
<1> QED
  BY <1>2, <1>3, <1>4, <1>5, <1>9, ResultsStay DEF ConditionsInv

\* A scenario starts with its own selection in force, whatever the last one left.
LEMMA StartScenarioConditions == ConditionsInv /\ StartScenario => ConditionsInv'
<1> SUFFICES ASSUME ConditionsInv, StartScenario PROVE ConditionsInv'
  OBVIOUS
<1>1. /\ phase = "scenario" /\ phase' = "asking" /\ Len(results) < Len(campaign.scenarios)
      /\ runs' = <<>> /\ campaign' = campaign /\ results' = results
      /\ runtime' = [runtime EXCEPT !.selection = Select(Scenario, @),
                                    !.loaded = @ /\ ~Scenario.cold]
  BY DEF StartScenario
<1>2. /\ runtime \in Runtimes /\ campaign \in Campaigns
      /\ IsSeq(results) /\ Len(results) \in Nat
  BY <1>1, Appending DEF ConditionsInv
<1>3. Scenario.documents \in Nat /\ Scenario.cold \in BOOLEAN
  BY <1>1, <1>2, ScenarioIsPlanned
<1> DEFINE chosen == Select(Scenario, runtime.selection)
<1>4. /\ chosen \in SUBSET Nat
      /\ Searched(chosen) = IF Scenario.documents = 0 THEN 1..CorpusSize
                            ELSE {d \in 1..CorpusSize : d <= Scenario.documents}
  BY <1>3, SearchesDeclared
<1>5. /\ runtime' \in Runtimes /\ runtime'.selection = chosen
      /\ Scenario.cold => ~runtime'.loaded
  <2> HIDE DEF chosen
  <2>1. runtime' = [runtime EXCEPT !.selection = chosen, !.loaded = @ /\ ~Scenario.cold]
    BY <1>1 DEF chosen
  <2> QED
    BY <1>2, <1>3, <1>4, <2>1 DEF Runtimes
<1>6. IsSeq(runs') /\ DOMAIN runs' = {}
  BY <1>1, EmptyIsSeq
<1>7. UnderWay'
  <2> HIDE DEF chosen
  <2>1. Scenario' = Scenario
    BY <1>1 DEF Scenario
  <2> QED
    BY <1>1, <1>4, <1>5, <1>6, <2>1 DEF UnderWay
<1> QED
  BY <1>1, <1>2, <1>5, <1>6, <1>7, ResultsStay DEF ConditionsInv

\* Judging moves the runs into a result and changes none of them.
LEMMA JudgeScenarioConditions == ConditionsInv /\ JudgeScenario => ConditionsInv'
<1> SUFFICES ASSUME ConditionsInv, JudgeScenario PROVE ConditionsInv'
  OBVIOUS
<1> DEFINE new == [scenario |-> Scenario, runs |-> runs, verdict |-> Judge(Scenario, runs)]
<1>1. /\ phase = "asking" /\ phase' = "scenario" /\ runs' = <<>>
      /\ results' = Append(results, new)
      /\ campaign' = campaign /\ runtime' = runtime
  BY DEF JudgeScenario
<1>2. UnderWay /\ runtime \in Runtimes /\ campaign \in Campaigns /\ IsSeq(results)
  BY <1>1 DEF ConditionsInv
<1>3. /\ IsSeq(results') /\ Len(results) \in Nat
      /\ DOMAIN results = 1..Len(results) /\ DOMAIN results' = 1..(Len(results) + 1)
      /\ \A i \in 1..Len(results) : results'[i] = results[i]
      /\ results'[Len(results) + 1] = new
  <2> HIDE DEF new
  <2> QED
    BY <1>1, <1>2, Appending
<1>4. IsSeq(runs')
  BY <1>1, EmptyIsSeq
<1>5. ASSUME NEW i \in DOMAIN results', NEW j \in DOMAIN results'[i].runs
      PROVE  AsDeclared(results[i].scenario, results[i].runs, j)'
  <2>1. CASE i \in 1..Len(results)
    <3>1. results'[i] = results[i] /\ i \in DOMAIN results
      BY <1>3, <2>1
    <3>2. AsDeclared(results[i].scenario, results[i].runs, j)
      BY <1>5, <3>1 DEF ConditionsInv
    <3> QED
      BY <1>1, <3>1, <3>2 DEF AsDeclared
  <2>2. CASE i = Len(results) + 1
    <3>1. results'[i].scenario = Scenario /\ results'[i].runs = runs
      BY <1>3, <2>2
    <3>2. AsDeclared(Scenario, runs, j)
      BY <1>2, <1>5, <3>1 DEF UnderWay
    <3> QED
      BY <1>1, <3>1, <3>2 DEF AsDeclared
  <2> QED
    BY <1>3, <1>5, <2>1, <2>2
<1> QED
  BY <1>1, <1>2, <1>3, <1>4, <1>5 DEF ConditionsInv

\* Every step of the commands keeps the conditions.
LEMMA ConditionsStep == ConditionsInv /\ [Next]_vars => ConditionsInv'
<1> SUFFICES ASSUME ConditionsInv, [Next]_vars PROVE ConditionsInv'
  OBVIOUS
<1>1. ASSUME NEW c \in Campaigns, Bench(c) PROVE ConditionsInv'
  <2>1. /\ results' = <<>> /\ runs' = runs /\ campaign' = c /\ phase' \in {"scenario", "done"}
        /\ \/ runtime' = [runtime EXCEPT !.loaded = TRUE]
           \/ runtime' = [runtime EXCEPT !.usable = FALSE]
    BY <1>1 DEF Bench, ConditionsInv
  <2>2. runtime' \in Runtimes
    BY <2>1 DEF ConditionsInv, Runtimes
  <2>3. DOMAIN results' = {} /\ IsSeq(results') /\ IsSeq(runs')
    BY <2>1, EmptyIsSeq DEF ConditionsInv
  <2> QED
    BY <2>1, <2>2, <2>3 DEF ConditionsInv
\* A step that leaves the campaign and its results alone, and no scenario under way
<1>2. ASSUME results' = results, runs' = runs, campaign' = campaign, runtime' \in Runtimes,
             phase' \in {"start", "scenario"} => phase = phase', phase' # "asking"
      PROVE  ConditionsInv'
  BY <1>2, ResultsStay DEF ConditionsInv
<1>3. ASSUME NEW p \in Evaluations, Accuracy(p) PROVE ConditionsInv'
  BY <1>2, <1>3 DEF Accuracy, ConditionsInv
<1>4. CASE EndCampaign
  BY <1>2, <1>4 DEF EndCampaign, ConditionsInv
<1>5. CASE ProbeOnce
  <2>1. PICK result \in Asks("question", runtime, ProbeAnswers) : runtime' = result[2]
    BY <1>5 DEF ProbeOnce
  <2>2. runtime' \in Runtimes
    BY <2>1, AskLeaves DEF ConditionsInv
  <2> QED
    BY <1>2, <1>5, <2>2 DEF ProbeOnce
<1>6. CASE EndAccuracy
  BY <1>2, <1>6 DEF EndAccuracy, ConditionsInv
<1>7. CASE ScoreCampaign
  BY <1>2, <1>7 DEF ScoreCampaign, ConditionsInv
<1>8. CASE UNCHANGED vars
  <2>1. /\ results' = results /\ runs' = runs /\ campaign' = campaign
        /\ runtime' = runtime /\ phase' = phase
    BY <1>8 DEF vars
  <2>2. UnderWay => UnderWay'
    <3>1. UnderWay' = UnderWay
      BY <2>1 DEF UnderWay, Scenario, Slot, QuestionOf, IsWarmup, Questions, Indices, AsDeclared
    <3> QED
      BY <3>1
  <2> QED
    BY <2>1, <2>2, ResultsStay DEF ConditionsInv
<1> QED
  BY <1>1, <1>3, <1>4, <1>5, <1>6, <1>7, <1>8, RunOnceConditions, StartScenarioConditions,
     JudgeScenarioConditions DEF Next

\* Each measured run was taken under the conditions its scenario declares: its
\* documents, and the model loaded in the first run of a cold start and nowhere
\* else (BenchmarkHarness.run_scenario, _single_run).
THEOREM RunsAreAsDeclared == Spec => []MeasuredAsDeclared
<1>1. ConditionsInv => MeasuredAsDeclared
  BY DEF ConditionsInv, AsDeclared, MeasuredAsDeclared
<1> QED
  BY <1>1, ConditionsInit, ConditionsStep, PTL DEF Spec

-----------------------------------------------------------------------------
(* The score *)

\* What the statistics are made of: readings of this machine, of finitely many runs
ReadingsInv ==
  /\ sensor \in Sensors
  /\ IsSeq(results) /\ IsSeq(runs)
  /\ phase = "start" => results = <<>>
  /\ \A j \in Measured(runs) : runs[j].outcome.reading \in sensor
  /\ IsFiniteSet(MeasuredRuns)
  /\ \A run \in MeasuredRuns : ReadingOf(run) \in sensor
  /\ score.disqualified => phase = "done" /\ Disqualified

\* No result, no reading.
LEMMA NoMeasuredRuns ==
  ASSUME DOMAIN results = {}
  PROVE  MeasuredRuns = {}
BY DEF MeasuredRuns

\* Who is answered in the campaign is answered with a reading of this machine.
LEMMA AnswersAreRead ==
  ASSUME NEW rt, NEW q, NEW result \in Asks(q, rt, Answers), result[1].kind = "answer"
  PROVE  result[1].reading \in sensor
<1>1. Refusal.kind # "answer" /\ Crash.kind # "answer"
  BY DEF Refusal, Crash
<1>2. result[1] = Refusal \/ result[1] = Crash \/ result[1] \in Answers
  <2> DEFINE stuck == [rt EXCEPT !.usable = FALSE]
             warm == [rt EXCEPT !.loaded = TRUE]
             crashed(u) == [warm EXCEPT !.usable = u]
  <2>1. \/ result = <<Refusal, rt>> \/ result = <<Refusal, stuck>> \/ result = <<Crash, stuck>>
        \/ \E u \in BOOLEAN : result = <<Crash, crashed(u)>>
        \/ \E a \in Answers : result = <<a, warm>>
    BY DEF Asks
  <2> HIDE DEF stuck, warm, crashed
  <2> QED
    BY <2>1
<1>3. \A a \in Answers : a.reading \in sensor
  BY DEF Answers
<1> QED
  BY <1>1, <1>2, <1>3

\* One request more is one reading of this machine more, or none.
LEMMA RunOnceReadings ==
  ASSUME IsSeq(runs), \A j \in Measured(runs) : runs[j].outcome.reading \in sensor, RunOnce
  PROVE  IsSeq(runs') /\ \A j \in Measured(runs') : runs'[j].outcome.reading \in sensor
<1> DEFINE slot == Slot(Scenario, Len(runs) + 1)
<1>1. PICK result \in Asks(slot.question, runtime, Answers) :
        runs' = Append(runs,
          [outcome |-> result[1], warmup |-> slot.warmup,
           ok |-> result[1].kind = "answer",
           loads |-> ~runtime.loaded /\ result[2].loaded,
           searched |-> Searched(runtime.selection)])
  BY DEF RunOnce
<1> DEFINE r == [outcome |-> result[1], warmup |-> slot.warmup,
                 ok |-> result[1].kind = "answer",
                 loads |-> ~runtime.loaded /\ result[2].loaded,
                 searched |-> Searched(runtime.selection)]
<1>2. /\ IsSeq(runs') /\ Len(runs) \in Nat
      /\ DOMAIN runs = 1..Len(runs) /\ DOMAIN runs' = 1..(Len(runs) + 1)
      /\ \A j \in 1..Len(runs) : runs'[j] = runs[j]
      /\ runs'[Len(runs) + 1] = r
  <2>1. runs' = Append(runs, r)
    BY <1>1
  <2> HIDE DEF r
  <2> QED
    BY <2>1, Appending
<1>3. r.ok => r.outcome.reading \in sensor
  <2> HIDE DEF slot
  <2> QED
    BY <1>1, AnswersAreRead
<1> SUFFICES ASSUME NEW j \in Measured(runs')
             PROVE  runs'[j].outcome.reading \in sensor
  BY <1>2
<1>4. j \in DOMAIN runs' /\ IsMeasured(runs'[j])
  BY DEF Measured
<1> HIDE DEF r, slot
<1>5. CASE j = Len(runs) + 1
  BY <1>2, <1>3, <1>4, <1>5 DEF IsMeasured
<1>6. CASE j \in 1..Len(runs)
  BY <1>2, <1>4, <1>6 DEF Measured
<1> QED
  BY <1>2, <1>4, <1>5, <1>6

\* One result more adds its measured runs and changes no reading.
LEMMA ResultAddsReadings ==
  ASSUME IsSeq(results), IsSeq(runs), IsFiniteSet(MeasuredRuns),
         NEW new, new.runs = runs, results' = Append(results, new)
  PROVE  /\ MeasuredRuns' = MeasuredRuns \cup ({Len(results) + 1} \X Measured(runs))
         /\ IsFiniteSet(MeasuredRuns')
         /\ \A run \in MeasuredRuns : ReadingOf(run)' = ReadingOf(run)
         /\ \A run \in {Len(results) + 1} \X Measured(runs) :
              ReadingOf(run)' = runs[run[2]].outcome.reading
<1> DEFINE n == Len(results) + 1
           added == {n} \X Measured(runs)
<1>1. /\ Len(results) \in Nat
      /\ DOMAIN results = 1..Len(results) /\ DOMAIN results' = 1..(Len(results) + 1)
      /\ \A i \in 1..Len(results) : results'[i] = results[i]
      /\ results'[n] = new
  BY Appending
<1>2. MeasuredRuns' = MeasuredRuns \cup added
  <2>1. \A i \in DOMAIN results : Measured(results'[i].runs) = Measured(results[i].runs)
    BY <1>1 DEF Measured, IsMeasured
  <2>2. Measured(results'[n].runs) = Measured(runs)
    BY <1>1 DEF Measured, IsMeasured
  <2>3. DOMAIN results' = DOMAIN results \cup {n}
    BY <1>1
  <2> HIDE DEF n
  <2> QED
    BY <2>1, <2>2, <2>3 DEF MeasuredRuns
<1>3. IsFiniteSet(added)
  <2>1. IsFiniteSet(Measured(runs))
    <3>1. Len(runs) \in Nat /\ DOMAIN runs = 1..Len(runs)
      BY Appending
    <3>2. IsFiniteSet(1..Len(runs)) /\ Measured(runs) \in SUBSET (1..Len(runs))
      BY <3>1, FS_Interval DEF Measured
    <3> QED
      BY <3>2, FS_Subset
  <2>2. [p \in added |-> p[2]] \in Injection(added, Measured(runs))
    <3> HIDE DEF n
    <3> QED
      BY DEF Injection, IsInjective
  <2> QED
    BY <2>1, <2>2, FS_Injection
<1>4. IsFiniteSet(MeasuredRuns \cup added)
  BY <1>3, FS_Union
<1>5. ASSUME NEW run \in MeasuredRuns PROVE ReadingOf(run)' = ReadingOf(run)
  <2>1. run[1] \in DOMAIN results
    BY DEF MeasuredRuns
  <2> QED
    BY <1>1, <2>1 DEF ReadingOf
<1>6. ASSUME NEW run \in added PROVE ReadingOf(run)' = runs[run[2]].outcome.reading
  <2>1. run[1] = n
    OBVIOUS
  <2> QED
    BY <1>1, <2>1 DEF ReadingOf
<1> QED
  BY <1>2, <1>4, <1>5, <1>6

\* At the start there is no reading.
LEMMA ReadingsInit == Init => ReadingsInv
<1> SUFFICES ASSUME Init PROVE ReadingsInv
  OBVIOUS
<1>1. /\ results = <<>> /\ runs = <<>> /\ phase = "start" /\ sensor \in Sensors
      /\ ~score.disqualified
  BY DEF Init
<1>2. DOMAIN results = {} /\ IsSeq(results) /\ IsSeq(runs) /\ Measured(runs) = {}
  BY <1>1, EmptyIsSeq DEF Measured
<1>3. MeasuredRuns = {} /\ IsFiniteSet(MeasuredRuns)
  BY <1>2, NoMeasuredRuns, FS_EmptySet
<1> QED
  BY <1>1, <1>2, <1>3 DEF ReadingsInv

\* What a step has to leave alone for the readings to stay what they are
LEMMA ReadingsStay ==
  ASSUME ReadingsInv, results' = results, sensor' = sensor
  PROVE  /\ MeasuredRuns' = MeasuredRuns
         /\ \A run : ReadingOf(run)' = ReadingOf(run)
         /\ Disqualified' = Disqualified
BY DEF MeasuredRuns, ReadingOf, Measured, IsMeasured, Disqualified, CrashedScenarios,
       MeanKnown, MeanBelow, MeanAbove, Total

\* Every step of the commands keeps the readings and what was concluded from them.
LEMMA ReadingsStep == ReadingsInv /\ [Next]_vars => ReadingsInv'
<1> SUFFICES ASSUME ReadingsInv, [Next]_vars PROVE ReadingsInv'
  OBVIOUS
<1>1. /\ sensor \in Sensors /\ IsSeq(results) /\ IsSeq(runs)
      /\ phase = "start" => results = <<>>
      /\ \A j \in Measured(runs) : runs[j].outcome.reading \in sensor
      /\ IsFiniteSet(MeasuredRuns)
      /\ \A run \in MeasuredRuns : ReadingOf(run) \in sensor
      /\ score.disqualified => phase = "done" /\ Disqualified
  BY DEF ReadingsInv
<1>2. CASE JudgeScenario
  <2> DEFINE new == [scenario |-> Scenario, runs |-> runs, verdict |-> Judge(Scenario, runs)]
  <2>1. /\ phase # "done" /\ phase' = "scenario" /\ runs' = <<>>
        /\ results' = Append(results, new) /\ sensor' = sensor /\ score' = score
    BY <1>2 DEF JudgeScenario
  <2>2. new.runs = runs
    OBVIOUS
  <2> HIDE DEF new
  <2>3. /\ MeasuredRuns' = MeasuredRuns \cup ({Len(results) + 1} \X Measured(runs))
        /\ IsFiniteSet(MeasuredRuns')
        /\ \A run \in MeasuredRuns : ReadingOf(run)' = ReadingOf(run)
        /\ \A run \in {Len(results) + 1} \X Measured(runs) :
             ReadingOf(run)' = runs[run[2]].outcome.reading
    BY <1>1, <2>1, <2>2, ResultAddsReadings
  <2>4. ASSUME NEW run \in MeasuredRuns' PROVE ReadingOf(run)' \in sensor
    <3>1. CASE run \in MeasuredRuns
      BY <1>1, <2>3, <3>1
    <3>2. CASE run \in {Len(results) + 1} \X Measured(runs)
      <4>1. run[2] \in Measured(runs)
        BY <3>2
      <4> QED
        BY <1>1, <2>3, <3>2, <4>1
    <3> QED
      BY <2>3, <3>1, <3>2
  <2>5. IsSeq(results')
    BY <1>1, <2>1, Appending
  <2>6. IsSeq(runs') /\ Measured(runs') = {}
    <3>1. DOMAIN runs' = {}
      BY <2>1
    <3> QED
      BY <2>1, <3>1, EmptyIsSeq DEF Measured
  <2> QED
    BY <1>1, <2>1, <2>3, <2>4, <2>5, <2>6 DEF ReadingsInv
<1>3. ASSUME NEW c \in Campaigns, Bench(c) PROVE ReadingsInv'
  <2>1. /\ results' = results /\ runs' = runs /\ sensor' = sensor /\ score' = score
        /\ results = <<>> /\ phase # "done"
    BY <1>1, <1>3 DEF Bench
  <2> QED
    BY <1>1, <2>1, ReadingsStay DEF ReadingsInv
<1>4. CASE RunOnce
  <2>1. /\ results' = results /\ sensor' = sensor /\ score' = score
        /\ phase # "done" /\ phase' # "start"
    BY <1>4 DEF RunOnce
  <2>2. IsSeq(runs') /\ \A j \in Measured(runs') : runs'[j].outcome.reading \in sensor
    BY <1>1, <1>4, RunOnceReadings
  <2> QED
    BY <1>1, <2>1, <2>2, ReadingsStay DEF ReadingsInv
<1>5. CASE StartScenario
  <2>1. /\ results' = results /\ sensor' = sensor /\ score' = score /\ runs' = <<>>
        /\ phase # "done" /\ phase' # "start"
    BY <1>5 DEF StartScenario
  <2>2. IsSeq(runs') /\ Measured(runs') = {}
    <3>1. DOMAIN runs' = {}
      BY <2>1
    <3> QED
      BY <2>1, <3>1, EmptyIsSeq DEF Measured
  <2> QED
    BY <1>1, <2>1, <2>2, ReadingsStay DEF ReadingsInv
<1>6. CASE ScoreCampaign
  <2>1. /\ results' = results /\ sensor' = sensor /\ runs' = runs
        /\ phase' = "done" /\ score'.disqualified = Disqualified
    BY <1>6 DEF ScoreCampaign
  <2> QED
    BY <1>1, <2>1, ReadingsStay DEF ReadingsInv
\* A step that touches no result, run or score
<1>7. ASSUME results' = results, runs' = runs, sensor' = sensor, score' = score,
             phase' = "start" => phase = "start", phase = "done" => phase' = "done"
      PROVE  ReadingsInv'
  BY <1>1, <1>7, ReadingsStay DEF ReadingsInv
<1>8. ASSUME NEW p \in Evaluations, Accuracy(p) PROVE ReadingsInv'
  BY <1>7, <1>8 DEF Accuracy
<1>9. CASE EndCampaign
  BY <1>7, <1>9 DEF EndCampaign
<1>10. CASE ProbeOnce
  BY <1>7, <1>10 DEF ProbeOnce
<1>11. CASE EndAccuracy
  BY <1>7, <1>11 DEF EndAccuracy
<1>12. CASE UNCHANGED vars
  BY <1>7, <1>12 DEF vars
<1> QED
  BY <1>2, <1>3, <1>4, <1>5, <1>6, <1>8, <1>9, <1>10, <1>11, <1>12 DEF Next

\* How the sum of a metric lies to the readings it is made of: it is zero when all
\* are silent, at least the least and at most the greatest of them per run.
LEMMA TotalWithin ==
  ASSUME ReadingsInv, NEW m \in ReportedMetrics, NEW limit \in Nat
  PROVE  /\ Cardinality(MeasuredRuns) \in Nat /\ Total(m) \in Int
         /\ (\A run \in MeasuredRuns : ReadingOf(run)[m] = Silent) => Total(m) = Silent
         /\ (\A run \in MeasuredRuns : limit <= ReadingOf(run)[m])
              => limit * Cardinality(MeasuredRuns) <= Total(m)
         /\ (\A run \in MeasuredRuns : ReadingOf(run)[m] <= limit)
              => Total(m) <= limit * Cardinality(MeasuredRuns)
<1> DEFINE f == [run \in MeasuredRuns |-> ReadingOf(run)[m]]
<1>1. IsFiniteSet(MeasuredRuns) /\ f \in [MeasuredRuns -> Int]
  <2>1. \A run \in MeasuredRuns : ReadingOf(run)[m] \in Int
    BY SensorAssumption DEF ReadingsInv, ReportedMetrics
  <2> QED
    BY <2>1 DEF ReadingsInv
<1>2. Total(m) = SumFunction(f) /\ \A run \in MeasuredRuns : f[run] = ReadingOf(run)[m]
  BY Zenon DEF Total
<1> HIDE DEF f
<1>3. /\ Cardinality(MeasuredRuns) \in Nat /\ SumFunction(f) \in Int
      /\ (\A run \in MeasuredRuns : limit <= f[run])
           => limit * Cardinality(MeasuredRuns) <= SumFunction(f)
      /\ (\A run \in MeasuredRuns : f[run] <= limit)
           => SumFunction(f) <= limit * Cardinality(MeasuredRuns)
  BY <1>1, SumWithin
<1>4. /\ (\A run \in MeasuredRuns : 0 <= f[run])
           => 0 * Cardinality(MeasuredRuns) <= SumFunction(f)
      /\ (\A run \in MeasuredRuns : f[run] <= 0)
           => SumFunction(f) <= 0 * Cardinality(MeasuredRuns)
  BY <1>1, SumWithin
<1>5. 0 * Cardinality(MeasuredRuns) = 0
  BY <1>3
<1>6. (\A run \in MeasuredRuns : f[run] = 0) => SumFunction(f) = 0
  BY <1>3, <1>4, <1>5
<1> QED
  BY <1>2, <1>3, <1>6 DEF Silent

\* A sensor that reports nothing is never alone why a campaign is disqualified
\* (score_campaign: "an unmeasured value is never evidence of failure").
THEOREM SilenceAloneIsNoFailure == Spec => []SilenceAloneNeverDisqualifies
<1>1. ReadingsInv => SilenceAloneNeverDisqualifies
  <2> DEFINE free == "available_ram_mb"
             peak == "peak_rss_mb"
  <2> SUFFICES ASSUME ReadingsInv, Disqualified, CrashedScenarios = {},
                      \A run \in MeasuredRuns : ~(ReadingOf(run)[peak] > RamLimit)
               PROVE  /\ \E run \in MeasuredRuns : ReadingOf(run)[free] # Silent
                      /\ \E run \in MeasuredRuns : ReadingOf(run)[peak] # Silent
                      /\ \E run \in MeasuredRuns : ReadingOf(run)[free] < OomMargin
    BY DEF ReadingsInv, SilenceAloneNeverDisqualifies
  <2>1. /\ free \in ReportedMetrics /\ peak \in ReportedMetrics
        /\ OomMargin \in Nat /\ RamLimit \in Nat
        /\ \A run \in MeasuredRuns : ReadingOf(run)[free] \in Nat /\ ReadingOf(run)[peak] \in Nat
    BY SensorAssumption DEF ReportedMetrics, ReadingsInv
  <2>2. ~MeanAbove(peak, RamLimit)
    <3>1. \A run \in MeasuredRuns : ReadingOf(run)[peak] <= RamLimit
      BY <2>1
    <3>2. /\ Cardinality(MeasuredRuns) \in Nat /\ Total(peak) \in Int
          /\ Total(peak) <= RamLimit * Cardinality(MeasuredRuns)
      BY <2>1, <3>1, TotalWithin
    <3>3. RamLimit * Cardinality(MeasuredRuns) \in Int
      BY <2>1, <3>2
    <3> QED
      BY <3>2, <3>3 DEF MeanAbove
  <2>3. MeanKnown(free) /\ MeanKnown(peak) /\ MeanBelow(free, OomMargin)
    BY <2>2 DEF Disqualified
  <2>4. /\ \E run \in MeasuredRuns : ReadingOf(run)[free] # Silent
        /\ \E run \in MeasuredRuns : ReadingOf(run)[peak] # Silent
    BY <2>1, <2>3, TotalWithin DEF MeanKnown
  <2>5. ASSUME \A run \in MeasuredRuns : ~(ReadingOf(run)[free] < OomMargin) PROVE FALSE
    <3>1. \A run \in MeasuredRuns : OomMargin <= ReadingOf(run)[free]
      BY <2>1, <2>5
    <3>2. /\ Cardinality(MeasuredRuns) \in Nat /\ Total(free) \in Int
          /\ OomMargin * Cardinality(MeasuredRuns) <= Total(free)
      BY <2>1, <3>1, TotalWithin
    <3>3. OomMargin * Cardinality(MeasuredRuns) \in Int
      BY <2>1, <3>2
    <3>4. Total(free) < OomMargin * Cardinality(MeasuredRuns)
      BY <2>3, <2>4 DEF MeanBelow
    <3> QED
      BY <3>2, <3>3, <3>4
  <2> QED
    BY <2>4, <2>5
<1> QED
  BY <1>1, ReadingsInit, ReadingsStep, PTL DEF Spec
=============================================================================
