----------------------------- MODULE Benchmarks -----------------------------
(***************************************************************************)
(* How LeanLM measures itself: `leanlm bench` runs the scenarios of a      *)
(* campaign against one runtime (benchmarks/harness.py), `leanlm accuracy` *)
(* puts the probes of the ground-truth file to another one                 *)
(* (benchmarks/accuracy.py), and `leanlm score` judges the campaign        *)
(* (benchmarks/scoring.py).  The score's sum is left out, and with it the  *)
(* only place where the two measurements meet: what is kept is whether the *)
(* campaign is disqualified and whether heat is deducted.                  *)
(*                                                                         *)
(* The runtime below is the one of LeanLMRuntime seen from outside: an     *)
(* exception nobody expected may leave its state machine in flight, and    *)
(* every later call is then refused with RTS-001.  A metric is a small     *)
(* number; a sensor that reports nothing reports Silent.                   *)
(***************************************************************************)
EXTENDS Integers, Sequences, FiniteSets, FiniteSetsExt, Functions

CONSTANTS
  Campaigns,     \* what may be measured: [scenarios, repeat, warmup]
  Evaluations,   \* the evaluation files: sequences of [unanswerable, sourced]
  CorpusSize,    \* documents in the corpus, in the order documents() lists them
  Sensors,       \* the machines: the set of readings a run may take on each
  OomMargin, RamLimit, ThermalLimit    \* ScoringPolicy

Silent == 0
Nothing == "nothing"

\* The harness takes max(1, repeat) and max(0, warmup), and max(1, repeat_question)
ASSUME CampaignAssumption ==
  /\ CorpusSize \in Nat
  /\ \A c \in Campaigns :
       /\ c.repeat \in Nat \ {0} /\ c.warmup \in Nat
       /\ Len(c.scenarios) \in Nat
       /\ \A i \in 1..Len(c.scenarios) :
            LET sc == c.scenarios[i]
            IN  /\ Len(sc.questions) \in Nat
                /\ sc.repeat \in Nat \ {0} /\ sc.documents \in Nat /\ sc.cold \in BOOLEAN

\* Each sample falls back on its own, so one run may be silent and the next not
ASSUME SensorAssumption ==
  /\ OomMargin \in Nat /\ RamLimit \in Nat
  /\ \A readings \in Sensors : \A r \in readings :
       r.available_ram_mb \in Nat /\ r.peak_rss_mb \in Nat

VARIABLES
  phase,      \* where the command under way stands
  campaign,   \* the campaign of `leanlm bench`
  sensor,     \* the readings this machine may give
  runtime,    \* [loaded, usable, selection] of the runtime in use
  runs,       \* RunRecords of the scenario under way
  results,    \* ScenarioResults so far, one per scenario begun with
  probes,     \* the evaluation file
  probed,     \* ProbeResults so far
  score       \* what `leanlm score` made of the files

vars == <<phase, campaign, sensor, runtime, runs, results, probes, probed, score>>

-----------------------------------------------------------------------------
(* The plan of a scenario *)

\* The inner loop; a cold start cannot be repeated in one process and stops at once
Indices(sc) == IF sc.cold THEN 1 ELSE campaign.warmup + campaign.repeat

Questions(sc) == IF sc.questions = <<>> THEN <<Nothing>> ELSE sc.questions

\* How many requests a scenario makes: the three loops are one counter
Planned(sc) == Len(Questions(sc)) * sc.repeat * Indices(sc)

\* The k-th of them
QuestionOf(sc, k) == Questions(sc)[((k - 1) \div Indices(sc)) \div sc.repeat + 1]
IsWarmup(sc, k) == (k - 1) % Indices(sc) < campaign.warmup /\ ~sc.cold

Slot(sc, k) == [question |-> QuestionOf(sc, k), warmup |-> IsWarmup(sc, k)]

Scenario == campaign.scenarios[Len(results) + 1]

\* Mutant: a scenario over the whole corpus leaves the selection as it was
SelectOnlyWhenAsked(sc, old) ==
  IF sc.documents > 0 THEN 1..Min({sc.documents, CorpusSize}) ELSE old

\* _prepare_corpus and use_documents; {} stands for None, the whole corpus
Select(sc, old) ==
  IF sc.documents > 0 THEN 1..Min({sc.documents, CorpusSize}) ELSE {}

\* The documents a request searches
Searched(selection) == IF selection = {} THEN 1..CorpusSize ELSE selection

NoCampaign == [scenarios |-> <<>>, repeat |-> 1, warmup |-> 0]

Fresh == [loaded |-> FALSE, usable |-> TRUE, selection |-> {}]

-----------------------------------------------------------------------------
(* One request, as the harness and the evaluator see it *)

Refusal == [kind |-> "refused"]       \* a LeanLMError left ask()
Crash == [kind |-> "crash"]           \* any other exception left ask()

\* What ask(q) may do in the state rt, and the state it leaves.  A crash in one of
\* the stages that move no state machine leaves the runtime usable
Asks(q, rt, answers) ==
  IF q = Nothing THEN {<<Refusal, rt>>}                          \* RT-001
  ELSE IF ~rt.usable THEN {<<Refusal, rt>>}                      \* RTS-001
  ELSE LET stuck == [rt EXCEPT !.usable = FALSE]
           warm == [rt EXCEPT !.loaded = TRUE]
           loading == IF rt.loaded THEN {}
                      ELSE {<<Refusal, stuck>>, <<Crash, stuck>>}
       IN  loading \cup {<<Crash, [warm EXCEPT !.usable = u]>> : u \in BOOLEAN}
                   \cup {<<a, warm>> : a \in answers}

\* What a request of the campaign may come back with: the IEC carries errors or
\* not; honest says that confidence is insufficient or there is no evidence
Answers ==
  [kind : {"errors"}, reading : sensor, honest : {TRUE}]
    \cup [kind : {"answer"}, reading : sensor, honest : BOOLEAN]

-----------------------------------------------------------------------------
(* leanlm bench *)

Init ==
  /\ phase = "start"
  /\ campaign = NoCampaign
  /\ sensor \in Sensors
  /\ runtime = Fresh
  /\ runs = <<>> /\ results = <<>>
  /\ probes = <<>> /\ probed = <<>>
  /\ score = [disqualified |-> FALSE, penalised |-> FALSE]

\* cmd_bench loads the model first, so that no scenario pays for it unasked; when
\* that fails the command ends and writes nothing
Bench(c) ==
  /\ phase = "start"
  /\ campaign' = c
  /\ \/ /\ phase' = "scenario"
        /\ runtime' = [runtime EXCEPT !.loaded = TRUE]
     \/ /\ phase' = "done"
        /\ runtime' = [runtime EXCEPT !.usable = FALSE]
  /\ UNCHANGED <<sensor, runs, results, probes, probed, score>>

\* run_scenario: the corpus is restricted, the model unloaded for a cold start
StartScenario ==
  /\ phase = "scenario"
  /\ Len(results) < Len(campaign.scenarios)
  /\ phase' = "asking"
  /\ runs' = <<>>
  /\ runtime' = [runtime EXCEPT !.selection = Select(Scenario, @),
                                !.loaded = @ /\ ~Scenario.cold]
  /\ UNCHANGED <<campaign, sensor, results, probes, probed, score>>

\* _single_run: the next request of the plan, and its record
RunOnce ==
  /\ phase = "asking"
  /\ Len(runs) < Planned(Scenario)
  /\ LET slot == Slot(Scenario, Len(runs) + 1)
     IN  \E result \in Asks(slot.question, runtime, Answers) :
           /\ runtime' = result[2]
           /\ runs' = Append(runs,
                [outcome |-> result[1], warmup |-> slot.warmup,
                 ok |-> result[1].kind = "answer",
                 loads |-> ~runtime.loaded /\ result[2].loaded,
                 searched |-> Searched(runtime.selection)])
  /\ UNCHANGED <<phase, campaign, sensor, results, probes, probed, score>>

IsMeasured(r) == ~r.warmup /\ r.ok

\* The runs of rs the statistics are made of
Measured(rs) == {i \in DOMAIN rs : IsMeasured(rs[i])}

\* An answer to a question the corpus cannot support, in one measured run or more
Invented(sc, rs) ==
  sc.insufficient /\ \E i \in Measured(rs) : ~rs[i].outcome.honest

\* Mutant: failed runs are dropped together with the warm-ups
JudgeMeasured(sc, rs) ==
  IF Measured(rs) = {} THEN "inconclusive"
  ELSE IF Invented(sc, rs) THEN "fail" ELSE "pass"

\* _judge: a failed run fails the scenario, warm-up or not
Judge(sc, rs) ==
  IF \E i \in DOMAIN rs : ~rs[i].ok THEN "fail"
  ELSE IF Measured(rs) = {} THEN "inconclusive"
  ELSE IF Invented(sc, rs) THEN "fail" ELSE "pass"

JudgeScenario ==
  /\ phase = "asking"
  /\ Len(runs) = Planned(Scenario)
  /\ phase' = "scenario"
  /\ results' = Append(results, [scenario |-> Scenario, runs |-> runs,
                                 verdict |-> Judge(Scenario, runs)])
  /\ runs' = <<>>
  /\ UNCHANGED <<campaign, sensor, runtime, probes, probed, score>>

\* _summarize, when the last scenario is done
EndCampaign ==
  /\ phase = "scenario"
  /\ Len(results) = Len(campaign.scenarios)
  /\ phase' = "score"
  /\ UNCHANGED <<campaign, sensor, runtime, runs, results, probes, probed, score>>

CampaignVerdict ==
  IF \A i \in DOMAIN results : results[i].verdict = "pass" THEN "pass" ELSE "fail"

-----------------------------------------------------------------------------
(* leanlm accuracy *)

\* cmd_accuracy: nothing is loaded before the first probe
Accuracy(p) ==
  /\ phase = "start"
  /\ phase' = "accuracy"
  /\ probes' = p
  /\ UNCHANGED <<campaign, sensor, runtime, runs, results, probed, score>>

\* What a probe's request may come back with.  figures: what the answer holds of
\* the figures the probe asks for: all of them, not all, or a forbidden one too
ProbeAnswers ==
  [kind : {"answer"}, figures : {"right", "missing", "forbidden"},
   empty : BOOLEAN, truncated : BOOLEAN, insufficient : BOOLEAN, cited : BOOLEAN]

\* A result that counts for nothing
Unanswered(failure) ==
  [answered |-> FALSE, correct |-> FALSE, sourceWrong |-> FALSE,
   declined |-> FALSE, hallucinated |-> FALSE, failure |-> failure]

Answered(a) == ~a.empty /\ ~a.insufficient

\* The result for an answer that is whole and not empty
Weighed(probe, a) ==
  IF probe.unanswerable
  THEN [answered |-> Answered(a), correct |-> a.insufficient, sourceWrong |-> FALSE,
        declined |-> a.insufficient, hallucinated |-> Answered(a),
        failure |-> IF a.insufficient THEN "" ELSE "answered"]
  ELSE LET correct == a.figures = "right"
           wrong == probe.sourced /\ ~a.cited
       IN  [answered |-> Answered(a), correct |-> correct, sourceWrong |-> wrong,
            declined |-> a.insufficient, hallucinated |-> FALSE,
            failure |-> IF ~correct THEN "figures" ELSE IF wrong THEN "source" ELSE ""]

\* Mutant: a generation that was cut off is weighed like an answer
ResultOfDraft(probe, a) ==
  IF a.kind # "answer" THEN Unanswered("crash")
  ELSE IF a.empty THEN Unanswered("empty")
  ELSE Weighed(probe, a)

\* AccuracyEvaluator._run: a crash is a wrong answer, a cut-off generation has not
\* answered, an empty one neither answers nor refuses
ProbeResult(probe, a) ==
  IF a.kind # "answer" THEN Unanswered("crash")
  ELSE IF a.truncated THEN Unanswered("truncated")
  ELSE IF a.empty THEN Unanswered("empty")
  ELSE Weighed(probe, a)

ProbeOnce ==
  /\ phase = "accuracy"
  /\ Len(probed) < Len(probes)
  /\ \E result \in Asks("question", runtime, ProbeAnswers) :
       /\ runtime' = result[2]
       /\ probed' = Append(probed,
            [answer |-> result[1],
             result |-> ProbeResult(probes[Len(probed) + 1], result[1])])
  /\ UNCHANGED <<phase, campaign, sensor, runs, results, probes, score>>

EndAccuracy ==
  /\ phase = "accuracy"
  /\ Len(probed) = Len(probes)
  /\ phase' = "done"
  /\ UNCHANGED <<campaign, sensor, runtime, runs, results, probes, probed, score>>

\* Probes that add to overall_accuracy: the right answers and the right refusals
Counted ==
  {i \in DOMAIN probed : IF probes[i].unanswerable THEN probed[i].result.declined
                         ELSE probed[i].result.correct}

\* The failures the report lists: _passed wants the right source too
Failures ==
  {i \in DOMAIN probed : \/ i \notin Counted
                         \/ ~probes[i].unanswerable /\ probed[i].result.sourceWrong}

-----------------------------------------------------------------------------
(* leanlm score *)

\* The runs behind the summary's overall metrics: the j-th of the i-th scenario
MeasuredRuns == UNION {{i} \X Measured(results[i].runs) : i \in DOMAIN results}
ReadingOf(run) == results[run[1]].runs[run[2]].outcome.reading

\* REPORTED_METRICS, as far as the score reads them
ReportedMetrics == {"available_ram_mb", "peak_rss_mb"}

\* The sum of a metric over the measured runs; its mean is this over their number
Total(metric) == SumFunction([run \in MeasuredRuns |-> ReadingOf(run)[metric]])

\* _mean(metrics, m) compared with a limit: the summary holds only what is
\* reported, and an aggregate over no run has mean 0.0
MeanBelow(m, limit) ==
  m \in ReportedMetrics
    /\ IF MeasuredRuns = {} THEN 0 < limit ELSE Total(m) < limit * Cardinality(MeasuredRuns)
MeanAbove(m, limit) ==
  m \in ReportedMetrics /\ MeasuredRuns # {} /\ Total(m) > limit * Cardinality(MeasuredRuns)
MeanKnown(m) == m \in ReportedMetrics /\ Total(m) # Silent

CrashedScenarios ==
  {i \in DOMAIN results :
     /\ results[i].verdict = "fail"
     /\ \E j \in DOMAIN results[i].runs : results[i].runs[j].outcome = Crash}

\* Mutant: a sensor that reports nothing reports zero free memory
DisqualifiedBySilence ==
  \/ CrashedScenarios # {}
  \/ MeanBelow("available_ram_mb", OomMargin)
  \/ MeanAbove("peak_rss_mb", RamLimit)

\* The reasons that end the run: a crash, memory below the margin when memory was
\* measured at all, a peak above the limit
Disqualified ==
  \/ CrashedScenarios # {}
  \/ /\ MeanKnown("available_ram_mb") /\ MeanKnown("peak_rss_mb")
     /\ MeanBelow("available_ram_mb", OomMargin)
  \/ MeanAbove("peak_rss_mb", RamLimit)

\* The thermal deduction; the harness never sets thermal_throttling
Penalised == MeanAbove("temperature_c", ThermalLimit)

ScoreCampaign ==
  /\ phase = "score"
  /\ phase' = "done"
  /\ score' = [disqualified |-> Disqualified, penalised |-> ~Disqualified /\ Penalised]
  /\ UNCHANGED <<campaign, sensor, runtime, runs, results, probes, probed>>

-----------------------------------------------------------------------------
Next ==
  \/ \E c \in Campaigns : Bench(c)
  \/ \E p \in Evaluations : Accuracy(p)
  \/ StartScenario \/ RunOnce \/ JudgeScenario \/ EndCampaign
  \/ ProbeOnce \/ EndAccuracy \/ ScoreCampaign

Spec == Init /\ [][Next]_vars

-----------------------------------------------------------------------------
(* Properties *)

\* "A scenario that fails is recorded as a failed scenario, never dropped": when
\* the campaign passes, every request that every scenario planned was made, none of
\* them failed, warm-ups included, and no question outside the corpus was answered.
\* In harness.py nothing records how many runs a scenario should have had.
FailuresAreReported ==
  Len(results) = Len(campaign.scenarios) /\ CampaignVerdict = "pass" =>
    \A i \in DOMAIN results :
      LET sc == results[i].scenario
          rs == results[i].runs
      IN  /\ sc = campaign.scenarios[i] /\ Len(rs) = Planned(sc)
          /\ \A j \in DOMAIN rs : rs[j].outcome.kind = "answer"
          /\ sc.insufficient => \A j \in DOMAIN rs : rs[j].warmup \/ rs[j].outcome.honest

\* Statistics are about the conditions the scenario declares, whatever ran before
\* it in the same runtime: its own documents, and the price of loading the model
\* in the first run of a cold start and (when there are warm-ups) nowhere else.
\* The selection and the loaded model are state scenarios hand to each other.
MeasuredAsDeclared ==
  \A i \in DOMAIN results :
    LET sc == results[i].scenario
        rs == results[i].runs
    IN  \A j \in DOMAIN rs :
          IsMeasured(rs[j]) =>
            /\ rs[j].searched =
                 IF sc.documents = 0 THEN 1..CorpusSize
                 ELSE {d \in 1..CorpusSize : d <= sc.documents}
            /\ sc.cold /\ j = 1 => rs[j].loads
            /\ rs[j].loads => sc.cold \/ campaign.warmup = 0

\* Every probe is a success or a listed failure; one whose generation crashed, was
\* cut off or was empty never adds to the accuracy, whatever figures it shows, and
\* an invented answer never does either.  The four verdicts of a result are set on
\* five different paths of AccuracyEvaluator._run and combined in evaluate().
OnlyAnswersCount ==
  \A i \in DOMAIN probed :
    LET a == probed[i].answer
        r == probed[i].result
    IN  /\ i \in Counted \cup Failures
        /\ i \in Counted => a.kind = "answer" /\ ~a.truncated /\ ~a.empty
        /\ r.hallucinated => i \in Failures \ Counted

\* "An unmeasured value is never evidence of failure" (scoring.py): a campaign is
\* disqualified for a crash, for a run whose peak was measured above the limit, or
\* for memory that was measured, free and used, in some run, and free memory was
\* reported below the margin in one.  The report of that one may be the 0 of a
\* silent sensor: the mean over the runs includes it, and no more can be said.
SilenceAloneNeverDisqualifies ==
  score.disqualified =>
    \/ CrashedScenarios # {}
    \/ \E run \in MeasuredRuns : ReadingOf(run).peak_rss_mb > RamLimit
    \/ /\ \E run \in MeasuredRuns : ReadingOf(run).available_ram_mb # Silent
       /\ \E run \in MeasuredRuns : ReadingOf(run).peak_rss_mb # Silent
       /\ \E run \in MeasuredRuns : ReadingOf(run).available_ram_mb < OomMargin

\* The rubric's rule as scoring.py states it: "P_thermal = 10 points deduction,
\* applied if the CPU throttles or core temp exceeds 85 C".  Here for a campaign
\* whose every measured run was hotter than that.
HeatIsPenalised ==
  /\ phase = "done"
  /\ MeasuredRuns # {}
  /\ \A run \in MeasuredRuns : ReadingOf(run).temperature_c > ThermalLimit
  => score.penalised \/ score.disqualified
=============================================================================
