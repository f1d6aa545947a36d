---------------------------- MODULE MCBenchmarks ----------------------------
(***************************************************************************)
(* Small campaigns for TLC: a scenario over one document, one over the     *)
(* whole corpus, a cold start, a question outside the corpus and a         *)
(* scenario without questions, one or two of them in a row.                *)
(***************************************************************************)
EXTENDS Benchmarks

Plain(questions, documents) ==
  [questions |-> questions, documents |-> documents, repeat |-> 1,
   cold |-> FALSE, insufficient |-> FALSE]

OneDocument == Plain(<<"q1">>, 1)
WholeCorpus == Plain(<<"q1">>, 0)
Repeated == [Plain(<<"q1">>, 0) EXCEPT !.repeat = 2]
ColdStart == [Plain(<<"q1", "q2">>, 0) EXCEPT !.cold = TRUE]
Unanswerable == [Plain(<<"q1">>, 0) EXCEPT !.insufficient = TRUE]
NoQuestion == [Plain(<<>>, 0) EXCEPT !.cold = TRUE]

Campaign(scenarios, repeat, warmup) ==
  [scenarios |-> scenarios, repeat |-> repeat, warmup |-> warmup]

MCCampaigns ==
  {Campaign(<<OneDocument, WholeCorpus>>, 1, 1),
   Campaign(<<OneDocument, ColdStart>>, 1, 1),
   Campaign(<<ColdStart, Unanswerable>>, 1, 1),
   Campaign(<<NoQuestion, OneDocument>>, 1, 1),
   Campaign(<<NoQuestion, OneDocument>>, 2, 0),
   Campaign(<<Repeated>>, 1, 1)}

MCEvaluations ==
  {<<[unanswerable |-> u, sourced |-> s], [unanswerable |-> ~u, sourced |-> ~s]>> :
     u, s \in BOOLEAN}

\* Two readings of each machine, in hundreds of megabytes and tens of degrees
Reading(ram, rss, temperature) ==
  [available_ram_mb |-> ram, peak_rss_mb |-> rss, temperature_c |-> temperature]

MCSensors ==
  {{Reading(0, 0, 0)},                        \* no sampler on this platform
   {Reading(0, 3, 6)},                        \* free memory is not reported
   {Reading(1, 5, 6), Reading(5, 3, 6)},      \* memory runs low now and then
   {Reading(0, 3, 6), Reading(4, 3, 6)},      \* a sampler that fails now and then
   {Reading(1, 0, 6), Reading(0, 3, 6)},      \* and never reports both
   {Reading(4, 8, 6), Reading(4, 6, 6)}}      \* a peak above the limit

HotMachine == {{Reading(4, 3, 9)}}
SmallCampaign == {Campaign(<<WholeCorpus>>, 1, 1)}
=============================================================================
