------------------------ MODULE RuntimeContractProofs ------------------------
(***************************************************************************)
(* Every behaviour of LeanLMRuntime implements the lifecycle contract of   *)
(* InferenceContract, and no step rewrites what the context of a request   *)
(* already holds.  As in LeanLMRuntimeProofs, for every set of sessions,   *)
(* bound, choice of stop stages and combination of faults.                 *)
(*                                                                         *)
(* Then what the calls of a runtime leave behind: a load that failed, the  *)
(* rules that the Deterministic Inference Contract reports, the current    *)
(* session, and the state the machine rests in.  The last two hold where   *)
(* the environment does not fail in the way their theorems name.           *)
(***************************************************************************)
EXTENDS LeanLMRuntimeProofs

\* Who has no request has the context of none
NoRequestNoContext == iec.request = NoRequest => iec = NoContext

\* An exception leaves the pipeline before anything has failed
RaisesClean == pc = "raise" => iec.errors = 0

\* The pipeline has not passed the stage it was asked to stop after
StopAhead == pc \in {"stage", "handler"} /\ call.stop # NoStop => stage <= call.stop

\* A session that does not exist has handed out no request
UnbornUnused == \A s \in SessionIds : sessions[s].status = "unborn" => sessions[s].count = 0

\* The session a question goes to exists
Born ==
  /\ current # NoSession => sessions[current].status # "unborn"
  /\ pc \in {"loading", "session"} /\ call.given # NoSession =>
       sessions[call.given].status # "unborn"

ShownInv == NoRequestNoContext /\ RaisesClean /\ StopAhead /\ UnbornUnused /\ Born

\* A request identifier is not the absence of one.
LEMMA RequestsAreNotNone == \A r \in RequestIds : r # NoRequest
  BY RuntimeAssumption DEF RequestIds, NoRequest

\* NoContext is the context of no request, with nothing in it.
LEMMA NothingShown ==
  /\ NoContext.request = NoRequest /\ NoContext.stages = <<>>
  /\ NoContext.artifacts = {} /\ NoContext.warnings = {} /\ NoContext.trace = {}
  /\ NoContext.errors = 0
  BY DEF NoContext, NewContext

-----------------------------------------------------------------------------
(* The invariant, one part at a time.                                      *)

\* A handler, successful or not, works on the context of the same request.
LEMMA SameRequest ==
  ASSUME TypeInv, HandlerSucceeds \/ HandlerRefuses \/ LeavePipeline \/ ReturnAnswer
  PROVE  iec'.request = iec.request
<1>1. iec \in Context
  BY DEF TypeInv, TypeOK, RequestType
<1>2. HandlerSucceeds => iec'.request = iec.request
  BY <1>1 DEF HandlerSucceeds, WithStage, Enriched, Context
<1>3. HandlerRefuses => iec'.request = iec.request
  BY <1>1 DEF HandlerRefuses, Finalizations, WithError, WithStage, Enriched, Context
<1> QED
  BY <1>1, <1>2, <1>3 DEF LeavePipeline, ReturnAnswer, Context

\* Beginning a request changes nothing but its counter in the table it is given.
LEMMA StartedCount ==
  ASSUME NEW s \in SessionIds, NEW table \in SessionTable, StartsRequest(s, table)
  PROVE  /\ \A t \in SessionIds : t # s => sessions'[t] = table[t]
         /\ sessions'[s].status = table[s].status
         /\ sessions'[s].count = table[s].count + 1
  BY DEF StartsRequest, SessionTable

\* A created session has not been used; the others are what they were.
LEMMA CreatedCount ==
  ASSUME TypeInv, NEW s \in SessionIds
  PROVE  /\ Created(s) \in SessionTable
         /\ Created(s)[s].count = 0 /\ Created(s)[s].status = "open"
         /\ \A t \in SessionIds : t # s => Created(s)[t] = sessions[t]
  BY RuntimeAssumption DEF TypeInv, TypeOK, StoreType, SessionTable, Created

\* No session is unmade: one that does not exist after a step is what it was before.
LEMMA SessionsStay ==
  ASSUME TypeInv, Born, [Next]_vars
  PROVE  \A t \in SessionIds : sessions'[t].status = "unborn" => sessions'[t] = sessions[t]
<1> USE DEF store, memory, local
<1>1. sessions \in SessionTable
  BY DEF TypeInv, TypeOK, StoreType
<1>2. CASE AskInSession
  <2>1. PICK s \in SessionIds : StartsRequest(s, sessions) /\ sessions[s].status # "unborn"
    BY <1>2 DEF AskInSession, TypeInv, TypeOK, ControlType, StoreType, Call, Born
  <2> QED
    BY <1>1, <2>1, StartedCount
<1>3. ASSUME NEW s \in SessionIds, AskInNewSession(s)
      PROVE  \A t \in SessionIds : sessions'[t].status = "unborn" => sessions'[t] = sessions[t]
  <2>1. StartsRequest(s, Created(s))
    BY <1>3 DEF AskInNewSession
  <2>2. /\ sessions'[s].status = "open"
        /\ \A t \in SessionIds : t # s => sessions'[t] = sessions[t]
    BY <2>1, CreatedCount, StartedCount
  <2> QED
    BY <2>2
<1>4. ASSUME NEW s \in SessionIds, AskCannotOpen(s) \/ OpenSession(s)
      PROVE  \A t \in SessionIds : sessions'[t].status = "unborn" => sessions'[t] = sessions[t]
  BY <1>4, CreatedCount DEF AskCannotOpen, OpenSession
<1>5. ASSUME NEW table \in SessionTable, NEW s \in SessionIds
      PROVE  /\ ClosedIn(table, s)[s].status = "closed"
             /\ \A t \in SessionIds : t # s => ClosedIn(table, s)[t] = table[t]
  BY DEF ClosedIn, SessionTable
<1>6. ASSUME NEW s \in SessionIds, CloseSession(s)
      PROVE  \A t \in SessionIds : sessions'[t].status = "unborn" => sessions'[t] = sessions[t]
  BY <1>1, <1>5, <1>6 DEF CloseSession
<1>7. CASE Close
  <2>1. \A t \in SessionIds : CurrentClosed[t] = sessions[t] \/ CurrentClosed[t].status = "closed"
    BY <1>1, <1>5 DEF CurrentClosed, TypeInv, TypeOK, StoreType
  <2>2. CurrentClosed \in SessionTable
    BY <1>1, ClosedInType DEF CurrentClosed, TypeInv, TypeOK, StoreType
  <2> QED
    BY <1>1, <1>7, <2>1, <2>2 DEF Close, SessionTable
<1>8. CASE Restart
  BY <1>1, <1>8 DEF Restart, SessionTable
<1>9. CASE sessions' = sessions
  BY <1>9
<1> QED
  BY <1>2, <1>3, <1>4, <1>6, <1>7, <1>8, <1>9
  DEF Next, Progress, Environment, LoadSucceeds, LoadFails, EnterStage, StageOutOfOrder,
      HandlerSucceeds, HandlerRefuses, HandlerRefusesUnheard, HandlerCrashes,
      PipelineCompletes, Unwind, LeavePipeline, RecordMetrics, RecordFails, ReturnAnswer,
      ReturnPrepared, ReturnImpossible, AskBlank, CallSkipsLoad, CallStartsLoad,
      CallRefused, Begins, CorpusChanges, ForceColdStart, vars, Raises, Returns

\* Sessions stay created, and one that is not has no request.
LEMMA SessionsNext ==
  ASSUME TypeInv, UnbornUnused, Born, [Next]_vars
  PROVE  UnbornUnused' /\ Born'
<1> USE DEF store, memory, local
<1>1. \A t \in SessionIds : sessions'[t].status = "unborn" => sessions'[t] = sessions[t]
  BY SessionsStay
<1>2. UnbornUnused'
  BY <1>1 DEF UnbornUnused
<1>3. /\ current' # NoSession => current' \in SessionIds /\ sessions'[current'].status # "unborn"
  <2>1. current \in SessionIds \cup {NoSession} /\ NoSession \notin SessionIds
    BY RuntimeAssumption DEF TypeInv, TypeOK, StoreType
  <2>2. CASE current' \in {current, NoSession}
    BY <1>1, <2>1, <2>2 DEF Born
  <2>3. ASSUME NEW s \in SessionIds, AskInNewSession(s)
        PROVE  current' = s /\ sessions'[s].status = "open"
    BY <2>3, CreatedCount, StartedCount DEF AskInNewSession
  <2>4. ASSUME NEW s \in SessionIds, OpenSession(s)
        PROVE  current' \in {current, s} /\ sessions'[s].status = "open"
    BY <2>4, CreatedCount DEF OpenSession
  <2>5. CASE \E s \in SessionIds : AskInNewSession(s) \/ OpenSession(s)
    BY <1>1, <2>1, <2>3, <2>4, <2>5 DEF Born
  <2>6. CASE \E s \in SessionIds : CloseSession(s)
    <3>1. current' \in {current, NoSession}
      BY <2>6 DEF CloseSession
    <3> QED
      BY <2>2, <3>1
  <2> QED
    BY <2>2, <2>5, <2>6
    DEF Next, Progress, Environment, LoadSucceeds, LoadFails, AskInSession, AskCannotOpen,
        EnterStage, StageOutOfOrder, HandlerSucceeds, HandlerRefuses, HandlerRefusesUnheard,
        HandlerCrashes, PipelineCompletes, Unwind, LeavePipeline, RecordMetrics, RecordFails,
        ReturnAnswer, ReturnPrepared, ReturnImpossible, AskBlank, CallSkipsLoad,
        CallStartsLoad, CallRefused, Begins, CorpusChanges, ForceColdStart, Close, Restart,
        vars
<1>4. pc' \in {"loading", "session"} /\ call'.given # NoSession =>
        sessions'[call'.given].status # "unborn"
  <2>1. call \in Call
    BY DEF TypeInv, TypeOK, ControlType
  <2>2. ASSUME NEW c \in Calls, CallSkipsLoad(c) \/ CallStartsLoad(c) \/ CallRefused(c)
        PROVE  /\ call' = c /\ sessions' = sessions
               /\ c.given # NoSession => sessions[c.given].status # "unborn"
    BY <2>2 DEF CallSkipsLoad, CallStartsLoad, CallRefused, Begins, Calls
  <2>3. CASE pc \in {"loading", "session"} /\ call' = call
    BY <1>1, <2>1, <2>3 DEF Born, Call
  <2>4. CASE pc' \notin {"loading", "session"}
    BY <2>4
  <2> QED
    BY <2>2, <2>3, <2>4
    DEF Next, Progress, Environment, LoadSucceeds, LoadFails, AskInSession, AskInNewSession,
        AskCannotOpen, StartsRequest, EnterStage, StageOutOfOrder, HandlerSucceeds,
        HandlerRefuses, HandlerRefusesUnheard, HandlerCrashes, PipelineCompletes, Unwind,
        LeavePipeline, RecordMetrics, RecordFails, ReturnAnswer, ReturnPrepared,
        ReturnImpossible, Raises, Returns, AskBlank, OpenSession, CloseSession, CorpusChanges,
        ForceColdStart, Close, Restart, vars
<1> QED
  BY <1>2, <1>3, <1>4 DEF Born

\* Every step keeps what the caller is shown in line with where the call stands.
LEMMA ShownNext == TypeInv /\ PipelineInv /\ ShownInv /\ [Next]_vars => ShownInv'
<1> SUFFICES ASSUME TypeInv, PipelineInv, ShownInv, [Next]_vars PROVE ShownInv'
  OBVIOUS
<1> USE DEF store, memory, local
<1>1. UnbornUnused' /\ Born'
  BY SessionsNext DEF ShownInv
<1>2. ASSUME iec' \in {iec, NoContext},
             pc' = "raise" => pc \in {"stage", "handler", "raise"} /\ iec' = iec,
             pc' \in {"stage", "handler"} =>
               pc \in {"stage", "handler"} /\ stage' = stage /\ call' = call
      PROVE  ShownInv'
  BY <1>1, <1>2, NothingShown
  DEF ShownInv, NoRequestNoContext, RaisesClean, StopAhead, PipelineInv, UnderWay
<1>3. ASSUME pc' \in {"exit", "record", "idle"}, iec'.request = iec.request,
             iec.request \in RequestIds
      PROVE  ShownInv'
  BY <1>1, <1>3, RequestsAreNotNone DEF ShownInv, NoRequestNoContext, RaisesClean, StopAhead
<1>4. ASSUME NEW s \in SessionIds, NEW table, StartsRequest(s, table), pc = "session"
      PROVE  ShownInv'
  <2>1. iec'.request # NoRequest
    BY <1>4, RuntimeAssumption DEF StartsRequest, NewContext, NoRequest
  <2>2. pc' = "stage" /\ stage' = 1 /\ call' = call /\ call.stop \in Stage \cup {NoStop}
    BY <1>4, StageRange, RuntimeAssumption
    DEF StartsRequest, PipelineInv, Fresh, TypeInv, TypeOK, ControlType, Call
  <2> QED
    BY <1>1, <2>1, <2>2, StageRange
    DEF ShownInv, NoRequestNoContext, RaisesClean, StopAhead, NoStop
<1>5. CASE AskInSession \/ \E s \in SessionIds : AskInNewSession(s)
  BY <1>4, <1>5
  DEF AskInSession, AskInNewSession, TypeInv, TypeOK, StoreType, ControlType, Call
<1>6. pc \in Working => iec.request \in RequestIds
  BY DEF TypeInv, Identified
<1>7. CASE HandlerSucceeds
  <2>1. iec'.request = iec.request /\ iec.request \in RequestIds /\ pc = "handler"
    BY <1>6, <1>7, SameRequest DEF HandlerSucceeds, Working
  <2>2. CASE stage = call.stop
    BY <1>3, <1>7, <2>1, <2>2 DEF HandlerSucceeds
  <2>3. CASE stage # call.stop
    <3>1. pc' = "stage" /\ stage' = stage + 1 /\ call' = call
      BY <1>7, <2>3 DEF HandlerSucceeds
    <3>2. stage \in 1..10
      BY <2>1, StageRange DEF TypeInv, AtStage
    <3>3. call.stop \in 0..10
      <4>1. call.stop \in StopStages \cup {NoStop}
        BY DEF TypeInv, TypeOK, ControlType, Call
      <4>2. call.stop \in Stage \/ call.stop = 0
        BY <4>1, RuntimeAssumption DEF NoStop
      <4> QED
        BY <4>2, StageRange
    <3>4. StopAhead'
      BY <2>1, <2>3, <3>1, <3>2, <3>3 DEF ShownInv, StopAhead, NoStop
    <3> QED
      BY <1>1, <2>1, <3>1, <3>4, RequestsAreNotNone
      DEF ShownInv, NoRequestNoContext, RaisesClean
  <2> QED
    BY <2>2, <2>3
<1>8. CASE HandlerRefuses \/ LeavePipeline \/ ReturnAnswer
  BY <1>3, <1>6, <1>8, SameRequest
  DEF HandlerRefuses, LeavePipeline, ReturnAnswer, Returns, Working
<1>9. CASE EnterStage \/ StageOutOfOrder \/ HandlerRefusesUnheard \/ HandlerCrashes
  BY <1>2, <1>9 DEF EnterStage, StageOutOfOrder, HandlerRefusesUnheard, HandlerCrashes
<1>10. CASE \/ LoadSucceeds \/ LoadFails \/ \E s \in SessionIds : AskCannotOpen(s)
            \/ PipelineCompletes \/ Unwind \/ RecordMetrics \/ RecordFails
            \/ ReturnPrepared \/ ReturnImpossible
  BY <1>2, <1>10
  DEF LoadSucceeds, LoadFails, AskCannotOpen, PipelineCompletes, Unwind, RecordMetrics,
      RecordFails, ReturnPrepared, ReturnImpossible, Raises, Returns
<1>11. CASE \E c \in Calls : CallSkipsLoad(c) \/ CallStartsLoad(c) \/ CallRefused(c)
  BY <1>2, <1>11 DEF CallSkipsLoad, CallStartsLoad, CallRefused, Begins
<1>12. CASE \E s \in SessionIds : OpenSession(s) \/ CloseSession(s)
  BY <1>2, <1>12 DEF OpenSession, CloseSession
<1>13. CASE AskBlank \/ CorpusChanges \/ ForceColdStart \/ Close \/ Restart \/ UNCHANGED vars
  BY <1>2, <1>13 DEF AskBlank, CorpusChanges, ForceColdStart, Close, Restart, vars
<1> QED
  BY <1>5, <1>7, <1>8, <1>9, <1>10, <1>11, <1>12, <1>13 DEF Next, Progress, Environment

\* From the start, and for ever.
LEMMA ShownCorrect == Spec => []ShownInv
<1>1. Init => ShownInv
  BY DEF Init, ShownInv, NoRequestNoContext, RaisesClean, StopAhead, UnbornUnused, Born
<1> QED
  BY <1>1, ShownNext, TypeCorrect, PipelineCorrect, PTL DEF Spec

-----------------------------------------------------------------------------
(* The context is enriched, never rewritten.                               *)

\* What a step keeps of the context of one request
Keeps ==
  /\ Len(iec.stages) <= Len(iec'.stages)
  /\ \A i \in DOMAIN iec.stages : iec'.stages[i] = iec.stages[i]
  /\ iec.artifacts \subseteq iec'.artifacts
  /\ iec.warnings \subseteq iec'.warnings
  /\ iec.trace \subseteq iec'.trace
  /\ iec.errors <= iec'.errors

\* A stage reported at the end leaves those before it alone.
LEMMA AppendKeeps ==
  ASSUME NEW stages \in Seq(Span), NEW span
  PROVE  /\ Len(stages) <= Len(Append(stages, span))
         /\ \A i \in DOMAIN stages : Append(stages, span)[i] = stages[i]
  OBVIOUS

\* The steps that change the context of a request keep what it holds.
LEMMA StageKeeps ==
  ASSUME TypeInv, HandlerSucceeds \/ HandlerRefuses \/ LeavePipeline \/ ReturnAnswer
  PROVE  Keeps
<1>1. iec \in Context /\ iec.stages \in Seq(Span) /\ iec.errors \in 0..1
  BY DEF TypeInv, TypeOK, RequestType, Context
<1>2. CASE HandlerSucceeds
  <2> DEFINE span == [stage |-> stage, status |-> "completed", errors |-> 0]
  <2>1. PICK w : iec' = WithStage(Enriched(iec, stage, w), span)
    BY <1>2 DEF HandlerSucceeds
  <2>2. /\ iec'.stages = Append(iec.stages, span) /\ iec'.errors = iec.errors
        /\ iec.artifacts \subseteq iec'.artifacts /\ iec.warnings \subseteq iec'.warnings
        /\ iec.trace \subseteq iec'.trace
    BY <1>1, <2>1 DEF WithStage, Enriched, Context
  <2> HIDE DEF span
  <2> QED
    BY <1>1, <2>2, AppendKeeps DEF Keeps
<1>3. CASE HandlerRefuses
  <2> DEFINE failure == WithError(WithStage(iec, FailedSpan))
  <2>1. /\ failure.stages = Append(iec.stages, FailedSpan) /\ failure.errors = 1
        /\ failure.artifacts = iec.artifacts /\ failure.warnings = iec.warnings
        /\ failure.trace = iec.trace
        /\ DOMAIN failure = DOMAIN iec
    BY <1>1 DEF WithError, WithStage, Context
  <2>2. \/ iec' = failure
        \/ iec' = Enriched(failure, MetricsFinalization, MetricsWarnings(failure))
    BY <1>3 DEF HandlerRefuses, Finalizations
  <2> HIDE DEF failure
  <2>3. /\ iec'.stages = failure.stages /\ iec'.errors = failure.errors
        /\ failure.artifacts \subseteq iec'.artifacts
        /\ failure.warnings \subseteq iec'.warnings /\ failure.trace \subseteq iec'.trace
    BY <1>1, <2>1, <2>2 DEF Enriched, Context
  <2> QED
    BY <1>1, <2>1, <2>3, AppendKeeps DEF Keeps
<1>4. CASE LeavePipeline \/ ReturnAnswer
  <2>1. /\ iec'.stages = iec.stages /\ iec'.errors = iec.errors
        /\ iec.artifacts \subseteq iec'.artifacts /\ iec.warnings \subseteq iec'.warnings
        /\ iec.trace \subseteq iec'.trace
    BY <1>1, <1>4 DEF LeavePipeline, ReturnAnswer, Context
  <2> QED
    BY <1>1, <2>1 DEF Keeps
<1> QED
  BY <1>2, <1>3, <1>4

\* What the other steps do to the context: nothing, or away with it, or a new one
\* in the place of none.
LEMMA ContextSteps ==
  ASSUME TypeInv, PipelineInv, [Next]_vars
  PROVE  \/ HandlerSucceeds \/ HandlerRefuses \/ LeavePipeline \/ ReturnAnswer
         \/ iec' \in {iec, NoContext}
         \/ iec = NoContext /\ iec'.request \in RequestIds
<1> USE DEF store, memory, local
<1>1. CASE AskInSession \/ \E s \in SessionIds : AskInNewSession(s)
  <2>1. iec'.request \in RequestIds
    <3>1. TypeInv'
      BY TypeInvNext
    <3>2. pc' = "stage"
      BY <1>1 DEF AskInSession, AskInNewSession, StartsRequest
    <3> QED
      BY <3>1, <3>2 DEF TypeInv, Identified, Working
  <2> QED
    BY <1>1, <2>1 DEF AskInSession, AskInNewSession, PipelineInv, Fresh
<1>2. CASE \/ LoadSucceeds \/ LoadFails \/ \E s \in SessionIds : AskCannotOpen(s)
           \/ EnterStage \/ StageOutOfOrder \/ HandlerRefusesUnheard \/ HandlerCrashes
           \/ PipelineCompletes \/ Unwind \/ RecordMetrics \/ RecordFails
           \/ ReturnPrepared \/ ReturnImpossible
  BY <1>2
  DEF LoadSucceeds, LoadFails, AskCannotOpen, EnterStage, StageOutOfOrder,
      HandlerRefusesUnheard, HandlerCrashes, PipelineCompletes, Unwind, RecordMetrics,
      RecordFails, ReturnPrepared, ReturnImpossible, Raises, Returns
<1>3. CASE Environment \/ UNCHANGED vars
  BY <1>3
  DEF Environment, AskBlank, CallSkipsLoad, CallStartsLoad, CallRefused, Begins, OpenSession,
      CloseSession, CorpusChanges, ForceColdStart, Close, Restart, vars
<1> QED
  BY <1>1, <1>2, <1>3 DEF Next, Progress

\* From one step to the next a request keeps every stage, part, warning, error and
\* trace entry of its context, whatever its handlers do and however it fails
\* (iec.evolve, with_stage, with_error).
THEOREM ContextIsEnriched == Spec => EnrichedOnly
<1>1. TypeInv /\ PipelineInv /\ ShownInv /\ [Next]_vars
        => [iec'.request = iec.request => Keeps]_vars
  <2> SUFFICES ASSUME TypeInv, PipelineInv, ShownInv, [Next]_vars, iec'.request = iec.request
               PROVE  Keeps
    OBVIOUS
  <2>1. iec \in Context /\ Len(iec.stages) \in Nat /\ iec.errors \in 0..1
    BY DEF TypeInv, TypeOK, RequestType, Context
  <2>2. CASE iec' = iec
    BY <2>1, <2>2 DEF Keeps
  <2>3. CASE iec' = NoContext
    BY <2>2, <2>3, NothingShown DEF ShownInv, NoRequestNoContext
  <2>4. ~(iec = NoContext /\ iec'.request \in RequestIds)
    BY NothingShown, RequestsAreNotNone
  <2> QED
    BY <2>2, <2>3, <2>4, ContextSteps, StageKeeps
<1> QED
  BY <1>1, TypeCorrect, PipelineCorrect, ShownCorrect, PTL DEF Spec, EnrichedOnly, Keeps

-----------------------------------------------------------------------------
(* The contract.                                                           *)

\* The requests opened so far, as the contract sees them
Opened == {r \in RequestIds : r[2] <= sessions[r[1]].count}

\* What became of the request on display, case by case.
LEMMA Verdicts ==
  /\ iec.request = NoRequest => VerdictOf = "none"
  /\ iec.request # NoRequest /\ iec.errors = 1 => VerdictOf = "failed"
  /\ iec.request # NoRequest /\ iec.errors = 0 /\ pc \in {"stage", "handler", "raise"}
       => VerdictOf = "open"
  /\ iec.request # NoRequest /\ iec.errors = 0 /\ pc \notin {"stage", "handler", "raise"}
       => VerdictOf = IF call.stop # NoStop THEN "abandoned" ELSE "completed"
  BY DEF VerdictOf

\* Steps that neither open a request nor change what is reported of it
LEMMA ContractStutters ==
  ASSUME iec'.request = iec.request, iec'.stages = iec.stages, iec'.errors = iec.errors,
         call' = call, Opened' = Opened,
         pc' \in {"stage", "handler", "raise"} <=> pc \in {"stage", "handler", "raise"}
  PROVE  UNCHANGED Contract!contract
<1>1. VerdictOf' = VerdictOf
  BY DEF VerdictOf
<1> QED
  BY <1>1 DEF Contract!contract, Opened

\* A step that drops the context: its request is forgotten, if there was one.
LEMMA ContractForgets ==
  ASSUME ShownInv, TypeInv, iec' = NoContext, Opened' = Opened
  PROVE  Contract!Forget \/ UNCHANGED Contract!contract
<1>1. iec'.request = NoRequest /\ Len(iec'.stages) = 0 /\ VerdictOf' = "none"
  BY NothingShown DEF VerdictOf
<1>2. CASE iec.request = NoRequest
  <2>1. iec = NoContext /\ VerdictOf = "none"
    BY <1>2, Verdicts DEF ShownInv, NoRequestNoContext
  <2> QED
    BY <1>1, <2>1 DEF Contract!contract, Opened
<1>3. CASE iec.request # NoRequest
  <2>1. iec.errors \in 0..1
    BY DEF TypeInv, TypeOK, RequestType, Context
  <2>2. VerdictOf # "none"
    BY <1>3, <2>1, Verdicts
  <2> QED
    BY <1>1, <2>2 DEF Contract!Forget, Opened
<1> QED
  BY <1>2, <1>3

\* Only beginning a request changes how many a session has opened.
LEMMA OpenedStays ==
  ASSUME TypeInv, ShownInv, [Next]_vars,
         ~AskInSession, \A s \in SessionIds : ~AskInNewSession(s)
  PROVE  Opened' = Opened
<1> USE DEF store, memory, local
<1>1. sessions \in SessionTable
  BY DEF TypeInv, TypeOK, StoreType
<1>2. SUFFICES \A t \in SessionIds : sessions'[t].count = sessions[t].count
  BY DEF Opened, RequestIds
<1>3. ASSUME NEW s \in SessionIds, AskCannotOpen(s) \/ OpenSession(s)
      PROVE  \A t \in SessionIds : sessions'[t].count = sessions[t].count
  BY <1>3, CreatedCount DEF AskCannotOpen, OpenSession, ShownInv, UnbornUnused
<1>4. ASSUME NEW table \in SessionTable, NEW s \in SessionIds, NEW t \in SessionIds
      PROVE  ClosedIn(table, s)[t].count = table[t].count
  BY DEF ClosedIn, SessionTable
<1>5. CASE \E s \in SessionIds : CloseSession(s)
  BY <1>1, <1>4, <1>5 DEF CloseSession
<1>6. CASE Close
  <2>1. /\ CurrentClosed \in SessionTable
        /\ \A t \in SessionIds : CurrentClosed[t].count = sessions[t].count
    BY <1>1, <1>4, ClosedInType DEF CurrentClosed, TypeInv, TypeOK, StoreType
  <2> QED
    BY <1>6, <2>1 DEF Close, SessionTable
<1>7. CASE Restart
  BY <1>1, <1>7 DEF Restart, SessionTable
<1>8. CASE sessions' = sessions
  BY <1>8
<1> QED
  BY <1>3, <1>5, <1>6, <1>7, <1>8
  DEF Next, Progress, Environment, LoadSucceeds, LoadFails, EnterStage, StageOutOfOrder,
      HandlerSucceeds, HandlerRefuses, HandlerRefusesUnheard, HandlerCrashes,
      PipelineCompletes, Unwind, LeavePipeline, RecordMetrics, RecordFails, ReturnAnswer,
      ReturnPrepared, ReturnImpossible, AskBlank, CallSkipsLoad, CallStartsLoad,
      CallRefused, Begins, CorpusChanges, ForceColdStart, vars, Raises, Returns

\* A request gets the next number of its session, which nobody has had.
LEMMA ContractOpens ==
  ASSUME TypeInv, PipelineInv, ShownInv, [Next]_vars, pc = "session",
         NEW s \in SessionIds, NEW table \in SessionTable, StartsRequest(s, table),
         \A t \in SessionIds : table[t].count = sessions[t].count
  PROVE  \E r \in RequestIds : Contract!Open(r)
<1> DEFINE r == <<s, sessions[s].count + 1>>
<1>1. /\ iec'.request = r /\ iec'.stages = <<>> /\ iec'.errors = 0 /\ pc' = "stage"
  BY DEF StartsRequest, NewContext
<1>2. r \in RequestIds
  <2>1. TypeInv'
    BY TypeInvNext
  <2> QED
    BY <1>1, <2>1 DEF TypeInv, Identified, Working
<1>3. /\ sessions'[s].count = sessions[s].count + 1
      /\ \A t \in SessionIds : t # s => sessions'[t].count = sessions[t].count
  BY StartedCount
<1>4. \A t \in SessionIds : sessions[t].count \in Nat
  BY RuntimeAssumption DEF TypeInv, TypeOK, StoreType, SessionTable
<1>5. r \notin Opened
  BY <1>4 DEF Opened
<1>6. Opened' = Opened \cup {r}
  <2>1. ASSUME NEW q \in RequestIds
        PROVE  q[2] <= sessions'[q[1]].count <=> q[2] <= sessions[q[1]].count \/ q = r
    <3>1. q[1] \in SessionIds /\ q[2] \in Nat /\ q = <<q[1], q[2]>>
      BY RuntimeAssumption DEF RequestIds
    <3>2. CASE q[1] = s
      BY <1>3, <1>4, <3>1, <3>2
    <3>3. CASE q[1] # s
      BY <1>3, <3>1, <3>3
    <3> QED
      BY <3>2, <3>3
  <2> QED
    BY <1>2, <2>1 DEF Opened
<1>7. VerdictOf = "none"
  BY NothingShown, Verdicts DEF PipelineInv, Fresh
<1>8. VerdictOf' = "open"
  BY <1>1, <1>2, RequestsAreNotNone DEF VerdictOf
<1> HIDE DEF r
<1> QED
  BY <1>1, <1>2, <1>5, <1>6, <1>7, <1>8 DEF Contract!Open, Opened

\* A stage that ran is the next one of the order, and only the last one that the
\* caller asked for, or one that failed, ends the request.
LEMMA ContractReports ==
  ASSUME TypeInv, PipelineInv, ShownInv, HandlerSucceeds \/ HandlerRefuses,
         Opened' = Opened
  PROVE  \E v \in {"open", "abandoned", "failed"} : Contract!Report(v)
<1>1. /\ pc = "handler" /\ iec \in Context /\ stage \in 1..10 /\ call' = call
      /\ iec.request # NoRequest /\ iec.errors = 0
      /\ Len(iec.stages) = stage - 1 /\ iec.stages \in Seq(Span)
  BY StageRange, RequestsAreNotNone
  DEF HandlerSucceeds, HandlerRefuses, TypeInv, AtStage, TypeOK, RequestType, Context,
      Identified, Working, PipelineInv, UnderWay
<1>2. iec'.request = iec.request /\ VerdictOf = "open"
  BY <1>1, SameRequest, Verdicts
<1>3. CASE HandlerRefuses
  <2>1. iec'.stages = Append(iec.stages, FailedSpan) /\ iec'.errors = 1
    BY <1>1, <1>3 DEF HandlerRefuses, Finalizations, Enriched, WithError, WithStage, Context
  <2>2. Len(iec'.stages) = Len(iec.stages) + 1
    BY <1>1, <2>1
  <2>3. VerdictOf' = "failed"
    BY <1>1, <1>2, <2>1 DEF VerdictOf
  <2>4. Contract!Report("failed")
    BY <1>1, <1>2, <2>2, <2>3, StageRange DEF Contract!Report, Opened
  <2> QED
    BY <2>4
<1>4. CASE HandlerSucceeds
  <2> DEFINE span == [stage |-> stage, status |-> "completed", errors |-> 0]
  <2>1. PICK w : iec' = WithStage(Enriched(iec, stage, w), span)
    BY <1>4 DEF HandlerSucceeds
  <2>2. iec'.stages = Append(iec.stages, span) /\ iec'.errors = 0
    BY <1>1, <2>1 DEF WithStage, Enriched, Context
  <2> HIDE DEF span
  <2>3. Len(iec'.stages) = Len(iec.stages) + 1
    BY <1>1, <2>2
  <2>4. CASE stage = call.stop
    <3>1. pc' = "exit" /\ call.stop # NoStop
      BY <1>1, <1>4, <2>4 DEF HandlerSucceeds, NoStop
    <3>2. VerdictOf' = "abandoned"
      BY <1>1, <1>2, <2>2, <3>1 DEF VerdictOf
    <3>3. stage \in StopStages
      BY <2>4, <3>1 DEF TypeInv, TypeOK, ControlType, Call
    <3>4. Contract!Report("abandoned")
      BY <1>1, <1>2, <2>3, <3>2, <3>3, StageRange DEF Contract!Report, Opened
    <3> QED
      BY <3>4
  <2>5. CASE stage # call.stop
    <3>1. VerdictOf' = "open"
      BY <1>1, <1>2, <1>4, <2>2, <2>5 DEF VerdictOf, HandlerSucceeds
    <3>2. Contract!Report("open")
      BY <1>1, <1>2, <2>3, <3>1, StageRange DEF Contract!Report, Opened
    <3> QED
      BY <3>2
  <2> QED
    BY <2>4, <2>5
<1> QED
  BY <1>3, <1>4

\* The pipeline completes behind the last stage, when it was not to stop before.
LEMMA ContractCompletes ==
  ASSUME TypeInv, PipelineInv, ShownInv, PipelineCompletes, Opened' = Opened
  PROVE  Contract!Complete
<1>1. /\ pc = "stage" /\ pc' = "exit" /\ stage = 11 /\ iec' = iec /\ call' = call
      /\ iec.request # NoRequest /\ iec.errors = 0 /\ Len(iec.stages) = 10
  BY StageRange, RequestsAreNotNone
  DEF PipelineCompletes, local, TypeInv, Identified, Working, PipelineInv, UnderWay
<1>2. call.stop = NoStop
  <2>1. call.stop \in Stage \/ call.stop = NoStop
    BY RuntimeAssumption DEF TypeInv, TypeOK, ControlType, Call
  <2> QED
    BY <1>1, <2>1, StageRange DEF ShownInv, StopAhead
<1>3. VerdictOf = "open" /\ VerdictOf' = "completed"
  BY <1>1, <1>2 DEF VerdictOf
<1> QED
  BY <1>1, <1>3, StageRange DEF Contract!Complete, Opened

\* Every step of the runtime is one of the contract, or none.
LEMMA ContractStep ==
  TypeInv /\ PipelineInv /\ ShownInv /\ [Next]_vars => [Contract!Next]_(Contract!contract)
<1> SUFFICES ASSUME TypeInv, PipelineInv, ShownInv, [Next]_vars
             PROVE  Contract!Next \/ UNCHANGED Contract!contract
  OBVIOUS
<1> USE DEF store, memory, local
<1>1. CASE AskInSession
  <2>1. PICK s \in SessionIds : StartsRequest(s, sessions)
    BY <1>1 DEF AskInSession, TypeInv, TypeOK, ControlType, StoreType, Call
  <2>2. \E r \in RequestIds : Contract!Open(r)
    BY <1>1, <2>1, ContractOpens DEF AskInSession, TypeInv, TypeOK, StoreType
  <2> QED
    BY <2>2 DEF Contract!Next
<1>2. CASE \E s \in SessionIds : AskInNewSession(s)
  <2>1. PICK s \in SessionIds : AskInNewSession(s)
    BY <1>2
  <2>2. \A t \in SessionIds : Created(s)[t].count = sessions[t].count
    BY <2>1, CreatedCount DEF AskInNewSession, ShownInv, UnbornUnused
  <2>3. \E r \in RequestIds : Contract!Open(r)
    BY <2>1, <2>2, CreatedCount, ContractOpens DEF AskInNewSession
  <2> QED
    BY <2>3 DEF Contract!Next
<1>3. CASE ~AskInSession /\ \A s \in SessionIds : ~AskInNewSession(s)
  <2>1. Opened' = Opened
    BY <1>3, OpenedStays
  <2>2. CASE HandlerSucceeds \/ HandlerRefuses
    BY <2>1, <2>2, ContractReports DEF Contract!Next
  <2>3. CASE PipelineCompletes
    BY <2>1, <2>3, ContractCompletes DEF Contract!Next
  <2>4. CASE iec' = NoContext
    BY <2>1, <2>4, ContractForgets DEF Contract!Next
  <2>5. CASE LeavePipeline \/ ReturnAnswer
    <3>1. iec'.stages = iec.stages /\ iec'.errors = iec.errors /\ iec'.request = iec.request
      BY <2>5 DEF LeavePipeline, ReturnAnswer, TypeInv, TypeOK, RequestType, Context
    <3> QED
      BY <2>1, <2>5, <3>1, ContractStutters DEF LeavePipeline, ReturnAnswer, Returns
  <2>6. CASE \/ EnterStage \/ StageOutOfOrder \/ HandlerRefusesUnheard \/ HandlerCrashes
             \/ RecordMetrics \/ ReturnPrepared
    BY <2>1, <2>6, ContractStutters
    DEF EnterStage, StageOutOfOrder, HandlerRefusesUnheard, HandlerCrashes, RecordMetrics,
        ReturnPrepared, Returns
  <2>7. CASE LoadSucceeds
    BY <2>1, <2>7, ContractStutters DEF LoadSucceeds, Returns
  <2>8. CASE \/ \E s \in SessionIds : OpenSession(s) \/ CloseSession(s)
             \/ CorpusChanges \/ ForceColdStart \/ Close \/ UNCHANGED vars
    BY <2>1, <2>8, ContractStutters
    DEF OpenSession, CloseSession, CorpusChanges, ForceColdStart, Close, vars
  <2> QED
    BY <1>3, <2>2, <2>3, <2>4, <2>5, <2>6, <2>7, <2>8
    DEF Next, Progress, Environment, LoadFails, AskCannotOpen, Unwind, RecordFails,
        ReturnImpossible, Raises, AskBlank, CallSkipsLoad, CallStartsLoad, CallRefused,
        Begins, Restart
<1> QED
  BY <1>1, <1>2, <1>3

\* Every behaviour of the runtime is one the contract allows: an identifier is
\* opened once, restarts included, stages are reported one at a time in order, a
\* failure ends the request, and nothing completes without its ten stages (DIC-01,
\* DIC-04, DIC-07).
THEOREM RuntimeImplementsContract == Spec => ImplementsContract
<1>1. Init => Contract!Init
  <2> SUFFICES ASSUME Init PROVE Contract!Init
    OBVIOUS
  <2>1. iec = NoContext /\ VerdictOf = "none"
    BY NothingShown, Verdicts DEF Init
  <2>2. \A s \in SessionIds : sessions[s].count = 0
    BY DEF Init
  <2>3. Opened = {}
    BY <2>2, RuntimeAssumption DEF Opened, RequestIds
  <2> QED
    BY <2>1, <2>3, NothingShown DEF Contract!Init, Opened
<1> QED
  BY <1>1, ContractStep, TypeCorrect, PipelineCorrect, ShownCorrect, PTL
  DEF Spec, ImplementsContract, Contract!Spec

-----------------------------------------------------------------------------
(* A failed load.                                                          *)

\* A runtime that is loading has no model
LoadInv == machine = LOADING => ~loaded

\* No stage takes the machine to LOADING, and LOADING does not lead to itself.
LEMMA LoadingIsLeft ==
  /\ ~CanTransition(LOADING, LOADING)
  /\ \A s \in DOMAIN StateByStage : StateByStage[s] # LOADING
  /\ READY # LOADING /\ IDLE # LOADING /\ COMPLETED # LOADING /\ FAILED # LOADING
<1>1. LOADING \in RuntimeState /\ Allowed[LOADING] = {READY, FAILED}
  BY DEF RuntimeState, Allowed, IDLE, LOADING, READY, OPTIMIZING, RETRIEVING,
         PROMPT_READY, INFERENCING, VALIDATING, COMPLETED, FAILED
<1>2. \A s \in DOMAIN StateByStage :
        StateByStage[s] \in {OPTIMIZING, RETRIEVING, PROMPT_READY, INFERENCING, VALIDATING}
  BY DEF StateByStage, ContextOptimization, EvidenceRetrieval, PromptAssembly,
         ModelInference, ResponseValidation
<1> QED
  BY <1>1, <1>2
  DEF CanTransition, IDLE, LOADING, READY, OPTIMIZING, RETRIEVING, PROMPT_READY, INFERENCING,
      VALIDATING, COMPLETED, FAILED

\* Only a successful load puts the model in its place.
LEMMA LoadInvNext == LoadInv /\ [Next]_vars => LoadInv'
<1> SUFFICES ASSUME LoadInv, [Next]_vars PROVE LoadInv'
  OBVIOUS
<1> USE DEF LoadInv, memory, local, store
<1>1. CASE LoadSucceeds \/ HandlerRefuses \/ PipelineCompletes \/ ReturnPrepared \/ Restart
  BY <1>1, LoadingIsLeft
  DEF LoadSucceeds, HandlerRefuses, PipelineCompletes, ReturnPrepared, Restart
<1>2. CASE ReturnAnswer
  BY <1>2, LoadingIsLeft DEF ReturnAnswer
<1>3. CASE EnterStage
  BY <1>3, LoadingIsLeft DEF EnterStage
<1>4. CASE \E c \in Calls : CallSkipsLoad(c) \/ CallStartsLoad(c) \/ CallRefused(c)
  BY <1>4 DEF CallSkipsLoad, CallStartsLoad, CallRefused, Begins
<1>5. CASE ForceColdStart
  BY <1>5 DEF ForceColdStart
<1>6. CASE UNCHANGED <<machine, loaded>>
  BY <1>6
<1> QED
  BY <1>1, <1>2, <1>3, <1>4, <1>5, <1>6
  DEF Next, Progress, Environment, LoadFails, AskInSession, AskInNewSession, AskCannotOpen,
      StartsRequest, StageOutOfOrder, HandlerSucceeds, HandlerRefusesUnheard, HandlerCrashes,
      Unwind, LeavePipeline, RecordMetrics, RecordFails, ReturnImpossible, AskBlank,
      OpenSession, CloseSession, CorpusChanges, Close, vars

\* Once backend.load() has raised, the runtime is LOADING for good: no retry and no
\* question gets anywhere, short of a new process (LeanLMRuntime.load).
THEOREM FailedLoadStays == Spec => FailedLoadIsFinal
<1> DEFINE Final == \/ machine' = LOADING /\ pc' \in {"idle", "closed"}
                    \/ machine' = IDLE /\ call' = NoCall
<1>1. Init => LoadInv
  BY LoadingIsLeft DEF Init, LoadInv
<1>2. LoadInv /\ [Next]_vars => [pc = "idle" /\ machine = LOADING => Final]_vars
  <2> SUFFICES ASSUME LoadInv, [Next]_vars, pc = "idle", machine = LOADING, ~UNCHANGED vars
               PROVE  Final
    OBVIOUS
  <2> USE DEF memory, local, store
  <2>1. ~Progress
    BY DEF Progress, LoadSucceeds, LoadFails, AskInSession, AskInNewSession, AskCannotOpen,
           EnterStage, StageOutOfOrder, HandlerSucceeds, HandlerRefuses,
           HandlerRefusesUnheard, HandlerCrashes, PipelineCompletes, Unwind, LeavePipeline,
           RecordMetrics, RecordFails, ReturnAnswer, ReturnPrepared, ReturnImpossible
  <2>2. CASE \E c \in Calls : CallSkipsLoad(c) \/ CallStartsLoad(c) \/ CallRefused(c)
    BY <2>2, LoadingIsLeft DEF CallSkipsLoad, CallStartsLoad, CallRefused, Begins, LoadInv
  <2>3. CASE \/ \E s \in SessionIds : OpenSession(s) \/ CloseSession(s)
             \/ AskBlank \/ CorpusChanges \/ ForceColdStart \/ Close \/ Restart
    BY <2>3 DEF OpenSession, CloseSession, AskBlank, CorpusChanges, ForceColdStart, Close,
                Restart
  <2> QED
    BY <2>1, <2>2, <2>3 DEF Next, Environment
<1> QED
  BY <1>1, <1>2, LoadInvNext, PTL DEF Spec, FailedLoadIsFinal

-----------------------------------------------------------------------------
(* What the Deterministic Inference Contract can report.                   *)

\* No connection was refused in a request that reaches the caller, no rule is
\* reported before the end, and without errors there are metrics
ReportableInv ==
  /\ pc \in {"stage", "handler", "exit"} => ~guard.breached
  /\ pc \in {"record", "return"} => ~iec.breaches
  /\ pc \in Working => iec.dic = {}
  /\ pc \in {"exit", "record", "return"} /\ call.stop = NoStop /\ iec.errors = 0
       => "metrics" \in iec.artifacts
  /\ DicVerdict

\* The rules that verify() finds broken are the two it may report.
LEMMA ReportedRules ==
  ASSUME TypeInv, PipelineInv, ReportableInv, pc = "return", call.stop = NoStop
  PROVE  /\ DicViolations(iec) \subseteq {"DIC-03", "DIC-05"}
         /\ "DIC-03" \in DicViolations(iec) => iec.errors = 1
         /\ "DIC-05" \in DicViolations(iec) => "over_window" \in iec.warnings
<1>1. iec.stages \in Seq(Span) /\ iec.errors \in 0..1
  BY DEF TypeInv, TypeOK, RequestType, Context
<1>2. InOrder(iec.stages)
  BY <1>1 DEF PipelineInv, StagesInOrder, InOrder
<1>3. \A i \in DOMAIN iec.stages : iec.stages[i].status = "failed" => iec.stages[i].errors = 1
  BY DEF PipelineInv, Done, Transparent
<1> QED
  BY <1>1, <1>2, <1>3 DEF DicViolations, DicRule, ReportableInv

\* Every step keeps what verify() will find.
LEMMA ReportableNext ==
  TypeInv /\ PipelineInv /\ ReportableInv /\ [Next]_vars => ReportableInv'
<1> SUFFICES ASSUME TypeInv, PipelineInv, ReportableInv, [Next]_vars PROVE ReportableInv'
  OBVIOUS
<1> USE DEF memory, local, store
<1>1. iec \in Context /\ guard \in [active : BOOLEAN, breached : BOOLEAN]
  BY DEF TypeInv, TypeOK, RequestType
<1>2. ASSUME NEW s, NEW table, StartsRequest(s, table)
      PROVE  ReportableInv'
  <2>1. pc' = "stage" /\ iec'.dic = {} /\ guard'.breached = FALSE
    BY <1>2 DEF StartsRequest, NewContext, GuardEntered
  <2> QED
    BY <2>1 DEF ReportableInv, DicVerdict, Answered
<1>3. CASE AskInSession \/ \E s \in SessionIds : AskInNewSession(s)
  BY <1>2, <1>3 DEF AskInSession, AskInNewSession
<1>4. CASE HandlerSucceeds
  <2>1. iec'.dic = iec.dic
    BY <1>1, <1>4 DEF HandlerSucceeds, WithStage, Enriched, Context
  <2>2. pc' = "exit" => call'.stop # NoStop
    BY <1>4, StageRange DEF HandlerSucceeds, TypeInv, AtStage, NoStop
  <2> QED
    BY <1>4, <2>1, <2>2 DEF HandlerSucceeds, ReportableInv, DicVerdict, Answered, Working
<1>5. CASE HandlerRefuses
  <2>1. iec'.dic = iec.dic /\ iec'.errors = 1
    BY <1>1, <1>5 DEF HandlerRefuses, Finalizations, WithError, WithStage, Enriched, Context
  <2> QED
    BY <1>5, <2>1 DEF HandlerRefuses, ReportableInv, DicVerdict, Answered, Working
<1>6. CASE PipelineCompletes
  <2>1. 9 \in Stage /\ 9 < stage /\ Adds(9) = {"metrics"}
    BY <1>6, StageRange, HandlerTable DEF PipelineCompletes
  <2>2. "metrics" \in iec.artifacts
    BY <1>6, <2>1 DEF PipelineCompletes, PipelineInv, UnderWay
  <2> QED
    BY <1>6, <2>2 DEF PipelineCompletes, ReportableInv, DicVerdict, Answered, Working
<1>7. CASE LeavePipeline
  <2>1. /\ iec'.dic = iec.dic /\ iec'.breaches = guard.breached
        /\ iec'.artifacts = iec.artifacts /\ iec'.errors = iec.errors
    BY <1>1, <1>7 DEF LeavePipeline, Context
  <2> QED
    BY <1>7, <2>1 DEF LeavePipeline, ReportableInv, DicVerdict, Answered, Working
<1>8. CASE RecordMetrics
  BY <1>8 DEF RecordMetrics, ReportableInv, DicVerdict, Answered, Working
<1>9. CASE ReturnAnswer
  <2>1. pc = "return" /\ pc' = "idle" /\ call.stop = NoStop
    BY <1>9 DEF ReturnAnswer, Returns
  <2>2. /\ iec'.dic \in {{}, DicViolations(iec)}
        /\ iec'.errors = iec.errors /\ iec'.warnings = iec.warnings
    BY <1>1, <1>9, <2>1 DEF ReturnAnswer, ReportableInv, Working, Context
  <2>3. DicVerdict'
    BY <2>1, <2>2, ReportedRules DEF DicVerdict
  <2> QED
    BY <2>1, <2>3 DEF ReportableInv, Working
<1>10. CASE ReturnPrepared
  <2>1. pc = "return" /\ pc' = "idle" /\ iec' = iec /\ iec.dic = {}
    BY <1>10 DEF ReturnPrepared, Returns, ReportableInv, Working
  <2> QED
    BY <2>1 DEF ReportableInv, Working, DicVerdict
<1>11. CASE EnterStage \/ StageOutOfOrder \/ HandlerRefusesUnheard
  BY <1>11 DEF EnterStage, StageOutOfOrder, HandlerRefusesUnheard, ReportableInv, DicVerdict,
               Answered, Working
<1>12. CASE HandlerCrashes
  BY <1>12 DEF HandlerCrashes, ReportableInv, DicVerdict, Answered, Working
<1>13. ASSUME iec' = NoContext, pc' \in {"idle", "loading", "session"}
       PROVE  ReportableInv'
  BY <1>13, NothingShown DEF ReportableInv, DicVerdict, Answered, Working
<1>14. CASE LoadSucceeds
  <2>1. iec' = NoContext /\ pc' \in {"idle", "session"}
    BY <1>14 DEF LoadSucceeds, Returns, PipelineInv, Fresh
  <2> QED
    BY <1>13, <2>1
<1>15. CASE LoadFails \/ Unwind \/ RecordFails \/ ReturnImpossible
            \/ \E s \in SessionIds : AskCannotOpen(s)
  BY <1>13, <1>15 DEF LoadFails, Unwind, RecordFails, ReturnImpossible, AskCannotOpen, Raises
<1>16. CASE AskBlank \/ Restart
            \/ \E c \in Calls : CallSkipsLoad(c) \/ CallStartsLoad(c) \/ CallRefused(c)
  BY <1>13, <1>16 DEF AskBlank, Restart, CallSkipsLoad, CallStartsLoad, CallRefused, Begins
<1>17. CASE \/ \E s \in SessionIds : OpenSession(s) \/ CloseSession(s)
            \/ CorpusChanges \/ ForceColdStart \/ Close \/ UNCHANGED vars
  <2>1. UNCHANGED <<iec, guard, outcome, call>> /\ (pc' = pc \/ pc' = "closed")
    BY <1>17 DEF OpenSession, CloseSession, CorpusChanges, ForceColdStart, Close, vars
  <2> QED
    BY <2>1 DEF ReportableInv, DicVerdict, Answered, Working
<1> QED
  BY <1>3, <1>4, <1>5, <1>6, <1>7, <1>8, <1>9, <1>10, <1>11, <1>12, <1>14, <1>15, <1>16,
     <1>17
  DEF Next, Progress, Environment

\* Of the rules verify() may report, a caller sees two: no metrics, and then the
\* request failed, or a prompt over the window, and then it was warned. A breach of
\* the offline guard never comes back in a context (runtime/dic.py, ask).
THEOREM VerdictsAreTwo == Spec => []DicVerdict
<1>1. Init => ReportableInv
  <2> SUFFICES ASSUME Init PROVE ReportableInv
    OBVIOUS
  <2>1. pc = "idle" /\ outcome # Returned
    BY DEF Init, Returned, NoOutcome
  <2> QED
    BY <2>1 DEF ReportableInv, DicVerdict, Answered, Working
<1>2. ReportableInv => DicVerdict
  BY DEF ReportableInv
<1> QED
  BY <1>1, <1>2, ReportableNext, TypeCorrect, PipelineCorrect, PTL DEF Spec

-----------------------------------------------------------------------------
(* With a store that accepts its writes.                                   *)

\* Every step keeps the current session open, or forgets it.
LEMMA CurrentOpenNext ==
  ASSUME "store" \notin Faults
  PROVE  TypeInv /\ CurrentSessionOpen /\ [Next]_vars => CurrentSessionOpen'
<1> SUFFICES ASSUME TypeInv, CurrentSessionOpen, [Next]_vars PROVE CurrentSessionOpen'
  OBVIOUS
<1> USE DEF memory, local, store
<1>1. /\ sessions \in SessionTable /\ current \in SessionIds \cup {NoSession}
      /\ rows \in [SessionIds -> {"absent", "open", "closed"}] /\ NoSession \notin SessionIds
  BY RuntimeAssumption DEF TypeInv, TypeOK, StoreType
<1>2. CASE AskInSession
  <2>1. PICK s \in SessionIds : StartsRequest(s, sessions)
    BY <1>2 DEF AskInSession, TypeInv, TypeOK, ControlType, StoreType, Call
  <2>2. \A t \in SessionIds : sessions'[t].status = sessions[t].status
    BY <1>1, <2>1, StartedCount
  <2> QED
    BY <1>1, <1>2, <2>2 DEF AskInSession, CurrentSessionOpen
<1>3. CASE \E s \in SessionIds : AskInNewSession(s)
  <2>1. PICK s \in SessionIds : AskInNewSession(s)
    BY <1>3
  <2>2. sessions'[s].status = "open"
    BY <2>1, CreatedCount, StartedCount DEF AskInNewSession
  <2> QED
    BY <1>1, <2>1, <2>2 DEF AskInNewSession, CurrentSessionOpen
<1>4. CASE \E s \in SessionIds : OpenSession(s)
  <2>1. PICK s \in SessionIds : OpenSession(s)
    BY <1>4
  <2> QED
    BY <1>1, <2>1, CreatedCount DEF OpenSession, CurrentSessionOpen
<1>5. CASE \E s \in SessionIds : CloseSession(s)
  <2>1. PICK s \in SessionIds : CloseSession(s)
    BY <1>5
  <2>2. /\ \A t \in SessionIds : t # s => sessions'[t] = sessions[t] /\ rows'[t] = rows[t]
        /\ current' = IF s = current THEN NoSession ELSE current
    BY <1>1, <2>1 DEF CloseSession, ClosedIn, SessionTable
  <2> QED
    BY <1>1, <2>2 DEF CurrentSessionOpen
<1>6. CASE Close \/ Restart
  BY <1>6 DEF Close, Restart, CurrentSessionOpen
<1>7. CASE \E s \in SessionIds : AskCannotOpen(s)
  BY <1>7 DEF AskCannotOpen
<1>8. CASE UNCHANGED <<current, sessions, rows>>
  BY <1>8 DEF CurrentSessionOpen
<1> QED
  BY <1>2, <1>3, <1>4, <1>5, <1>6, <1>7, <1>8
  DEF Next, Progress, Environment, LoadSucceeds, LoadFails, EnterStage, StageOutOfOrder,
      HandlerSucceeds, HandlerRefuses, HandlerRefusesUnheard, HandlerCrashes,
      PipelineCompletes, Unwind, LeavePipeline, RecordMetrics, RecordFails, ReturnAnswer,
      ReturnPrepared, ReturnImpossible, AskBlank, CallSkipsLoad, CallStartsLoad,
      CallRefused, Begins, CorpusChanges, ForceColdStart, vars

\* Unless SQLite refuses a write, the session the next question goes to is open, in
\* memory and in the store (open_session, close_session, close).
THEOREM CurrentStaysOpen == "store" \notin Faults => (Spec => []CurrentSessionOpen)
<1> SUFFICES ASSUME "store" \notin Faults PROVE Spec => []CurrentSessionOpen
  OBVIOUS
<1>1. Init => CurrentSessionOpen
  BY DEF Init, CurrentSessionOpen
<1>2. TypeInv /\ CurrentSessionOpen /\ [Next]_vars => CurrentSessionOpen'
  BY CurrentOpenNext
<1> QED
  BY <1>1, <1>2, TypeCorrect, PTL DEF Spec

-----------------------------------------------------------------------------
(* Without failures of the environment.                                    *)

\* The state the machine is in once stage s has been entered
Entered(s) ==
  CASE s < ContextOptimization -> READY
    [] s \in DOMAIN StateByStage -> StateByStage[s]
    [] OTHER -> VALIDATING

\* At every point of a call, the state the machine is in
MachineInv ==
  /\ pc \in {"idle", "closed"} => machine \in Resting /\ (loaded => machine = READY)
  /\ pc = "loading" => machine = LOADING
  /\ pc = "session" => machine = READY
  /\ pc = "stage" => machine = Entered(stage - 1)
  /\ pc = "handler" => machine = Entered(stage)
  /\ pc \in {"exit", "record", "return"} =>
       \/ machine \in {COMPLETED, FAILED}
       \/ call.stop # NoStop /\ machine = Entered(call.stop)
  /\ pc # "raise"

\* Every stage may be entered from the one before, and every state of a request
\* may fail; before inference, it may also be abandoned.
LEMMA StagesConnect ==
  /\ Entered(0) = READY
  /\ \A s \in 1..10 :
       /\ s \in DOMAIN StateByStage =>
            StateByStage[s] = Entered(s) /\ CanTransition(Entered(s - 1), Entered(s))
       /\ s \notin DOMAIN StateByStage => Entered(s) = Entered(s - 1)
       /\ CanTransition(Entered(s), FAILED)
  /\ \A s \in 1..6 : Entered(s) = READY \/ CanTransition(Entered(s), READY)
  /\ CanTransition(COMPLETED, READY) /\ CanTransition(FAILED, READY)
  /\ CanTransition(IDLE, LOADING) /\ CanTransition(READY, LOADING)
<1> USE DEF ContextOptimization, EvidenceRetrieval, PromptAssembly, ModelInference,
            ResponseValidation
<1>1. DOMAIN StateByStage = 4..8
  BY DEF StateByStage
<1>2. /\ StateByStage[4] = OPTIMIZING /\ StateByStage[5] = RETRIEVING
      /\ StateByStage[6] = PROMPT_READY /\ StateByStage[7] = INFERENCING
      /\ StateByStage[8] = VALIDATING
  BY DEF StateByStage
<1>3. /\ \A s \in 0..3 : Entered(s) = READY
      /\ Entered(4) = OPTIMIZING /\ Entered(5) = RETRIEVING /\ Entered(6) = PROMPT_READY
      /\ Entered(7) = INFERENCING
      /\ \A s \in 8..10 : Entered(s) = VALIDATING
  BY <1>1, <1>2 DEF Entered
<1>4. /\ LOADING \in Allowed[IDLE]
      /\ {OPTIMIZING, LOADING, FAILED} \subseteq Allowed[READY]
      /\ {RETRIEVING, READY, FAILED} \subseteq Allowed[OPTIMIZING]
      /\ {PROMPT_READY, READY, FAILED} \subseteq Allowed[RETRIEVING]
      /\ {INFERENCING, READY, FAILED} \subseteq Allowed[PROMPT_READY]
      /\ {VALIDATING, FAILED} \subseteq Allowed[INFERENCING]
      /\ FAILED \in Allowed[VALIDATING]
      /\ READY \in Allowed[COMPLETED] /\ READY \in Allowed[FAILED]
  BY DEF Allowed, RuntimeState, IDLE, LOADING, READY, OPTIMIZING, RETRIEVING, PROMPT_READY,
         INFERENCING, VALIDATING, COMPLETED, FAILED
<1>5. ASSUME NEW s \in 1..10
      PROVE  /\ s \in DOMAIN StateByStage =>
                  StateByStage[s] = Entered(s) /\ CanTransition(Entered(s - 1), Entered(s))
             /\ s \notin DOMAIN StateByStage => Entered(s) = Entered(s - 1)
             /\ CanTransition(Entered(s), FAILED)
  <2>1. CASE s \in 1..3
    BY <1>1, <1>3, <1>4, <2>1 DEF CanTransition
  <2>2. CASE s = 4
    BY <1>1, <1>2, <1>3, <1>4, <2>2 DEF CanTransition
  <2>3. CASE s = 5
    BY <1>1, <1>2, <1>3, <1>4, <2>3 DEF CanTransition
  <2>4. CASE s = 6
    BY <1>1, <1>2, <1>3, <1>4, <2>4 DEF CanTransition
  <2>5. CASE s = 7
    BY <1>1, <1>2, <1>3, <1>4, <2>5 DEF CanTransition
  <2>6. CASE s = 8
    BY <1>1, <1>2, <1>3, <1>4, <2>6 DEF CanTransition
  <2>7. CASE s \in 9..10
    BY <1>1, <1>3, <1>4, <2>7 DEF CanTransition
  <2> QED
    BY <2>1, <2>2, <2>3, <2>4, <2>5, <2>6, <2>7
<1>6. \A s \in 1..6 : Entered(s) = READY \/ CanTransition(Entered(s), READY)
  BY <1>3, <1>4 DEF CanTransition
<1> QED
  BY <1>3, <1>4, <1>5, <1>6 DEF CanTransition

\* Every step moves the machine along with the call.
LEMMA MachineInvNext ==
  ASSUME Faults \subseteq {"kill"}, StopStages \subseteq 1..6
  PROVE  TypeInv /\ PipelineInv /\ MachineInv /\ [Next]_vars => MachineInv'
<1> SUFFICES ASSUME TypeInv, PipelineInv, MachineInv, [Next]_vars PROVE MachineInv'
  OBVIOUS
<1> USE DEF memory, local, store
<1>1. call.stop \in 1..6 \/ call.stop = NoStop
  BY DEF TypeInv, TypeOK, ControlType, Call
<1>2. "load" \notin Faults /\ "handler" \notin Faults /\ "store" \notin Faults
  OBVIOUS
<1>3. CASE LoadSucceeds
  BY <1>3 DEF LoadSucceeds, Returns, MachineInv, Resting
<1>4. ASSUME NEW s, NEW table, StartsRequest(s, table), pc = "session"
      PROVE  MachineInv'
  <2>1. /\ pc' = "stage" /\ machine' = READY /\ stage' = 1
    BY <1>4, StageRange DEF StartsRequest, MachineInv, PipelineInv, Fresh
  <2>2. Entered(0) = READY
    BY StagesConnect
  <2> QED
    BY <2>1, <2>2 DEF MachineInv
<1>5. CASE AskInSession \/ \E s \in SessionIds : AskInNewSession(s)
  BY <1>4, <1>5 DEF AskInSession, AskInNewSession
<1>6. CASE EnterStage
  <2>1. pc = "stage" /\ pc' = "handler" /\ stage \in 1..10 /\ stage' = stage
    BY <1>6, StageRange DEF EnterStage
  <2>2. machine' = Entered(stage)
    BY <1>6, <2>1, StagesConnect DEF EnterStage, MachineInv
  <2> QED
    BY <2>1, <2>2 DEF MachineInv
<1>7. ~StageOutOfOrder
  <2>1. DOMAIN StateByStage \subseteq 1..10
    BY DEF StateByStage, ContextOptimization, ResponseValidation
  <2> QED
    BY <2>1, StagesConnect DEF StageOutOfOrder, MachineInv
<1>8. CASE HandlerSucceeds
  <2>1. pc = "handler" /\ machine' = machine /\ stage \in 1..10 /\ call' = call
    BY <1>8, StageRange DEF HandlerSucceeds, TypeInv, AtStage
  <2>2. \/ pc' = "exit" /\ stage = call.stop /\ stage # NoStop
        \/ pc' = "stage" /\ stage' - 1 = stage
    BY <1>8, <2>1 DEF HandlerSucceeds, NoStop
  <2> QED
    BY <2>1, <2>2 DEF MachineInv
<1>9. CASE HandlerRefuses \/ PipelineCompletes
  BY <1>9 DEF HandlerRefuses, PipelineCompletes, MachineInv
<1>10. ~HandlerRefusesUnheard
  <2>1. pc = "handler" => stage \in 1..10
    BY StageRange DEF TypeInv, AtStage
  <2> QED
    BY <2>1, StagesConnect DEF HandlerRefusesUnheard, MachineInv
<1>11. CASE LeavePipeline \/ RecordMetrics
  BY <1>11 DEF LeavePipeline, RecordMetrics, MachineInv
<1>12. CASE ReturnAnswer
  BY <1>12 DEF ReturnAnswer, Returns, MachineInv, Resting
<1>13. CASE ReturnPrepared
  BY <1>13 DEF ReturnPrepared, Returns, MachineInv, Resting
<1>14. ~ReturnImpossible
  BY <1>1, StagesConnect DEF ReturnImpossible, MachineInv
<1>15. CASE \E c \in Calls : CallSkipsLoad(c) \/ CallStartsLoad(c) \/ CallRefused(c)
  BY <1>15, StagesConnect
  DEF CallSkipsLoad, CallStartsLoad, CallRefused, Begins, MachineInv, Resting
<1>16. CASE Restart
  BY <1>16, LoadingIsLeft DEF Restart, MachineInv, Resting
<1>17. CASE \/ \E s \in SessionIds : OpenSession(s) \/ CloseSession(s)
            \/ AskBlank \/ CorpusChanges \/ ForceColdStart \/ Close
  BY <1>17
  DEF OpenSession, CloseSession, AskBlank, CorpusChanges, ForceColdStart, Close, MachineInv
<1>18. CASE UNCHANGED vars
  BY <1>18 DEF vars, MachineInv
<1>19. ~Unwind
  BY DEF Unwind, MachineInv
<1> QED
  BY <1>2, <1>3, <1>5, <1>6, <1>7, <1>8, <1>9, <1>10, <1>11, <1>12, <1>13, <1>14, <1>15,
     <1>16, <1>17, <1>18, <1>19
  DEF Next, Progress, Environment, LoadFails, AskCannotOpen, HandlerCrashes, RecordFails

\* When nothing but the death of the process fails, and nobody abandons a request
\* after its inference, refusals leave no mark: between two calls the machine is
\* IDLE or READY, and READY when a model is loaded (runtime.ask, StateMachine).
THEOREM RefusalsLeaveNoMark ==
  Faults \subseteq {"kill"} /\ StopStages \subseteq SessionCreation..PromptAssembly
    => (Spec => []RestsBetweenCalls)
<1> SUFFICES ASSUME Faults \subseteq {"kill"},
                    StopStages \subseteq SessionCreation..PromptAssembly
             PROVE  Spec => []RestsBetweenCalls
  OBVIOUS
<1>0. StopStages \subseteq 1..6
  BY DEF SessionCreation, PromptAssembly
<1>1. Init => MachineInv
  BY DEF Init, MachineInv, Resting
<1>2. TypeInv /\ PipelineInv /\ MachineInv /\ [Next]_vars => MachineInv'
  BY <1>0, MachineInvNext
<1>3. MachineInv => RestsBetweenCalls
  BY DEF MachineInv, RestsBetweenCalls
<1> QED
  BY <1>1, <1>2, <1>3, TypeCorrect, PipelineCorrect, PTL DEF Spec
=============================================================================
