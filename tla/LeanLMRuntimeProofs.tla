------------------------- MODULE LeanLMRuntimeProofs -------------------------
(***************************************************************************)
(* What LeanLMRuntime guarantees for every set of sessions, every bound on *)
(* requests, every choice of stop stages and every combination of faults.  *)
(***************************************************************************)
EXTENDS LeanLMRuntime, TLAPS

-----------------------------------------------------------------------------
(* The tables of StateMachine and PipelineStages.                          *)

\* The ten stages are numbered from 1 to 10 (STAGE_ORDER).
LEMMA StageRange == Stage = 1..10 /\ LastStage = 10 /\ SessionCreation = 1
  BY DEF Stage, LastStage, SessionCleanup, SessionCreation

\* Every transition of the table leads to a state of the machine (_ALLOWED).
LEMMA TransitionType ==
  ASSUME NEW s \in RuntimeState, NEW t, CanTransition(s, t)
  PROVE  t \in RuntimeState
  BY DEF CanTransition, Allowed, RuntimeState, IDLE, LOADING, READY, OPTIMIZING,
         RETRIEVING, PROMPT_READY, INFERENCING, VALIDATING, COMPLETED, FAILED

\* What the handlers demand, add and trace, as a table (_handler_for).
LEMMA HandlerTable ==
  ASSUME NEW s \in Stage
  PROVE  /\ Adds(s) = CASE s = 2 -> {"resources"} [] s = 3 -> {"context_package"}
                        [] s = 4 -> {"optimized_context"} [] s = 5 -> {"evidence"}
                        [] s = 6 -> {"prompt"} [] s = 7 -> {"response"}
                        [] s = 8 -> {"validation"} [] s = 9 -> {"metrics"}
                        [] OTHER -> {}
         /\ Needs(s) = CASE s = 4 -> {"context_package"}
                         [] s = 5 -> {"optimized_context"}
                         [] s = 7 -> {"prompt"} [] s = 8 -> {"response"}
                         [] OTHER -> {}
         /\ Traces(s) \subseteq TraceKey
<1> USE DEF Stage, SessionCreation, ResourceAssessment, DocumentDiscovery,
            ContextOptimization, EvidenceRetrieval, PromptAssembly, ModelInference,
            ResponseValidation, MetricsFinalization, SessionCleanup
<1>1. s \in 1..10
  BY StageRange
<1>2. CASE s \in 1..5
  BY <1>2
  DEF Adds, Needs, Traces, HandlerFor, CreatesSession, AssessesResources,
      DiscoversDocuments, OptimizesContext, RetrievesEvidence, TraceKey
<1>3. CASE s \in 6..10
  BY <1>3
  DEF Adds, Needs, Traces, HandlerFor, AssemblesPrompt, InfersResponse,
      ValidatesResponse, FinalizesMetrics, CleansUp, TraceKey
<1> QED
  BY <1>1, <1>2, <1>3

\* Handlers add known parts and trace entries only.
LEMMA AddsType ==
  ASSUME NEW s \in Stage
  PROVE  Adds(s) \subseteq Artifact /\ Traces(s) \subseteq TraceKey
  BY HandlerTable, StageRange DEF Artifact

-----------------------------------------------------------------------------
(* Operations on the inference context.                                    *)

\* A request starts from a well-formed context, as does having none.
LEMMA NewContextType ==
  ASSUME NEW r \in RequestIds \cup {NoRequest}
  PROVE  NewContext(r) \in Context
  BY DEF NewContext, Context

\* A stage is appended to a well-formed context (iec.with_stage).
LEMMA WithStageType ==
  ASSUME NEW c \in Context, NEW span \in Span
  PROVE  WithStage(c, span) \in Context
<1>1. c.stages \in Seq(Span)
  BY DEF Context
<1>2. Append(c.stages, span) \in Seq(Span)
  BY <1>1
<1> HIDE DEF Span
<1> QED
  BY <1>2 DEF WithStage, Context

\* An error keeps a context well-formed (iec.with_error).
LEMMA WithErrorType ==
  ASSUME NEW c \in Context
  PROVE  WithError(c) \in Context
  BY DEF WithError, Context

\* Handlers attach known warnings only.
LEMMA WarningsType ==
  ASSUME NEW s \in Stage, NEW c \in Context
  PROVE  MetricsWarnings(c) \subseteq Warning /\ WarningsOf(s, c) \subseteq SUBSET Warning
  BY DEF MetricsWarnings, WarningsOf, Warning

\* A successful handler keeps the context well-formed (iec.evolve).
LEMMA EnrichedType ==
  ASSUME NEW c \in Context, NEW s \in Stage, NEW w \in SUBSET Warning
  PROVE  Enriched(c, s, w) \in Context
<1>1. c.artifacts \cup Adds(s) \in SUBSET Artifact /\ c.trace \cup Traces(s) \in SUBSET TraceKey
  BY AddsType DEF Context
<1>2. c.warnings \cup w \in SUBSET Warning
  BY DEF Context
<1> QED
  BY <1>1, <1>2 DEF Enriched, Context

\* Metrics finalization on failure leaves a context of the same request.
LEMMA FinalizationsType ==
  ASSUME NEW c \in Context
  PROVE  Finalizations(c) \subseteq Context
<1>1. MetricsFinalization \in Stage
  BY StageRange DEF MetricsFinalization
<1> QED
  BY <1>1, WarningsType, EnrichedType DEF Finalizations

-----------------------------------------------------------------------------
(* Type correctness.                                                       *)

\* The ways a call can end are outcomes.
LEMMA OutcomeType ==
  /\ NoOutcome \in Outcome /\ Returned \in Outcome /\ Crashed \in Outcome
  /\ \A c \in {"RT-001", "RTS-001", "INF-111"} : Refused(c) \in Outcome
  BY DEF Outcome

\* The states that the actions name are states of the machine.
LEMMA StateType == RuntimeState # {} /\ {IDLE, LOADING, READY, COMPLETED, FAILED} \subseteq RuntimeState
  BY DEF RuntimeState

\* A request is opened within the bound of its session (next_request_id).
LEMMA StartsRequestType ==
  ASSUME NEW s \in SessionIds,
         NEW table \in SessionTable,
         table[s].count < MaxRequests,
         StartsRequest(s, table)
  PROVE  /\ sessions' \in SessionTable
         /\ iec' \in Context
         /\ guard' \in [active : BOOLEAN, breached : BOOLEAN]
         /\ pc' = "stage"
         /\ iec'.request = <<s, table[s].count + 1>>
         /\ iec'.request \in RequestIds
<1>1. table[s].count + 1 \in 1..MaxRequests
  BY RuntimeAssumption DEF SessionTable
<1>2. <<s, table[s].count + 1>> \in RequestIds
  BY <1>1 DEF RequestIds
<1>3. iec' \in Context /\ iec'.request = <<s, table[s].count + 1>>
  BY <1>2, NewContextType DEF StartsRequest, NewContext
<1>4. sessions' \in SessionTable
  BY <1>1, RuntimeAssumption DEF StartsRequest, SessionTable
<1>5. guard' \in [active : BOOLEAN, breached : BOOLEAN] /\ pc' = "stage"
  BY RuntimeAssumption DEF StartsRequest, GuardEntered
<1> QED
  BY <1>2, <1>3, <1>4, <1>5

\* Between its first line and its request, a question has room for one
Room ==
  /\ pc = "session" => call.kind = "ask"
  /\ pc \in {"loading", "session"} /\ call.kind = "ask" => CanAsk(call.given)

\* The loop of the pipeline has left its range only when no handler runs
AtStage == pc = "handler" => stage \in Stage

\* The context that ask() is working on belongs to a request
Working == {"stage", "handler", "raise", "exit", "record", "return"}
Identified == pc \in Working => iec.request \in RequestIds

TypeInv == TypeOK /\ Room /\ AtStage /\ Identified

\* A new process satisfies the type invariant.
LEMMA TypeInvInit == Init => TypeInv
<1> SUFFICES ASSUME Init PROVE TypeInv
  OBVIOUS
<1>1. NoContext \in Context
  BY NewContextType DEF NoContext
<1>2. NoCall \in Call
  BY DEF NoCall, Call
<1>3. stage \in 1..(LastStage + 1)
  BY StageRange DEF Init
<1>4. [s \in SessionIds |-> [status |-> "unborn", count |-> 0]] \in SessionTable
  BY RuntimeAssumption DEF SessionTable
<1>5. TypeOK
  <2>1. ControlType
    BY <1>2, <1>3, OutcomeType, StateType DEF Init, ControlType
  <2>2. RequestType
    BY <1>1 DEF Init, RequestType
  <2>3. StoreType
    BY <1>4 DEF Init, StoreType
  <2> QED
    BY <2>1, <2>2, <2>3 DEF TypeOK
<1>6. Room /\ AtStage /\ Identified
  BY DEF Init, Room, AtStage, Identified, Working
<1> QED
  BY <1>5, <1>6 DEF TypeInv

\* The beginning of a call keeps the types.
LEMMA TypeInvCalls ==
  ASSUME TypeInv, NEW c \in Calls,
         \/ CallSkipsLoad(c) \/ CallStartsLoad(c) \/ CallRefused(c)
  PROVE  TypeInv'
<1> USE DEF TypeInv, Begins, CallSkipsLoad, CallStartsLoad, CallRefused, store
<1>1. c \in Call /\ (c.kind = "ask" => CanAsk(c.given))
  BY DEF Calls
<1>2. SessionCreation \in 1..(LastStage + 1)
  BY StageRange
<1>3. ControlType'
  BY <1>1, <1>2, OutcomeType, StateType DEF TypeOK, ControlType
<1>4. RequestType'
  <2>1. iec' = NoContext /\ spans' = <<>> /\ guard' = guard
    OBVIOUS
  <2>2. NoContext \in Context
    BY NewContextType DEF NoContext
  <2> QED
    BY <2>1, <2>2 DEF TypeOK, RequestType
<1>5. StoreType'
  BY DEF TypeOK, StoreType
<1>6. Room'
  BY <1>1 DEF Room, CanAsk
<1>7. AtStage' /\ Identified'
  BY DEF AtStage, Identified, Working
<1> QED
  BY <1>3, <1>4, <1>5, <1>6, <1>7 DEF TypeOK

\* Loading the model keeps the types, whether it succeeds or not.
LEMMA TypeInvLoad ==
  ASSUME TypeInv, LoadSucceeds \/ LoadFails
  PROVE  TypeInv'
<1> USE DEF TypeInv, LoadSucceeds, LoadFails, Raises, Returns, local, store, memory
<1>1. ControlType'
  BY OutcomeType, StateType DEF TypeOK, ControlType
<1>2. RequestType'
  <2>1. iec' \in {iec, NoContext} /\ spans' = spans /\ guard' = guard
    OBVIOUS
  <2>2. NoContext \in Context
    BY NewContextType DEF NoContext
  <2> QED
    BY <2>1, <2>2 DEF TypeOK, RequestType
<1>3. StoreType'
  BY DEF TypeOK, StoreType
<1>4. Room'
  BY DEF Room, CanAsk
<1>5. AtStage' /\ Identified'
  BY DEF AtStage, Identified, Working
<1> QED
  BY <1>1, <1>2, <1>3, <1>4, <1>5 DEF TypeOK

\* A stage of the pipeline, entered, run or completed, keeps the types.
LEMMA TypeInvStage ==
  ASSUME TypeInv,
         \/ EnterStage \/ StageOutOfOrder \/ HandlerSucceeds \/ HandlerRefuses
         \/ HandlerRefusesUnheard \/ HandlerCrashes \/ PipelineCompletes
  PROVE  TypeInv'
<1> USE DEF TypeInv, memory, local, store
<1>1. pc \in {"stage", "handler"} /\ pc' \in {"stage", "handler", "exit", "raise"}
  BY DEF EnterStage, StageOutOfOrder, HandlerSucceeds, HandlerRefuses,
         HandlerRefusesUnheard, HandlerCrashes, PipelineCompletes
<1>2. StoreType'
  BY DEF TypeOK, StoreType, EnterStage, StageOutOfOrder, HandlerSucceeds,
         HandlerRefuses, HandlerRefusesUnheard, HandlerCrashes, PipelineCompletes
<1>3. Room' /\ Identified'
  <2>1. iec.request \in RequestIds
    BY <1>1 DEF Identified, Working
  <2>2. iec'.request = iec.request
    <3>1. iec \in Context
      BY DEF TypeOK, RequestType
    <3>2. HandlerSucceeds => iec'.request = iec.request
      BY <3>1 DEF HandlerSucceeds, WithStage, Enriched, Context
    <3>3. HandlerRefuses => iec'.request = iec.request
      BY <3>1 DEF HandlerRefuses, Finalizations, WithError, WithStage, Enriched, Context
    <3> QED
      BY <3>2, <3>3 DEF EnterStage, StageOutOfOrder, HandlerRefusesUnheard,
                        HandlerCrashes, PipelineCompletes
  <2> QED
    BY <1>1, <2>1, <2>2 DEF Room, Identified
<1>4. CASE EnterStage
  <2>1. machine' \in RuntimeState
    BY <1>4, TransitionType DEF EnterStage, TypeOK, ControlType
  <2>2. ControlType' /\ AtStage'
    BY <1>4, <2>1 DEF EnterStage, TypeOK, ControlType, AtStage
  <2>3. RequestType'
    BY <1>4 DEF EnterStage, TypeOK, RequestType
  <2> QED
    BY <1>2, <1>3, <2>2, <2>3 DEF TypeOK
<1>5. CASE StageOutOfOrder
  <2>1. ControlType' /\ AtStage'
    BY <1>5, OutcomeType DEF StageOutOfOrder, TypeOK, ControlType, AtStage
  <2>2. RequestType'
    BY <1>5 DEF StageOutOfOrder, TypeOK, RequestType
  <2> QED
    BY <1>2, <1>3, <2>1, <2>2 DEF TypeOK
<1>6. CASE HandlerSucceeds
  <2>1. stage \in Stage
    BY <1>6 DEF HandlerSucceeds, AtStage
  <2>2. ControlType' /\ AtStage'
    BY <1>6, <2>1, StageRange DEF HandlerSucceeds, TypeOK, ControlType, AtStage
  <2>3. [stage |-> stage, status |-> "completed", errors |-> 0] \in Span
    BY <2>1 DEF Span
  <2>4. iec' \in Context
    <3>1. PICK w \in WarningsOf(stage, iec) :
            iec' = WithStage(Enriched(iec, stage, w),
                             [stage |-> stage, status |-> "completed", errors |-> 0])
      BY <1>6 DEF HandlerSucceeds
    <3>2. Enriched(iec, stage, w) \in Context
      BY <2>1, WarningsType, EnrichedType DEF TypeOK, RequestType
    <3> QED
      BY <2>3, <3>1, <3>2, WithStageType
  <2>5. RequestType'
    BY <1>6, <2>3, <2>4 DEF HandlerSucceeds, TypeOK, RequestType
  <2> QED
    BY <1>2, <1>3, <2>2, <2>5 DEF TypeOK
<1>7. CASE HandlerRefuses
  <2>1. ControlType' /\ AtStage'
    BY <1>7, StateType DEF HandlerRefuses, TypeOK, ControlType, AtStage
  <2>2. FailedSpan \in Span
    BY <1>7 DEF HandlerRefuses, AtStage, FailedSpan, Span
  <2>3. iec' \in Context
    BY <1>7, <2>2, WithStageType, WithErrorType, FinalizationsType
    DEF HandlerRefuses, TypeOK, RequestType
  <2>4. RequestType'
    BY <1>7, <2>2, <2>3 DEF HandlerRefuses, TypeOK, RequestType
  <2> QED
    BY <1>2, <1>3, <2>1, <2>4 DEF TypeOK
<1>8. CASE HandlerRefusesUnheard \/ HandlerCrashes
  <2>1. ControlType' /\ AtStage'
    BY <1>8, OutcomeType
    DEF HandlerRefusesUnheard, HandlerCrashes, TypeOK, ControlType, AtStage
  <2>2. FailedSpan \in Span
    BY <1>8 DEF HandlerRefusesUnheard, HandlerCrashes, AtStage, FailedSpan, Span
  <2>3. iec' = iec /\ spans' = Append(spans, FailedSpan)
    BY <1>8 DEF HandlerRefusesUnheard, HandlerCrashes
  <2>4. guard' \in [active : BOOLEAN, breached : BOOLEAN]
    BY <1>8 DEF HandlerRefusesUnheard, HandlerCrashes, TypeOK, RequestType
  <2>5. RequestType'
    BY <2>2, <2>3, <2>4 DEF TypeOK, RequestType
  <2> QED
    BY <1>2, <1>3, <2>1, <2>5 DEF TypeOK
<1>9. CASE PipelineCompletes
  <2>1. ControlType' /\ AtStage'
    BY <1>9, StateType DEF PipelineCompletes, TypeOK, ControlType, AtStage
  <2>2. RequestType'
    BY <1>9 DEF PipelineCompletes, TypeOK, RequestType
  <2> QED
    BY <1>2, <1>3, <2>1, <2>2 DEF TypeOK
<1> QED
  BY <1>4, <1>5, <1>6, <1>7, <1>8, <1>9

\* Leaving the pipeline and returning to the caller keeps the types.
LEMMA TypeInvReturn ==
  ASSUME TypeInv,
         \/ Unwind \/ LeavePipeline \/ RecordMetrics \/ RecordFails
         \/ ReturnAnswer \/ ReturnPrepared \/ ReturnImpossible
  PROVE  TypeInv'
<1> USE DEF TypeInv, memory, local, store, Unwind, LeavePipeline, GuardLeft, RecordMetrics,
            RecordFails, ReturnAnswer, ReturnPrepared, ReturnImpossible, Raises, Returns
<1>1. ControlType'
  <2>1. stage' \in {stage, SessionCreation} /\ SessionCreation \in 1..(LastStage + 1)
    BY StageRange
  <2> QED
    BY <2>1, OutcomeType, StateType DEF TypeOK, ControlType
<1>2. Room' /\ AtStage' /\ Identified'
  BY DEF Room, AtStage, Identified, Working, TypeOK, RequestType, Context
<1>3. RequestType'
  <2>1. spans' \in {spans, <<>>} /\ guard' \in [active : BOOLEAN, breached : BOOLEAN]
    BY DEF TypeOK, RequestType
  <2>2. NoContext \in Context /\ iec \in Context
    BY NewContextType DEF NoContext, TypeOK, RequestType
  <2>3. [iec EXCEPT !.trace = @ \cup {"offline", "runtime"},
                    !.breaches = guard.breached] \in Context
    BY <2>2 DEF Context, TraceKey, TypeOK, RequestType
  <2>4. [iec EXCEPT !.dic = DicViolations(iec)] \in Context
    BY <2>2 DEF Context, DicViolations
  <2>5. iec' \in Context
    BY <2>2, <2>3, <2>4
  <2>6. spans' \in Seq(Span)
    <3>1. spans \in Seq(Span)
      BY DEF TypeOK, RequestType
    <3>2. <<>> \in Seq(Span)
      <4> HIDE DEF Span
      <4> QED
        OBVIOUS
    <3> QED
      BY <2>1, <3>1, <3>2, Zenon
  <2> QED
    BY <2>1, <2>5, <2>6 DEF RequestType
<1>4. StoreType'
  <2>1. CASE RecordMetrics
    <3>1. "metrics" \in iec.artifacts => iec.request \in RequestIds
      BY <2>1 DEF Identified, Working
    <3> QED
      BY <2>1, <3>1 DEF TypeOK, StoreType
  <2>2. CASE ~RecordMetrics
    BY <2>2 DEF TypeOK, StoreType
  <2> QED
    BY <2>1, <2>2
<1> QED
  BY <1>1, <1>2, <1>3, <1>4 DEF TypeOK

\* Closing a session keeps the table of sessions one.
LEMMA ClosedInType ==
  ASSUME NEW table \in SessionTable, NEW s \in SessionIds
  PROVE  ClosedIn(table, s) \in SessionTable
<1>1. [table[s] EXCEPT !.status = "closed"]
        \in [status : {"unborn", "open", "closed", "gone"}, count : 0..MaxRequests]
  BY DEF SessionTable
<1> QED
  BY <1>1 DEF ClosedIn, SessionTable

\* Opening, choosing and closing sessions keeps the types.
LEMMA TypeInvSessions ==
  ASSUME TypeInv,
         \/ AskInSession
         \/ \E s \in SessionIds : AskInNewSession(s) \/ AskCannotOpen(s)
         \/ \E s \in SessionIds : OpenSession(s) \/ CloseSession(s)
  PROVE  TypeInv'
<1> USE DEF TypeInv, memory, local, store
<1>1. \A s \in SessionIds : Created(s) \in SessionTable /\ Created(s)[s].count = 0
  BY RuntimeAssumption DEF Created, SessionTable, TypeOK, StoreType
<1>2. CASE AskInSession
  <2>1. PICK s \in SessionIds : sessions[s].count < MaxRequests /\ StartsRequest(s, sessions)
    BY <1>2, RuntimeAssumption
    DEF AskInSession, Room, CanAsk, TypeOK, StoreType, ControlType, Call
  <2>2. /\ sessions' \in SessionTable /\ iec' \in Context
        /\ guard' \in [active : BOOLEAN, breached : BOOLEAN]
        /\ pc' = "stage" /\ iec'.request \in RequestIds
    BY <2>1, StartsRequestType DEF TypeOK, StoreType
  <2>3. ControlType' /\ Room' /\ AtStage' /\ Identified'
    BY <2>1, <2>2 DEF StartsRequest, TypeOK, ControlType, Room, AtStage, Identified
  <2>4. RequestType'
    BY <2>1, <2>2 DEF StartsRequest, TypeOK, RequestType
  <2>5. StoreType'
    BY <1>2, <2>1, <2>2 DEF AskInSession, StartsRequest, TypeOK, StoreType
  <2> QED
    BY <2>3, <2>4, <2>5 DEF TypeOK
<1>3. ASSUME NEW s \in SessionIds, AskInNewSession(s) PROVE TypeInv'
  <2>1. StartsRequest(s, Created(s)) /\ 0 < MaxRequests
    BY <1>3, RuntimeAssumption DEF AskInNewSession, Room, CanAsk
  <2>2. /\ sessions' \in SessionTable /\ iec' \in Context
        /\ guard' \in [active : BOOLEAN, breached : BOOLEAN]
        /\ pc' = "stage" /\ iec'.request \in RequestIds
    BY <1>1, <2>1, StartsRequestType
  <2>3. ControlType' /\ Room' /\ AtStage' /\ Identified'
    BY <2>1, <2>2 DEF StartsRequest, TypeOK, ControlType, Room, AtStage, Identified
  <2>4. RequestType'
    BY <2>1, <2>2 DEF StartsRequest, TypeOK, RequestType
  <2>5. StoreType'
    BY <1>3, <2>1, <2>2 DEF AskInNewSession, StartsRequest, TypeOK, StoreType
  <2> QED
    BY <2>3, <2>4, <2>5 DEF TypeOK
<1>4. ASSUME NEW s \in SessionIds, AskCannotOpen(s) PROVE TypeInv'
  <2>1. ControlType' /\ Room' /\ AtStage' /\ Identified'
    BY <1>4, OutcomeType
    DEF AskCannotOpen, Raises, TypeOK, ControlType, Room, AtStage, Identified, Working
  <2>2. RequestType'
    BY <1>4, NewContextType DEF AskCannotOpen, Raises, NoContext, TypeOK, RequestType
  <2>3. StoreType'
    BY <1>1, <1>4 DEF AskCannotOpen, TypeOK, StoreType
  <2> QED
    BY <2>1, <2>2, <2>3 DEF TypeOK
<1>5. ASSUME NEW s \in SessionIds, OpenSession(s) \/ CloseSession(s) PROVE TypeInv'
  <2>1. pc = "idle" /\ UNCHANGED <<machine, loaded, guard, pc, call, local, metricsRows,
                                   hasUnits, outcome>>
    BY <1>5 DEF OpenSession, CloseSession
  <2>2. ControlType' /\ RequestType' /\ Room' /\ AtStage' /\ Identified'
    BY <2>1 DEF TypeOK, ControlType, RequestType, Room, AtStage, Identified, Working
  <2>3. sessions' \in SessionTable
    BY <1>1, <1>5, ClosedInType DEF OpenSession, CloseSession, TypeOK, StoreType
  <2>4. rows' \in [SessionIds -> {"absent", "open", "closed"}]
    BY <1>5 DEF OpenSession, CloseSession, TypeOK, StoreType
  <2>5. StoreType'
    BY <1>5, <2>1, <2>3, <2>4 DEF OpenSession, CloseSession, TypeOK, StoreType
  <2> QED
    BY <2>2, <2>5 DEF TypeOK
<1> QED
  BY <1>2, <1>3, <1>4, <1>5

\* Everything else that can happen keeps the types.
LEMMA TypeInvOthers ==
  ASSUME TypeInv, AskBlank \/ CorpusChanges \/ ForceColdStart \/ Close \/ Restart
  PROVE  TypeInv'
<1> USE DEF TypeInv, memory, local, store
<1>1. NoContext \in Context /\ NoCall \in Call /\ SessionCreation \in 1..(LastStage + 1)
  BY NewContextType, StageRange DEF NoContext, NoCall, Call
<1>2. ControlType'
  BY <1>1, OutcomeType, StateType
  DEF AskBlank, CorpusChanges, ForceColdStart, Close, Restart, TypeOK, ControlType
<1>3. RequestType'
  <2>1. iec' \in {iec, NoContext} /\ spans' \in {spans, <<>>}
    BY DEF AskBlank, CorpusChanges, ForceColdStart, Close, Restart
  <2>2. guard' \in {guard, [active |-> FALSE, breached |-> FALSE]}
    BY DEF AskBlank, CorpusChanges, ForceColdStart, Close, Restart
  <2>3. RequestType /\ <<>> \in Seq(Span)
    BY DEF TypeOK
  <2>4. [active |-> FALSE, breached |-> FALSE] \in [active : BOOLEAN, breached : BOOLEAN]
    OBVIOUS
  <2> HIDE DEF TypeInv
  <2> QED
    BY <1>1, <2>1, <2>2, <2>3, <2>4, Zenon DEF RequestType
<1>4. StoreType'
  <2>1. \A table \in SessionTable, s \in SessionIds, b \in {"closed", "gone"} :
          [table[s] EXCEPT !.status = b]
            \in [status : {"unborn", "open", "closed", "gone"}, count : 0..MaxRequests]
    BY DEF SessionTable
  <2>2. sessions' \in SessionTable
    <3>1. CASE Close
      <4>1. CurrentClosed \in SessionTable
        BY ClosedInType DEF CurrentClosed, TypeOK, StoreType
      <4> QED
        BY <2>1, <3>1, <4>1 DEF Close, SessionTable
    <3>2. CASE Restart
      BY <2>1, <3>2 DEF Restart, SessionTable, TypeOK, StoreType
    <3>3. CASE AskBlank \/ CorpusChanges \/ ForceColdStart
      BY <3>3 DEF AskBlank, CorpusChanges, ForceColdStart, TypeOK, StoreType
    <3> QED
      BY <3>1, <3>2, <3>3
  <2>3. rows' \in [SessionIds -> {"absent", "open", "closed"}]
    BY DEF AskBlank, CorpusChanges, ForceColdStart, Close, Restart, TypeOK, StoreType
  <2>4. /\ current' \in SessionIds \cup {NoSession}
        /\ metricsRows' = metricsRows
        /\ hasUnits' \in BOOLEAN
    BY DEF AskBlank, CorpusChanges, ForceColdStart, Close, Restart, TypeOK, StoreType
  <2> QED
    BY <2>2, <2>3, <2>4 DEF TypeOK, StoreType
<1>5. Room' /\ AtStage' /\ Identified'
  BY DEF AskBlank, CorpusChanges, ForceColdStart, Close, Restart, Room, AtStage,
         Identified, Working
<1> QED
  BY <1>2, <1>3, <1>4, <1>5 DEF TypeOK

\* Every step of the specification keeps the types.
LEMMA TypeInvNext == TypeInv /\ [Next]_vars => TypeInv'
<1> SUFFICES ASSUME TypeInv, [Next]_vars PROVE TypeInv'
  OBVIOUS
<1>1. CASE Progress
  BY <1>1, TypeInvLoad, TypeInvStage, TypeInvReturn, TypeInvSessions DEF Progress
<1>2. CASE Environment
  BY <1>2, TypeInvCalls, TypeInvSessions, TypeInvOthers DEF Environment
<1>3. CASE UNCHANGED vars
  BY <1>3 DEF vars, TypeInv, TypeOK, ControlType, RequestType, StoreType, Room,
              CanAsk, AtStage, Identified
<1> QED
  BY <1>1, <1>2, <1>3 DEF Next

\* The variables keep their types, a handler only runs for one of the ten
\* stages, and the context that ask() works on belongs to a request.
THEOREM TypeCorrect == Spec => []TypeInv
BY TypeInvInit, TypeInvNext, PTL DEF Spec

\* In particular the type invariant that the runs check.
THEOREM TypesHold == Spec => []TypeOK
<1>1. TypeInv => TypeOK
  BY DEF TypeInv
<1> QED
  BY <1>1, TypeCorrect, PTL

-----------------------------------------------------------------------------
(* The offline guard and the readiness of the runtime.                     *)

\* Every step keeps the guard where the pipeline is.
LEMMA GuardScopeNext == TypeInv /\ GuardScope /\ [Next]_vars => GuardScope'
<1> SUFFICES ASSUME TypeInv, GuardScope, [Next]_vars PROVE GuardScope'
  OBVIOUS
<1> USE RuntimeAssumption DEF GuardScope, memory, local, store
<1>1. guard \in [active : BOOLEAN, breached : BOOLEAN]
  BY DEF TypeInv, TypeOK, RequestType
<1>2. CASE LoadSucceeds \/ LoadFails
  BY <1>2 DEF LoadSucceeds, LoadFails, Raises, Returns
<1>3. CASE AskInSession \/ \E s \in SessionIds : AskInNewSession(s) \/ AskCannotOpen(s)
  <2>1. \/ pc' = "stage" /\ guard' = [active |-> EnforceOffline, breached |-> FALSE]
        \/ pc = "session" /\ pc' = "idle" /\ guard' = guard
    BY <1>3 DEF AskInSession, AskInNewSession, AskCannotOpen, StartsRequest, GuardEntered, Raises
  <2> QED
    BY <2>1
<1>4. CASE \/ EnterStage \/ StageOutOfOrder \/ HandlerSucceeds \/ HandlerRefuses
           \/ HandlerRefusesUnheard \/ PipelineCompletes
  BY <1>4 DEF EnterStage, StageOutOfOrder, HandlerSucceeds, HandlerRefuses,
              HandlerRefusesUnheard, PipelineCompletes
<1>5. CASE HandlerCrashes
  BY <1>1, <1>5 DEF HandlerCrashes
<1>6. CASE Unwind \/ LeavePipeline
  <2>1. pc' \in {"idle", "record"} /\ guard' = [guard EXCEPT !.active = FALSE]
    BY <1>6 DEF Unwind, LeavePipeline, GuardLeft
  <2>2. ~guard'.active
    BY <1>1, <2>1
  <2> QED
    BY <2>1, <2>2
<1>7. CASE \/ RecordMetrics \/ RecordFails \/ ReturnAnswer \/ ReturnPrepared
           \/ ReturnImpossible
  BY <1>7 DEF RecordMetrics, RecordFails, ReturnAnswer, ReturnPrepared,
              ReturnImpossible, Raises, Returns
<1>8. CASE \E c \in Calls : CallSkipsLoad(c) \/ CallStartsLoad(c) \/ CallRefused(c)
  BY <1>8 DEF CallSkipsLoad, CallStartsLoad, CallRefused, Begins
<1>9. CASE \E s \in SessionIds : OpenSession(s) \/ CloseSession(s)
  BY <1>9 DEF OpenSession, CloseSession
<1>10. CASE AskBlank \/ CorpusChanges \/ ForceColdStart \/ Close \/ Restart
  BY <1>10 DEF AskBlank, CorpusChanges, ForceColdStart, Close, Restart
<1>11. CASE UNCHANGED vars
  BY <1>11 DEF vars
<1> QED
  BY <1>2, <1>3, <1>4, <1>5, <1>6, <1>7, <1>8, <1>9, <1>10, <1>11
  DEF Next, Progress, Environment

\* The socket module is patched exactly while the pipeline runs, whichever way
\* the pipeline is left (OfflineGuard.__exit__).
THEOREM GuardIsScoped == Spec => []GuardScope
<1>1. Init => GuardScope
  BY DEF Init, GuardScope
<1> QED
  BY <1>1, GuardScopeNext, TypeCorrect, PTL DEF Spec

\* A request that has left the pipeline, and was not asked to stop on the way,
\* has ended in one of the two final states.
Concluded ==
  pc \in {"exit", "record", "return"} /\ call.stop = NoStop =>
    machine \in {COMPLETED, FAILED}

\* An exception on its way out has replaced the outcome already
Raising == pc = "raise" => outcome # Returned

ReadyInv == ReturnedMeansReady /\ Concluded /\ Raising

\* Every step keeps what a returned context promises about the machine.
LEMMA ReadyInvNext == TypeInv /\ ReadyInv /\ [Next]_vars => ReadyInv'
<1> SUFFICES ASSUME TypeInv, ReadyInv, [Next]_vars PROVE ReadyInv'
  OBVIOUS
<1> USE DEF ReadyInv, ReturnedMeansReady, Concluded, Raising, memory, local, store
<1>1. Returned # Crashed /\ Returned # NoOutcome /\ \A c : Returned # Refused(c)
  BY DEF Returned, Crashed, NoOutcome, Refused
<1>2. CASE LoadSucceeds \/ LoadFails
  BY <1>1, <1>2 DEF LoadSucceeds, LoadFails, Raises, Returns
<1>3. CASE AskInSession \/ \E s \in SessionIds : AskInNewSession(s) \/ AskCannotOpen(s)
  BY <1>1, <1>3 DEF AskInSession, AskInNewSession, AskCannotOpen, StartsRequest, Raises
<1>4. CASE EnterStage \/ StageOutOfOrder \/ HandlerRefusesUnheard \/ HandlerCrashes
  BY <1>1, <1>4 DEF EnterStage, StageOutOfOrder, HandlerRefusesUnheard, HandlerCrashes
<1>5. CASE HandlerSucceeds
  <2>1. stage # NoStop
    BY <1>5, StageRange DEF HandlerSucceeds, TypeInv, AtStage, NoStop
  <2> QED
    BY <1>5, <2>1 DEF HandlerSucceeds
<1>6. CASE HandlerRefuses \/ PipelineCompletes
  BY <1>6 DEF HandlerRefuses, PipelineCompletes
<1>7. CASE Unwind \/ LeavePipeline
  BY <1>7 DEF Unwind, LeavePipeline
<1>8. CASE RecordMetrics \/ RecordFails \/ ReturnPrepared \/ ReturnImpossible
  BY <1>1, <1>8 DEF RecordMetrics, RecordFails, ReturnPrepared, ReturnImpossible,
                    Raises, Returns
<1>9. CASE ReturnAnswer
  BY <1>9 DEF ReturnAnswer, Returns
<1>10. CASE \E c \in Calls : CallSkipsLoad(c) \/ CallStartsLoad(c) \/ CallRefused(c)
  BY <1>1, <1>10 DEF CallSkipsLoad, CallStartsLoad, CallRefused, Begins
<1>11. CASE \E s \in SessionIds : OpenSession(s) \/ CloseSession(s)
  BY <1>11 DEF OpenSession, CloseSession
<1>12. CASE AskBlank \/ CorpusChanges \/ ForceColdStart \/ Close \/ Restart
  BY <1>1, <1>12 DEF AskBlank, CorpusChanges, ForceColdStart, Close, Restart
<1>13. CASE UNCHANGED vars
  BY <1>13 DEF vars
<1> QED
  BY <1>2, <1>3, <1>4, <1>5, <1>6, <1>7, <1>8, <1>9, <1>10, <1>11, <1>12, <1>13
  DEF Next, Progress, Environment

\* Whoever got a context back may ask again: the runtime is READY
\* (LeanLMRuntime.ask, runtime.py:269-284).
THEOREM ReturnedIsReady == Spec => []ReturnedMeansReady
<1>1. Init => ReadyInv
  BY DEF Init, ReadyInv, ReturnedMeansReady, Concluded, Raising, Returned, NoOutcome
<1>2. ReadyInv => ReturnedMeansReady
  BY DEF ReadyInv
<1> QED
  BY <1>1, <1>2, ReadyInvNext, TypeCorrect, PTL DEF Spec

-----------------------------------------------------------------------------
(* The pipeline: order, preconditions, transparency of failures.           *)

\* Every stage reported is the one its position calls for, and completed
Completed(stages) ==
  \A i \in DOMAIN stages : stages[i] = [stage |-> i, status |-> "completed", errors |-> 0]

\* A context reports what the telemetry recorded, and an error exactly when a
\* span failed
Transparent(c) ==
  /\ c.stages = spans
  /\ \A i \in DOMAIN spans : spans[i].status = "failed" => spans[i].errors = 1
  /\ c.errors = 1 <=> \E i \in DOMAIN spans : spans[i].status = "failed"

\* Before its request exists, a call has no context, no stage and no span
Fresh ==
  pc \in {"loading", "session"} =>
    iec = NoContext /\ stage = SessionCreation /\ spans = <<>>

\* While the pipeline runs, all stages before the present one have completed
\* and left behind what they add
UnderWay ==
  pc \in {"stage", "handler"} =>
    /\ Len(iec.stages) = stage - 1
    /\ Completed(iec.stages)
    /\ iec.stages = spans
    /\ iec.errors = 0
    /\ \A s \in Stage : s < stage => Adds(s) \subseteq iec.artifacts

\* Behind the pipeline, and in the caller's hands
Done ==
  pc \in {"exit", "record", "return"} \/ Answered => Transparent(iec)

PipelineInv == StagesInOrder /\ Fresh /\ UnderWay /\ Done

\* What CAP-003 to CAP-006 demand was added by earlier stages
LEMMA NeedsMet ==
  ASSUME NEW s \in Stage,
         NEW parts, \A t \in Stage : t < s => Adds(t) \subseteq parts
  PROVE  Needs(s) \subseteq parts
<1>1. {3, 4, 6, 7} \subseteq Stage
  BY StageRange
<1>2. /\ Adds(3) = {"context_package"} /\ Adds(4) = {"optimized_context"}
      /\ Adds(6) = {"prompt"} /\ Adds(7) = {"response"}
  BY <1>1, HandlerTable
<1>3. CASE s = 4
  BY <1>1, <1>2, <1>3, HandlerTable
<1>4. CASE s = 5
  BY <1>1, <1>2, <1>4, HandlerTable
<1>5. CASE s = 7
  BY <1>1, <1>2, <1>5, HandlerTable
<1>6. CASE s = 8
  BY <1>1, <1>2, <1>6, HandlerTable
<1>7. CASE s \notin {4, 5, 7, 8}
  BY <1>7, HandlerTable
<1> QED
  BY <1>3, <1>4, <1>5, <1>6, <1>7

\* A completed stage appended to completed stages
LEMMA CompletedAppend ==
  ASSUME NEW stages \in Seq(Span), Completed(stages), NEW s \in Stage,
         Len(stages) = s - 1
  PROVE  LET more == Append(stages, [stage |-> s, status |-> "completed", errors |-> 0])
         IN  /\ Len(more) = s
             /\ Completed(more)
<1> DEFINE more == Append(stages, [stage |-> s, status |-> "completed", errors |-> 0])
<1>1. Len(more) = s /\ DOMAIN more = 1..s
  BY StageRange
<1>2. \A i \in 1..s : more[i] = [stage |-> i, status |-> "completed", errors |-> 0]
  BY StageRange DEF Completed
<1> QED
  BY <1>1, <1>2 DEF Completed

\* Reported stages that completed are in order and show no failure
LEMMA CompletedFacts ==
  ASSUME NEW stages, Completed(stages)
  PROVE  /\ \A i \in DOMAIN stages :
              stages[i].stage = i /\ stages[i].status # "failed"
  BY DEF Completed

\* A stage that completes is reported next, with its parts in the context.
LEMMA HandlerSucceedsPipeline ==
  ASSUME TypeInv, PipelineInv, HandlerSucceeds
  PROVE  PipelineInv'
<1> DEFINE span == [stage |-> stage, status |-> "completed", errors |-> 0]
<1> USE DEF PipelineInv
<1>1. pc = "handler" /\ stage \in Stage /\ iec \in Context
  BY DEF HandlerSucceeds, TypeInv, AtStage, TypeOK, RequestType
<1>2. PICK w \in WarningsOf(stage, iec) : iec' = WithStage(Enriched(iec, stage, w), span)
  BY DEF HandlerSucceeds
<1>3. /\ iec'.stages = Append(iec.stages, span)
      /\ iec'.errors = 0
      /\ iec'.artifacts = iec.artifacts \cup Adds(stage)
  BY <1>1, <1>2 DEF WithStage, Enriched, Context, UnderWay
<1>4. Len(iec'.stages) = stage /\ Completed(iec'.stages)
  BY <1>1, <1>3, CompletedAppend DEF UnderWay, Context
<1>5. iec'.stages = spans'
  BY <1>1, <1>3 DEF UnderWay, HandlerSucceeds
<1>6. StagesInOrder'
  BY <1>4, CompletedFacts DEF StagesInOrder
<1>7. Transparent(iec)'
  <2>1. \A i \in DOMAIN iec'.stages : iec'.stages[i].status # "failed"
    BY <1>4, CompletedFacts
  <2>2. ~\E i \in DOMAIN spans' : spans'[i].status = "failed"
    BY <1>5, <2>1
  <2> QED
    BY <1>3, <1>5, <2>1, <2>2 DEF Transparent
<1>8. UnderWay'
  <2>1. pc' = "stage" => stage' = stage + 1
    BY DEF HandlerSucceeds
  <2>2. \A s \in Stage : s < stage + 1 => Adds(s) \subseteq iec'.artifacts
    BY <1>1, <1>3, StageRange DEF UnderWay
  <2>3. pc' \in {"stage", "exit"}
    BY DEF HandlerSucceeds
  <2>4. pc' = "stage" => Len(iec'.stages) = stage' - 1
    BY <1>1, <1>4, <2>1, StageRange
  <2>5. pc' = "stage" => \A s \in Stage : s < stage' => Adds(s) \subseteq iec'.artifacts
    BY <2>1, <2>2
  <2> HIDE DEF PipelineInv
  <2> QED
    BY <1>3, <1>4, <1>5, <2>3, <2>4, <2>5 DEF UnderWay
<1>9. Fresh' /\ Done'
  BY <1>7 DEF Fresh, Done, HandlerSucceeds, Answered
<1> QED
  BY <1>6, <1>8, <1>9

\* A step that drops the context, or has none yet
LEMMA ForgottenPipeline ==
  ASSUME iec' = NoContext,
         pc' \notin {"stage", "handler", "exit", "record", "return"},
         pc' \in {"loading", "session"} => stage' = SessionCreation /\ spans' = <<>>
  PROVE  PipelineInv'
<1>1. iec'.stages = <<>> /\ iec'.request = NoRequest
  BY DEF NoContext, NewContext
<1>2. StagesInOrder'
  BY <1>1 DEF StagesInOrder
<1>3. Fresh' /\ UnderWay' /\ Done'
  BY <1>1 DEF Fresh, UnderWay, Done, Answered
<1> QED
  BY <1>2, <1>3 DEF PipelineInv

\* A stage that fails is reported last, with an error
LEMMA HandlerRefusesPipeline ==
  ASSUME TypeInv, PipelineInv, HandlerRefuses
  PROVE  PipelineInv'
<1>1. /\ pc = "handler" /\ pc' = "exit" /\ stage \in Stage /\ iec \in Context
      /\ spans' = Append(spans, FailedSpan)
  BY DEF HandlerRefuses, TypeInv, AtStage, TypeOK, RequestType
<1>2. iec'.stages = Append(iec.stages, FailedSpan) /\ iec'.errors = 1
  BY <1>1 DEF HandlerRefuses, Finalizations, Enriched, WithError, WithStage, Context
<1>3. /\ iec.stages \in Seq(Span) /\ Len(iec.stages) = stage - 1
      /\ Completed(iec.stages) /\ iec.stages = spans
  BY <1>1 DEF PipelineInv, UnderWay, Context
<1>4. /\ Len(iec'.stages) = stage /\ DOMAIN iec'.stages = 1..stage
      /\ iec'.stages[stage] = FailedSpan
      /\ \A i \in 1..(stage - 1) : iec'.stages[i] = iec.stages[i]
  BY <1>1, <1>2, <1>3, StageRange
<1>5. StagesInOrder'
  <2> SUFFICES ASSUME NEW i \in 1..stage
               PROVE  /\ iec'.stages[i].stage = i
                      /\ iec'.stages[i].status = "failed" => i = stage
    BY <1>4 DEF StagesInOrder
  <2>1. CASE i = stage
    BY <1>4, <2>1 DEF FailedSpan
  <2>2. CASE i # stage
    <3>1. i \in DOMAIN iec.stages /\ iec'.stages[i] = iec.stages[i]
      BY <1>1, <1>3, <1>4, <2>2, StageRange
    <3> QED
      BY <1>3, <3>1, CompletedFacts
  <2> QED
    BY <2>1, <2>2
<1>6. Transparent(iec)'
  <2>1. spans' = iec'.stages
    BY <1>1, <1>2, <1>3
  <2>2. stage \in DOMAIN spans' /\ spans'[stage].status = "failed"
    BY <1>1, <1>4, <2>1, StageRange DEF FailedSpan
  <2>3. ASSUME NEW i \in DOMAIN spans', spans'[i].status = "failed"
        PROVE  spans'[i].errors = 1
    <3>1. i = stage
      BY <1>4, <1>5, <2>1, <2>3 DEF StagesInOrder
    <3> QED
      BY <1>4, <2>1, <3>1 DEF FailedSpan
  <2> QED
    BY <1>2, <2>1, <2>2, <2>3 DEF Transparent
<1> QED
  BY <1>1, <1>5, <1>6 DEF PipelineInv, Fresh, UnderWay, Done

\* A request starts with nothing reported
LEMMA StartsRequestPipeline ==
  ASSUME PipelineInv, pc = "session", NEW s, NEW table, StartsRequest(s, table)
  PROVE  PipelineInv'
<1>1. /\ pc' = "stage" /\ iec'.stages = <<>> /\ iec'.errors = 0
      /\ stage' = 1 /\ spans' = <<>>
  BY StageRange DEF StartsRequest, NewContext, PipelineInv, Fresh
<1>2. StagesInOrder' /\ Completed(iec'.stages)
  BY <1>1 DEF StagesInOrder, Completed
<1>3. \A t \in Stage : ~(t < 1)
  BY StageRange
<1>4. UnderWay'
  BY <1>1, <1>2, <1>3 DEF UnderWay
<1> QED
  BY <1>1, <1>2, <1>4 DEF PipelineInv, Fresh, Done, Answered

\* Steps that leave the report alone: behind the pipeline it stays what it was
LEMMA SamePipeline ==
  ASSUME TypeInv, PipelineInv,
         iec'.stages = iec.stages, iec'.errors = iec.errors, spans' = spans,
         pc \in {"stage", "handler", "exit", "record", "return"},
         pc' \in {"raise", "exit", "record", "return", "idle"},
         pc' = "idle" => pc = "return"
  PROVE  PipelineInv'
<1>1. StagesInOrder'
  BY DEF PipelineInv, StagesInOrder
<1>2. Transparent(iec)
  <2>1. CASE pc \in {"stage", "handler"}
    BY <2>1, CompletedFacts DEF PipelineInv, UnderWay, Transparent
  <2>2. CASE pc \in {"exit", "record", "return"}
    BY <2>2 DEF PipelineInv, Done
  <2> QED
    BY <2>1, <2>2
<1>3. Transparent(iec)'
  BY <1>2 DEF Transparent
<1> QED
  BY <1>1, <1>3 DEF PipelineInv, Fresh, UnderWay, Done

\* Every step keeps the pipeline invariant.
LEMMA PipelineInvNext == TypeInv /\ PipelineInv /\ [Next]_vars => PipelineInv'
<1> SUFFICES ASSUME TypeInv, PipelineInv, [Next]_vars PROVE PipelineInv'
  OBVIOUS
<1> USE DEF memory, local, store
<1>1. iec \in Context
  BY DEF TypeInv, TypeOK, RequestType
<1>2. CASE LoadSucceeds \/ LoadFails
  <2>1. iec' = NoContext /\ stage' = SessionCreation /\ spans' = <<>>
    BY <1>2 DEF LoadSucceeds, LoadFails, Raises, PipelineInv, Fresh
  <2>2. pc' \in {"idle", "session"}
    BY <1>2 DEF LoadSucceeds, LoadFails, Raises, Returns
  <2> QED
    BY <2>1, <2>2, ForgottenPipeline
<1>3. CASE AskInSession \/ \E s \in SessionIds : AskInNewSession(s)
  BY <1>3, StartsRequestPipeline DEF AskInSession, AskInNewSession
<1>4. CASE \E s \in SessionIds : AskCannotOpen(s)
  BY <1>4, ForgottenPipeline DEF AskCannotOpen, Raises
<1>5. CASE EnterStage
  BY <1>5 DEF EnterStage, PipelineInv, StagesInOrder, Fresh, UnderWay, Done, Answered
<1>6. CASE HandlerSucceeds
  BY <1>6, HandlerSucceedsPipeline
<1>7. CASE HandlerRefuses
  BY <1>7, HandlerRefusesPipeline
<1>8. CASE HandlerRefusesUnheard \/ HandlerCrashes
  BY <1>8 DEF HandlerRefusesUnheard, HandlerCrashes, PipelineInv, StagesInOrder, Fresh,
              UnderWay, Done, Answered
<1>9. CASE StageOutOfOrder \/ PipelineCompletes \/ RecordMetrics \/ ReturnPrepared
  BY <1>9, SamePipeline
  DEF StageOutOfOrder, PipelineCompletes, RecordMetrics, ReturnPrepared, Returns
<1>10. CASE LeavePipeline \/ ReturnAnswer
  <2>1. iec'.stages = iec.stages /\ iec'.errors = iec.errors
    BY <1>1, <1>10 DEF LeavePipeline, ReturnAnswer, Context
  <2> QED
    BY <1>10, <2>1, SamePipeline DEF LeavePipeline, ReturnAnswer, Returns
<1>11. CASE Unwind \/ RecordFails \/ ReturnImpossible \/ AskBlank \/ Restart
  BY <1>11, ForgottenPipeline
  DEF Unwind, RecordFails, ReturnImpossible, AskBlank, Restart, Raises
<1>12. CASE \E c \in Calls : CallSkipsLoad(c) \/ CallStartsLoad(c) \/ CallRefused(c)
  BY <1>12, ForgottenPipeline DEF CallSkipsLoad, CallStartsLoad, CallRefused, Begins
<1>13. CASE \/ \E s \in SessionIds : OpenSession(s) \/ CloseSession(s)
            \/ CorpusChanges \/ ForceColdStart \/ Close \/ UNCHANGED vars
  <2>1. UNCHANGED <<stage, iec, spans, outcome>> /\ (pc' = pc \/ pc' = "closed")
    BY <1>13 DEF OpenSession, CloseSession, CorpusChanges, ForceColdStart, Close, vars
  <2> QED
    BY <2>1 DEF PipelineInv, StagesInOrder, Fresh, UnderWay, Done, Answered, Transparent
<1> QED
  BY <1>2, <1>3, <1>4, <1>5, <1>6, <1>7, <1>8, <1>9, <1>10, <1>11, <1>12, <1>13
  DEF Next, Progress, Environment

\* From the start, and for ever.
LEMMA PipelineCorrect == Spec => []PipelineInv
<1>1. Init => PipelineInv
  <2> SUFFICES ASSUME Init PROVE PipelineInv
    OBVIOUS
  <2>1. iec.stages = <<>> /\ iec.request = NoRequest /\ pc = "idle"
    BY DEF Init, NoContext, NewContext
  <2> QED
    BY <2>1 DEF PipelineInv, StagesInOrder, Fresh, UnderWay, Done, Answered
<1> QED
  BY <1>1, PipelineInvNext, TypeCorrect, PTL DEF Spec

\* DIC-01 at every step: the stages of a context are a prefix of STAGE_ORDER,
\* and only the last can have failed, whatever earlier requests left behind
\* (InferencePipeline.run).
THEOREM StagesRunInOrder == Spec => []StagesInOrder
<1>1. PipelineInv => StagesInOrder
  BY DEF PipelineInv
<1> QED
  BY <1>1, PipelineCorrect, PTL

\* No capability is ever called without what it demands: CTX-001, RET-001,
\* INF-001 and VAL-001 cannot be raised (Capability.check_preconditions).
THEOREM PreconditionsAreMet == Spec => []PreconditionsHold
<1>1. TypeInv /\ PipelineInv => PreconditionsHold
  BY NeedsMet DEF TypeInv, AtStage, PipelineInv, UnderWay, PreconditionsHold
<1> QED
  BY <1>1, TypeCorrect, PipelineCorrect, PTL

\* DIC-07: a context that is returned reports every span the telemetry has
\* recorded, and an error exactly when one of them failed (ask, Telemetry.span).
THEOREM FailuresAreTransparent == Spec => []FailureTransparent
<1>1. PipelineInv => FailureTransparent
  BY DEF PipelineInv, Done, Transparent, FailureTransparent
<1> QED
  BY <1>1, PipelineCorrect, PTL
=============================================================================
