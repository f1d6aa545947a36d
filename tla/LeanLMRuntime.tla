--------------------------- MODULE LeanLMRuntime ---------------------------
(***************************************************************************)
(* One LeanLM runtime (runtime/runtime.py) and the inference pipeline it   *)
(* drives (runtime/pipeline.py): loading the model, sessions, ask() from   *)
(* its first line to its return or its exception, the offline guard, and   *)
(* what reaches the SQLite store that outlives the process.                *)
(*                                                                         *)
(* A runtime executes one call at a time: its callers are sequential or    *)
(* hold the workspace lock.  A call is several steps because each of its   *)
(* steps can fail on its own, and what a failure leaves behind is what the *)
(* next call starts from.  Two kinds of failure are kept apart, as the     *)
(* pipeline keeps them apart: a LeanLMError raised by a handler becomes a  *)
(* FAILED request that is returned to the caller; any other exception      *)
(* leaves the pipeline, and ask(), at once.                                *)
(***************************************************************************)
EXTENDS PipelineStages, Sequences

CONSTANTS
  SessionIds,      \* identifiers session_id() may hand out; never reused
  NoSession,       \* None
  MaxRequests,     \* bound on the requests of one session
  StopStages,      \* the values a caller may pass as stop_after
  Faults,          \* the failures of the environment, see FaultKind
  EnforceOffline,  \* profile.telemetry.enforce_offline
  OutOfProcess     \* the backend is llama-server or llama-cli

(***************************************************************************)
(* "load":    backend.load() raises (INF-101, INF-102, INF-111, ...)       *)
(* "handler": a stage handler raises something else than a LeanLMError     *)
(* "store":   SQLite refuses a write (locked by another process, disk full)*)
(* "kill":    the process dies between two steps and is started again      *)
(***************************************************************************)
FaultKind == {"load", "handler", "store", "kill"}

ASSUME RuntimeAssumption ==
  /\ NoSession \notin SessionIds
  /\ MaxRequests \in Nat
  /\ StopStages \subseteq Stage
  /\ Faults \subseteq FaultKind
  /\ EnforceOffline \in BOOLEAN
  /\ OutOfProcess \in BOOLEAN

VARIABLES
  machine,      \* StateMachine.state
  loaded,       \* LeanLMRuntime._loaded
  pc,           \* where the call in progress stands
  call,         \* its arguments
  stage,        \* the stage pipeline.run is at
  iec,          \* the inference context of the request, as ask() holds it
  spans,        \* Telemetry.records of the request
  guard,        \* the OfflineGuard of the request
  sessions,     \* the session manager, and the ids of earlier processes
  current,      \* LeanLMRuntime._session
  rows,         \* table sessions of the store
  metricsRows,  \* primary keys of table metrics of the store
  hasUnits,     \* context_package() would find a unit
  outcome       \* what the last call gave its caller

memory == <<machine, loaded, guard, current>>
local == <<stage, iec, spans>>
store == <<rows, metricsRows, hasUnits>>
vars == <<machine, loaded, pc, call, stage, iec, spans, guard, sessions,
          current, rows, metricsRows, hasUnits, outcome>>

-----------------------------------------------------------------------------
NoStop == 0
NoRequest == <<NoSession, 0>>
RequestIds == SessionIds \X (1..MaxRequests)

Call == [kind : {"none", "load", "ask"},
         stop : StopStages \cup {NoStop},
         given : SessionIds \cup {NoSession}]
NoCall == [kind |-> "none", stop |-> NoStop, given |-> NoSession]

Span == [stage : Stage, status : {"completed", "failed"}, errors : 0..1]
Warning == {"over_window", "out_of_process"}
DicRule == {"DIC-01", "DIC-03", "DIC-05", "DIC-06", "DIC-07"}

Context == [request : RequestIds \cup {NoRequest},
            stages : Seq(Span),
            artifacts : SUBSET Artifact,
            errors : 0..1,
            warnings : SUBSET Warning,
            trace : SUBSET TraceKey,
            breaches : BOOLEAN,
            dic : SUBSET DicRule]

\* InferenceExecutionContext(...) as ask() creates it
NewContext(r) ==
  [request |-> r, stages |-> <<>>, artifacts |-> {}, errors |-> 0,
   warnings |-> {}, trace |-> {}, breaches |-> FALSE, dic |-> {}]
NoContext == NewContext(NoRequest)

Returned == [kind |-> "returned", code |-> "-"]
Refused(code) == [kind |-> "refused", code |-> code]   \* a LeanLMError
Crashed == [kind |-> "crashed", code |-> "-"]          \* any other exception
NoOutcome == [kind |-> "none", code |-> "-"]
Outcome == {NoOutcome, Returned, Crashed}
             \cup {Refused(c) : c \in {"RT-001", "RTS-001", "INF-111"}}

Init ==
  /\ machine = IDLE
  /\ loaded = FALSE
  /\ pc = "idle"
  /\ call = NoCall
  /\ stage = SessionCreation
  /\ iec = NoContext
  /\ spans = <<>>
  /\ guard = [active |-> FALSE, breached |-> FALSE]
  /\ sessions = [s \in SessionIds |-> [status |-> "unborn", count |-> 0]]
  /\ current = NoSession
  /\ rows = [s \in SessionIds |-> "absent"]
  /\ metricsRows = {}
  /\ hasUnits = FALSE
  /\ outcome = NoOutcome

-----------------------------------------------------------------------------
(* The ways a call ends.                                                   *)

\* An exception: the locals of ask() die with it, the state machine does not
Raises(result) ==
  /\ pc' = "idle"
  /\ outcome' = result
  /\ iec' = NoContext

Returns ==
  /\ pc' = "idle"
  /\ outcome' = Returned

-----------------------------------------------------------------------------
(* load() and the beginning of ask().                                      *)

\* ask() with a blank question: refused before anything is touched
AskBlank ==
  /\ pc = "idle"
  /\ outcome' = Refused("RT-001")
  /\ call' = NoCall
  /\ iec' = NoContext
  /\ spans' = <<>>
  /\ UNCHANGED <<memory, store, pc, stage, sessions>>

\* The session ask() will use has room for one more request (model bound)
CanAsk(given) ==
  IF given # NoSession THEN sessions[given].count < MaxRequests
  ELSE IF current # NoSession THEN sessions[current].count < MaxRequests
  ELSE /\ MaxRequests > 0
       /\ \E s \in SessionIds : sessions[s].status = "unborn"

\* A call of the API.  The session, if one is passed, is an object that this
\* process created; it may have been closed since.
Calls ==
  {c \in Call :
     /\ c.kind # "none"
     /\ c.given # NoSession => sessions[c.given].status \in {"open", "closed"}
     /\ c.kind = "load" => c.stop = NoStop /\ c.given = NoSession
     /\ c.kind = "ask" => CanAsk(c.given)}

Begins(c) ==
  /\ pc = "idle"
  /\ call' = c
  /\ iec' = NoContext
  /\ spans' = <<>>
  /\ stage' = SessionCreation
  /\ UNCHANGED <<loaded, guard, current, store, sessions>>

\* load(): the model is there already (load() alone would return at once)
CallSkipsLoad(c) ==
  /\ Begins(c)
  /\ loaded
  /\ c.kind = "ask"
  /\ pc' = "session"
  /\ outcome' = NoOutcome
  /\ UNCHANGED machine

CallStartsLoad(c) ==
  /\ Begins(c)
  /\ ~loaded
  /\ CanTransition(machine, LOADING)
  /\ machine' = LOADING
  /\ pc' = "loading"
  /\ outcome' = NoOutcome

CallRefused(c) ==
  /\ Begins(c)
  /\ ~loaded
  /\ ~CanTransition(machine, LOADING)
  /\ outcome' = Refused("RTS-001")
  /\ UNCHANGED <<machine, pc>>

LoadSucceeds ==
  /\ pc = "loading"
  /\ loaded' = TRUE
  /\ machine' = READY
  /\ IF call.kind = "ask" THEN pc' = "session" /\ UNCHANGED outcome ELSE Returns
  /\ UNCHANGED <<call, local, guard, sessions, current, store>>

\* backend.load() raises: nothing between the two transitions catches it
LoadFails ==
  /\ pc = "loading"
  /\ "load" \in Faults
  /\ \E result \in {Refused("INF-111"), Crashed} : Raises(result)
  /\ UNCHANGED <<memory, call, stage, spans, sessions, store>>

-----------------------------------------------------------------------------
(* Sessions.                                                               *)

\* SessionManager.create
Created(s) == [sessions EXCEPT ![s] = [status |-> "open", count |-> 0]]

\* OfflineGuard.__enter__: socket is patched unless the guard is disabled
GuardEntered == [active |-> EnforceOffline, breached |-> FALSE]

\* OfflineGuard.__exit__: socket is as before, the violations are kept
GuardLeft == [guard EXCEPT !.active = FALSE]

\* Mutant: the request counter is not advanced
StartsSameRequest(s, table) ==
  LET n == IF table[s].count = 0 THEN 1 ELSE table[s].count IN
  /\ sessions' = [table EXCEPT ![s].count = n]
  /\ iec' = NewContext(<<s, n>>)
  /\ guard' = GuardEntered
  /\ pc' = "stage"
  /\ UNCHANGED <<machine, loaded, call, stage, spans, metricsRows, hasUnits,
                 outcome>>

\* next_request_id(), the new context, and the guard of `with guard:'
StartsRequest(s, table) ==
  LET n == table[s].count + 1 IN
  /\ sessions' = [table EXCEPT ![s].count = n]
  /\ iec' = NewContext(<<s, n>>)
  /\ guard' = GuardEntered
  /\ pc' = "stage"
  /\ UNCHANGED <<machine, loaded, call, stage, spans, metricsRows, hasUnits,
                 outcome>>

\* `session or self._session'
AskInSession ==
  /\ pc = "session"
  /\ \/ call.given # NoSession /\ StartsRequest(call.given, sessions)
     \/ call.given = NoSession /\ current # NoSession
          /\ StartsRequest(current, sessions)
  /\ UNCHANGED <<current, rows>>

\* `or self.open_session()'
AskInNewSession(s) ==
  /\ pc = "session"
  /\ call.given = NoSession
  /\ current = NoSession
  /\ sessions[s].status = "unborn"
  /\ current' = s
  /\ rows' = [rows EXCEPT ![s] = "open"]
  /\ StartsRequest(s, Created(s))

\* record_session raises: the manager knows the session, nobody else does
AskCannotOpen(s) ==
  /\ pc = "session"
  /\ call.given = NoSession
  /\ current = NoSession
  /\ sessions[s].status = "unborn"
  /\ "store" \in Faults
  /\ sessions' = Created(s)
  /\ Raises(Crashed)
  /\ UNCHANGED <<memory, call, stage, spans, store>>

\* open_session() called on its own: the manager, the store, the current one
OpenSession(s) ==
  /\ pc = "idle"
  /\ sessions[s].status = "unborn"
  /\ sessions' = Created(s)
  /\ \/ current' = s /\ rows' = [rows EXCEPT ![s] = "open"]
     \/ "store" \in Faults /\ UNCHANGED <<current, rows>>
  /\ UNCHANGED <<machine, loaded, guard, pc, call, local, metricsRows,
                 hasUnits, outcome>>

\* SessionManager.close, which ignores a session it has already forgotten
ClosedIn(table, s) == [table EXCEPT ![s].status = "closed"]

\* Mutant: the closed session stays the current one
ClosesKeepingCurrent(s) ==
  /\ pc = "idle"
  /\ sessions[s].status \in {"open", "closed"}
  /\ sessions' = ClosedIn(sessions, s)
  /\ rows' = [rows EXCEPT ![s] = IF @ = "absent" THEN @ ELSE "closed"]
  /\ UNCHANGED <<memory, pc, call, local, metricsRows, hasUnits, outcome>>

\* close_session(): the manager, then the store, then the current session
CloseSession(s) ==
  /\ pc = "idle"
  /\ sessions[s].status \in {"open", "closed"}
  /\ sessions' = ClosedIn(sessions, s)
  /\ \/ /\ rows' = [rows EXCEPT ![s] = IF @ = "absent" THEN @ ELSE "closed"]
        /\ current' = IF s = current THEN NoSession ELSE current
     \/ "store" \in Faults /\ UNCHANGED <<rows, current>>
  /\ UNCHANGED <<machine, loaded, guard, pc, call, local, metricsRows,
                 hasUnits, outcome>>

-----------------------------------------------------------------------------
(* The pipeline.                                                           *)

\* Mutant: the loop over the stages runs once too often
EntersPastTheEnd ==
  /\ pc = "stage"
  /\ stage \in Stage \cup {LastStage + 1}
  /\ IF stage \in DOMAIN StateByStage
     THEN /\ CanTransition(machine, StateByStage[stage])
          /\ machine' = StateByStage[stage]
     ELSE UNCHANGED machine
  /\ pc' = "handler"
  /\ UNCHANGED <<loaded, call, local, guard, sessions, current, store, outcome>>

\* The state transition, if the stage has one, outside of the try block
EnterStage ==
  /\ pc = "stage"
  /\ stage \in Stage
  /\ IF stage \in DOMAIN StateByStage
     THEN /\ CanTransition(machine, StateByStage[stage])
          /\ machine' = StateByStage[stage]
     ELSE UNCHANGED machine
  /\ pc' = "handler"
  /\ UNCHANGED <<loaded, call, local, guard, sessions, current, store, outcome>>

\* Mutant: an illegal transition is waited out instead of refused
StageWaits ==
  /\ pc = "stage"
  /\ stage \in DOMAIN StateByStage
  /\ ~CanTransition(machine, StateByStage[stage])
  /\ UNCHANGED vars

StageOutOfOrder ==
  /\ pc = "stage"
  /\ stage \in DOMAIN StateByStage
  /\ ~CanTransition(machine, StateByStage[stage])
  /\ pc' = "raise"
  /\ outcome' = Refused("RTS-001")
  /\ UNCHANGED <<memory, call, local, sessions, store>>

\* Warnings a handler may attach.  Prompt assembly compares the prompt with
\* the window of the budget; CAP-007 looks for the backend in the trace.
MetricsWarnings(c) ==
  IF OutOfProcess /\ "runtime" \in c.trace THEN {"out_of_process"} ELSE {}

WarningsOf(s, c) ==
  CASE s = PromptAssembly      -> {{}, {"over_window"}}
    [] s = MetricsFinalization -> {MetricsWarnings(c)}
    [] OTHER                   -> {{}}

\* Mutant: a handler replaces the trace instead of extending it
EnrichedTraceReplaced(c, s, w) ==
  [c EXCEPT !.artifacts = @ \cup Adds(s),
            !.trace = IF Traces(s) = {} THEN @ ELSE Traces(s),
            !.warnings = @ \cup w]

\* iec.evolve(...) by the handler of stage s, attaching the warnings w
Enriched(c, s, w) ==
  [c EXCEPT !.artifacts = @ \cup Adds(s),
            !.trace = @ \cup Traces(s),
            !.warnings = @ \cup w]

WithStage(c, span) == [c EXCEPT !.stages = Append(@, span)]

\* Mutant: a failed stage leaves no error in the context
WithNoError(c) == c

WithError(c) == [c EXCEPT !.errors = 1]

\* Everything the stage demands is there, so its handler can succeed
Ready(s) ==
  /\ Needs(s) \subseteq iec.artifacts
  /\ s = DocumentDiscovery => hasUnits

\* Handlers that raise a LeanLMError of their own: CTX-003, RET-002, INF-1xx
FallibleStages == {ContextOptimization, EvidenceRetrieval, ModelInference}

HandlerSucceeds ==
  /\ pc = "handler"
  /\ Ready(stage)
  /\ LET span == [stage |-> stage, status |-> "completed", errors |-> 0] IN
     /\ spans' = Append(spans, span)
     /\ \E w \in WarningsOf(stage, iec) :
          iec' = WithStage(Enriched(iec, stage, w), span)
  /\ IF stage = call.stop
     THEN pc' = "exit" /\ UNCHANGED stage
     ELSE pc' = "stage" /\ stage' = stage + 1
  /\ UNCHANGED <<memory, call, sessions, store, outcome>>

\* Mutant: the span of a failed stage does not keep the error
FailedSpanUnexplained == [stage |-> stage, status |-> "failed", errors |-> 0]

\* Telemetry.span, left by an exception
FailedSpan == [stage |-> stage, status |-> "failed", errors |-> 1]

\* Mutant: the metrics of a failed request are reported as a stage of their own
FinalizationsRecorded(c) ==
  {c, WithStage(Enriched(c, MetricsFinalization, MetricsWarnings(c)),
                [stage |-> MetricsFinalization, status |-> "completed", errors |-> 0])}

\* _finalize_on_failure: CAP-007 runs out of order, and may itself fail
Finalizations(c) ==
  {c, Enriched(c, MetricsFinalization, MetricsWarnings(c))}

HandlerRefuses ==
  /\ pc = "handler"
  /\ ~Ready(stage) \/ stage \in FallibleStages
  /\ CanTransition(machine, FAILED)
  /\ machine' = FAILED
  /\ spans' = Append(spans, FailedSpan)
  /\ iec' \in Finalizations(WithError(WithStage(iec, FailedSpan)))
  /\ pc' = "exit"
  /\ UNCHANGED <<loaded, guard, current, call, stage, sessions, store, outcome>>

\* The same, from a state that cannot fail: the except clause itself raises
HandlerRefusesUnheard ==
  /\ pc = "handler"
  /\ ~Ready(stage) \/ stage \in FallibleStages
  /\ ~CanTransition(machine, FAILED)
  /\ spans' = Append(spans, FailedSpan)
  /\ outcome' = Refused("RTS-001")
  /\ pc' = "raise"
  /\ UNCHANGED <<memory, iec, call, stage, sessions, store>>

\* Any other exception, which a handler of any stage may raise: recorded as RT-999
\* by the span, caught by nobody.  A refused connection is one of them (OfflineBreach is a RuntimeError).
HandlerCrashes ==
  /\ pc = "handler"
  /\ "handler" \in Faults
  /\ spans' = Append(spans, FailedSpan)
  /\ \E refused \in {FALSE, guard.active} : guard' = [guard EXCEPT !.breached = refused]
  /\ outcome' = Crashed
  /\ pc' = "raise"
  /\ UNCHANGED <<machine, loaded, current, iec, call, stage, sessions, store>>

PipelineCompletes ==
  /\ pc = "stage"
  /\ stage = LastStage + 1
  /\ CanTransition(machine, COMPLETED)
  /\ machine' = COMPLETED
  /\ pc' = "exit"
  /\ UNCHANGED <<loaded, guard, current, call, local, sessions, store, outcome>>

-----------------------------------------------------------------------------
(* The rest of ask(): `finally', the metrics row, the verdict.             *)

\* Mutant: an exception leaves the socket module patched
UnwindsGuarded ==
  /\ pc = "raise"
  /\ iec' = NoContext
  /\ spans' = <<>>
  /\ stage' = SessionCreation
  /\ pc' = "idle"
  /\ UNCHANGED <<memory, call, sessions, store, outcome>>

\* The guard is released and the exception goes on to the caller.  What the
\* finally clause adds to the trace is lost with the context, and so are the locals of
\* the pipeline.
Unwind ==
  /\ pc = "raise"
  /\ guard' = GuardLeft
  /\ iec' = NoContext
  /\ spans' = <<>>
  /\ stage' = SessionCreation
  /\ pc' = "idle"
  /\ UNCHANGED <<machine, loaded, current, call, sessions, store, outcome>>

LeavePipeline ==
  /\ pc = "exit"
  /\ guard' = GuardLeft
  /\ iec' = [iec EXCEPT !.trace = @ \cup {"offline", "runtime"},
                        !.breaches = guard.breached]
  /\ pc' = "record"
  /\ UNCHANGED <<machine, loaded, current, call, stage, spans, sessions, store,
                 outcome>>

RecordMetrics ==
  /\ pc = "record"
  /\ metricsRows' = IF "metrics" \in iec.artifacts
                    THEN metricsRows \cup {iec.request} ELSE metricsRows
  /\ pc' = "return"
  /\ UNCHANGED <<memory, call, local, sessions, rows, hasUnits, outcome>>

RecordFails ==
  /\ pc = "record"
  /\ "metrics" \in iec.artifacts
  /\ "store" \in Faults
  /\ Raises(Crashed)
  /\ UNCHANGED <<memory, call, stage, spans, sessions, store>>

\* verify() of runtime/dic.py on the finished context.  DIC-02 and the
\* evidence half of DIC-04 are about field contents this model does not keep.
InOrder(stages) ==
  \A i, j \in DOMAIN stages : i < j => stages[i].stage <= stages[j].stage
DicViolations(c) ==
  {rule \in DicRule :
     \/ rule = "DIC-01" /\ ~InOrder(c.stages)
     \/ rule = "DIC-03" /\ "metrics" \notin c.artifacts
     \/ rule = "DIC-05" /\ "over_window" \in c.warnings
     \/ rule = "DIC-06" /\ c.breaches
     \/ rule = "DIC-07" /\ \E i \in DOMAIN c.stages :
                               c.stages[i].status = "failed" /\ c.stages[i].errors = 0}

\* Mutant: only a completed request takes the machine back to READY
ReturnsFailed ==
  /\ pc = "return"
  /\ call.stop = NoStop
  /\ iec' \in {iec, [iec EXCEPT !.dic = DicViolations(iec)]}
  /\ machine' = IF machine = COMPLETED THEN READY ELSE machine
  /\ Returns
  /\ UNCHANGED <<loaded, guard, current, call, stage, spans, sessions, store>>

\* ask(check_contract = TRUE | FALSE)
ReturnAnswer ==
  /\ pc = "return"
  /\ call.stop = NoStop
  /\ iec' \in {iec, [iec EXCEPT !.dic = DicViolations(iec)]}
  /\ machine' = IF machine \in {COMPLETED, FAILED} THEN READY ELSE machine
  /\ Returns
  /\ UNCHANGED <<loaded, guard, current, call, stage, spans, sessions, store>>

\* Mutant: an abandoned request leaves the machine where it stopped
ReturnsInFlight ==
  /\ pc = "return"
  /\ call.stop # NoStop
  /\ machine = READY \/ CanTransition(machine, READY)
  /\ Returns
  /\ UNCHANGED <<memory, call, local, sessions, store>>

\* ask(stop_after = ...): back to READY with the artifacts built so far
ReturnPrepared ==
  /\ pc = "return"
  /\ call.stop # NoStop
  /\ machine = READY \/ CanTransition(machine, READY)
  /\ machine' = READY
  /\ Returns
  /\ UNCHANGED <<loaded, guard, current, call, local, sessions, store>>

ReturnImpossible ==
  /\ pc = "return"
  /\ call.stop # NoStop
  /\ machine # READY
  /\ ~CanTransition(machine, READY)
  /\ Raises(Refused("RTS-001"))
  /\ UNCHANGED <<memory, call, stage, spans, sessions, store>>

-----------------------------------------------------------------------------
(* What happens around the calls.                                          *)

\* ingest(), CorpusStore.clear() or use_documents() between two calls, seen
\* from document discovery: the selection holds a unit or it does not.
CorpusChanges ==
  /\ pc = "idle"
  /\ hasUnits' = ~hasUnits
  /\ UNCHANGED <<memory, local, pc, call, sessions, rows, metricsRows, outcome>>

\* BenchmarkHarness._force_cold_start
ForceColdStart ==
  /\ pc = "idle"
  /\ loaded
  /\ loaded' = FALSE
  /\ UNCHANGED <<machine, guard, current, local, pc, call, sessions, store,
                 outcome>>

\* close(): the current session, the backend, the session table, the store.
\* If the store refuses the session's last row, the rest never happens: that
\* is CloseSession failing, and the process ends without Close.
CurrentClosed == IF current = NoSession THEN sessions ELSE ClosedIn(sessions, current)
Close ==
  /\ pc = "idle"
  /\ sessions' = [s \in SessionIds |->
                    IF CurrentClosed[s].status = "closed"
                    THEN [CurrentClosed[s] EXCEPT !.status = "gone"]
                    ELSE CurrentClosed[s]]
  /\ rows' = IF current = NoSession THEN rows
             ELSE [rows EXCEPT ![current] = IF @ = "absent" THEN @ ELSE "closed"]
  /\ current' = NoSession
  /\ pc' = "closed"
  /\ UNCHANGED <<machine, loaded, guard, call, local, metricsRows, hasUnits,
                 outcome>>

\* A new process over the same store: after close(), or after a kill
Restart ==
  /\ pc = "closed" \/ "kill" \in Faults
  /\ machine' = IDLE
  /\ loaded' = FALSE
  /\ pc' = "idle"
  /\ call' = NoCall
  /\ stage' = SessionCreation
  /\ iec' = NoContext
  /\ spans' = <<>>
  /\ guard' = [active |-> FALSE, breached |-> FALSE]
  /\ sessions' = [s \in SessionIds |->
                    IF sessions[s].status = "unborn" THEN sessions[s]
                    ELSE [sessions[s] EXCEPT !.status = "gone"]]
  /\ current' = NoSession
  /\ outcome' = NoOutcome
  /\ UNCHANGED store

-----------------------------------------------------------------------------
\* The steps of a call in progress
Progress ==
  \/ LoadSucceeds \/ LoadFails
  \/ AskInSession
  \/ \E s \in SessionIds : AskInNewSession(s) \/ AskCannotOpen(s)
  \/ EnterStage \/ StageOutOfOrder
  \/ HandlerSucceeds \/ HandlerRefuses \/ HandlerRefusesUnheard \/ HandlerCrashes
  \/ PipelineCompletes
  \/ Unwind \/ LeavePipeline \/ RecordMetrics \/ RecordFails
  \/ ReturnAnswer \/ ReturnPrepared \/ ReturnImpossible

\* What callers and the environment do
Environment ==
  \/ AskBlank
  \/ \E c \in Calls : CallSkipsLoad(c) \/ CallStartsLoad(c) \/ CallRefused(c)
  \/ \E s \in SessionIds : OpenSession(s) \/ CloseSession(s)
  \/ CorpusChanges \/ ForceColdStart \/ Close \/ Restart

Next == Progress \/ Environment

Spec == Init /\ [][Next]_vars

\* A call that has begun goes on.  For model inference this is the promise of
\* the backend to return: a token limit (llama-cpp-python) or a timeout
\* (llama-server); nobody is obliged to call.
FairSpec == Spec /\ WF_vars(Progress)
-----------------------------------------------------------------------------
(***************************************************************************)
(* Properties.                                                             *)
(***************************************************************************)

SessionTable == [SessionIds -> [status : {"unborn", "open", "closed", "gone"},
                                count : 0..MaxRequests]]

ControlType ==
  /\ machine \in RuntimeState
  /\ loaded \in BOOLEAN
  /\ pc \in {"idle", "loading", "session", "stage", "handler", "raise", "exit",
             "record", "return", "closed"}
  /\ call \in Call
  /\ stage \in 1..(LastStage + 1)
  /\ outcome \in Outcome

RequestType ==
  /\ iec \in Context
  /\ spans \in Seq(Span)
  /\ guard \in [active : BOOLEAN, breached : BOOLEAN]

StoreType ==
  /\ sessions \in SessionTable
  /\ current \in SessionIds \cup {NoSession}
  /\ rows \in [SessionIds -> {"absent", "open", "closed"}]
  /\ metricsRows \subseteq RequestIds
  /\ hasUnits \in BOOLEAN

\* Type invariant of the runtime, its store and the request in progress.
TypeOK == ControlType /\ RequestType /\ StoreType

\* A request is on display: ask() has returned it and no call came since.
Answered == pc = "idle" /\ outcome = Returned /\ iec.request # NoRequest

\* DIC-01, on the context itself and at every step: whatever failures earlier
\* requests left behind, the stages reported are a prefix of STAGE_ORDER, and
\* only the last one can have failed (pipeline.run).
StagesInOrder ==
  \A i \in DOMAIN iec.stages :
    /\ iec.stages[i].stage = i
    /\ iec.stages[i].status = "failed" => i = Len(iec.stages)

\* The checks CTX-001, RET-001, INF-001 and VAL-001 never fire: a handler is
\* only reached with what its capability demands already in the context.
PreconditionsHold == pc = "handler" => Needs(stage) \subseteq iec.artifacts

\* Whatever state a request started from and whatever happened to it, if the
\* caller got a context back the runtime is READY for the next question.
ReturnedMeansReady ==
  pc = "idle" /\ outcome = Returned => machine = READY

\* The socket module is patched exactly while the pipeline runs: every way out
\* of it, exceptions included, restores it (OfflineGuard.__exit__).
GuardScope ==
  guard.active <=> EnforceOffline /\ pc \in {"stage", "handler", "raise", "exit"}

\* DIC-07: a returned context reports every span the telemetry recorded, in
\* order, every failed one has its error record, and the context carries an error
\* exactly when one of them failed.
FailureTransparent ==
  Answered =>
    /\ iec.stages = spans
    /\ \A i \in DOMAIN spans : spans[i].status = "failed" => spans[i].errors = 1
    /\ iec.errors = 1 <=> \E i \in DOMAIN spans : spans[i].status = "failed"

\* Of the rules verify() can report on a model-free context, only two can
\* happen: no metrics, and then the request failed; or a prompt over the
\* window, and then the context carries the warning too.
DicVerdict ==
  Answered =>
    /\ iec.dic \subseteq {"DIC-03", "DIC-05"}
    /\ "DIC-03" \in iec.dic => iec.errors = 1
    /\ "DIC-05" \in iec.dic => "over_window" \in iec.warnings

\* The IEC is enriched, never rewritten: from one step to the next the same
\* request keeps every stage, part, warning, error and trace entry it had.
EnrichedOnly ==
  [][iec'.request = iec.request =>
       /\ Len(iec.stages) <= Len(iec'.stages)
       /\ \A i \in DOMAIN iec.stages : iec'.stages[i] = iec.stages[i]
       /\ iec.artifacts \subseteq iec'.artifacts
       /\ iec.warnings \subseteq iec'.warnings
       /\ iec.trace \subseteq iec'.trace
       /\ iec.errors <= iec'.errors]_vars

\* A failed load is final: once backend.load() has raised, no call does
\* anything any more -- no retry, no question -- short of a new process.
FailedLoadIsFinal ==
  [][pc = "idle" /\ machine = LOADING =>
       \/ machine' = LOADING /\ pc' \in {"idle", "closed"}
       \/ machine' = IDLE /\ call' = NoCall]_vars

\* Without failures of the environment, LeanLMErrors leave no mark: between
\* two calls the machine rests, and it says READY whenever a model is loaded.
RestsBetweenCalls ==
  pc = "idle" => machine \in Resting /\ (loaded => machine = READY)

\* The session the next question goes to is open, in memory and in the store.
CurrentSessionOpen ==
  current # NoSession => sessions[current].status = "open" /\ rows[current] = "open"

\* Every call ends: it returns, it raises, or the process is gone.
CallEnds == pc \notin {"idle", "closed"} ~> pc \in {"idle", "closed"}

-----------------------------------------------------------------------------
(* The runtime implements the contract of InferenceContract.               *)

VerdictOf ==
  CASE iec.request = NoRequest -> "none"
    [] iec.request # NoRequest /\ iec.errors = 1 -> "failed"
    [] iec.request # NoRequest /\ iec.errors = 0
         /\ pc \in {"stage", "handler", "raise"} -> "open"
    [] OTHER -> IF call.stop # NoStop THEN "abandoned" ELSE "completed"

Contract ==
  INSTANCE InferenceContract WITH
    Requests <- RequestIds,
    Stages <- LastStage,
    StopAfter <- StopStages,
    request <- iec.request,
    reported <- Len(iec.stages),
    verdict <- VerdictOf,
    opened <- {r \in RequestIds : r[2] <= sessions[r[1]].count}

\* Every behaviour of the runtime is one the contract allows its caller to see.
ImplementsContract == Contract!Spec
=============================================================================
