---------------------------- MODULE StateMachine ----------------------------
(***************************************************************************)
(* The runtime state machine of runtime/state_machine.py: ten states and a *)
(* table of the transitions that StateMachine.transition accepts.  Every   *)
(* other transition raises the contract error RTS-001 and leaves the state *)
(* as it was, so a caller that asks for an illegal transition is told by   *)
(* the exception and by nothing else.                                      *)
(***************************************************************************)

\* RuntimeState
IDLE == "idle"
LOADING == "loading"
READY == "ready"
OPTIMIZING == "optimizing"
RETRIEVING == "retrieving"
PROMPT_READY == "prompt_ready"
INFERENCING == "inferencing"
VALIDATING == "validating"
COMPLETED == "completed"
FAILED == "failed"

RuntimeState == {IDLE, LOADING, READY, OPTIMIZING, RETRIEVING, PROMPT_READY,
                 INFERENCING, VALIDATING, COMPLETED, FAILED}

\* _ALLOWED, one line per source state
Allowed ==
  [s \in RuntimeState |->
     CASE s = IDLE         -> {LOADING, FAILED}
       [] s = LOADING      -> {READY, FAILED}
       [] s = READY        -> {OPTIMIZING, LOADING, IDLE, FAILED}
       [] s = OPTIMIZING   -> {RETRIEVING, READY, FAILED}
       [] s = RETRIEVING   -> {PROMPT_READY, READY, FAILED}
       [] s = PROMPT_READY -> {INFERENCING, READY, FAILED}
       [] s = INFERENCING  -> {VALIDATING, FAILED}
       [] s = VALIDATING   -> {COMPLETED, FAILED}
       [] s = COMPLETED    -> {READY, IDLE, FAILED}
       [] s = FAILED       -> {READY, IDLE}]

\* Mutant: a transition to the state one is in already is accepted
CanTransitionToSelf(from, to) == to \in Allowed[from] \cup {from}

\* transition() accepts the move; otherwise it raises RTS-001
CanTransition(from, to) == to \in Allowed[from]

\* The states a runtime rests in between two calls: nothing in flight
Resting == {IDLE, READY}
=============================================================================
