------------------------- MODULE InferenceContract -------------------------
(***************************************************************************)
(* What a caller may rely on about one inference request, whatever the     *)
(* runtime does inside: the lifecycle half of the Deterministic Inference  *)
(* Contract (runtime/dic.py, DIC-01, DIC-04 and DIC-07).                   *)
(*                                                                         *)
(*   - A request identifier is opened once, ever, restarts included.       *)
(*   - Its stages are reported one at a time, in STAGE_ORDER.              *)
(*   - A failed stage is the last one reported.                            *)
(*   - The request completes only with all ten stages reported, and is     *)
(*     abandoned only at a stage its caller asked it to stop after.        *)
(*   - It may be lost at any time: the call raised, or the process died.   *)
(*                                                                         *)
(* LeanLMRuntime implements this module through the mapping stated there.  *)
(***************************************************************************)
EXTENDS Naturals

CONSTANTS
  Requests,     \* request identifiers
  NoRequest,    \* no request is open or on display
  Stages,       \* the number of stages of the lifecycle
  StopAfter     \* the stages a caller may ask to stop after

VARIABLES
  request,      \* the request being executed or last reported
  reported,     \* how many of its stages have been reported
  verdict,      \* what became of it
  opened        \* every request opened so far

contract == <<request, reported, verdict, opened>>

Verdict == {"none", "open", "completed", "abandoned", "failed"}

Init ==
  /\ request = NoRequest
  /\ reported = 0
  /\ verdict = "none"
  /\ opened = {}

Open(r) ==
  /\ verdict = "none"
  /\ r \notin opened
  /\ request' = r
  /\ reported' = 0
  /\ verdict' = "open"
  /\ opened' = opened \cup {r}

\* The next stage of the order ran; v says what that makes of the request
Report(v) ==
  /\ verdict = "open"
  /\ reported < Stages
  /\ reported' = reported + 1
  /\ v = "abandoned" => reported + 1 \in StopAfter
  /\ verdict' = v
  /\ UNCHANGED <<request, opened>>

Complete ==
  /\ verdict = "open"
  /\ reported = Stages
  /\ verdict' = "completed"
  /\ UNCHANGED <<request, reported, opened>>

\* The outcome has been handed over, or was lost with the call that raised
Forget ==
  /\ verdict # "none"
  /\ request' = NoRequest
  /\ reported' = 0
  /\ verdict' = "none"
  /\ UNCHANGED opened

Next ==
  \/ \E r \in Requests : Open(r)
  \/ \E v \in {"open", "abandoned", "failed"} : Report(v)
  \/ Complete
  \/ Forget

Spec == Init /\ [][Next]_contract
=============================================================================
