-------------------------- MODULE MCLeanLMRuntime --------------------------
(* Instances of LeanLMRuntime for TLC. *)
EXTENDS LeanLMRuntime, TLC

\* The stages before inference, the only ones abandoning is meant for
StopsBeforeInference == SessionCreation..PromptAssembly
\* One stop of each kind: before the machine moves, where the CLI stops, and
\* after the model has run
SampleStops == {ResourceAssessment, PromptAssembly, ModelInference}

AllFaults == FaultKind
KillOnly == {"kill"}

\* Session ids are interchangeable; used by the runs without liveness only
SessionSymmetry == Permutations(SessionIds)
=============================================================================
