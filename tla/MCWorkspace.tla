---------------------------- MODULE MCWorkspace ----------------------------
(* Instances of Workspace for TLC. *)
EXTENDS Workspace, TLC

\* Threads, runtimes and documents are interchangeable; not used for liveness
Symmetries == Permutations(Threads) \cup Permutations(Handles) \cup Permutations(Docs)
=============================================================================
