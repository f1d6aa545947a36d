------------------------ MODULE MCInferenceBackends ------------------------
(* InferenceBackends for TLC: a recent build of llama-cli, which rejects    *)
(* the old spelling, an old one, which knows no other, one that knows none, *)
(* and one without a flag that is never probed.                            *)
EXTENDS InferenceBackends

MCBuilds == {
  FixedFlags \cup {"--no-conversation", "--single-turn", "-st", "--no-display-prompt", "--simple-io"},
  FixedFlags \cup {"-no-cnv", "--no-display-prompt"},
  FixedFlags \cup {"--simple-io"},
  (FixedFlags \ {"-ngl"}) \cup {"--no-conversation"}}

\* An error that names nothing, and one that speaks of an old flag
MCErrorTexts == {{}, {"-no-cnv"}}
=============================================================================
