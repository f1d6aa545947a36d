------------------------- MODULE InferenceBackends -------------------------
(***************************************************************************)
(* The backends of packages/inference: which one is selected, how it loads *)
(* and what a call of generate() does.  The llama-cli backend runs a child *)
(* process and two threads of its own: the drainer empties stderr, the     *)
(* ticker reports progress; the calling thread reads stdout one character  *)
(* at a time.  A request generates once, or twice when the first attempt   *)
(* ends in a TypeError.  Builds of llama-cli differ in the flags they      *)
(* accept: the backend asks the binary once, through --help, about those   *)
(* it knows to differ.                                                     *)
(*                                                                         *)
(* Time is one flag: late is raised once the deadline of the current       *)
(* generation has passed.                                                  *)
(***************************************************************************)
EXTENDS Naturals, Sequences

CONSTANTS
  Pipe,          \* what a pipe holds before its writer blocks
  MaxOutput,     \* bound: characters a child writes to stdout
  MaxLines,      \* bound: lines a child writes to stderr
  Generations,   \* bound: calls of generate(), one kept for a second attempt
  Builds,        \* the builds of llama-cli there are: the flags that each accepts
  ErrorTexts,    \* what a --help that fails may print: the flags its text names
  HookFaults     \* what the hooks of the caller may raise: "TypeError", "other"

\* Two kinds of flags that no build has to have: those that keep llama-cli out of
\* conversation mode, newest spelling first, and those that can be omitted
NoConversationFlags == <<"--no-conversation", "-no-cnv", "--single-turn", "-st">>
OptionalFlags == {"--no-display-prompt", "--simple-io"}
Probed == OptionalFlags \cup {NoConversationFlags[i] : i \in DOMAIN NoConversationFlags}
\* And those that every command has, which are not asked for
FixedFlags == {"-m", "-f", "-n", "-c", "-t", "--temp", "--top-k", "--top-p",
               "--repeat-penalty", "--seed", "-ngl"}

ASSUME BackendsAssumption ==
  /\ Pipe \in Nat \ {0} /\ MaxOutput \in Nat /\ MaxLines \in Nat
  /\ Generations \in Nat
  /\ Builds \subseteq SUBSET (Probed \cup FixedFlags) /\ ErrorTexts \subseteq SUBSET Probed
  /\ HookFaults \subseteq {"TypeError", "other"}

VARIABLES
  host,      \* what the machine has: model file, llama-server, library, llama-cli
  cli,       \* its llama-cli: the flags it accepts, the help the backend holds, and the
             \* flags named in it
  backend,   \* the backend selected, "none" before
  loaded,
  pc,        \* where the calling thread is
  gen,       \* the number of the current generation
  hooks,     \* the caller streams: on_token and on_progress are installed
  late,
  run,       \* what belongs to each generation of llama-cli, see NotStarted
  outcome    \* "answer", the code raised, or "none" while the call runs

vars == <<host, cli, backend, loaded, pc, gen, hooks, late, run, outcome>>

Facilities == {"model", "server", "library", "cli"}
Lines == {"log", "invalid argument"}
Ids == 1..Generations

NotStarted == [
  child |-> "none",      \* "running", "stalled", "closing" (its output), "exited", "killed"
  code |-> 0,
  written |-> 0,         \* characters, of which the caller has taken read
  read |-> 0,
  stderr |-> <<>>,       \* lines in the pipe
  said |-> <<>>,         \* all lines the child has written
  errors |-> {},         \* lines the drainer has read
  drainer |-> "none",    \* "reading", "ended"
  missed |-> FALSE,      \* the caller has given up waiting for the drainer
  ticker |-> "none",     \* "waiting", "calling" on_progress, "stopping", "ended"
  file |-> FALSE]        \* the prompt file exists

Init ==
  /\ host \in SUBSET Facilities
  /\ cli \in {[accepts |-> build, help |-> "unasked", named |-> {}] : build \in Builds}
  /\ backend = "none" /\ loaded = FALSE
  /\ pc = "idle" /\ gen = 0 /\ hooks = FALSE /\ late = FALSE
  /\ run = [g \in Ids |-> NotStarted]
  /\ outcome = "none"

-----------------------------------------------------------------------------
(* Selection and load *)

\* A running server first, then the library, then the binary
AutoSelect(offers) ==
  CASE "model" \notin offers -> "simulated"
    [] "model" \in offers /\ "server" \in offers -> "llama-server"
    [] {"model", "library"} \subseteq offers /\ "server" \notin offers -> "llama-cpp-python"
    [] {"model", "cli"} \subseteq offers /\ offers \cap {"server", "library"} = {} -> "llama-cli"
    [] OTHER -> "simulated"

\* The machine changes between the selection and the load
HostChanges ==
  /\ backend # "none" /\ ~loaded /\ pc = "idle"
  /\ \E offer \in host : host' = host \ {offer}
  /\ UNCHANGED <<cli, backend, loaded, pc, gen, hooks, late, run, outcome>>

BuildBackend ==
  /\ backend = "none"
  /\ backend' = AutoSelect(host)
  /\ UNCHANGED <<host, cli, loaded, pc, gen, hooks, late, run, outcome>>

\* The code load() of each backend raises, "none" if it succeeds
LibraryError(offers) ==
  CASE "library" \notin offers -> "INF-101"
    [] "library" \in offers /\ "model" \notin offers -> "INF-102"
    [] {"library", "model"} \subseteq offers -> "none"
ServerError(offers) == IF "server" \in offers THEN "none" ELSE "INF-111"
BinaryError(offers) ==
  CASE "cli" \notin offers -> "INF-120"
    [] "cli" \in offers /\ "model" \notin offers -> "INF-121"
    [] {"cli", "model"} \subseteq offers -> "none"

LoadError(kind, offers) ==
  CASE kind = "llama-cpp-python" -> LibraryError(offers)
    [] kind = "llama-server" -> ServerError(offers)
    [] kind = "llama-cli" -> BinaryError(offers)
    [] kind = "simulated" -> "none"

Load ==
  /\ pc = "idle" /\ backend # "none" /\ ~loaded
  /\ loaded' = (LoadError(backend, host) = "none")
  /\ outcome' = LoadError(backend, host)
  /\ UNCHANGED <<host, cli, backend, pc, gen, hooks, late, run>>

-----------------------------------------------------------------------------
(* One request: ModelInference of the pipeline *)

Request ==
  /\ pc = "idle" /\ loaded /\ gen + 1 < Generations
  /\ pc' = "generate" /\ gen' = gen + 1 /\ late' = FALSE
  /\ hooks' \in BOOLEAN
  /\ outcome' = "none"
  /\ UNCHANGED <<host, cli, backend, loaded, run>>

Ends(result) == pc' = "idle" /\ outcome' = result

\* _infer calls generate() once more, without the streaming hooks
AfterTypeError ==
  /\ pc' = "generate" /\ gen' = gen + 1 /\ hooks' = FALSE /\ late' = FALSE
  /\ outcome' = "none"

\* The other backends take no streaming hooks: the call itself is a TypeError
HooksRefused ==
  /\ pc = "generate" /\ backend # "llama-cli" /\ hooks
  /\ AfterTypeError
  /\ UNCHANGED <<host, cli, backend, loaded, run>>

\* llama-cpp-python streams in this process; the library raises what it likes, a
\* prompt beyond the context window for one
GeneratesInLibrary ==
  /\ pc = "generate" /\ backend = "llama-cpp-python" /\ ~hooks
  /\ \E result \in {"answer", "other"} : Ends(result)
  /\ UNCHANGED <<host, cli, backend, loaded, gen, hooks, late, run>>

\* The simulated backend quotes its prompt, or refuses in the words of an answer
Simulates ==
  /\ pc = "generate" /\ backend = "simulated" /\ ~hooks
  /\ Ends("answer")
  /\ UNCHANGED <<host, cli, backend, loaded, gen, hooks, late, run>>

\* llama-server, one request with a time limit of its own.  What is no URLError, OSError
\* or JSON error leaves as it is: a body that is no text or no object, a broken header
AnswersOverHttp ==
  /\ pc = "generate" /\ backend = "llama-server" /\ ~hooks
  /\ \E result \in {"answer", "INF-112", "other"} : Ends(result)
  /\ UNCHANGED <<host, cli, backend, loaded, gen, hooks, late, run>>

-----------------------------------------------------------------------------
(* generate() of llama-cli: the calling thread *)

This == run[gen]
\* r with the fields that are given replaced
With(r, fields) == [f \in DOMAIN r |-> IF f \in DOMAIN fields THEN fields[f] ELSE r[f]]
Update(fields) == run' = [run EXCEPT ![gen] = With(@, fields)]

WritePrompt ==
  /\ pc = "generate" /\ backend = "llama-cli"
  /\ Update([file |-> TRUE])
  /\ pc' = "spawn"
  /\ UNCHANGED <<host, cli, backend, loaded, gen, hooks, late, outcome>>

\* The first command of the process probes the binary: thirty seconds for --help.
\* An exception leaves an empty text; what a --help that fails has printed is not told
\* from a list of flags, as nobody looks at its return code.  Either is kept for good.
AsksForHelp ==
  /\ pc = "spawn" /\ cli.help = "unasked"
  /\ \/ cli' = [cli EXCEPT !.help = "flags", !.named = cli.accepts \cap Probed]
     \/ cli' = [cli EXCEPT !.help = "empty"]
     \/ \E text \in ErrorTexts : cli' = [cli EXCEPT !.help = "error", !.named = text]
  /\ UNCHANGED <<host, backend, loaded, pc, gen, hooks, late, run, outcome>>

\* Mutant: every flag is taken to be known
SupportsAll(flag) == TRUE

\* Without a help text a flag is assumed to work
Supports(flag) == cli.help # "empty" => flag \in cli.named

\* The flags of the command: the fixed ones, all optional ones that are known and the
\* first known way out of conversation mode
Command ==
  LET known == {i \in DOMAIN NoConversationFlags : Supports(NoConversationFlags[i])}
  IN FixedFlags \cup {flag \in OptionalFlags : Supports(flag)}
       \cup {NoConversationFlags[i] : i \in {k \in known : \A j \in known : k <= j}}

Spawn ==
  /\ pc = "spawn" /\ cli.help # "unasked"
  /\ Update([child |-> "running", drainer |-> "reading",
             ticker |-> IF hooks THEN "waiting" ELSE "none"])
  /\ pc' = "reading"
  /\ UNCHANGED <<host, cli, backend, loaded, gen, hooks, late, outcome>>

\* Popen is outside the try: an OSError leaves the prompt file behind
SpawnFails ==
  /\ pc = "spawn" /\ cli.help # "unasked"
  /\ Ends("OSError")
  /\ UNCHANGED <<host, cli, backend, loaded, gen, hooks, late, run>>

DeadlinePasses ==
  /\ pc \in {"reading", "wait"} /\ ~late
  /\ late' = TRUE
  /\ UNCHANGED <<host, cli, backend, loaded, pc, gen, hooks, run, outcome>>

\* Mutant: past the deadline reading just stops
ReadCharThenStop ==
  /\ pc = "reading" /\ This.read < This.written
  /\ Update([read |-> This.read + 1])
  /\ pc' = IF late THEN "wait" ELSE pc
  /\ outcome' = outcome
  /\ UNCHANGED <<host, cli, backend, loaded, gen, hooks, late>>

\* The deadline is looked at after a character has been taken
ReadChar ==
  /\ pc = "reading" /\ This.read < This.written
  /\ IF late
     THEN /\ Update([read |-> This.read + 1, child |-> "killed"])
          /\ pc' = "finally" /\ outcome' = "INF-122"
     ELSE /\ Update([read |-> This.read + 1])
          /\ UNCHANGED <<pc, outcome>>
  /\ UNCHANGED <<host, cli, backend, loaded, gen, hooks, late>>

\* on_first_token or on_token raises: nobody kills the child
HookRaises ==
  /\ pc = "reading" /\ This.read < This.written /\ hooks
  /\ Update([read |-> This.read + 1])
  /\ pc' = "finally"
  /\ outcome' \in HookFaults
  /\ UNCHANGED <<host, cli, backend, loaded, gen, hooks, late>>

EndOfOutput ==
  /\ pc = "reading" /\ This.read = This.written
  /\ This.child \in {"closing", "exited"}
  /\ pc' = "wait"
  /\ UNCHANGED <<host, cli, backend, loaded, gen, hooks, late, run, outcome>>

Waited ==
  /\ pc = "wait" /\ This.child = "exited"
  /\ pc' = "finally"
  /\ UNCHANGED <<host, cli, backend, loaded, gen, hooks, late, run, outcome>>

WaitTimesOut ==
  /\ pc = "wait" /\ This.child # "exited" /\ late
  /\ Update([child |-> "killed"])
  /\ pc' = "finally" /\ outcome' = "INF-122"
  /\ UNCHANGED <<host, cli, backend, loaded, gen, hooks, late>>

\* Mutant: the file is removed on the way of an answer only
FinallyAfterSuccess ==
  /\ pc = "finally"
  /\ Update([file |-> outcome # "none",
             ticker |-> IF This.ticker = "waiting" THEN "stopping" ELSE This.ticker])
  /\ pc' = "join ticker"
  /\ UNCHANGED <<host, cli, backend, loaded, gen, hooks, late, outcome>>

\* The finally clause: the prompt file goes, the ticker is told to stop
Finally ==
  /\ pc = "finally"
  /\ Update([file |-> FALSE,
             ticker |-> IF This.ticker = "waiting" THEN "stopping" ELSE This.ticker])
  /\ pc' = "join ticker"
  /\ UNCHANGED <<host, cli, backend, loaded, gen, hooks, late, outcome>>

\* Two seconds are enough for a thread that has nothing to wait for
JoinTicker ==
  /\ pc = "join ticker"
  /\ This.ticker \in {"none", "ended", "calling"}
  /\ pc' = "join drainer"
  /\ UNCHANGED <<host, cli, backend, loaded, gen, hooks, late, run, outcome>>

Alive(g) == run[g].child \in {"running", "stalled", "closing"}

\* Mutant: the drainer is not waited for
JoinNobody ==
  /\ pc = "join drainer"
  /\ pc' = "judge"
  /\ UNCHANGED <<host, cli, backend, loaded, gen, hooks, late, run, outcome>>

\* The join gives up after two seconds, whether the child still keeps stderr open or the
\* drainer is just slow
JoinDrainer ==
  /\ pc = "join drainer"
  /\ Update([missed |-> This.drainer # "ended"])
  /\ pc' = "judge"
  /\ UNCHANGED <<host, cli, backend, loaded, gen, hooks, late, outcome>>

\* What cleaning leaves of an output that is not empty is either an answer
\* or nothing
Judge ==
  /\ pc = "judge"
  /\ CASE outcome = "TypeError" -> AfterTypeError
       [] outcome \notin {"none", "TypeError"} -> Ends(outcome) /\ UNCHANGED <<gen, hooks, late>>
       [] outcome = "none" ->
            /\ IF This.code # 0
               THEN Ends(IF "invalid argument" \in This.errors THEN "INF-125" ELSE "INF-123")
               ELSE IF This.read = 0 THEN Ends("INF-124")
                    ELSE Ends("answer") \/ Ends("INF-126")
            /\ UNCHANGED <<gen, hooks, late>>
  /\ UNCHANGED <<host, cli, backend, loaded, run>>

-----------------------------------------------------------------------------
(* The child and the threads, of the current and of earlier generations *)

Others == <<host, cli, backend, loaded, pc, gen, hooks, late, outcome>>
Step(g, fields) == run' = [run EXCEPT ![g] = With(@, fields)] /\ UNCHANGED Others

\* A build refuses the command it does not accept: it may name the flag, and fails
Refuses == ~(Command \subseteq cli.accepts)

ChildWrites(g) ==
  /\ run[g].child = "running" /\ ~Refuses
  /\ run[g].written < MaxOutput /\ run[g].written - run[g].read < Pipe
  /\ Step(g, [written |-> run[g].written + 1])

ChildLogs(g) ==
  /\ run[g].child = "running"
  /\ Len(run[g].said) < MaxLines /\ Len(run[g].stderr) < Pipe
  /\ \E line \in Lines :
       /\ line = "invalid argument" => Refuses
       /\ Step(g, [stderr |-> Append(run[g].stderr, line), said |-> Append(run[g].said, line)])

\* The child has written all it has to write
ChildCloses(g) ==
  /\ run[g].child = "running" /\ Len(run[g].said) = MaxLines
  /\ Step(g, [child |-> "closing"])

ChildExits(g) ==
  /\ run[g].child = "closing"
  /\ \E code \in {0, 1} :
       /\ Refuses => code = 1
       /\ Step(g, [child |-> "exited", code |-> code])

\* It waits for something that never comes
ChildStalls(g) ==
  /\ run[g].child = "running"
  /\ Step(g, [child |-> "stalled"])

\* Mutant: stderr is read once the child has ended
DrainerReadsLate(g) ==
  /\ run[g].drainer = "reading" /\ run[g].stderr # <<>> /\ ~Alive(g)
  /\ Step(g, [stderr |-> Tail(run[g].stderr), errors |-> run[g].errors \cup {Head(run[g].stderr)}])

DrainerReads(g) ==
  /\ run[g].drainer = "reading" /\ run[g].stderr # <<>>
  /\ Step(g, [stderr |-> Tail(run[g].stderr), errors |-> run[g].errors \cup {Head(run[g].stderr)}])

DrainerEnds(g) ==
  /\ run[g].drainer = "reading" /\ run[g].stderr = <<>> /\ run[g].child # "none" /\ ~Alive(g)
  /\ Step(g, [drainer |-> "ended"])

TickerCalls(g) ==
  /\ run[g].ticker = "waiting"
  /\ Step(g, [ticker |-> "calling"])

\* on_progress may take long: the call may have gone on without the ticker
TickerReturns(g) ==
  /\ run[g].ticker = "calling"
  /\ Step(g, [ticker |-> IF g = gen /\ pc \in {"reading", "wait", "finally"}
                         THEN "waiting" ELSE "ended"])

TickerEnds(g) ==
  /\ run[g].ticker = "stopping"
  /\ Step(g, [ticker |-> "ended"])

Child(g) == ChildWrites(g) \/ ChildLogs(g) \/ ChildCloses(g) \/ ChildExits(g)
Threads(g) ==
  DrainerReads(g) \/ DrainerEnds(g) \/ TickerCalls(g) \/ TickerReturns(g) \/ TickerEnds(g)

Caller ==
  \/ HooksRefused \/ GeneratesInLibrary \/ Simulates \/ AnswersOverHttp
  \/ WritePrompt \/ AsksForHelp \/ Spawn \/ SpawnFails
  \/ ReadChar \/ HookRaises \/ EndOfOutput \/ Waited \/ WaitTimesOut
  \/ Finally \/ JoinTicker \/ JoinDrainer \/ Judge

Next ==
  \/ HostChanges \/ BuildBackend \/ Load \/ Request \/ DeadlinePasses
  \/ Caller
  \/ \E g \in Ids : Child(g) \/ ChildStalls(g) \/ Threads(g)

Spec == Init /\ [][Next]_vars

\* A child that has not stalled goes on: the weakest assumption under which
\* anything can be said about its end
Fairness ==
  /\ WF_vars(Caller)
  /\ WF_vars(DeadlinePasses)
  /\ \A g \in Ids : /\ WF_vars(Child(g))
                    /\ WF_vars(DrainerReads(g)) /\ WF_vars(DrainerEnds(g))
                    /\ WF_vars(TickerEnds(g))

LiveSpec == Spec /\ Fairness

-----------------------------------------------------------------------------
(* Properties *)

Ended == pc = "idle" /\ gen # 0

\* What llama-cli returns as an answer is all it has written: the output of a
\* child that failed, was killed or is still writing is never returned
AnswerIsWhole ==
  Ended /\ outcome = "answer" /\ backend = "llama-cli" =>
    /\ This.child = "exited" /\ This.code = 0
    /\ This.read = This.written

\* A flag that the binary rejects is named as the reason, and nothing else is: the last
\* lines of stderr have been read when the error is chosen, unless the drainer took more
\* than the two seconds it is given after the child has exited
Complained(g) == \E i \in DOMAIN run[g].said : run[g].said[i] = "invalid argument"
RejectedFlagIsNamed ==
  Ended =>
    /\ outcome = "INF-125" => Complained(gen)
    /\ outcome = "INF-123" /\ Complained(gen) => This.missed

\* A flag is refused only where the probe has failed or the build lacks a flag that is
\* never probed, which is what INF-125 tells the user.  An answer comes from a child that
\* was kept out of conversation mode, if its build knows how: a request after a
\* --help that printed an error may be answered out of it
KeptOut(flags) == \E i \in DOMAIN NoConversationFlags : NoConversationFlags[i] \in flags
FlagsFitTheBuild ==
  Ended /\ backend = "llama-cli" =>
    /\ outcome = "INF-125" => cli.help # "flags" \/ ~(FixedFlags \subseteq cli.accepts)
    /\ outcome = "answer" =>
         /\ Command \subseteq cli.accepts
         /\ cli.help # "error" /\ KeptOut(cli.accepts) => KeptOut(Command)

\* A generation that ends by itself leaves nothing behind, however it ends:
\* no prompt file, no process, no thread.  A hook that raises leaves the child
\* alone, a drainer that was too slow goes on until it has read what there is, and
\* progress may still be reported while a call of on_progress runs.
Foreign == {"OSError", "other"}
NothingLeftBehind ==
  Ended /\ outcome \notin Foreign /\ backend = "llama-cli" =>
    /\ ~This.file
    /\ ~Alive(gen) /\ (This.drainer = "ended" \/ This.missed)
    /\ This.ticker \in {"none", "calling", "ended"}

\* A request ends unless its child falls silent for ever: neither pipe blocks
\* both sides, and a child that keeps writing is stopped by the deadline
GenerateEnds == pc = "generate" ~> (pc = "idle" \/ This.child = "stalled")
=============================================================================
