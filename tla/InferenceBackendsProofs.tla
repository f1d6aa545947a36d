----------------------- MODULE InferenceBackendsProofs -----------------------
(***************************************************************************)
(* What a call of generate() may be believed about when the backend is     *)
(* llama-cli: for every pipe, every length of output, every number of      *)
(* generations and whatever the hooks of the caller raise.                 *)
(***************************************************************************)
EXTENDS InferenceBackends, TLAPS

ChildState == {"none", "running", "stalled", "closing", "exited", "killed"}
RunType ==
  [child : ChildState, code : {0, 1}, written : Nat, read : Nat,
   stderr : Seq(Lines), said : Seq(Lines), errors : SUBSET Lines,
   drainer : {"none", "reading", "ended"}, missed : BOOLEAN,
   ticker : {"none", "waiting", "calling", "stopping", "ended"}, file : BOOLEAN]

\* Where llama-cli is the backend
InCli == {"spawn", "reading", "wait", "finally", "join ticker", "join drainer", "judge"}

TypeOK ==
  /\ run \in [Ids -> RunType]
  /\ gen \in 0..Generations
  /\ pc \in InCli \cup {"idle", "generate"}
  /\ hooks \in BOOLEAN

\* A call has a generation and a backend, and one that streams can try again
Placed ==
  /\ gen # 0 => loaded
  /\ loaded => backend # "none"
  /\ pc # "idle" => gen # 0
  /\ pc # "idle" /\ hooks => gen < Generations
  /\ pc \in InCli => backend = "llama-cli"
  /\ \A g \in Ids : g > gen => run[g] = NotStarted

\* The lines in a sequence
LinesOf(s) == {s[i] : i \in DOMAIN s}

\* What the child has said is in the pipe or with the drainer, which ends with an
\* empty pipe and a child that is gone; without a child there is no thread
Orderly(r) ==
  /\ LinesOf(r.said) = r.errors \cup LinesOf(r.stderr)
  /\ r.drainer = "ended" => r.stderr = <<>> /\ r.child \in {"exited", "killed"}
  /\ r.child = "none" <=> r.drainer = "none"
  /\ r.child = "none" => r.ticker = "none"
  /\ r.read <= r.written

\* The prompt file is all there is
Prompted == With(NotStarted, [file |-> TRUE])

After == {"finally", "join ticker", "join drainer", "judge"}

\* What the calling thread may rely on where it stands
CallInv ==
  /\ pc = "generate" => This = NotStarted
  /\ pc \in {"generate", "spawn", "reading", "wait"} => outcome = "none"
  /\ pc = "spawn" => This = Prompted
  /\ pc \in {"reading", "wait"} \cup After => This.child # "none"
  /\ pc = "wait" => This.read = This.written /\ This.child \in {"closing", "exited"}
  /\ pc \in After =>
       /\ outcome \in {"none", "INF-122"} \cup HookFaults
       /\ outcome = "none" => This.child = "exited" /\ This.read = This.written
       /\ outcome = "INF-122" => This.child = "killed"
       /\ outcome = "TypeError" => hooks
  /\ pc \in {"join ticker", "join drainer", "judge"} => ~This.file /\ This.ticker # "waiting"
  /\ pc \in {"join drainer", "judge"} => This.ticker \in {"none", "calling", "ended"}
  /\ pc = "judge" /\ outcome \in {"none", "INF-122"} => This.drainer = "ended" \/ This.missed

\* What holds of the generation that has ended
Left ==
  Ended =>
    /\ outcome \in {"answer", "OSError", "other", "INF-112", "INF-122", "INF-123", "INF-124",
                    "INF-125", "INF-126"}
    /\ outcome \in {"INF-122", "INF-123", "INF-124", "INF-125", "INF-126"}
         => backend = "llama-cli"
    /\ outcome \notin Foreign /\ backend = "llama-cli" =>
         /\ ~This.file /\ This.child \in {"exited", "killed"}
         /\ This.drainer = "ended" \/ This.missed
         /\ This.ticker \in {"none", "calling", "ended"}
    /\ AnswerIsWhole /\ RejectedFlagIsNamed

Inv == TypeOK /\ Placed /\ (\A g \in Ids : Orderly(run[g])) /\ CallInv /\ Left

-----------------------------------------------------------------------------
(* What the child and the threads do to a generation.                      *)

\* From r to q, while the calling thread stands still
Moves(r, q) ==
  /\ q.file = r.file /\ q.read = r.read /\ q.missed = r.missed
  /\ r.child \in {"none", "exited", "killed"} =>
       q.child = r.child /\ q.code = r.code /\ q.written = r.written /\ q.said = r.said
  /\ r.child = "closing" => q.child \in {"closing", "exited"} /\ q.written = r.written
  /\ r.child \in {"running", "stalled"} => q.child \in {"running", "stalled", "closing"}
  /\ r.drainer = "ended" => q.drainer = "ended"
  /\ r.child = "none" => q = r

\* A thread of the current generation learns that it is to end
TickerMoves(r, q) ==
  pc \notin {"reading", "wait", "finally"} =>
    /\ r.ticker # "waiting" => q.ticker # "waiting"
    /\ r.ticker \in {"none", "calling", "ended"} => q.ticker \in {"none", "calling", "ended"}

\* What is appended to, or taken from, a sequence of lines.
LEMMA LinesMove ==
  ASSUME NEW s \in Seq(Lines)
  PROVE  /\ \A line \in Lines : /\ Append(s, line) \in Seq(Lines)
                                /\ LinesOf(Append(s, line)) = LinesOf(s) \cup {line}
         /\ s # <<>> => /\ Head(s) \in Lines /\ Tail(s) \in Seq(Lines)
                        /\ LinesOf(s) = {Head(s)} \cup LinesOf(Tail(s))
<1>1. ASSUME NEW line \in Lines
      PROVE  LinesOf(Append(s, line)) = LinesOf(s) \cup {line}
  <2>1. /\ DOMAIN Append(s, line) = 1..(Len(s) + 1) /\ DOMAIN s = 1..Len(s)
        /\ \A i \in 1..Len(s) : Append(s, line)[i] = s[i]
        /\ Append(s, line)[Len(s) + 1] = line /\ Len(s) \in Nat
    OBVIOUS
  <2>2. \A i \in 1..(Len(s) + 1) : i \in 1..Len(s) \/ i = Len(s) + 1
    BY <2>1
  <2>3. LinesOf(Append(s, line)) \subseteq LinesOf(s) \cup {line}
    BY <2>1, <2>2 DEF LinesOf
  <2>4. \A i \in 1..Len(s) : i \in 1..(Len(s) + 1) /\ Append(s, line)[i] = s[i]
    BY <2>1
  <2>5. LinesOf(s) \subseteq LinesOf(Append(s, line))
    BY <2>1, <2>4 DEF LinesOf
  <2>6. line \in LinesOf(Append(s, line))
    BY <2>1 DEF LinesOf
  <2> QED
    BY <2>3, <2>5, <2>6
<1>2. ASSUME s # <<>>
      PROVE  LinesOf(s) = {Head(s)} \cup LinesOf(Tail(s))
  <2>1. /\ Len(s) \in Nat \ {0} /\ DOMAIN s = 1..Len(s)
        /\ DOMAIN Tail(s) = 1..(Len(s) - 1)
        /\ \A i \in 1..(Len(s) - 1) : Tail(s)[i] = s[i + 1]
        /\ Head(s) = s[1]
    BY <1>2
  <2>2. \A i \in 1..Len(s) : i = 1 \/ (i - 1 \in 1..(Len(s) - 1) /\ Tail(s)[i - 1] = s[i])
    BY <2>1
  <2>3. LinesOf(s) \subseteq {Head(s)} \cup LinesOf(Tail(s))
    <3> SUFFICES ASSUME NEW i \in 1..Len(s) PROVE s[i] \in {Head(s)} \cup LinesOf(Tail(s))
      BY <2>1 DEF LinesOf
    <3>1. CASE i = 1
      BY <2>1, <3>1
    <3>2. CASE i # 1
      <4>1. i - 1 \in DOMAIN Tail(s) /\ Tail(s)[i - 1] = s[i]
        BY <2>1, <2>2, <3>2
      <4> QED
        BY <4>1 DEF LinesOf
    <3> QED
      BY <3>1, <3>2
  <2>4. \A i \in 1..(Len(s) - 1) : i + 1 \in 1..Len(s) /\ Tail(s)[i] = s[i + 1]
    BY <2>1
  <2>5. LinesOf(Tail(s)) \subseteq LinesOf(s)
    BY <2>1, <2>4 DEF LinesOf
  <2>6. Head(s) \in LinesOf(s)
    BY <2>1 DEF LinesOf
  <2> QED
    BY <2>3, <2>5, <2>6
<1>3. /\ \A line \in Lines : Append(s, line) \in Seq(Lines)
      /\ s # <<>> => Head(s) \in Lines /\ Tail(s) \in Seq(Lines)
  OBVIOUS
<1> QED
  BY <1>1, <1>2, <1>3

\* The fields of a generation are known.
LEMMA Fields ==
  ASSUME NEW r \in RunType
  PROVE  DOMAIN r = {"child", "code", "written", "read", "stderr", "said", "errors", "drainer",
                     "missed", "ticker", "file"}
  BY DEF RunType

\* A generation without a child is orderly, before and after its prompt is written.
LEMMA Unstarted ==
  /\ NotStarted \in RunType /\ Orderly(NotStarted) /\ NotStarted.child = "none"
  /\ Prompted \in RunType /\ Orderly(Prompted) /\ Prompted.child = "none"
<1>1. NotStarted \in RunType
  BY DEF NotStarted, RunType, ChildState
<1>2. /\ NotStarted.child = "none" /\ NotStarted.drainer = "none" /\ NotStarted.ticker = "none"
      /\ NotStarted.said = <<>> /\ NotStarted.stderr = <<>> /\ NotStarted.errors = {}
      /\ NotStarted.read = 0 /\ NotStarted.written = 0
  BY DEF NotStarted
<1>3. LinesOf(<<>>) = {}
  BY DEF LinesOf
<1>4. /\ Prompted \in RunType
      /\ \A f \in {"child", "drainer", "ticker", "said", "stderr", "errors", "read", "written"} :
           Prompted[f] = NotStarted[f]
  BY <1>1, Fields DEF Prompted, With, RunType
<1> QED
  BY <1>1, <1>2, <1>3, <1>4 DEF Orderly

\* A step of the child or of a thread moves one generation, within its bounds.
LEMMA GenerationMoves ==
  ASSUME NEW g \in Ids, TypeOK, Orderly(run[g]), Child(g) \/ ChildStalls(g) \/ Threads(g)
  PROVE  /\ UNCHANGED Others
         /\ run'[g] \in RunType /\ run' = [run EXCEPT ![g] = run'[g]]
         /\ Orderly(run'[g]) /\ Moves(run[g], run'[g])
         /\ g = gen => TickerMoves(run[g], run'[g])
<1> DEFINE r == run[g]
<1>1. r \in RunType /\ run \in [Ids -> RunType]
  BY DEF TypeOK
<1>2. ASSUME NEW fields, Step(g, fields), With(r, fields) \in RunType,
             Orderly(With(r, fields)), Moves(r, With(r, fields)),
             g = gen => TickerMoves(r, With(r, fields))
      PROVE  /\ UNCHANGED Others
             /\ run'[g] \in RunType /\ run' = [run EXCEPT ![g] = run'[g]]
             /\ Orderly(run'[g]) /\ Moves(run[g], run'[g])
             /\ g = gen => TickerMoves(run[g], run'[g])
  <2>1. run' = [run EXCEPT ![g] = With(r, fields)] /\ UNCHANGED Others
    BY <1>2 DEF Step
  <2>2. run'[g] = With(r, fields)
    BY <1>1, <2>1
  <2> QED
    BY <1>2, <2>1, <2>2
<1> HIDE DEF r
<1>3. CASE ChildWrites(g)
  <2> DEFINE q == With(r, [written |-> r.written + 1])
  <2>1. /\ r.child = "running"
        /\ Step(g, [written |-> r.written + 1])
    BY <1>3 DEF ChildWrites, r
  <2>2. /\ q \in RunType /\ q.child = r.child /\ q.code = r.code
        /\ q.written = r.written + 1 /\ q.read = r.read /\ q.stderr = r.stderr
        /\ q.said = r.said /\ q.errors = r.errors /\ q.drainer = r.drainer
        /\ q.ticker = r.ticker /\ q.file = r.file /\ q.missed = r.missed
    BY <1>1, <2>1, Fields DEF With, RunType, ChildState
  <2>3. Orderly(q) /\ Moves(r, q) /\ (g = gen => TickerMoves(r, q))
    BY <1>1, <2>1, <2>2 DEF Orderly, Moves, TickerMoves, RunType, ChildState, r
  <2> QED
    BY <1>2, <2>1, <2>2, <2>3
<1>4. CASE ChildLogs(g)
  <2>0. PICK line \in Lines :
          Step(g, [stderr |-> Append(r.stderr, line), said |-> Append(r.said, line)])
    BY <1>4 DEF ChildLogs, r
  <2> DEFINE q == With(r, [stderr |-> Append(r.stderr, line), said |-> Append(r.said, line)])
  <2>1. /\ r.child = "running"
        /\ Step(g, [stderr |-> Append(r.stderr, line), said |-> Append(r.said, line)])
    BY <1>4, <2>0 DEF ChildLogs, r
  <2>2. /\ q \in RunType /\ q.child = r.child /\ q.code = r.code /\ q.written = r.written
        /\ q.read = r.read /\ q.stderr = Append(r.stderr, line)
        /\ q.said = Append(r.said, line) /\ q.errors = r.errors /\ q.drainer = r.drainer
        /\ q.ticker = r.ticker /\ q.file = r.file /\ q.missed = r.missed
    BY <1>1, <2>1, Fields, <2>0, LinesMove DEF With, RunType, ChildState, r
  <2>3. /\ LinesOf(q.said) = LinesOf(r.said) \cup {line}
        /\ LinesOf(q.stderr) = LinesOf(r.stderr) \cup {line}
    BY <1>1, <2>0, <2>2, LinesMove DEF RunType, r
  <2>4. r.drainer # "ended" /\ LinesOf(q.said) = q.errors \cup LinesOf(q.stderr)
    BY <2>1, <2>2, <2>3 DEF Orderly, r
  <2> HIDE DEF q
  <2>5. Orderly(q) /\ Moves(r, q) /\ (g = gen => TickerMoves(r, q))
    BY <2>1, <2>2, <2>4 DEF Orderly, Moves, TickerMoves, r
  <2> QED
    BY <1>2, <2>1, <2>2, <2>5 DEF q
<1>5. CASE ChildCloses(g)
  <2> DEFINE q == With(r, [child |-> "closing"])
  <2>1. /\ r.child = "running"
        /\ Step(g, [child |-> "closing"])
    BY <1>5 DEF ChildCloses, r
  <2>2. /\ q \in RunType /\ q.child = "closing" /\ q.code = r.code
        /\ q.written = r.written /\ q.read = r.read /\ q.stderr = r.stderr
        /\ q.said = r.said /\ q.errors = r.errors /\ q.drainer = r.drainer
        /\ q.ticker = r.ticker /\ q.file = r.file /\ q.missed = r.missed
    BY <1>1, <2>1, Fields DEF With, RunType, ChildState
  <2>3. Orderly(q) /\ Moves(r, q) /\ (g = gen => TickerMoves(r, q))
    BY <1>1, <2>1, <2>2 DEF Orderly, Moves, TickerMoves, RunType, ChildState, r
  <2> QED
    BY <1>2, <2>1, <2>2, <2>3
<1>6. CASE ChildExits(g)
  <2>0. PICK code \in {0, 1} : Step(g, [child |-> "exited", code |-> code])
    BY <1>6 DEF ChildExits, r
  <2> DEFINE q == With(r, [child |-> "exited", code |-> code])
  <2>1. /\ r.child = "closing"
        /\ Step(g, [child |-> "exited", code |-> code])
    BY <1>6, <2>0 DEF ChildExits, r
  <2>2. /\ q \in RunType /\ q.child = "exited" /\ q.code = code /\ q.written = r.written
        /\ q.read = r.read /\ q.stderr = r.stderr /\ q.said = r.said
        /\ q.errors = r.errors /\ q.drainer = r.drainer /\ q.ticker = r.ticker
        /\ q.file = r.file /\ q.missed = r.missed
    BY <1>1, <2>1, Fields, <2>0 DEF With, RunType, ChildState
  <2>3. Orderly(q) /\ Moves(r, q) /\ (g = gen => TickerMoves(r, q))
    BY <1>1, <2>1, <2>2, <2>0 DEF Orderly, Moves, TickerMoves, RunType, ChildState, r
  <2> QED
    BY <1>2, <2>1, <2>2, <2>3
<1>7. CASE ChildStalls(g)
  <2> DEFINE q == With(r, [child |-> "stalled"])
  <2>1. /\ r.child = "running"
        /\ Step(g, [child |-> "stalled"])
    BY <1>7 DEF ChildStalls, r
  <2>2. /\ q \in RunType /\ q.child = "stalled" /\ q.code = r.code
        /\ q.written = r.written /\ q.read = r.read /\ q.stderr = r.stderr
        /\ q.said = r.said /\ q.errors = r.errors /\ q.drainer = r.drainer
        /\ q.ticker = r.ticker /\ q.file = r.file /\ q.missed = r.missed
    BY <1>1, <2>1, Fields DEF With, RunType, ChildState
  <2>3. Orderly(q) /\ Moves(r, q) /\ (g = gen => TickerMoves(r, q))
    BY <1>1, <2>1, <2>2 DEF Orderly, Moves, TickerMoves, RunType, ChildState, r
  <2> QED
    BY <1>2, <2>1, <2>2, <2>3
<1>8. CASE DrainerReads(g)
  <2> DEFINE q == With(r, [stderr |-> Tail(r.stderr), errors |-> r.errors \cup {Head(r.stderr)}])
  <2>1. /\ r.drainer = "reading" /\ r.stderr # <<>>
        /\ Step(g, [stderr |-> Tail(r.stderr), errors |-> r.errors \cup {Head(r.stderr)}])
    BY <1>8 DEF DrainerReads, r
  <2>2. /\ q \in RunType /\ q.child = r.child /\ q.code = r.code /\ q.written = r.written
        /\ q.read = r.read /\ q.stderr = Tail(r.stderr) /\ q.said = r.said
        /\ q.errors = r.errors \cup {Head(r.stderr)} /\ q.drainer = r.drainer
        /\ q.ticker = r.ticker /\ q.file = r.file /\ q.missed = r.missed
    BY <1>1, <2>1, Fields, LinesMove DEF With, RunType, ChildState, r
  <2>3. Orderly(q) /\ Moves(r, q) /\ (g = gen => TickerMoves(r, q))
    BY <1>1, <2>1, <2>2, LinesMove DEF Orderly, Moves, TickerMoves, RunType, ChildState, r
  <2> QED
    BY <1>2, <2>1, <2>2, <2>3
<1>9. CASE DrainerEnds(g)
  <2> DEFINE q == With(r, [drainer |-> "ended"])
  <2>1. /\ r.drainer = "reading" /\ r.stderr = <<>>
        /\ r.child \notin {"none", "running", "stalled", "closing"}
        /\ Step(g, [drainer |-> "ended"])
    BY <1>9 DEF DrainerEnds, r, Alive
  <2>2. /\ q \in RunType /\ q.child = r.child /\ q.code = r.code /\ q.written = r.written
        /\ q.read = r.read /\ q.stderr = r.stderr /\ q.said = r.said
        /\ q.errors = r.errors /\ q.drainer = "ended" /\ q.ticker = r.ticker
        /\ q.file = r.file /\ q.missed = r.missed
    BY <1>1, <2>1, Fields DEF With, RunType, ChildState
  <2>3. Orderly(q) /\ Moves(r, q) /\ (g = gen => TickerMoves(r, q))
    BY <1>1, <2>1, <2>2 DEF Orderly, Moves, TickerMoves, RunType, ChildState, r
  <2> QED
    BY <1>2, <2>1, <2>2, <2>3
<1>10. CASE TickerCalls(g)
  <2> DEFINE q == With(r, [ticker |-> "calling"])
  <2>1. /\ r.ticker = "waiting"
        /\ Step(g, [ticker |-> "calling"])
    BY <1>10 DEF TickerCalls, r
  <2>2. /\ q \in RunType /\ q.child = r.child /\ q.code = r.code /\ q.written = r.written
        /\ q.read = r.read /\ q.stderr = r.stderr /\ q.said = r.said
        /\ q.errors = r.errors /\ q.drainer = r.drainer /\ q.ticker = "calling"
        /\ q.file = r.file /\ q.missed = r.missed
    BY <1>1, <2>1, Fields DEF With, RunType, ChildState
  <2>3. Orderly(q) /\ Moves(r, q) /\ (g = gen => TickerMoves(r, q))
    BY <1>1, <2>1, <2>2 DEF Orderly, Moves, TickerMoves, RunType, ChildState, r
  <2> QED
    BY <1>2, <2>1, <2>2, <2>3
<1>11. CASE TickerReturns(g)
  <2>0. PICK ticker \in {"waiting", "ended"} :
          /\ Step(g, [ticker |-> ticker])
          /\ g = gen /\ pc \notin {"reading", "wait", "finally"} => ticker = "ended"
    BY <1>11 DEF TickerReturns, r
  <2> DEFINE q == With(r, [ticker |-> ticker])
  <2>1. /\ r.ticker = "calling"
        /\ Step(g, [ticker |-> ticker])
    BY <1>11, <2>0 DEF TickerReturns, r
  <2>2. /\ q \in RunType /\ q.child = r.child /\ q.code = r.code /\ q.written = r.written
        /\ q.read = r.read /\ q.stderr = r.stderr /\ q.said = r.said
        /\ q.errors = r.errors /\ q.drainer = r.drainer /\ q.ticker = ticker
        /\ q.file = r.file /\ q.missed = r.missed
    BY <1>1, <2>1, Fields, <2>0 DEF With, RunType, ChildState
  <2>3. Orderly(q) /\ Moves(r, q) /\ (g = gen => TickerMoves(r, q))
    BY <1>1, <2>1, <2>2, <2>0 DEF Orderly, Moves, TickerMoves, RunType, ChildState, r
  <2> QED
    BY <1>2, <2>1, <2>2, <2>3
<1>12. CASE TickerEnds(g)
  <2> DEFINE q == With(r, [ticker |-> "ended"])
  <2>1. /\ r.ticker = "stopping"
        /\ Step(g, [ticker |-> "ended"])
    BY <1>12 DEF TickerEnds, r
  <2>2. /\ q \in RunType /\ q.child = r.child /\ q.code = r.code /\ q.written = r.written
        /\ q.read = r.read /\ q.stderr = r.stderr /\ q.said = r.said
        /\ q.errors = r.errors /\ q.drainer = r.drainer /\ q.ticker = "ended"
        /\ q.file = r.file /\ q.missed = r.missed
    BY <1>1, <2>1, Fields DEF With, RunType, ChildState
  <2>3. Orderly(q) /\ Moves(r, q) /\ (g = gen => TickerMoves(r, q))
    BY <1>1, <2>1, <2>2 DEF Orderly, Moves, TickerMoves, RunType, ChildState, r
  <2> QED
    BY <1>2, <2>1, <2>2, <2>3
<1> QED
  BY <1>3, <1>4, <1>5, <1>6, <1>7, <1>8, <1>9, <1>10, <1>11, <1>12 DEF Child, Threads

\* While the calling thread stands still, what it relies on stays true.
LEMMA InvThreads ==
  ASSUME Inv, NEW g \in Ids, Child(g) \/ ChildStalls(g) \/ Threads(g)
  PROVE  Inv'
<1>1. /\ UNCHANGED Others
      /\ run'[g] \in RunType /\ run' = [run EXCEPT ![g] = run'[g]]
      /\ Orderly(run'[g]) /\ Moves(run[g], run'[g])
      /\ g = gen => TickerMoves(run[g], run'[g])
  BY GenerationMoves DEF Inv
<1>2. \A h \in Ids : h # g => run'[h] = run[h]
  BY <1>1 DEF Inv, TypeOK
<1>3. TypeOK'
  BY <1>1 DEF Inv, TypeOK, Others
<1>4. Placed'
  <2>1. \A h \in Ids : h > gen => run'[h] = NotStarted
    BY <1>1, <1>2 DEF Inv, Placed, Moves, NotStarted
  <2> QED
    BY <1>1, <2>1 DEF Inv, Placed, Others
<1>5. (\A h \in Ids : Orderly(run[h]))'
  BY <1>1, <1>2 DEF Inv
<1>6. gen \in Ids => /\ This' = This \/ (Moves(This, This') /\ TickerMoves(This, This'))
                     /\ This' \in RunType /\ This \in RunType
  BY <1>1, <1>2, <1>3 DEF This, Others, Inv, TypeOK
<1>7. gen = 0 \/ gen \in Ids
  BY BackendsAssumption DEF Inv, TypeOK, Ids
<1>8. pc # "idle" => gen # 0
  BY DEF Inv, Placed
<1>9. UNCHANGED <<host, backend, loaded, pc, gen, hooks, late, outcome>>
  BY <1>1 DEF Others
<1>10. CallInv'
  <2>1. CASE pc = "idle"
    BY <1>9, <2>1 DEF CallInv, After
  <2>2. CASE pc # "idle" /\ This' = This
    BY <1>9, <2>2 DEF CallInv, After, Inv
  <2>3. CASE pc # "idle" /\ Moves(This, This') /\ TickerMoves(This, This')
    <3>1. pc \in {"generate", "spawn"} => This' = This
      BY <2>3, Unstarted DEF Inv, CallInv, Moves
    <3>2. This.child # "none" => This'.child # "none"
      BY <1>6, <1>7, <1>8, <2>3 DEF Moves, RunType, ChildState
    <3> QED
      BY <1>9, <2>3, <3>1, <3>2 DEF Inv, CallInv, After, Moves, TickerMoves
  <2> QED
    BY <1>6, <1>7, <1>8, <2>1, <2>2, <2>3
<1>11. Left'
  <2>1. CASE ~Ended
    BY <1>9, <2>1 DEF Left, Ended
  <2>2. CASE Ended /\ This' = This
    BY <1>9, <2>2 DEF Left, Ended, Inv, AnswerIsWhole, RejectedFlagIsNamed, Complained, This
  <2>3. CASE Ended /\ Moves(This, This') /\ TickerMoves(This, This')
    <3>1. outcome \notin Foreign /\ backend = "llama-cli" =>
            /\ This'.child = This.child /\ This'.code = This.code /\ This'.file = This.file
            /\ This'.written = This.written /\ This'.read = This.read
            /\ This'.said = This.said /\ This'.missed = This.missed
            /\ This.drainer = "ended" => This'.drainer = "ended"
            /\ This'.ticker \in {"none", "calling", "ended"}
      BY <2>3 DEF Inv, Left, Moves, TickerMoves, Ended
    <3>2. AnswerIsWhole' /\ RejectedFlagIsNamed'
      BY <1>9, <2>3, <3>1
         DEF Inv, Left, Ended, AnswerIsWhole, RejectedFlagIsNamed, Complained, This, Foreign
    <3> QED
      BY <1>9, <2>3, <3>1, <3>2 DEF Inv, Left, Ended
  <2> QED
    BY <1>6, <1>7, <2>1, <2>2, <2>3 DEF Ended
<1> QED
  BY <1>3, <1>4, <1>5, <1>10, <1>11 DEF Inv

-----------------------------------------------------------------------------
(* The calling thread.                                                     *)

\* Steps that leave every generation alone, and their number
LEMMA SameGenerations ==
  ASSUME Inv, UNCHANGED <<run, gen>>
  PROVE  This' = This /\ (\A g \in Ids : Orderly(run[g]))' /\ run' \in [Ids -> RunType]
  BY DEF Inv, TypeOK, This

\* A call takes the next generation, which has not started
LEMMA NextGeneration ==
  ASSUME Inv, gen < Generations, gen' = gen + 1, pc' = "generate", outcome' = "none",
         hooks' \in BOOLEAN, hooks' => gen' < Generations, loaded, UNCHANGED <<backend, loaded, run>>
  PROVE  Inv'
<1>1. gen \in 0..Generations /\ Generations \in Nat
  BY BackendsAssumption DEF Inv, TypeOK
<1>2. gen' \in Ids /\ gen' > gen
  BY <1>1 DEF Ids
<1>3. This' = NotStarted
  BY <1>2 DEF Inv, Placed, This
<1>4. TypeOK'
  BY <1>1, <1>2 DEF Inv, TypeOK, Ids
<1>5. Placed'
  <2>1. \A g \in Ids : g > gen' => run[g] = NotStarted
    BY <1>1, <1>2 DEF Inv, Placed, Ids
  <2>2. loaded' /\ backend' # "none"
    BY Zenon DEF Inv, Placed
  <2>4. gen' # 0 /\ pc' \notin InCli
    BY <1>1, <1>2 DEF InCli
  <2>3. \A g \in Ids : g > gen' => run'[g] = NotStarted
    BY <2>1
  <2> QED
    BY <2>2, <2>3, <2>4 DEF Placed
<1>6. CallInv' /\ Left'
  BY <1>3 DEF CallInv, Left, Ended, After
<1> QED
  BY <1>4, <1>5, <1>6 DEF Inv

\* Only the fields that are given change, and only in this generation.
LEMMA Updated ==
  ASSUME Inv, pc # "idle", NEW fields, Update(fields), UNCHANGED <<backend, loaded, gen, hooks>>,
         With(This, fields) \in RunType, Orderly(With(This, fields)),
         pc' \in InCli, pc \in InCli \/ backend = "llama-cli"
  PROVE  /\ This' = With(This, fields)
         /\ TypeOK' /\ Placed' /\ (\A g \in Ids : Orderly(run[g]))'
<1>1. gen \in Ids /\ run \in [Ids -> RunType]
  BY BackendsAssumption DEF Inv, TypeOK, Placed, Ids
<1>2. run' = [run EXCEPT ![gen] = With(This, fields)]
  BY DEF Update, This
<1> HIDE DEF Update
<1>3. /\ run' \in [Ids -> RunType] /\ run'[gen] = With(This, fields)
      /\ \A g \in Ids : g # gen => run'[g] = run[g]
  BY <1>1, <1>2
<1>4. This' = With(This, fields)
  BY <1>3 DEF This
<1>5. TypeOK'
  BY <1>3 DEF Inv, TypeOK
<1>6. (\A g \in Ids : Orderly(run[g]))'
  BY <1>3 DEF Inv
<1>7. \A g \in Ids : g > gen => run'[g] = NotStarted
  BY <1>1, <1>3 DEF Inv, Placed, Ids
<1>8. Placed'
  BY <1>7 DEF Inv, Placed, InCli
<1> QED
  BY <1>4, <1>5, <1>6, <1>8

\* Selecting and loading come before the first call.
LEMMA InvBefore ==
  ASSUME Inv, HostChanges \/ BuildBackend \/ Load
  PROVE  Inv'
<1>1. /\ UNCHANGED <<run, gen, pc, hooks>> /\ pc = "idle" /\ gen = 0
      /\ loaded' => backend' # "none"
  <2>1. CASE HostChanges
    <3>1. ~loaded /\ pc = "idle" /\ UNCHANGED <<backend, loaded, pc, gen, hooks, run>>
      BY <2>1 DEF HostChanges
    <3> QED
      BY <3>1 DEF Inv, Placed
  <2>2. CASE BuildBackend
    <3>1. gen = 0 /\ pc = "idle" /\ ~loaded
      BY <2>2 DEF BuildBackend, Inv, Placed
    <3> QED
      BY <2>2, <3>1 DEF BuildBackend
  <2>3. CASE Load
    BY <2>3 DEF Load, Inv, Placed
  <2> QED
    BY <2>1, <2>2, <2>3
<1>2. TypeOK' /\ (\A g \in Ids : Orderly(run[g]))'
  BY <1>1, SameGenerations DEF Inv, TypeOK
<1>3. Placed'
  BY <1>1 DEF Inv, Placed, InCli
<1>4. CallInv' /\ Left'
  BY <1>1 DEF CallInv, Left, Ended, After
<1> QED
  BY <1>2, <1>3, <1>4 DEF Inv

\* A call that begins, or begins again without its hooks.
LEMMA InvBegins ==
  ASSUME Inv, Request \/ HooksRefused
  PROVE  Inv'
<1>1. gen \in 0..Generations /\ Generations \in Nat
  BY BackendsAssumption DEF Inv, TypeOK
<1>2. CASE Request
  BY <1>1, <1>2, NextGeneration DEF Request
<1>3. CASE HooksRefused
  <2>1. gen < Generations /\ loaded
    BY <1>3 DEF HooksRefused, Inv, Placed
  <2> QED
    BY <1>3, <2>1, NextGeneration DEF HooksRefused, AfterTypeError
<1> QED
  BY <1>2, <1>3

\* The call ends, and what it leaves is as promised.
LEMMA InvEnds ==
  ASSUME Inv, pc # "idle", pc' = "idle", UNCHANGED <<backend, loaded, gen, hooks, run>>, Left'
  PROVE  Inv'
<1>1. TypeOK' /\ (\A g \in Ids : Orderly(run[g]))'
  BY SameGenerations DEF Inv, TypeOK
<1>2. Placed' /\ CallInv'
  BY DEF Inv, Placed, InCli, CallInv, After
<1> QED
  BY <1>1, <1>2 DEF Inv

\* The other backends, and a child that cannot be started.
LEMMA InvElsewhere ==
  ASSUME Inv, GeneratesInLibrary \/ Simulates \/ AnswersOverHttp \/ SpawnFails
  PROVE  Inv'
<1>1. CASE GeneratesInLibrary \/ Simulates \/ AnswersOverHttp
  <2>1. /\ pc # "idle" /\ pc' = "idle" /\ UNCHANGED <<backend, loaded, gen, hooks, run>>
        /\ outcome' \in {"answer", "other", "INF-112"} /\ backend # "llama-cli"
    BY <1>1 DEF GeneratesInLibrary, Simulates, AnswersOverHttp, Ends
  <2>2. Left'
    BY <2>1 DEF Left, AnswerIsWhole, RejectedFlagIsNamed
  <2> QED
    BY <2>1, <2>2, InvEnds
<1>2. CASE SpawnFails
  <2>1. /\ pc # "idle" /\ pc' = "idle" /\ UNCHANGED <<backend, loaded, gen, hooks, run>>
        /\ outcome' = "OSError"
    BY <1>2 DEF SpawnFails, Ends
  <2>2. Left'
    BY <2>1 DEF Left, AnswerIsWhole, RejectedFlagIsNamed, Foreign
  <2> QED
    BY <2>1, <2>2, InvEnds
<1> QED
  BY <1>1, <1>2

\* A call has a generation of its own, which is in order.
LEMMA Current ==
  ASSUME Inv, pc # "idle"
  PROVE  gen \in Ids /\ This \in RunType /\ Orderly(This)
  BY BackendsAssumption DEF Inv, TypeOK, Placed, Ids, This

\* The call goes on from one place to the next: no generation has ended.
LEMMA GoesOn ==
  ASSUME Inv, TypeOK', Placed', (\A g \in Ids : Orderly(run[g]))', CallInv', pc' # "idle"
  PROVE  Inv'
  BY DEF Inv, Left, Ended

\* A step of the calling thread that changes no generation.
LEMMA MovesOn ==
  ASSUME Inv, pc \in InCli, pc' \in InCli, UNCHANGED <<backend, loaded, gen, hooks, run>>
  PROVE  /\ TypeOK' /\ Placed' /\ (\A g \in Ids : Orderly(run[g]))'
         /\ This' = This /\ This \in RunType /\ Orderly(This)
<1>1. TypeOK' /\ (\A g \in Ids : Orderly(run[g]))' /\ This' = This
  BY SameGenerations DEF Inv, TypeOK
<1>2. Placed'
  BY DEF Inv, Placed, InCli
<1> QED
  BY <1>1, <1>2, Current DEF InCli

\* The prompt is written and the child started.
LEMMA InvStarts ==
  ASSUME Inv, WritePrompt \/ Spawn
  PROVE  Inv'
<1>1. CASE WritePrompt
  <2> DEFINE q == With(This, [file |-> TRUE])
  <2>1. /\ pc = "generate" /\ backend = "llama-cli" /\ pc' = "spawn" /\ Update([file |-> TRUE])
        /\ UNCHANGED <<backend, loaded, gen, hooks, outcome>> /\ This = NotStarted
    BY <1>1 DEF WritePrompt, Inv, CallInv
  <2>2. q = Prompted
    BY <2>1 DEF Prompted
  <2>3. TypeOK' /\ Placed' /\ (\A g \in Ids : Orderly(run[g]))' /\ This' = Prompted
    BY <2>1, <2>2, Unstarted, Updated DEF InCli
  <2>4. CallInv'
    BY <2>1, <2>3 DEF Inv, CallInv, After
  <2> QED
    BY <2>1, <2>3, <2>4, GoesOn
<1>2. CASE Spawn
  <2>0. PICK ticker \in {"waiting", "none"} :
          Update([child |-> "running", drainer |-> "reading", ticker |-> ticker])
    BY <1>2 DEF Spawn
  <2> DEFINE q == With(This, [child |-> "running", drainer |-> "reading", ticker |-> ticker])
  <2>1. /\ pc = "spawn" /\ pc' = "reading" /\ UNCHANGED <<backend, loaded, gen, hooks, outcome>>
        /\ This \in RunType /\ Orderly(This) /\ This = Prompted
    BY <1>2, Current DEF Spawn, Inv, CallInv
  <2>2. /\ q \in RunType /\ q.child = "running" /\ q.drainer = "reading" /\ q.said = This.said
        /\ q.errors = This.errors /\ q.stderr = This.stderr /\ q.read = This.read
        /\ q.written = This.written
    BY <2>0, <2>1, Fields DEF With, RunType, ChildState
  <2>3. Orderly(q)
    BY <2>1, <2>2 DEF Orderly
  <2> HIDE DEF q
  <2>4. TypeOK' /\ Placed' /\ (\A g \in Ids : Orderly(run[g]))' /\ This' = q
    BY <2>0, <2>1, <2>2, <2>3, Updated DEF InCli, q
  <2>5. CallInv'
    BY <2>1, <2>2, <2>4 DEF Inv, CallInv, After
  <2> QED
    BY <2>1, <2>4, <2>5, GoesOn
<1> QED
  BY <1>1, <1>2

\* The output is read, up to its end, to the deadline or to a hook that raises.
LEMMA InvReads ==
  ASSUME Inv, ReadChar \/ HookRaises \/ WaitTimesOut
  PROVE  Inv'
<1>1. CASE ReadChar /\ late
  <2> DEFINE q == With(This, [read |-> This.read + 1, child |-> "killed"])
  <2>1. /\ pc = "reading" /\ pc' = "finally" /\ outcome' = "INF-122" /\ This.read < This.written
        /\ This.child # "none" /\ Update([read |-> This.read + 1, child |-> "killed"])
        /\ UNCHANGED <<backend, loaded, gen, hooks>>
        /\ This \in RunType /\ Orderly(This)
    BY <1>1, Current DEF ReadChar, Inv, CallInv
  <2>2. /\ q \in RunType /\ q.child = "killed" /\ q.code = This.code /\ q.written = This.written
        /\ q.read = This.read + 1 /\ q.stderr = This.stderr /\ q.said = This.said
        /\ q.errors = This.errors /\ q.drainer = This.drainer /\ q.ticker = This.ticker
        /\ q.file = This.file
    BY <2>1, Fields DEF With, RunType, ChildState
  <2>3. Orderly(q)
    BY <2>1, <2>2 DEF Orderly, RunType
  <2> HIDE DEF q
  <2>4. TypeOK' /\ Placed' /\ (\A g \in Ids : Orderly(run[g]))' /\ This' = q
    BY <2>1, <2>2, <2>3, Updated DEF InCli, q
  <2>5. CallInv'
    BY <2>1, <2>2, <2>4 DEF Inv, CallInv, After
  <2> QED
    BY <2>1, <2>4, <2>5, GoesOn
<1>2. CASE ReadChar /\ ~late
  <2> DEFINE q == With(This, [read |-> This.read + 1])
  <2>1. /\ pc = "reading" /\ This.read < This.written
        /\ This.child # "none" /\ Update([read |-> This.read + 1])
        /\ UNCHANGED <<backend, loaded, gen, hooks, pc, outcome>>
        /\ This \in RunType /\ Orderly(This)
    BY <1>2, Current DEF ReadChar, Inv, CallInv
  <2>2. /\ q \in RunType /\ q.child = This.child /\ q.code = This.code
        /\ q.written = This.written /\ q.read = This.read + 1 /\ q.stderr = This.stderr
        /\ q.said = This.said /\ q.errors = This.errors /\ q.drainer = This.drainer
        /\ q.ticker = This.ticker /\ q.file = This.file
    BY <2>1, Fields DEF With, RunType, ChildState
  <2>3. Orderly(q)
    BY <2>1, <2>2 DEF Orderly, RunType
  <2> HIDE DEF q
  <2>4. TypeOK' /\ Placed' /\ (\A g \in Ids : Orderly(run[g]))' /\ This' = q
    BY <2>1, <2>2, <2>3, Updated DEF InCli, q
  <2>5. CallInv'
    BY <2>1, <2>2, <2>4 DEF Inv, CallInv, After
  <2> QED
    BY <2>1, <2>4, <2>5, GoesOn
<1>3. CASE HookRaises
  <2> DEFINE q == With(This, [read |-> This.read + 1])
  <2>1. /\ pc = "reading" /\ pc' = "finally" /\ outcome' \in HookFaults /\ This.read < This.written
        /\ This.child # "none" /\ Update([read |-> This.read + 1]) /\ hooks
        /\ UNCHANGED <<backend, loaded, gen, hooks>>
        /\ This \in RunType /\ Orderly(This)
    BY <1>3, Current DEF HookRaises, Inv, CallInv
  <2>2. /\ q \in RunType /\ q.child = This.child /\ q.code = This.code
        /\ q.written = This.written /\ q.read = This.read + 1 /\ q.stderr = This.stderr
        /\ q.said = This.said /\ q.errors = This.errors /\ q.drainer = This.drainer
        /\ q.ticker = This.ticker /\ q.file = This.file
    BY <2>1, Fields DEF With, RunType, ChildState
  <2>3. Orderly(q)
    BY <2>1, <2>2 DEF Orderly, RunType
  <2> HIDE DEF q
  <2>4. TypeOK' /\ Placed' /\ (\A g \in Ids : Orderly(run[g]))' /\ This' = q
    BY <2>1, <2>2, <2>3, Updated DEF InCli, q
  <2>5. CallInv'
    BY <2>1, <2>2, <2>4, BackendsAssumption DEF Inv, CallInv, After
  <2> QED
    BY <2>1, <2>4, <2>5, GoesOn
<1>4. CASE WaitTimesOut
  <2> DEFINE q == With(This, [child |-> "killed"])
  <2>1. /\ pc = "wait" /\ pc' = "finally" /\ outcome' = "INF-122"
        /\ This.child # "none" /\ Update([child |-> "killed"])
        /\ UNCHANGED <<backend, loaded, gen, hooks>>
        /\ This \in RunType /\ Orderly(This)
    BY <1>4, Current DEF WaitTimesOut, Inv, CallInv
  <2>2. /\ q \in RunType /\ q.child = "killed" /\ q.code = This.code /\ q.written = This.written
        /\ q.read = This.read /\ q.stderr = This.stderr /\ q.said = This.said
        /\ q.errors = This.errors /\ q.drainer = This.drainer /\ q.ticker = This.ticker
        /\ q.file = This.file
    BY <2>1, Fields DEF With, RunType, ChildState
  <2>3. Orderly(q)
    BY <2>1, <2>2 DEF Orderly, RunType
  <2> HIDE DEF q
  <2>4. TypeOK' /\ Placed' /\ (\A g \in Ids : Orderly(run[g]))' /\ This' = q
    BY <2>1, <2>2, <2>3, Updated DEF InCli, q
  <2>5. CallInv'
    BY <2>1, <2>2, <2>4 DEF Inv, CallInv, After
  <2> QED
    BY <2>1, <2>4, <2>5, GoesOn
<1> QED
  BY <1>1, <1>2, <1>3, <1>4

\* The finally clause of the call.
LEMMA InvFinally ==
  ASSUME Inv, Finally
  PROVE  Inv'
<1> DEFINE ticker == IF This.ticker = "waiting" THEN "stopping" ELSE This.ticker
           q == With(This, [file |-> FALSE, ticker |-> ticker])
<1>1. /\ pc = "finally" /\ pc' = "join ticker" /\ Update([file |-> FALSE, ticker |-> ticker])
      /\ UNCHANGED <<backend, loaded, gen, hooks, outcome>> /\ This.child # "none"
      /\ This \in RunType /\ Orderly(This)
  BY Current DEF Finally, Inv, CallInv, After
<1>2. ticker \in {"none", "calling", "stopping", "ended"}
  BY <1>1 DEF RunType
<1> HIDE DEF ticker
<1>3. /\ q \in RunType /\ q.child = This.child /\ q.code = This.code
      /\ q.written = This.written /\ q.read = This.read /\ q.stderr = This.stderr
      /\ q.said = This.said /\ q.errors = This.errors /\ q.drainer = This.drainer
      /\ q.ticker = ticker /\ q.file = FALSE
  BY <1>1, <1>2, Fields DEF With, RunType, ChildState
<1>4. Orderly(q)
  BY <1>1, <1>3 DEF Orderly
<1> HIDE DEF q
<1>5. TypeOK' /\ Placed' /\ (\A g \in Ids : Orderly(run[g]))' /\ This' = q
  BY <1>1, <1>3, <1>4, Updated DEF InCli, q
<1>6. CallInv'
  BY <1>1, <1>2, <1>3, <1>5 DEF Inv, CallInv, After
<1> QED
  BY <1>1, <1>5, <1>6, GoesOn

\* The steps that only wait: for the help, the end of the output, the child, a thread.
LEMMA InvWaits ==
  ASSUME Inv,
         AsksForHelp \/ DeadlinePasses \/ EndOfOutput \/ Waited \/ JoinTicker
  PROVE  Inv'
<1>1. /\ pc \in InCli /\ pc' \in InCli /\ UNCHANGED <<backend, loaded, gen, hooks, run, outcome>>
  BY DEF AsksForHelp, DeadlinePasses, EndOfOutput, Waited, JoinTicker, InCli
<1>2. /\ TypeOK' /\ Placed' /\ (\A g \in Ids : Orderly(run[g]))'
      /\ This' = This /\ This \in RunType /\ Orderly(This)
  BY <1>1, MovesOn
<1>3. CallInv'
  <2>1. CASE AsksForHelp \/ DeadlinePasses
    BY <1>1, <1>2, <2>1 DEF AsksForHelp, DeadlinePasses, Inv, CallInv, After
  <2>2. CASE EndOfOutput
    BY <1>1, <1>2, <2>2 DEF EndOfOutput, Inv, CallInv, After
  <2>3. CASE Waited
    BY <1>1, <1>2, <2>3 DEF Waited, Inv, CallInv, After
  <2> DEFINE Facts ==
               /\ outcome \in {"none", "INF-122"} \cup HookFaults
               /\ outcome = "none" => This.child = "exited" /\ This.read = This.written
               /\ outcome = "INF-122" => This.child = "killed"
               /\ outcome = "TypeError" => hooks
               /\ This.child # "none" /\ ~This.file
  <2>4. /\ UNCHANGED <<outcome, hooks>> /\ This' = This
        /\ pc \in {"join ticker", "join drainer", "judge"} => Facts
    BY <1>1, <1>2 DEF Inv, CallInv, After
  <2>5. CASE JoinTicker
    <3>1. /\ pc = "join ticker" /\ pc' = "join drainer"
          /\ This.ticker \in {"none", "calling", "ended"}
      BY <2>5 DEF JoinTicker
    <3>2. Facts'
      BY <2>4, <3>1 DEF After
    <3>3. (~This.file /\ This.ticker # "waiting" /\ This.ticker \in {"none", "calling", "ended"})'
      BY <2>4, <3>1
    <3> QED
      BY <3>1, <3>2, <3>3 DEF CallInv, After
  <2> QED
    BY <2>1, <2>2, <2>3, <2>5
<1> QED
  BY <1>1, <1>2, <1>3, GoesOn DEF InCli

\* The drainer is waited for, or given up.
LEMMA InvJoins ==
  ASSUME Inv, JoinDrainer
  PROVE  Inv'
<1> DEFINE missed == This.drainer # "ended"
           q == With(This, [missed |-> missed])
<1>1. /\ pc = "join drainer" /\ pc' = "judge" /\ Update([missed |-> missed])
      /\ UNCHANGED <<backend, loaded, gen, hooks, outcome>> /\ This.child # "none"
      /\ This \in RunType /\ Orderly(This)
  BY Current DEF JoinDrainer, Inv, CallInv, After
<1>2. missed \in BOOLEAN /\ (missed \/ This.drainer = "ended")
  OBVIOUS
<1> HIDE DEF missed
<1>3. /\ q \in RunType /\ q.child = This.child /\ q.code = This.code
      /\ q.written = This.written /\ q.read = This.read /\ q.stderr = This.stderr
      /\ q.said = This.said /\ q.errors = This.errors /\ q.drainer = This.drainer
      /\ q.ticker = This.ticker /\ q.file = This.file /\ q.missed = missed
  BY <1>1, <1>2, Fields DEF With, RunType, ChildState
<1>4. Orderly(q)
  BY <1>1, <1>3 DEF Orderly
<1> HIDE DEF q
<1>5. TypeOK' /\ Placed' /\ (\A g \in Ids : Orderly(run[g]))' /\ This' = q
  BY <1>1, <1>3, <1>4, Updated DEF InCli, q
<1>6. CallInv'
  BY <1>1, <1>2, <1>3, <1>5 DEF Inv, CallInv, After
<1> QED
  BY <1>1, <1>5, <1>6, GoesOn

\* The end of the call is judged by what the child and the drainer have left.
LEMMA InvJudges ==
  ASSUME Inv, Judge
  PROVE  Inv'
<1>1. /\ pc = "judge" /\ UNCHANGED <<backend, loaded, run>> /\ This \in RunType /\ Orderly(This)
      /\ backend = "llama-cli" /\ loaded /\ gen # 0
      /\ outcome \in {"none", "INF-122", "TypeError", "other"}
  BY Current, BackendsAssumption DEF Judge, Inv, Placed, CallInv, After, InCli
<1>2. CASE outcome = "TypeError"
  <2>1. AfterTypeError /\ hooks
    BY <1>1, <1>2 DEF Judge, Inv, CallInv, After
  <2>2. gen < Generations
    BY <1>1, <2>1 DEF Inv, Placed
  <2> QED
    BY <1>1, <2>1, <2>2, NextGeneration DEF AfterTypeError
<1>3. CASE outcome # "TypeError"
  <2>1. /\ pc' = "idle" /\ UNCHANGED <<gen, hooks>>
        /\ outcome # "none" => outcome' = outcome
        /\ outcome = "none" /\ This.code # 0 =>
             outcome' = IF "invalid argument" \in This.errors THEN "INF-125" ELSE "INF-123"
        /\ outcome = "none" /\ This.code = 0 => outcome' \in {"answer", "INF-124", "INF-126"}
    BY <1>1, <1>3 DEF Judge, Ends
  <2>2. /\ ~This.file /\ This.ticker \in {"none", "calling", "ended"}
        /\ outcome \in {"none", "INF-122"} =>
             (This.drainer = "ended" \/ This.missed) /\ This.child \in {"exited", "killed"}
        /\ outcome = "none" => This.child = "exited" /\ This.read = This.written
    BY <1>1 DEF Inv, CallInv, After
  <2>3. /\ This' = This /\ UNCHANGED <<backend, loaded, gen, hooks, run>>
        /\ outcome' \in {"answer", "other", "INF-122", "INF-123", "INF-124", "INF-125", "INF-126"}
    BY <1>1, <1>3, <2>1, SameGenerations
  <2>4. (/\ ~This.file /\ This.ticker \in {"none", "calling", "ended"}
         /\ outcome \notin Foreign =>
              (This.drainer = "ended" \/ This.missed) /\ This.child \in {"exited", "killed"})'
    BY <1>1, <1>3, <2>1, <2>2, <2>3 DEF Foreign
  <2>5. AnswerIsWhole'
    <3>1. outcome' = "answer" => outcome = "none" /\ This.code = 0
      BY <1>1, <1>3, <2>1 DEF RunType
    <3> QED
      BY <2>2, <2>3, <3>1 DEF AnswerIsWhole
  <2>6. RejectedFlagIsNamed'
    <3>1. outcome' \in {"INF-123", "INF-125"} =>
            /\ outcome = "none"
            /\ outcome' = "INF-125" <=> "invalid argument" \in This.errors
      BY <1>1, <1>3, <2>1
    <3>2. /\ This.errors \subseteq LinesOf(This.said)
          /\ outcome = "none" => This.missed \/ This.errors = LinesOf(This.said)
      <4>1. outcome = "none" => This.missed \/ This.stderr = <<>>
        BY <1>1, <2>2 DEF Orderly
      <4>2. LinesOf(<<>>) = {}
        BY DEF LinesOf
      <4> QED
        BY <1>1, <4>1, <4>2 DEF Orderly
    <3>3. "invalid argument" \in LinesOf(This.said) <=> Complained(gen)
      BY DEF LinesOf, Complained, This
    <3>4. Complained(gen)' <=> Complained(gen)
      BY <2>3 DEF Complained
    <3> QED
      BY <2>3, <3>1, <3>2, <3>3, <3>4 DEF RejectedFlagIsNamed
  <2>7. Left'
    BY <1>1, <2>3, <2>4, <2>5, <2>6 DEF Left
  <2> QED
    BY <1>1, <2>1, <2>3, <2>7, InvEnds
<1> QED
  BY <1>2, <1>3

-----------------------------------------------------------------------------
(* The invariant, and what it says of every run.                           *)

\* Before the first call nothing has started.
LEMMA InvInit == Init => Inv
<1> SUFFICES ASSUME Init PROVE Inv
  OBVIOUS
<1>1. \A g \in Ids : run[g] = NotStarted
  BY DEF Init
<1>2. TypeOK
  <2>1. /\ run = [g \in Ids |-> NotStarted] /\ gen = 0 /\ pc = "idle" /\ hooks \in BOOLEAN
    BY DEF Init
  <2> QED
    BY <2>1, BackendsAssumption, Unstarted DEF TypeOK, InCli
<1>3. Placed /\ CallInv /\ Left
  BY <1>1 DEF Init, Placed, CallInv, Left, Ended, InCli, After
<1> QED
  BY <1>1, <1>2, <1>3, Unstarted DEF Inv

\* Every step keeps the invariant.
LEMMA InvNext == Inv /\ [Next]_vars => Inv'
<1> SUFFICES ASSUME Inv, [Next]_vars PROVE Inv'
  OBVIOUS
<1>1. CASE HostChanges \/ BuildBackend \/ Load
  BY <1>1, InvBefore
<1>2. CASE Request \/ HooksRefused
  BY <1>2, InvBegins
<1>3. CASE GeneratesInLibrary \/ Simulates \/ AnswersOverHttp \/ SpawnFails
  BY <1>3, InvElsewhere
<1>4. CASE WritePrompt \/ Spawn
  BY <1>4, InvStarts
<1>5. CASE ReadChar \/ HookRaises \/ WaitTimesOut
  BY <1>5, InvReads
<1>6. CASE AsksForHelp \/ DeadlinePasses \/ EndOfOutput \/ Waited \/ JoinTicker
  BY <1>6, InvWaits
<1>11. CASE JoinDrainer
  BY <1>11, InvJoins
<1>7. CASE Finally
  BY <1>7, InvFinally
<1>8. CASE Judge
  BY <1>8, InvJudges
<1>9. CASE \E g \in Ids : Child(g) \/ ChildStalls(g) \/ Threads(g)
  BY <1>9, InvThreads
<1>10. CASE UNCHANGED vars
  <2>1. UNCHANGED <<backend, loaded, pc, gen, hooks, run, outcome>>
    BY <1>10 DEF vars
  <2>2. This' = This /\ (\A g \in Ids : Orderly(run[g]))' /\ TypeOK' /\ Placed'
    BY <2>1, SameGenerations DEF Inv, TypeOK, Placed
  <2>3. CallInv'
    BY <2>1, <2>2 DEF Inv, CallInv
  <2>4. Left'
    BY <2>1, <2>2 DEF Inv, Left, Ended, AnswerIsWhole, RejectedFlagIsNamed, Complained, This
  <2> QED
    BY <2>2, <2>3, <2>4 DEF Inv
<1> QED
  BY <1>1, <1>2, <1>3, <1>4, <1>5, <1>6, <1>7, <1>8, <1>9, <1>10, <1>11
     DEF Next, Caller

\* The invariant holds in every state of every run.
LEMMA AlwaysInv == Spec => []Inv
<1>1. Init => Inv
  BY InvInit
<1>2. Inv /\ [Next]_vars => Inv'
  BY InvNext
<1> QED
  BY <1>1, <1>2, PTL DEF Spec

\* What llama-cli returns as an answer is all the child has written, and the child
\* has exited with 0: generate() never returns what it had when it gave up.
THEOREM AnswersAreWhole == Spec => []AnswerIsWhole
<1>1. Inv => AnswerIsWhole
  BY DEF Inv, Left, AnswerIsWhole
<1> QED
  BY <1>1, AlwaysInv, PTL

\* A failed run is put down to a rejected flag only if the binary has said so, and
\* always then, unless the drainer was too slow after the child had exited.
THEOREM RejectionsAreNamed == Spec => []RejectedFlagIsNamed
<1>1. Inv => RejectedFlagIsNamed
  BY DEF Inv, Left, RejectedFlagIsNamed
<1> QED
  BY <1>1, AlwaysInv, PTL

\* A generation that no hook and no failing start has broken off leaves no
\* prompt file, no child, no ticker that waits, and no drainer but one that was slow.
THEOREM NothingStays == Spec => []NothingLeftBehind
<1>1. Inv => NothingLeftBehind
  BY DEF Inv, Left, NothingLeftBehind, Alive, This
<1> QED
  BY <1>1, AlwaysInv, PTL

-----------------------------------------------------------------------------
(* The flags of the command and the build that receives them.              *)

CliType ==
  [accepts : SUBSET (Probed \cup FixedFlags), help : {"unasked", "flags", "empty", "error"},
   named : SUBSET Probed]

\* A child has been started with a command that was put together after the help
\* had been asked for; it complains about a flag only if its build does not know
\* one, and then it fails
FitInv ==
  /\ cli \in CliType
  /\ cli.help = "flags" => cli.named = cli.accepts \cap Probed
  /\ \A g \in Ids :
       /\ run[g].child # "none" => cli.help # "unasked"
       /\ run[g].child = "none" => run[g].said = <<>>
       /\ "invalid argument" \in LinesOf(run[g].said) => Refuses
       /\ run[g].child = "exited" /\ run[g].code = 0 => ~Refuses

\* What a step of the calling thread does to a generation that has a child or
\* is given one
Serves(r, q) ==
  /\ q.said = r.said /\ q.code = r.code
  /\ q.child \in {r.child, "killed"} \/ (q.child = "running" /\ cli.help # "unasked")
  /\ r.child # "none" => q.child # "none"
  /\ q.child # "none" => r.child # "none" \/ cli.help # "unasked"

\* The command depends on the binary and its help alone.
LEMMA SameCommand ==
  ASSUME UNCHANGED cli
  PROVE  Refuses' <=> Refuses
  BY DEF Refuses, Command, Supports

\* The calling thread touches neither the lines nor the code of a child.
LEMMA CallerServes ==
  ASSUME Inv, FitInv, Caller, ~AsksForHelp
  PROVE  UNCHANGED cli /\ \A g \in Ids : Serves(run[g], run'[g])
<1>1. CASE UNCHANGED <<cli, run>>
  BY <1>1 DEF Serves, FitInv
<1>2. ASSUME NEW fields, Update(fields), UNCHANGED cli, pc # "idle",
             DOMAIN fields \subseteq {"read", "file", "ticker", "drainer", "missed", "child"},
             "child" \in DOMAIN fields =>
               \/ fields["child"] = "killed" /\ This.child # "none"
               \/ fields["child"] = "running" /\ cli.help # "unasked"
      PROVE  \A g \in Ids : Serves(run[g], run'[g])
  <2>1. gen \in Ids /\ This \in RunType /\ run \in [Ids -> RunType]
    BY <1>2, Current DEF Inv, TypeOK
  <2>2. run'[gen] = With(This, fields) /\ \A g \in Ids : g # gen => run'[g] = run[g]
    BY <1>2, <2>1 DEF Update, This
  <2> DEFINE q == With(This, fields)
  <2>3. /\ q.said = This.said /\ q.code = This.code
        /\ q.child = IF "child" \in DOMAIN fields THEN fields["child"] ELSE This.child
    <3>1. {"said", "code", "child"} \subseteq DOMAIN This
          /\ "said" \notin DOMAIN fields /\ "code" \notin DOMAIN fields
      BY <1>2, <2>1, Fields
    <3> QED
      BY <3>1 DEF With
  <2> HIDE DEF q
  <2>4. Serves(This, q)
    BY <1>2, <2>3 DEF Serves
  <2>5. \A g \in Ids : g # gen => Serves(run[g], run'[g])
    BY <2>2 DEF Serves
  <2> QED
    BY <2>2, <2>4, <2>5 DEF q, This
<1>3. CASE WritePrompt \/ Finally \/ JoinDrainer
  <2>1. \/ Update([file |-> TRUE])
        \/ Update([missed |-> This.drainer # "ended"])
        \/ Update([file |-> FALSE,
                   ticker |-> IF This.ticker = "waiting" THEN "stopping" ELSE This.ticker])
    BY <1>3 DEF WritePrompt, Finally, JoinDrainer
  <2>2. UNCHANGED cli /\ pc # "idle"
    BY <1>3 DEF WritePrompt, Finally, JoinDrainer
  <2> QED
    BY <1>2, <2>1, <2>2
<1>4. CASE Spawn
  <2>1. /\ UNCHANGED cli /\ pc # "idle" /\ cli.help # "unasked"
        /\ Update([child |-> "running", drainer |-> "reading",
                   ticker |-> IF hooks THEN "waiting" ELSE "none"])
    BY <1>4 DEF Spawn
  <2> QED
    BY <1>2, <2>1
<1>5. CASE ReadChar \/ HookRaises \/ WaitTimesOut
  <2>1. UNCHANGED cli /\ pc # "idle" /\ This.child # "none"
    BY <1>5 DEF ReadChar, HookRaises, WaitTimesOut, Inv, CallInv
  <2>2. \/ Update([read |-> This.read + 1, child |-> "killed"])
        \/ Update([read |-> This.read + 1])
        \/ Update([child |-> "killed"])
    BY <1>5 DEF ReadChar, HookRaises, WaitTimesOut
  <2> QED
    BY <1>2, <2>1, <2>2
<1> QED
  BY <1>1, <1>3, <1>4, <1>5
     DEF Caller, HooksRefused, GeneratesInLibrary, Simulates, AnswersOverHttp, SpawnFails,
         EndOfOutput, Waited, JoinTicker, Judge

\* Only a build that does not know the command complains, and it ends with 1.
LEMMA ChildFits ==
  ASSUME Inv, FitInv, NEW g \in Ids, Child(g) \/ ChildStalls(g) \/ Threads(g)
  PROVE  FitInv'
<1>1. /\ UNCHANGED cli /\ \A h \in Ids : h # g => run'[h] = run[h]
      /\ Moves(run[g], run'[g]) /\ run[g] \in RunType /\ run'[g] \in RunType
  BY GenerationMoves DEF Inv, TypeOK, Others
<1>2. Refuses' <=> Refuses
  BY <1>1, SameCommand
<1>3. /\ "invalid argument" \in LinesOf(run'[g].said) =>
           "invalid argument" \in LinesOf(run[g].said) \/ Refuses
      /\ run'[g].child = "exited" /\ run'[g].code = 0 =>
           (run[g].child = "exited" /\ run[g].code = 0) \/ ~Refuses
  <2>1. CASE ChildLogs(g)
    <3>1. PICK line \in Lines :
            /\ line = "invalid argument" => Refuses
            /\ Step(g, [stderr |-> Append(run[g].stderr, line), said |-> Append(run[g].said, line)])
      BY <2>1 DEF ChildLogs
    <3>2. run'[g].said = Append(run[g].said, line) /\ run'[g].child = run[g].child
      BY <1>1, <3>1, Fields DEF Step, With, Inv, TypeOK
    <3>3. LinesOf(run'[g].said) = LinesOf(run[g].said) \cup {line}
      BY <1>1, <3>1, <3>2, LinesMove DEF RunType
    <3>4. run'[g].child # "exited"
      BY <2>1, <3>2 DEF ChildLogs
    <3>5. "invalid argument" \in LinesOf(run'[g].said) =>
            "invalid argument" \in LinesOf(run[g].said) \/ line = "invalid argument"
      BY <3>3
    <3>6. line = "invalid argument" => Refuses
      BY <3>1
    <3> QED
      BY <3>4, <3>5, <3>6
  <2>2. CASE ChildExits(g)
    <3>1. PICK code \in {0, 1} : /\ Refuses => code = 1
                                 /\ Step(g, [child |-> "exited", code |-> code])
      BY <2>2 DEF ChildExits
    <3>2. run'[g].said = run[g].said /\ run'[g].code = code
      BY <1>1, <3>1, Fields DEF Step, With, Inv, TypeOK
    <3>3. Refuses => code # 0
      BY <3>1
    <3> QED
      BY <3>2, <3>3
  <2>3. ASSUME NEW fields, Step(g, fields), "said" \notin DOMAIN fields,
               "code" \notin DOMAIN fields,
               "child" \in DOMAIN fields => fields["child"] # "exited"
        PROVE  /\ run'[g].said = run[g].said /\ run'[g].code = run[g].code
               /\ run'[g].child = "exited" => run[g].child = "exited"
    <3>1. run'[g] = With(run[g], fields) /\ {"said", "code", "child"} \subseteq DOMAIN run[g]
      BY <1>1, <2>3, Fields DEF Step, Inv, TypeOK
    <3> QED
      BY <2>3, <3>1 DEF With
  <2>4. CASE ~ChildLogs(g) /\ ~ChildExits(g)
    <3>1. \/ Step(g, [written |-> run[g].written + 1])
          \/ Step(g, [child |-> "closing"]) \/ Step(g, [child |-> "stalled"])
          \/ Step(g, [stderr |-> Tail(run[g].stderr),
                      errors |-> run[g].errors \cup {Head(run[g].stderr)}])
          \/ Step(g, [drainer |-> "ended"]) \/ Step(g, [ticker |-> "calling"])
          \/ Step(g, [ticker |-> IF g = gen /\ pc \in {"reading", "wait", "finally"}
                                 THEN "waiting" ELSE "ended"])
          \/ Step(g, [ticker |-> "ended"])
      BY <2>4 DEF Child, ChildStalls, Threads, ChildWrites, ChildCloses, DrainerReads, DrainerEnds,
                  TickerCalls, TickerReturns, TickerEnds
    <3>2. /\ run'[g].said = run[g].said /\ run'[g].code = run[g].code
          /\ run'[g].child = "exited" => run[g].child = "exited"
      BY <2>3, <3>1
    <3> QED
      BY <3>2
  <2> QED
    BY <2>1, <2>2, <2>4
<1>4. /\ run'[g].child # "none" => run[g].child # "none"
      /\ run'[g].child = "none" => run'[g].said = run[g].said /\ run[g].child = "none"
  BY <1>1 DEF Moves, RunType, ChildState
<1>5. /\ run'[g].child # "none" => cli.help # "unasked"
      /\ run'[g].child = "none" => run'[g].said = <<>>
      /\ "invalid argument" \in LinesOf(run'[g].said) => Refuses
      /\ run'[g].child = "exited" /\ run'[g].code = 0 => ~Refuses
  BY <1>3, <1>4 DEF FitInv
<1> QED
  BY <1>1, <1>2, <1>5 DEF FitInv

\* The binary is asked before anything is started, and no child outlives a change of
\* what it was started with.
LEMMA FitNext == Inv /\ FitInv /\ [Next]_vars => FitInv'
<1> SUFFICES ASSUME Inv, FitInv, [Next]_vars PROVE FitInv'
  OBVIOUS
<1>1. CASE UNCHANGED <<cli, run>>
  BY <1>1, SameCommand DEF FitInv
<1>2. CASE AsksForHelp
  <2>1. /\ cli.help = "unasked" /\ run' = run
        /\ \/ cli' = [cli EXCEPT !.help = "flags", !.named = cli.accepts \cap Probed]
           \/ cli' = [cli EXCEPT !.help = "empty"]
           \/ \E text \in ErrorTexts : cli' = [cli EXCEPT !.help = "error", !.named = text]
    BY <1>2 DEF AsksForHelp
  <2>2. /\ cli' \in CliType /\ cli'.help # "unasked"
        /\ cli'.help = "flags" => cli'.named = cli'.accepts \cap Probed
    <3>1. cli \in CliType /\ cli.accepts \cap Probed \in SUBSET Probed
          /\ \A text \in ErrorTexts : text \in SUBSET Probed
      BY BackendsAssumption DEF FitInv
    <3>2. CASE cli' = [cli EXCEPT !.help = "flags", !.named = cli.accepts \cap Probed]
      BY <3>1, <3>2 DEF CliType
    <3>3. CASE cli' = [cli EXCEPT !.help = "empty"]
      BY <3>1, <3>3 DEF CliType
    <3>4. CASE \E text \in ErrorTexts : cli' = [cli EXCEPT !.help = "error", !.named = text]
      <4>1. PICK text \in ErrorTexts : cli' = [cli EXCEPT !.help = "error", !.named = text]
        BY <3>4
      <4> QED
        BY <3>1, <4>1 DEF CliType
    <3> QED
      BY <2>1, <3>2, <3>3, <3>4
  <2>3. \A g \in Ids : run[g].child = "none" /\ run[g].said = <<>>
    BY <2>1 DEF FitInv
  <2>4. LinesOf(<<>>) = {}
    BY DEF LinesOf
  <2> QED
    BY <2>1, <2>2, <2>3, <2>4 DEF FitInv
<1>3. CASE Caller /\ ~AsksForHelp
  <2>1. UNCHANGED cli /\ \A g \in Ids : Serves(run[g], run'[g])
    BY <1>3, CallerServes
  <2>2. Refuses' <=> Refuses
    BY <2>1, SameCommand
  <2> QED
    BY <2>1, <2>2 DEF FitInv, Serves
<1>4. CASE \E g \in Ids : Child(g) \/ ChildStalls(g) \/ Threads(g)
  BY <1>4, ChildFits
<1>5. CASE HostChanges \/ BuildBackend \/ Load \/ Request \/ DeadlinePasses
  BY <1>1, <1>5 DEF HostChanges, BuildBackend, Load, Request, DeadlinePasses
<1> QED
  BY <1>1, <1>2, <1>3, <1>4, <1>5 DEF Next, vars

\* A command without a way out of conversation mode comes from a probe that has named none.
LEMMA CommandIsComplete ==
  ASSUME ~KeptOut(Command)
  PROVE  cli.help # "empty" /\ ~KeptOut(cli.named)
<1> DEFINE known == {i \in DOMAIN NoConversationFlags : Supports(NoConversationFlags[i])}
<1>1. DOMAIN NoConversationFlags = 1..4
  BY DEF NoConversationFlags
<1>2. ASSUME known # {} PROVE \E i \in known : \A j \in known : i <= j
  <2>1. known \subseteq 1..4 /\ known # {}
    BY <1>1, <1>2
  <2> HIDE DEF known
  <2>2. \/ 1 \in known \/ 2 \in known \/ 3 \in known \/ 4 \in known
    <3>1. \A k \in 1..4 : k = 1 \/ k = 2 \/ k = 3 \/ k = 4
      OBVIOUS
    <3>2. PICK k \in 1..4 : k \in known
      BY <2>1
    <3> QED
      BY <3>1, <3>2
  <2>3. \A j \in known : j \in {1, 2, 3, 4}
    BY <2>1
  <2> QED
    BY <2>2, <2>3
<1>3. known = {}
  BY <1>1, <1>2 DEF Command, KeptOut
<1>4. \A i \in DOMAIN NoConversationFlags : ~Supports(NoConversationFlags[i])
  BY <1>3
<1> QED
  BY <1>1, <1>4 DEF Supports, KeptOut

\* A flag is refused only where the probe has failed, or where the build lacks one that
\* is never probed; an answer comes from a child whose build accepts the command, and
\* was kept out of conversation mode if the build knows how, except after a --help that
\* printed an error.
THEOREM FlagsFit == Spec => []FlagsFitTheBuild
<1>1. Init => FitInv
  <2>1. \A g \in Ids : NotStarted.said = <<>> /\ NotStarted.child = "none"
    BY DEF NotStarted
  <2>2. LinesOf(<<>>) = {}
    BY DEF LinesOf
  <2>3. Init => cli \in CliType /\ cli.help = "unasked"
    BY BackendsAssumption DEF Init, CliType
  <2>4. Init => \A g \in Ids : run[g] = NotStarted
    BY DEF Init
  <2> QED
    BY <2>1, <2>2, <2>3, <2>4 DEF FitInv
<1>2. Inv /\ FitInv => FlagsFitTheBuild
  <2> SUFFICES ASSUME Inv, FitInv, Ended, backend = "llama-cli",
                      outcome \in {"INF-125", "answer"}
               PROVE  /\ outcome = "INF-125" =>
                           cli.help # "flags" \/ ~(FixedFlags \subseteq cli.accepts)
                      /\ outcome = "answer" =>
                           /\ Command \subseteq cli.accepts
                           /\ cli.help # "error" /\ KeptOut(cli.accepts) => KeptOut(Command)
    BY DEF FlagsFitTheBuild
  <2>1. gen \in Ids
    BY BackendsAssumption DEF Inv, TypeOK, Ids, Ended
  <2>2. CASE outcome = "INF-125"
    <3>1. "invalid argument" \in LinesOf(run[gen].said)
      BY <2>2 DEF Inv, Left, RejectedFlagIsNamed, Complained, Ended, LinesOf
    <3>2. ~(Command \subseteq cli.accepts)
      BY <2>1, <3>1 DEF FitInv, Refuses
    <3>3. ASSUME cli.help = "flags", FixedFlags \subseteq cli.accepts
          PROVE  Command \subseteq cli.accepts
      <4>1. \A flag : Supports(flag) => flag \in cli.accepts
        BY <3>3 DEF Supports, FitInv
      <4> QED
        BY <3>3, <4>1 DEF Command
    <3> QED
      BY <2>2, <3>2, <3>3
  <2>3. CASE outcome = "answer"
    <3>1. This.child = "exited" /\ This.code = 0
      BY <2>3 DEF Inv, Left, AnswerIsWhole
    <3>2. ~Refuses /\ cli.help # "unasked" /\ cli \in CliType
      BY <2>1, <3>1 DEF FitInv, This
    <3>3. ASSUME cli.help # "error", KeptOut(cli.accepts), ~KeptOut(Command)
          PROVE  FALSE
      <4>1. cli.help = "flags" /\ ~KeptOut(cli.named)
        BY <3>2, <3>3, CommandIsComplete DEF CliType
      <4>2. cli.named = cli.accepts \cap Probed
        BY <4>1 DEF FitInv
      <4>3. \A i \in DOMAIN NoConversationFlags : NoConversationFlags[i] \in Probed
        BY DEF Probed
      <4> QED
        BY <3>3, <4>1, <4>2, <4>3 DEF KeptOut
    <3> QED
      BY <2>3, <3>2, <3>3 DEF Refuses
  <2> QED
    BY <2>2, <2>3
<1> QED
  BY <1>1, <1>2, FitNext, AlwaysInv, PTL DEF Spec
=============================================================================
