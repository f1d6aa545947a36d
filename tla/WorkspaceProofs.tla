--------------------------- MODULE WorkspaceProofs ---------------------------
(***************************************************************************)
(* What the lock of the workspace server guarantees for every number of    *)
(* requests, runtimes and documents, with or without other processes, and  *)
(* also when the server is stopped while requests run.                     *)
(***************************************************************************)
EXTENDS Workspace, TLAPS

-----------------------------------------------------------------------------
(* The corpus store.                                                       *)

\* An empty corpus is one.
LEMMA EmptyType == Empty \in Settled /\ Settled \subseteq Content
  BY DEF Empty, Settled, Content

\* A connection sees a corpus (iter_units).
LEMMA ViewType ==
  ASSUME StoreTypeOK, NEW h
  PROVE  View(h) \in Content
  BY DEF StoreTypeOK, View

\* The statements of a method keep the types of the store.
LEMMA StatementTypes ==
  ASSUME StoreTypeOK, NEW h \in Handles, NEW d \in Docs,
         \/ Invalidate(h) \/ DeleteDocument(h, d) \/ InsertRow(h, d)
         \/ InsertUnits(h, d) \/ Commit(h) \/ Rollback(h)
  PROVE  StoreTypeOK'
<1>1. Empty \in Content
  BY EmptyType
<1>2. \A as \in {"absent", "hollow", "whole"} : [View(h) EXCEPT ![d] = as] \in Content
  BY ViewType DEF Content
<1>3. CASE Invalidate(h)
  BY <1>3 DEF Invalidate, StoreTypeOK
<1>4. CASE DeleteDocument(h, d) \/ InsertRow(h, d) \/ InsertUnits(h, d)
  BY <1>2, <1>4 DEF DeleteDocument, InsertRow, InsertUnits, Modify, StoreTypeOK
<1>5. CASE Commit(h) \/ Rollback(h)
  BY <1>1, <1>5 DEF Commit, Rollback, StoreTypeOK
<1> QED
  BY <1>3, <1>4, <1>5

-----------------------------------------------------------------------------
(* Type correctness.                                                       *)

\* What a thread has by the time it stands at a place: a runtime that get() has
\* returned or is building, a document that is being ingested.
Placed ==
  \A t \in Threads :
    /\ thread[t].pc \in {"build", "load", "discover", "fill", "infer", "next",
                         "delete", "row", "units", "commit", "sum", "keep"} =>
         thread[t].handle \in Handles
    /\ thread[t].pc \in {"delete", "row", "units", "commit"} => thread[t].doc \in Docs

\* A thread that holds or has passed the lock; a thread that never takes it.
LockInv ==
  \A t \in Threads :
    /\ InBody(t) => lock = t
    /\ thread[t].kind = "corpus" =>
         thread[t].pc \in {"new", "get", "build", "got", "sum", "keep", "done"}

Inv == TypeOK /\ Placed /\ LockInv

\* A server that has just started, cold or warm, satisfies the invariant.
LEMMA InvInit == Init => Inv
<1> SUFFICES ASSUME Init PROVE Inv
  OBVIOUS
<1>1. StoreTypeOK
  BY EmptyType DEF Init, StoreInit, StoreTypeOK
<1>2. Idle \in ThreadRecord /\ Idle.pc = "new" /\ Idle.kind = "none"
  BY DEF Idle, ThreadRecord
<1>3. model \in [Handles -> {"unbuilt", "built", "loaded", "closed"}]
      /\ runtime \in Handles \cup {Nothing}
  BY DEF Init
<1>4. TypeOK
  BY <1>1, <1>2, <1>3 DEF Init, TypeOK
<1>5. Placed /\ LockInv
  BY <1>2 DEF Init, Placed, LockInv, InBody
<1> QED
  BY <1>4, <1>5 DEF Inv

\* A step of one thread: if its record stays one and fits its place, and the
\* lock is its own or left alone, the threads are as they should be.
LEMMA OneThread ==
  ASSUME TypeOK, Placed, LockInv, NEW t \in Threads, NEW r \in ThreadRecord,
         thread' = [thread EXCEPT ![t] = r],
         r.pc \in {"build", "load", "discover", "fill", "infer", "next",
                   "delete", "row", "units", "commit", "sum", "keep"} =>
           r.handle \in Handles,
         r.pc \in {"delete", "row", "units", "commit"} => r.doc \in Docs,
         r.kind = "corpus" =>
           r.pc \in {"new", "get", "build", "got", "sum", "keep", "done"},
         Locked(r.kind) /\ r.pc \notin {"new", "wait", "done"} => lock' = t,
         lock' = lock \/ lock = Free \/ lock = t
  PROVE  thread' \in [Threads -> ThreadRecord] /\ Placed' /\ LockInv'
<1>1. thread' \in [Threads -> ThreadRecord]
  BY DEF TypeOK
<1>2. /\ thread'[t] = r
      /\ \A u \in Threads \ {t} : thread'[u] = thread[u]
  BY DEF TypeOK
<1>3. Placed'
  BY <1>2 DEF Placed
<1>4. ASSUME NEW u \in Threads \ {t}, InBody(u) PROVE lock' = u
  BY <1>4, WorkspaceAssumption DEF LockInv
<1>5. LockInv'
  BY <1>2, <1>4 DEF LockInv, InBody
<1> QED
  BY <1>1, <1>3, <1>5

Label == {"new", "wait", "get", "build", "got", "load", "discover", "fill",
          "infer", "stalled", "next", "delete", "row", "units", "commit", "sum",
          "keep", "release", "done"}

\* A step that only moves a thread, under the lock or without it.
LEMMA OneMove ==
  ASSUME TypeOK, Placed, LockInv, NEW t \in Threads, NEW label \in Label,
         Goto(t, label),
         label \in {"build", "load", "discover", "fill", "infer", "next",
                    "delete", "row", "units", "commit", "sum", "keep"} =>
           thread[t].handle \in Handles,
         label \in {"delete", "row", "units", "commit"} => thread[t].doc \in Docs,
         thread[t].kind = "corpus" =>
           label \in {"new", "get", "build", "got", "sum", "keep", "done"},
         \/ lock' = lock /\ (InBody(t) \/ ~Locked(thread[t].kind))
         \/ lock' = t /\ lock = Free
         \/ lock = t /\ label = "done"
  PROVE  thread' \in [Threads -> ThreadRecord] /\ Placed' /\ LockInv'
<1> DEFINE r == [thread[t] EXCEPT !.pc = label]
<1>1. thread[t] \in ThreadRecord
  BY DEF TypeOK
<1>2. /\ r \in ThreadRecord
      /\ r.pc = label /\ r.kind = thread[t].kind
      /\ r.handle = thread[t].handle /\ r.doc = thread[t].doc
  BY <1>1 DEF ThreadRecord, Label
<1>3. thread' = [thread EXCEPT ![t] = r]
  BY DEF Goto
<1>4. InBody(t) => lock = t
  BY DEF LockInv
<1> HIDE DEF r
<1> QED
  BY <1>2, <1>3, <1>4, OneThread DEF Locked

\* A step that leaves the threads and the lock alone.
LEMMA NoMove ==
  ASSUME TypeOK, Placed, LockInv, UNCHANGED <<thread, lock>>
  PROVE  thread' \in [Threads -> ThreadRecord] /\ Placed' /\ LockInv'
  BY DEF TypeOK, Placed, LockInv, InBody

\* Every step preserves the invariant: the steps of each request, and those of
\* the server and of other processes, which move no thread.
Threading == thread' \in [Threads -> ThreadRecord] /\ Placed' /\ LockInv'

\* What the requests' steps do to the threads: entering, get() and leaving.
LEMMA ServerSteps ==
  ASSUME TypeOK, Placed, LockInv, NEW t \in Threads,
         \/ Arrive(t) \/ Acquire(t) \/ GetFinds(t) \/ GetFails(t) \/ GetMisses(t)
         \/ GetAssigns(t) \/ GetReturns(t) \/ HitsClosedStore(t) \/ Release(t)
  PROVE  Threading
<1>0. thread[t] \in ThreadRecord /\ (InBody(t) => lock = t)
  BY DEF TypeOK, LockInv
<1>1. CASE Arrive(t)
  <2>1. PICK kind \in Kinds, todo \in SUBSET Docs :
          thread' = [thread EXCEPT ![t].pc = IF Locked(kind) THEN "wait" ELSE "get",
                                   ![t].kind = kind,
                                   ![t].todo = todo]
    <3>1. PICK kind \in Kinds :
            \E todo \in IF kind = "ingest" THEN (SUBSET Docs) \ {{}} ELSE {{}} :
              thread' = [thread EXCEPT ![t].pc = IF Locked(kind) THEN "wait" ELSE "get",
                                       ![t].kind = kind,
                                       ![t].todo = todo]
      BY <1>1 DEF Arrive
    <3>2. (IF kind = "ingest" THEN (SUBSET Docs) \ {{}} ELSE {{}}) \subseteq SUBSET Docs
      OBVIOUS
    <3> QED
      BY <3>1, <3>2
  <2> DEFINE r == [thread[t] EXCEPT !.pc = IF Locked(kind) THEN "wait" ELSE "get",
                                    !.kind = kind, !.todo = todo]
  <2>2. r \in ThreadRecord /\ r.kind = kind
        /\ r.pc = IF Locked(kind) THEN "wait" ELSE "get"
    BY <1>0 DEF ThreadRecord
  <2>3. thread' = [thread EXCEPT ![t] = r] /\ lock' = lock
    BY <2>1, <1>1 DEF Arrive
  <2> HIDE DEF r
  <2> QED
    BY <2>2, <2>3, OneThread DEF Locked, Threading
<1>2. CASE Acquire(t)
  <2>1. thread[t].kind # "corpus"
    BY <1>2 DEF Acquire, At, LockInv
  <2> QED
    BY <1>2, <2>1, OneMove DEF Acquire, Label, Threading
<1>3. CASE GetFinds(t)
  <2>1. InBody(t) \/ ~Locked(thread[t].kind)
    BY <1>3 DEF GetFinds, At, InBody
  <2> QED
    BY <1>3, <2>1, OneMove DEF GetFinds, Label, Threading
<1>4. CASE GetMisses(t)
  <2>1. PICK h \in Handles : thread' = [thread EXCEPT ![t] =
                               [@ EXCEPT !.handle = h, !.pc = "build"]]
    BY <1>4, <1>0 DEF GetMisses
  <2> DEFINE r == [thread[t] EXCEPT !.handle = h, !.pc = "build"]
  <2>2. r \in ThreadRecord /\ r.kind = thread[t].kind /\ r.pc = "build" /\ r.handle = h
    BY <1>0 DEF ThreadRecord
  <2>3. thread' = [thread EXCEPT ![t] = r] /\ lock' = lock
    BY <2>1, <1>4 DEF GetMisses
  <2>4. Locked(r.kind) => lock = t
    BY <1>0, <1>4, <2>2 DEF GetMisses, At, InBody
  <2> HIDE DEF r
  <2> QED
    BY <2>2, <2>3, <2>4, OneThread DEF Threading
<1>5. CASE GetAssigns(t)
  <2>1. InBody(t) \/ ~Locked(thread[t].kind)
    BY <1>5 DEF GetAssigns, At, InBody
  <2> QED
    BY <1>5, <2>1, OneMove DEF GetAssigns, Label, Threading
<1>6. CASE GetReturns(t)
  <2> DEFINE label == IF runtime = Nothing THEN Leave(thread[t].kind)
                      ELSE Body(thread[t].kind)
             r == [thread[t] EXCEPT !.handle = runtime, !.pc = label]
  <2>1. thread' = [thread EXCEPT ![t] = r] /\ lock' = lock
    BY <1>6 DEF GetReturns
  <2>2. /\ label \in {"release", "done", "load", "next", "sum"}
        /\ thread[t].kind = "corpus" => label \in {"done", "sum"}
        /\ runtime = Nothing => label \in {"release", "done"}
    BY DEF Leave, Body, Locked
  <2>3. Locked(thread[t].kind) => lock = t
    BY <1>0, <1>6 DEF GetReturns, At, InBody
  <2> HIDE DEF label
  <2>4. runtime \in Handles \cup {Nothing}
    BY DEF TypeOK
  <2>5. r \in ThreadRecord /\ r.kind = thread[t].kind /\ r.pc = label /\ r.handle = runtime
    BY <1>0, <2>2, <2>4 DEF ThreadRecord
  <2> HIDE DEF r
  <2> QED
    BY <2>1, <2>2, <2>3, <2>4, <2>5, OneThread DEF Threading
<1>7. CASE GetFails(t) \/ HitsClosedStore(t)
  <2>1. InBody(t) \/ ~Locked(thread[t].kind)
    BY <1>7 DEF GetFails, At, HitsClosedStore, InBody
  <2>2. Leave(thread[t].kind) \in {"release", "done"}
        /\ (thread[t].kind = "corpus" => Leave(thread[t].kind) = "done")
    BY DEF Leave, Locked
  <2> QED
    BY <1>7, <2>1, <2>2, OneMove DEF GetFails, HitsClosedStore, Label, Threading
<1>8. CASE Release(t)
  <2>1. InBody(t)
    BY <1>8 DEF Release, At, InBody, LockInv, Locked
  <2> QED
    BY <1>0, <1>8, <2>1, OneMove DEF Release, Label, Threading
<1> QED
  BY <1>1, <1>2, <1>3, <1>4, <1>5, <1>6, <1>7, <1>8

\* ... and the bodies of the requests.
LEMMA BodySteps ==
  ASSUME TypeOK, Placed, LockInv, NEW t \in Threads,
         Ask(t) \/ Ingest(t) \/ Checksum(t)
  PROVE  Threading
<1>0. thread[t] \in ThreadRecord /\ (InBody(t) => lock = t)
  BY DEF TypeOK, LockInv
<1>1. lock' = lock
  BY DEF Ask, AskLoads, AskDiscovers, AskFills, AskAnswers, AskStalls, Ingest, IngestSkips,
     IngestAborts, IngestInvalidates, IngestDeletes, IngestInsertsRow,
     IngestInsertsUnits, IngestCommits, IngestRollsBack, IngestReports,
     Checksum, ChecksumHit, ChecksumReads, ChecksumKept
<1>2. InBody(t) \/ ~Locked(thread[t].kind)
  BY DEF Ask, AskLoads, AskDiscovers, AskFills, AskAnswers, AskStalls, Ingest, IngestSkips,
     IngestAborts, IngestInvalidates, IngestDeletes, IngestInsertsRow,
     IngestInsertsUnits, IngestCommits, IngestRollsBack, IngestReports,
     Checksum, ChecksumHit, ChecksumReads, ChecksumKept, InBody, At, Alive
<1>3. CASE AskLoads(t) \/ AskFills(t) \/ AskAnswers(t) \/ AskStalls(t)
  <2>1. PICK label \in {"discover", "infer", "stalled", "release"} : Goto(t, label)
    BY <1>3 DEF AskLoads, AskFills, AskAnswers, AskStalls
  <2>2. thread[t].pc \in {"load", "fill", "infer"}
    BY <1>3 DEF AskLoads, AskFills, AskAnswers, AskStalls, At, Alive
  <2> QED
    BY <1>1, <1>2, <2>1, <2>2, OneMove DEF Label, Placed, LockInv, Threading
<1>4. CASE AskDiscovers(t)
  <2>1. /\ thread[t].pc = "discover" /\ thread[t].handle \in Handles
        /\ thread[t].kind # "corpus"
    BY <1>4 DEF AskDiscovers, At, Alive, Placed, LockInv
  <2>2. /\ View(thread[t].handle) \in Content
        /\ packages[thread[t].handle] \in Content \cup {Nothing}
    BY <2>1, ViewType DEF TypeOK, StoreTypeOK
  <2>3. CASE Goto(t, "release")
    BY <1>1, <1>2, <2>1, <2>3, OneMove DEF Label, Threading
  <2>4. ASSUME NEW content \in Content \cup {Nothing}, NEW label \in {"infer", "fill"},
               thread' = [thread EXCEPT ![t].seen = content, ![t].pc = label]
        PROVE  Threading
    <3> DEFINE r == [thread[t] EXCEPT !.seen = content, !.pc = label]
    <3>1. /\ r \in ThreadRecord /\ r.pc = label
          /\ r.kind = thread[t].kind /\ r.handle = thread[t].handle
      BY <1>0 DEF ThreadRecord
    <3>2. thread' = [thread EXCEPT ![t] = r]
      BY <2>4
    <3> HIDE DEF r
    <3> QED
      BY <1>0, <1>1, <1>2, <2>1, <3>1, <3>2, OneThread DEF Threading
  <2> QED
    BY <1>4, <2>2, <2>3, <2>4 DEF AskDiscovers
<1>5. CASE IngestSkips(t) \/ IngestInvalidates(t) \/ IngestCommits(t)
  <2>1. /\ thread[t].pc \in {"next", "commit"} /\ thread[t].handle \in Handles
        /\ thread[t].kind # "corpus"
        /\ thread[t].pc = "commit" => thread[t].doc \in Docs
    BY <1>5 DEF IngestSkips, IngestInvalidates, IngestCommits, At, Alive, Placed, LockInv
  <2>2. CASE IngestSkips(t)
    <3>1. PICK d \in thread[t].todo : thread' = [thread EXCEPT ![t].todo = @ \ {d}]
      BY <2>2 DEF IngestSkips
    <3> DEFINE r == [thread[t] EXCEPT !.todo = @ \ {d}]
    <3>2. /\ r \in ThreadRecord /\ r.pc = "next"
          /\ r.kind = thread[t].kind /\ r.handle = thread[t].handle
      BY <1>0, <2>2 DEF ThreadRecord, IngestSkips, At
    <3>3. thread' = [thread EXCEPT ![t] = r]
      BY <3>1
    <3> HIDE DEF r
    <3> QED
      BY <1>0, <1>1, <1>2, <2>1, <3>2, <3>3, OneThread DEF Threading
  <2>3. CASE IngestInvalidates(t)
    <3>1. PICK d \in thread[t].todo :
            thread' = [thread EXCEPT ![t].todo = @ \ {d}, ![t].doc = d, ![t].pc = "delete"]
      BY <2>3 DEF IngestInvalidates
    <3> DEFINE r == [thread[t] EXCEPT !.todo = @ \ {d}, !.doc = d, !.pc = "delete"]
    <3>2. /\ r \in ThreadRecord /\ r.pc = "delete" /\ r.doc \in Docs
          /\ r.kind = thread[t].kind /\ r.handle = thread[t].handle
      BY <1>0 DEF ThreadRecord
    <3>3. thread' = [thread EXCEPT ![t] = r]
      BY <3>1
    <3> HIDE DEF r
    <3> QED
      BY <1>0, <1>1, <1>2, <2>1, <3>2, <3>3, OneThread DEF Threading
  <2>4. CASE IngestCommits(t)
    <3> DEFINE r == [thread[t] EXCEPT !.stored = @ \cup {thread[t].doc}, !.pc = "next"]
    <3>1. /\ r \in ThreadRecord /\ r.pc = "next"
          /\ r.kind = thread[t].kind /\ r.handle = thread[t].handle
      <4>1. thread[t].doc \in Docs
        BY <2>1, <2>4 DEF IngestCommits, Alive, At
      <4> QED
        BY <1>0, <4>1 DEF ThreadRecord
    <3>2. thread' = [thread EXCEPT ![t] = r]
      BY <2>4 DEF IngestCommits
    <3> HIDE DEF r
    <3> QED
      BY <1>0, <1>1, <1>2, <2>1, <3>1, <3>2, OneThread DEF Threading
  <2> QED
    BY <1>5, <2>2, <2>3, <2>4
<1>6. CASE \/ IngestAborts(t) \/ IngestDeletes(t) \/ IngestInsertsRow(t)
           \/ IngestInsertsUnits(t) \/ IngestRollsBack(t) \/ IngestReports(t)
  <2>1. PICK label \in {"release", "row", "units", "commit", "sum"} : Goto(t, label)
        /\ (label \in {"row", "units", "commit"} =>
              thread[t].pc \in {"delete", "row", "units"})
    BY <1>6 DEF IngestAborts, IngestDeletes, IngestInsertsRow, IngestInsertsUnits,
       IngestRollsBack, IngestReports, At, Alive
  <2>2. thread[t].pc \in {"next", "delete", "row", "units", "commit"}
    BY <1>6 DEF IngestAborts, IngestDeletes, IngestInsertsRow, IngestInsertsUnits,
       IngestRollsBack, IngestReports, At, Alive
  <2> QED
    BY <1>1, <1>2, <2>1, <2>2, OneMove DEF Label, Placed, LockInv, Threading
<1>7. CASE ChecksumHit(t) \/ ChecksumReads(t)
  <2>1. thread[t].pc = "sum" /\ thread[t].handle \in Handles
    BY <1>7 DEF ChecksumHit, ChecksumReads, At, Alive, Placed
  <2>2. PICK content \in Content \cup {Nothing}, label \in {Leave(thread[t].kind), "keep"} :
          thread' = [thread EXCEPT ![t].seen = content, ![t].pc = label]
    BY <1>7, <2>1, ViewType DEF ChecksumHit, ChecksumReads, TypeOK, StoreTypeOK
  <2>3. /\ label \in {"release", "done", "keep"}
        /\ thread[t].kind = "corpus" => label \in {"done", "keep"}
    BY DEF Leave, Locked
  <2> DEFINE r == [thread[t] EXCEPT !.seen = content, !.pc = label]
  <2>4. /\ r \in ThreadRecord /\ r.pc = label
        /\ r.kind = thread[t].kind /\ r.handle = thread[t].handle
    BY <1>0, <2>3 DEF ThreadRecord
  <2>5. thread' = [thread EXCEPT ![t] = r]
    BY <2>2
  <2> HIDE DEF r
  <2> QED
    BY <1>0, <1>1, <1>2, <2>1, <2>3, <2>4, <2>5, OneThread DEF Threading
<1>8. CASE ChecksumKept(t)
  <2>1. Leave(thread[t].kind) \in {"release", "done"}
        /\ (thread[t].kind = "corpus" => Leave(thread[t].kind) = "done")
    BY DEF Leave, Locked
  <2> QED
    BY <1>1, <1>2, <1>8, <2>1, OneMove DEF ChecksumKept, Label, Threading
<1> QED
  BY <1>3, <1>4, <1>5, <1>6, <1>7, <1>8 DEF Ask, Ingest, Checksum

\* The rest of the state keeps its types as well: what the requests do to it,
\* and what the server and other processes do.
Stored ==
  /\ StoreTypeOK'
  /\ lock' \in Threads \cup {Free}
  /\ runtime' \in Handles \cup {Nothing}
  /\ model' \in [Handles -> {"unbuilt", "built", "loaded", "closed"}]
  /\ server' \in {"serving", "stopping", "closing", "stopped", "exited"}
  /\ closing' \in Handles \cup {Nothing}

\* A request writes to the store through the runtime it was given.
LEMMA RequestTypes ==
  ASSUME TypeOK, Placed, NEW t \in Threads, Arrive(t) \/ Serve(t)
  PROVE  Stored
<1> USE DEF TypeOK, Stored
<1>0. UNCHANGED storeVars => StoreTypeOK'
  BY DEF StoreTypeOK, storeVars
<1>1. CASE Arrive(t) \/ Acquire(t) \/ GetFinds(t) \/ GetFails(t) \/ GetMisses(t)
  BY <1>0, <1>1 DEF Arrive, Acquire, GetFinds, GetFails, GetMisses
<1>2. CASE GetAssigns(t)
  BY <1>0, <1>2 DEF GetAssigns, At, Placed
<1>3. CASE GetReturns(t) \/ HitsClosedStore(t) \/ Release(t)
  BY <1>0, <1>3 DEF GetReturns, HitsClosedStore, Release
<1>4. CASE AskLoads(t) \/ AskDiscovers(t) \/ AskAnswers(t) \/ AskStalls(t)
  BY <1>0, <1>4 DEF AskLoads, AskDiscovers, AskAnswers, AskStalls
<1>5. CASE AskFills(t) \/ ChecksumKept(t)
  <2>1. thread[t].handle \in Handles /\ thread[t].seen \in Content \cup {Nothing}
    BY <1>5 DEF AskFills, ChecksumKept, At, Placed, ThreadRecord
  <2>2. StoreTypeOK'
    BY <1>5, <2>1 DEF AskFills, ChecksumKept, FillPackage, FillChecksum, StoreTypeOK
  <2> QED
    BY <1>5, <2>2 DEF AskFills, ChecksumKept
<1>6. CASE Ingest(t)
  <2>1. CASE IngestSkips(t) \/ IngestAborts(t) \/ IngestReports(t)
    BY <1>0, <2>1 DEF IngestSkips, IngestAborts, IngestReports
  <2>2. CASE IngestInvalidates(t)
    <3>1. thread[t].handle \in Handles
      BY <2>2 DEF IngestInvalidates, At, Placed
    <3> QED
      BY <2>2, <3>1 DEF IngestInvalidates, Invalidate, StoreTypeOK
  <2>3. CASE \/ IngestDeletes(t) \/ IngestInsertsRow(t) \/ IngestInsertsUnits(t)
             \/ IngestCommits(t) \/ IngestRollsBack(t)
    <3>1. thread[t].handle \in Handles /\ thread[t].doc \in Docs
      BY <2>3 DEF IngestDeletes, IngestInsertsRow, IngestInsertsUnits, IngestCommits,
         IngestRollsBack, Alive, At, Placed
    <3>2. StoreTypeOK'
      BY <2>3, <3>1, StatementTypes DEF IngestDeletes, IngestInsertsRow,
         IngestInsertsUnits, IngestCommits, IngestRollsBack
    <3> QED
      BY <2>3, <3>2 DEF IngestDeletes, IngestInsertsRow, IngestInsertsUnits,
         IngestCommits, IngestRollsBack
  <2> QED
    BY <1>6, <2>1, <2>2, <2>3 DEF Ingest
<1>7. CASE ChecksumHit(t) \/ ChecksumReads(t)
  BY <1>0, <1>7 DEF ChecksumHit, ChecksumReads
<1> QED
  BY <1>1, <1>2, <1>3, <1>4, <1>5, <1>6, <1>7 DEF Serve, Ask, Checksum

\* Stopping the server, and another process at work on the corpus.
LEMMA OtherTypes ==
  ASSUME TypeOK, Stop \/ CloseSession \/ CloseStore \/ CloseFails \/ Exit \/ Outsider
  PROVE  Stored /\ UNCHANGED <<thread, lock>>
<1> USE DEF TypeOK, Stored
<1>0. UNCHANGED storeVars => StoreTypeOK'
  BY DEF StoreTypeOK, storeVars
<1>1. CASE Stop \/ CloseFails
  BY <1>0, <1>1 DEF Stop, CloseFails
<1>2. CASE CloseSession
  <2>1. StoreTypeOK'
    <3>1. Commit(closing) \/ UNCHANGED storeVars
      BY <1>2 DEF CloseSession
    <3>2. Commit(closing) => StoreTypeOK'
      BY EmptyType DEF Commit, StoreTypeOK
    <3> QED
      BY <1>0, <3>1, <3>2
  <2> QED
    BY <1>2, <2>1 DEF CloseSession
<1>3. CASE CloseStore
  <2>1. StoreTypeOK'
    BY <1>3, EmptyType DEF CloseStore, Rollback, StoreTypeOK
  <2> QED
    BY <1>3, <2>1 DEF CloseStore
<1>5. CASE Exit
  <2>1. StoreTypeOK'
    BY <1>5, EmptyType DEF Exit, Rollback, StoreTypeOK
  <2> QED
    BY <1>5, <2>1 DEF Exit
<1>4. CASE Outsider
  <2>1. StoreTypeOK'
    BY <1>4, EmptyType DEF Outsider, ForeignCommit, StoreTypeOK
  <2> QED
    BY <1>4, <2>1 DEF Outsider, wsVars
<1> QED
  BY <1>1, <1>2, <1>3, <1>4, <1>5

-----------------------------------------------------------------------------
(* The theorems.                                                           *)

\* Every step keeps the invariant.
LEMMA InvNext == Inv /\ [Next]_vars => Inv'
<1> SUFFICES ASSUME Inv, [Next]_vars PROVE Inv'
  OBVIOUS
<1>0. TypeOK /\ Placed /\ LockInv
  BY DEF Inv
<1>1. ASSUME Stored, Threading PROVE Inv'
  BY <1>1 DEF Inv, TypeOK, Stored, Threading
<1>2. ASSUME NEW t \in Threads, Arrive(t) \/ Serve(t) PROVE Inv'
  <2>1. Stored
    BY <1>0, <1>2, RequestTypes
  <2>2. Threading
    BY <1>0, <1>2, ServerSteps, BodySteps DEF Serve
  <2> QED
    BY <1>1, <2>1, <2>2
<1>3. CASE Stop \/ CloseSession \/ CloseStore \/ CloseFails \/ Exit \/ Outsider
  <2>1. Stored /\ UNCHANGED <<thread, lock>>
    BY <1>0, <1>3, OtherTypes
  <2>2. Threading
    BY <1>0, <2>1, NoMove DEF Threading
  <2> QED
    BY <1>1, <2>1, <2>2
<1>4. CASE UNCHANGED vars
  <2>1. Stored /\ UNCHANGED <<thread, lock>>
    BY <1>0, <1>4 DEF vars, wsVars, storeVars, TypeOK, StoreTypeOK, Stored
  <2>2. Threading
    BY <1>0, <2>1, NoMove DEF Threading
  <2> QED
    BY <1>1, <2>1, <2>2
<1> QED
  BY <1>2, <1>3, <1>4 DEF Next, Runs

\* The invariant is one of the server.
LEMMA InvHolds == Spec => []Inv
<1> QED
  BY InvInit, InvNext, PTL DEF Spec

\* Every variable of the server keeps its type: in particular a request never
\* writes to the store through a runtime that get() did not return, and never
\* ingests a document it was not given (apps/workspace/server.py).
THEOREM WorkspaceTypes == Spec => []TypeOK
<1>1. Inv => TypeOK
  BY DEF Inv
<1> QED
  BY InvHolds, <1>1, PTL

\* The bodies of ask, ingest and status never overlap, for any number of
\* requests, whether they fail, the server is stopped under them, or another
\* process changes the corpus (_State.lock).
THEOREM LockExcludes == Spec => []OneCallAtATime
<1>1. Inv => OneCallAtATime
  BY DEF Inv, LockInv, OneCallAtATime
<1> QED
  BY InvHolds, <1>1, PTL

-----------------------------------------------------------------------------
(* Transactions.                                                           *)

\* A thread between the first write of a document and its commit.
Writes(t, h) ==
  InBody(t) /\ thread[t].handle = h /\ thread[t].pc \in {"row", "units", "commit"}

\* Who owns the open transaction, on a connection that is open.
TransactionInv ==
  writer # Nothing =>
    model[writer] # "closed" /\ \E t \in Threads : Writes(t, writer)

\* Only a thread inside an ingest touches the transaction; the steps of get(),
\* of the lock and of a question or a checksum leave it alone.
LEMMA QuietSteps ==
  ASSUME TypeOK, LockInv, TransactionInv, NEW t \in Threads, thread[t].pc \notin {"row", "units", "commit"},
         Arrive(t) \/ Serve(t), ~IngestDeletes(t)
  PROVE  /\ writer' = writer
         /\ \A h \in Handles : model[h] # "closed" => model'[h] # "closed"
<1>1. CASE \/ Arrive(t) \/ Acquire(t) \/ GetFinds(t) \/ GetFails(t)
           \/ HitsClosedStore(t) \/ Release(t)
  BY <1>1 DEF Arrive, Acquire, GetFinds, GetFails, HitsClosedStore, Release, storeVars
<1>5. CASE GetMisses(t) \/ GetAssigns(t) \/ GetReturns(t)
  BY <1>5 DEF GetMisses, GetAssigns, GetReturns, storeVars, TypeOK
<1>2. CASE Ask(t) \/ Checksum(t)
  BY <1>2 DEF Ask, AskLoads, AskDiscovers, AskFills, AskAnswers, AskStalls, Checksum, ChecksumHit,
     ChecksumReads, ChecksumKept, FillPackage, FillChecksum, storeVars, TypeOK
<1>3. CASE IngestSkips(t) \/ IngestAborts(t) \/ IngestInvalidates(t) \/ IngestReports(t)
  BY <1>3 DEF IngestSkips, IngestAborts, IngestInvalidates, IngestReports, Invalidate,
     storeVars
<1>4. CASE IngestInsertsRow(t) \/ IngestInsertsUnits(t) \/ IngestCommits(t)
  BY <1>4 DEF IngestInsertsRow, IngestInsertsUnits, IngestCommits, Alive, At
<1>6. CASE IngestRollsBack(t)
  <2>1. thread[t].pc = "delete" /\ UNCHANGED model
    BY <1>6 DEF IngestRollsBack, Alive, At
  <2>2. ASSUME NEW u \in Threads, Writes(u, writer) PROVE writer # thread[t].handle
    BY <2>1, <2>2 DEF Writes, InBody, Locked, LockInv
  <2>3. writer # Nothing => writer # thread[t].handle
    BY <2>2 DEF TransactionInv
  <2> QED
    BY <1>6, <2>1, <2>3 DEF IngestRollsBack, Rollback
<1> QED
  BY <1>1, <1>2, <1>3, <1>4, <1>5, <1>6 DEF Serve, Ingest

\* A write moves the thread on, inside its transaction.
LEMMA WriteSteps ==
  ASSUME TypeOK, Placed, LockInv, NEW t \in Threads,
         IngestDeletes(t) \/ IngestInsertsRow(t) \/ IngestInsertsUnits(t)
  PROVE  TransactionInv'
<1>1. /\ Alive(t, "delete") \/ Alive(t, "row") \/ Alive(t, "units")
      /\ Goto(t, "row") \/ Goto(t, "units") \/ Goto(t, "commit")
      /\ writer' = thread[t].handle
      /\ model' = model
  BY DEF IngestDeletes, IngestInsertsRow, IngestInsertsUnits, DeleteDocument, InsertRow,
     InsertUnits, Modify
<1>2. model[thread[t].handle] # "closed"
  BY <1>1 DEF Alive, Dead
<1>3. thread[t].kind # "corpus"
  BY <1>1 DEF Alive, At, LockInv
<1>4. /\ thread'[t].pc \in {"row", "units", "commit"}
      /\ thread'[t].kind = thread[t].kind /\ thread'[t].handle = thread[t].handle
  BY <1>1 DEF Goto, TypeOK, ThreadRecord
<1>5. Writes(t, writer)'
  BY <1>1, <1>3, <1>4 DEF Writes, InBody, Locked
<1> QED
  BY <1>1, <1>2, <1>5 DEF TransactionInv

\* A request moves its own thread only.
LEMMA OthersStay ==
  ASSUME TypeOK, NEW t \in Threads, Arrive(t) \/ Serve(t), NEW u \in Threads \ {t}
  PROVE  thread'[u] = thread[u]
<1> USE DEF TypeOK, Goto
<1>1. CASE \/ Arrive(t) \/ Acquire(t) \/ GetFinds(t) \/ GetFails(t) \/ GetMisses(t) \/ GetAssigns(t)
           \/ GetReturns(t) \/ HitsClosedStore(t) \/ Release(t)
  BY <1>1 DEF Arrive, Acquire, GetFinds, GetFails, GetMisses, GetAssigns, GetReturns,
     HitsClosedStore, Release
<1>2. CASE Ask(t) \/ Checksum(t)
  BY <1>2 DEF Ask, AskLoads, AskDiscovers, AskFills, AskAnswers, AskStalls, Checksum, ChecksumHit,
     ChecksumReads, ChecksumKept
<1>3. CASE Ingest(t)
  BY <1>3 DEF Ingest, IngestSkips, IngestAborts, IngestInvalidates, IngestDeletes,
     IngestInsertsRow, IngestInsertsUnits, IngestCommits, IngestRollsBack, IngestReports
<1> QED
  BY <1>1, <1>2, <1>3 DEF Serve

\* Past its first write, an ingest goes on writing, or ends the transaction;
\* on a closed connection there is none.
LEMMA WriterSteps ==
  ASSUME TypeOK, Placed, LockInv, TransactionInv, NEW t \in Threads,
         thread[t].pc \in {"row", "units", "commit"}, Arrive(t) \/ Serve(t)
  PROVE  TransactionInv'
<1>1. InBody(t) /\ lock = t
  BY DEF LockInv, InBody, Locked
<1>2. writer \in {Nothing, thread[t].handle}
  BY <1>1 DEF TransactionInv, Writes, LockInv
<1>3. CASE IngestInsertsRow(t) \/ IngestInsertsUnits(t)
  BY <1>3, WriteSteps
<1>4. CASE IngestCommits(t) \/ IngestRollsBack(t)
  BY <1>2, <1>4 DEF IngestCommits, IngestRollsBack, Commit, Rollback, TransactionInv
<1>5. CASE HitsClosedStore(t)
  <2>1. writer = Nothing
    BY <1>2, <1>5 DEF HitsClosedStore, Dead, TransactionInv
  <2> QED
    BY <1>5, <2>1 DEF HitsClosedStore, storeVars, TransactionInv
<1> QED
  BY <1>3, <1>4, <1>5
  DEF Serve, Arrive, Acquire, GetFinds, GetFails, GetMisses, GetAssigns, GetReturns, Release, Ask,
      AskLoads, AskDiscovers, AskFills, AskAnswers, AskStalls, Ingest, IngestSkips, IngestAborts,
      IngestInvalidates, IngestDeletes, IngestReports, Checksum, ChecksumHit,
      ChecksumReads, ChecksumKept, Alive, At

\* Every step keeps the transaction owned.
LEMMA TransactionNext == Inv /\ TransactionInv /\ [Next]_vars => TransactionInv'
<1> SUFFICES ASSUME Inv, TransactionInv, [Next]_vars PROVE TransactionInv'
  OBVIOUS
<1>0. TypeOK /\ Placed /\ LockInv /\ writer \in Handles \cup {Nothing}
  BY DEF Inv, TypeOK, StoreTypeOK
<1>1. ASSUME NEW t \in Threads, Arrive(t) \/ Serve(t) PROVE TransactionInv'
  <2>1. CASE thread[t].pc \in {"row", "units", "commit"}
    BY <1>0, <1>1, <2>1, WriterSteps
  <2>2. CASE IngestDeletes(t)
    BY <1>0, <2>2, WriteSteps
  <2>3. CASE thread[t].pc \notin {"row", "units", "commit"} /\ ~IngestDeletes(t)
    <3>1. /\ writer' = writer
          /\ \A h \in Handles : model[h] # "closed" => model'[h] # "closed"
      BY <1>0, <1>1, <2>3, QuietSteps
    <3>2. \A u \in Threads \ {t} : thread'[u] = thread[u]
      BY <1>0, <1>1, OthersStay
    <3>3. ~Writes(t, writer)
      BY <2>3 DEF Writes
    <3> QED
      BY <1>0, <3>1, <3>2, <3>3 DEF TransactionInv, Writes, InBody
  <2> QED
    BY <2>1, <2>2, <2>3
<1>5. CASE Exit
  BY <1>5 DEF Exit, Rollback, TransactionInv
<1>2. CASE Stop \/ CloseFails \/ Outsider \/ UNCHANGED vars
  BY <1>2 DEF Stop, CloseFails, Outsider, ForeignCommit, vars, wsVars, storeVars,
     TransactionInv, Writes, InBody
<1>3. CASE CloseSession
  <2>1. writer' \in {Nothing, writer} /\ UNCHANGED <<model, thread>>
    BY <1>3 DEF CloseSession, Commit, storeVars
  <2> QED
    BY <2>1 DEF TransactionInv, Writes, InBody
<1>4. CASE CloseStore
  <2>1. /\ writer' = IF writer = closing THEN Nothing ELSE writer
        /\ thread' = thread /\ model' = [model EXCEPT ![closing] = "closed"]
    BY <1>4 DEF CloseStore, Rollback
  <2> QED
    BY <1>0, <2>1 DEF TransactionInv, Writes, InBody, TypeOK
<1> QED
  BY <1>1, <1>2, <1>3, <1>4, <1>5 DEF Next, Runs

\* Nobody is writing yet.
LEMMA TransactionInit == Init => TransactionInv
  BY DEF Init, StoreInit, TransactionInv

\* No transaction outlives the request that opened it, however that request
\* ends: at every moment the open transaction belongs to a thread that is
\* inside upsert_document (corpus.py) and holds the lock.
THEOREM TransactionsAreOwned == Spec => []TransactionOwned
<1>1. TransactionInv => TransactionOwned
  BY DEF TransactionInv, TransactionOwned, Writes
<1> QED
  BY InvHolds, TransactionInit, TransactionNext, <1>1, PTL DEF Spec

-----------------------------------------------------------------------------
(* Who is in a request, and of which kind.                                 *)

\* A question is asked by ask requests only, and a thread that has not been given a
\* request has no kind.  A server that is closing a runtime has one.
KindInv ==
  /\ \A t \in Threads :
       /\ thread[t].pc = "new" => thread[t].kind = "none"
       /\ thread[t].pc \in {"load", "discover", "fill", "infer"} => thread[t].kind = "ask"
  /\ server \in {"stopping", "closing"} => closing # Nothing

\* What a request does to its own record: it goes to a known place and keeps its
\* kind; the steps of a question follow each other.
LEMMA OwnSteps ==
  ASSUME TypeOK, NEW t \in Threads, Serve(t)
  PROVE  /\ thread'[t].kind = thread[t].kind /\ thread'[t].pc # "new"
         /\ thread'[t].pc \in {"load", "discover", "fill", "infer"} =>
              \/ thread[t].pc \in {"load", "discover", "fill", "infer"}
              \/ thread[t].kind = "ask"
         /\ IngestCommits(t) \/ thread'[t].stored = thread[t].stored
<1>0. thread[t] \in ThreadRecord /\ thread \in [Threads -> ThreadRecord]
  BY DEF TypeOK
<1> USE DEF Goto, At, Alive
<1>1. CASE \/ Acquire(t) \/ GetFinds(t) \/ GetAssigns(t) \/ Release(t)
  BY <1>0, <1>1 DEF Acquire, GetFinds, GetAssigns, Release, ThreadRecord
<1>6. CASE GetMisses(t)
  BY <1>0, <1>6 DEF GetMisses, ThreadRecord
<1>7. CASE GetFails(t) \/ HitsClosedStore(t)
  BY <1>0, <1>7 DEF GetFails, HitsClosedStore, Leave, ThreadRecord
<1>2. CASE GetReturns(t)
  BY <1>0, <1>2 DEF GetReturns, Leave, Body, ThreadRecord
<1>3. CASE Ask(t)
  BY <1>0, <1>3 DEF Ask, AskLoads, AskDiscovers, AskFills, AskAnswers, AskStalls, ThreadRecord
<1>4. CASE Checksum(t)
  BY <1>0, <1>4 DEF Checksum, ChecksumHit, ChecksumReads, ChecksumKept, Leave, ThreadRecord
<1>5. CASE Ingest(t)
  <2>1. CASE IngestSkips(t)
    BY <1>0, <2>1 DEF IngestSkips, ThreadRecord
  <2>3. CASE IngestInvalidates(t)
    BY <1>0, <2>3 DEF IngestInvalidates, ThreadRecord
  <2>4. CASE IngestCommits(t)
    BY <1>0, <2>4 DEF IngestCommits, ThreadRecord
  <2>2. CASE \/ IngestAborts(t) \/ IngestDeletes(t) \/ IngestInsertsRow(t)
             \/ IngestInsertsUnits(t) \/ IngestRollsBack(t) \/ IngestReports(t)
    BY <1>0, <2>2 DEF IngestAborts, IngestDeletes, IngestInsertsRow, IngestInsertsUnits,
       IngestRollsBack, IngestReports, ThreadRecord
  <2> QED
    BY <1>5, <2>1, <2>2, <2>3, <2>4 DEF Ingest
<1> QED
  BY <1>1, <1>2, <1>3, <1>4, <1>5, <1>6, <1>7 DEF Serve

\* What a new request does to its own record.
LEMMA Arrives ==
  ASSUME TypeOK, NEW t \in Threads, Arrive(t)
  PROVE  /\ thread[t].pc = "new" /\ thread'[t].pc \in {"wait", "get"}
         /\ thread'[t].handle = thread[t].handle /\ thread'[t].stored = thread[t].stored
<1>1. PICK kind \in Kinds :
        \E todo \in IF kind = "ingest" THEN (SUBSET Docs) \ {{}} ELSE {{}} :
          thread' = [thread EXCEPT ![t].pc = IF Locked(kind) THEN "wait" ELSE "get",
                                   ![t].kind = kind,
                                   ![t].todo = todo]
  BY DEF Arrive
<1> QED
  BY <1>1 DEF Arrive, At, TypeOK, ThreadRecord

\* The server and other processes move no thread.
LEMMA ServerStays ==
  ASSUME Stop \/ CloseSession \/ CloseStore \/ CloseFails \/ Exit \/ Outsider \/ UNCHANGED vars
  PROVE  UNCHANGED <<thread, lock>>
  BY DEF Stop, CloseSession, CloseStore, CloseFails, Exit, Outsider, vars, wsVars

\* Kinds stay as they should be; what a property of the store depends on, that nobody has
\* asked for the list of documents and that there is no session to close, is
\* never true again once it is false.
LEMMA KindNext ==
  ASSUME Inv, KindInv, [Next]_vars
  PROVE  /\ KindInv'
         /\ NoReader' => NoReader
         /\ NothingToClose' => NothingToClose
         /\ \A u \in Threads : thread[u].kind = "ask" => thread'[u].kind = "ask"
<1>0. TypeOK
  BY DEF Inv
<1>1. ASSUME NEW t \in Threads, Serve(t)
      PROVE  /\ KindInv' /\ (NoReader' => NoReader) /\ (NothingToClose' => NothingToClose)
             /\ \A u \in Threads : thread[u].kind = "ask" => thread'[u].kind = "ask"
  <2>1. \A u \in Threads \ {t} : thread'[u] = thread[u]
    BY <1>0, <1>1, OthersStay
  <2>2. /\ thread'[t].kind = thread[t].kind /\ thread'[t].pc # "new"
        /\ thread'[t].pc \in {"load", "discover", "fill", "infer"} =>
             \/ thread[t].pc \in {"load", "discover", "fill", "infer"}
             \/ thread[t].kind = "ask"
    BY <1>0, <1>1, OwnSteps
  <2>3. server' = server /\ closing' = closing
    BY <1>1 DEF Serve, Acquire, GetFinds, GetFails, GetMisses, GetAssigns, GetReturns, HitsClosedStore,
       Release, Ask, AskLoads, AskDiscovers, AskFills, AskAnswers, AskStalls, Checksum, ChecksumHit,
       ChecksumReads, ChecksumKept, Ingest, IngestSkips, IngestAborts, IngestInvalidates,
       IngestDeletes, IngestInsertsRow, IngestInsertsUnits, IngestCommits, IngestRollsBack,
       IngestReports
  <2>4. \A u \in Threads : thread'[u].kind = thread[u].kind
    BY <2>1, <2>2
  <2>5. KindInv'
    BY <2>1, <2>2, <2>3 DEF KindInv
  <2> QED
    BY <2>3, <2>4, <2>5 DEF NoReader, NothingToClose
<1>2. ASSUME NEW t \in Threads, Arrive(t)
      PROVE  /\ KindInv' /\ (NoReader' => NoReader) /\ (NothingToClose' => NothingToClose)
             /\ \A u \in Threads : thread[u].kind = "ask" => thread'[u].kind = "ask"
  <2>1. \A u \in Threads \ {t} : thread'[u] = thread[u]
    BY <1>0, <1>2, OthersStay
  <2>2. thread[t].kind = "none" /\ thread'[t].pc \in {"wait", "get"} /\ server = "serving"
    BY <1>0, <1>2, Arrives DEF Arrive, KindInv
  <2>3. KindInv'
    BY <1>2, <2>1, <2>2 DEF KindInv, Arrive
  <2>4. NoReader' => NoReader
    BY <2>1, <2>2 DEF NoReader
  <2> QED
    BY <2>1, <2>2, <2>3, <2>4 DEF NothingToClose
<1>3. CASE Stop \/ CloseSession \/ CloseStore \/ CloseFails \/ Exit \/ Outsider \/ UNCHANGED vars
  <2>1. UNCHANGED thread
    BY <1>3, ServerStays
  <2>2. server # "serving" => server' # "serving"
    BY <1>3 DEF Stop, CloseSession, CloseStore, CloseFails, Exit, Outsider, vars, wsVars
  <2>3. server' \in {"stopping", "closing"} => closing' # Nothing
    BY <1>3 DEF Stop, CloseSession, CloseStore, CloseFails, Exit, Outsider, vars, wsVars, KindInv
  <2> QED
    BY <2>1, <2>2, <2>3 DEF KindInv, NoReader, NothingToClose
<1> QED
  BY <1>1, <1>2, <1>3 DEF Next, Runs

\* Inside a request that is not writing a document, nobody writes.
LEMMA NobodyWrites ==
  ASSUME Inv, TransactionInv, NEW t \in Threads, InBody(t),
         thread[t].pc \notin {"row", "units", "commit"}
  PROVE  writer = Nothing /\ \A h \in Handles : View(h) = file
<1>1. writer = Nothing
  BY DEF Inv, LockInv, TransactionInv, Writes
<1> QED
  BY <1>1, StoreAssumption DEF View

-----------------------------------------------------------------------------
(* The caches, while no other process writes.                              *)

\* Between what get() has returned and the end of the request.
Held(t) ==
  thread[t].pc \in {"load", "discover", "fill", "infer", "next", "delete", "row", "units",
                    "commit", "sum", "keep"}
Uses(t) == Held(t) \/ thread[t].pc = "build"

\* The caches of a handle are empty, or right; the checksum only as long as everybody who
\* reads it holds the lock.
Blank(h) == packages[h] = Nothing /\ (NoReader => checksums[h] = Nothing)
Fresh(h) == Current(h, packages) /\ (NoReader => Current(h, checksums))

\* A runtime that is not yet the server's has done nothing, and nobody else has it.
UnusedInv ==
  /\ \A h \in Handles : model[h] = "unbuilt" =>
       /\ Blank(h) /\ runtime # h
       /\ \A t \in Threads : Uses(t) => thread[t].handle # h
  /\ \A t \in Threads : thread[t].pc = "build" =>
       /\ Blank(thread[t].handle) /\ runtime # thread[t].handle
       /\ \A u \in Threads \ {t} : Uses(u) => thread[u].handle # thread[t].handle

\* The runtime that works, and the one that will work next.  They differ when a reader
\* has built another one in the meantime, which nobody has asked anything yet.
FreshInv ==
  /\ runtime # Nothing => Fresh(runtime)
  /\ \A t \in Threads : Held(t) /\ InBody(t) =>
       /\ Fresh(thread[t].handle)
       /\ runtime # Nothing /\ runtime # thread[t].handle => Blank(runtime)

\* Caches stay empty while a document is being written.
WriterInv ==
  \A t \in Threads : thread[t].pc \in {"delete", "row", "units", "commit"} =>
    Blank(thread[t].handle)

\* What a thread has read, and not yet used, is what is committed.
SeenInv ==
  \A t \in Threads :
    /\ thread[t].pc \in {"fill", "infer"} => thread[t].seen = file
    /\ thread[t].pc = "keep" /\ NoReader => thread[t].seen = file

CacheInv == UnusedInv /\ FreshInv /\ WriterInv /\ SeenInv

\* Nobody has a fresh server's runtime yet, and its caches are empty.
LEMMA CacheInit == Init => CacheInv
<1> SUFFICES ASSUME Init PROVE CacheInv
  OBVIOUS
<1>1. \A t \in Threads : thread[t].pc = "new"
  BY DEF Init, Idle
<1>2. \A h \in Handles : packages[h] = Nothing /\ checksums[h] = Nothing
  BY DEF Init, StoreInit
<1>3. runtime \in Handles \cup {Nothing} /\ \A h \in Handles : model[h] = "unbuilt" => runtime # h
  BY StoreAssumption DEF Init
<1>4. \A h \in Handles : Blank(h) /\ Fresh(h)
  BY <1>2 DEF Blank, Fresh, Current
<1> QED
  BY <1>1, <1>3, <1>4 DEF CacheInv, UnusedInv, FreshInv, WriterInv, SeenInv, Held, Uses

\* A step that leaves the store and the server's runtime alone and moves one thread, on
\* with the runtime it has.
LEMMA CacheMoves ==
  ASSUME CacheInv, NEW t \in Threads, NoReader' => NoReader,
         UNCHANGED <<file, writer, packages, checksums, runtime>>,
         \A h \in Handles : model'[h] = "unbuilt" => model[h] = "unbuilt",
         \A u \in Threads \ {t} : thread'[u] = thread[u],
         thread'[t].handle = thread[t].handle, thread'[t].pc # "build",
         Held(t)' => Held(t), (Held(t) /\ InBody(t))' => InBody(t),
         thread'[t].pc = "delete" => Blank(thread[t].handle),
         thread'[t].pc \in {"row", "units", "commit"} =>
           thread[t].pc \in {"delete", "row", "units", "commit"},
         thread'[t].pc \in {"fill", "infer"} => thread'[t].seen = file,
         thread'[t].pc = "keep" /\ NoReader => thread'[t].seen = file
  PROVE  CacheInv'
<1>1. \A h : (Blank(h) => Blank(h)') /\ (Fresh(h) => Fresh(h)')
  BY DEF Blank, Fresh, Current
<1>2. \A u \in Threads : /\ Uses(u)' => Uses(u)
                         /\ thread'[u].handle = thread[u].handle
  BY DEF Uses, Held
<1>3. UnusedInv'
  BY <1>1, <1>2 DEF CacheInv, UnusedInv, Uses
<1>4. \A u \in Threads : (Held(u) /\ InBody(u))' => Held(u) /\ InBody(u)
  BY DEF Held, InBody
<1>5. FreshInv'
  BY <1>1, <1>2, <1>4 DEF CacheInv, FreshInv
<1>6. WriterInv'
  BY <1>1, <1>2 DEF CacheInv, WriterInv
<1>7. SeenInv'
  BY DEF CacheInv, SeenInv
<1> QED
  BY <1>3, <1>5, <1>6, <1>7 DEF CacheInv

\* ... and no other thread, as all steps of a request.
LEMMA CacheGoto ==
  ASSUME TypeOK, CacheInv, NEW t \in Threads, NoReader' => NoReader,
         UNCHANGED <<file, writer, packages, checksums, runtime>>,
         \A h \in Handles : model'[h] = "unbuilt" => model[h] = "unbuilt",
         NEW label \in {"get", "got", "discover", "sum", "stalled", "release", "done"},
         Goto(t, label), label \in {"discover", "sum"} => Held(t)
  PROVE  CacheInv'
<1>1. thread[t] \in ThreadRecord /\ thread \in [Threads -> ThreadRecord]
  BY DEF TypeOK
<1>2. /\ \A u \in Threads \ {t} : thread'[u] = thread[u]
      /\ thread'[t].pc = label /\ thread'[t].handle = thread[t].handle
      /\ thread'[t].kind = thread[t].kind
  BY <1>1 DEF Goto, ThreadRecord
<1>3. (Held(t)' => Held(t)) /\ ((Held(t) /\ InBody(t))' => InBody(t))
  BY <1>2 DEF Held, InBody
<1> QED
  BY <1>2, <1>3, CacheMoves

\* The steps of a request that change no cache and no document: what is read from a
\* cache or from the store is what is committed.
LEMMA CacheReads ==
  ASSUME Inv, TransactionInv, CacheInv, NEW t \in Threads, NoReader' => NoReader,
         \/ Arrive(t) \/ Acquire(t) \/ GetFinds(t) \/ GetFails(t) \/ HitsClosedStore(t) \/ Release(t)
         \/ AskLoads(t) \/ AskDiscovers(t) \/ AskAnswers(t) \/ AskStalls(t)
         \/ IngestSkips(t) \/ IngestAborts(t) \/ IngestReports(t)
         \/ ChecksumHit(t) \/ ChecksumReads(t)
  PROVE  CacheInv'
<1>0. TypeOK /\ thread[t] \in ThreadRecord /\ thread \in [Threads -> ThreadRecord]
  BY DEF Inv, TypeOK
<1>1. \A u \in Threads \ {t} : thread'[u] = thread[u]
  <2>1. Arrive(t) \/ Serve(t)
    BY DEF Serve, Ask, Ingest, Checksum
  <2> QED
    BY <1>0, <2>1, OthersStay
<1>2. CASE Arrive(t)
  <2>1. UNCHANGED <<file, writer, packages, checksums, runtime, model>>
    BY <1>2 DEF Arrive, storeVars
  <2>2. thread'[t].pc \in {"wait", "get"} /\ thread'[t].handle = thread[t].handle
    BY <1>0, <1>2, Arrives
  <2>3. ~Held(t)'
    BY <2>2 DEF Held
  <2> QED
    BY <1>1, <2>1, <2>2, <2>3, CacheMoves
<1>3. CASE \/ Acquire(t) \/ GetFinds(t) \/ GetFails(t) \/ HitsClosedStore(t) \/ Release(t)
           \/ AskAnswers(t) \/ AskStalls(t)
  <2>1. UNCHANGED <<file, writer, packages, checksums, runtime, model>>
    BY <1>3 DEF Acquire, GetFinds, GetFails, HitsClosedStore, Release, AskAnswers, AskStalls, storeVars
  <2>2. PICK label \in {"get", "got", "stalled", "release", "done"} : Goto(t, label)
    <3>1. CASE Acquire(t) \/ GetFinds(t) \/ GetFails(t) \/ HitsClosedStore(t)
      BY <3>1 DEF Acquire, GetFinds, GetFails, HitsClosedStore, Leave
    <3>2. CASE Release(t) \/ AskAnswers(t) \/ AskStalls(t)
      BY <3>2 DEF Release, AskAnswers, AskStalls
    <3> QED
      BY <1>3, <3>1, <3>2
  <2> QED
    BY <1>0, <2>1, <2>2, CacheGoto
<1>4. CASE AskLoads(t)
  <2>1. UNCHANGED <<file, writer, packages, checksums, runtime>> /\ Held(t)
    BY <1>4 DEF AskLoads, storeVars, Alive, At, Held
  <2>2. PICK label \in {"discover", "release"} : Goto(t, label)
    BY <1>4 DEF AskLoads
  <2>3. \A h \in Handles : model'[h] = "unbuilt" => model[h] = "unbuilt"
    BY <1>0, <1>4 DEF AskLoads, TypeOK
  <2> QED
    BY <1>0, <2>1, <2>2, <2>3, CacheGoto
<1>5. CASE IngestAborts(t) \/ IngestReports(t)
  <2>1. UNCHANGED <<file, writer, packages, checksums, runtime, model>> /\ Held(t)
    BY <1>5 DEF IngestAborts, IngestReports, storeVars, At, Held
  <2>2. PICK label \in {"release", "sum"} : Goto(t, label)
    BY <1>5 DEF IngestAborts, IngestReports
  <2> QED
    BY <1>0, <2>1, <2>2, CacheGoto
<1>6. CASE IngestSkips(t)
  <2>1. UNCHANGED <<file, writer, packages, checksums, runtime, model>>
    BY <1>6 DEF IngestSkips, storeVars
  <2>2. /\ thread[t].pc = "next" /\ thread'[t].pc = "next"
        /\ thread'[t].handle = thread[t].handle /\ thread'[t].kind = thread[t].kind
    BY <1>0, <1>6 DEF IngestSkips, At, ThreadRecord
  <2>3. (Held(t)' => Held(t)) /\ ((Held(t) /\ InBody(t))' => InBody(t))
    BY <2>2 DEF Held, InBody
  <2> QED
    BY <1>1, <2>1, <2>2, <2>3, CacheMoves
<1>7. CASE AskDiscovers(t)
  <2>1. UNCHANGED <<file, writer, packages, checksums, runtime, model>>
    BY <1>7 DEF AskDiscovers, storeVars
  <2>2. /\ thread[t].pc = "discover" /\ thread[t].handle \in Handles /\ Held(t)
        /\ thread[t].kind # "corpus"
    BY <1>7 DEF AskDiscovers, Alive, At, Inv, Placed, LockInv, Held
  <2>3. InBody(t) /\ Fresh(thread[t].handle) /\ writer = Nothing /\ View(thread[t].handle) = file
    BY <2>2, NobodyWrites DEF InBody, Locked, CacheInv, FreshInv
  <2>4. CASE Goto(t, "release")
    BY <1>0, <2>1, <2>4, CacheGoto
  <2>5. ASSUME NEW content, NEW label \in {"infer", "fill"}, content = file,
               thread' = [thread EXCEPT ![t].seen = content, ![t].pc = label]
        PROVE  CacheInv'
    <3>1. /\ thread'[t].pc = label /\ thread'[t].seen = file
          /\ thread'[t].handle = thread[t].handle /\ thread'[t].kind = thread[t].kind
      BY <1>0, <2>5 DEF ThreadRecord
    <3> QED
      BY <1>1, <2>1, <2>2, <2>3, <3>1, CacheMoves
  <2>6. packages[thread[t].handle] # Nothing => packages[thread[t].handle] = file
    BY <2>2, <2>3, StoreAssumption DEF Fresh, Current
  <2> QED
    BY <1>7, <2>3, <2>4, <2>5, <2>6 DEF AskDiscovers
<1>8. CASE ChecksumHit(t) \/ ChecksumReads(t)
  <2>1. UNCHANGED <<file, writer, packages, checksums, runtime, model>>
    BY <1>8 DEF ChecksumHit, ChecksumReads, storeVars
  <2>2. /\ thread[t].pc = "sum" /\ thread[t].handle \in Handles /\ Held(t)
    BY <1>8 DEF ChecksumHit, ChecksumReads, Alive, At, Inv, Placed, Held
  <2>3. CASE ChecksumHit(t)
    <3>1. /\ thread'[t].pc \in {"release", "done"} /\ thread'[t].handle = thread[t].handle
      BY <1>0, <2>3 DEF ChecksumHit, Leave, ThreadRecord
    <3>2. ~Held(t)'
      BY <3>1 DEF Held
    <3> QED
      BY <1>1, <2>1, <3>1, <3>2, CacheMoves
  <2>4. CASE ChecksumReads(t)
    <3>1. /\ thread'[t].pc = "keep" /\ thread'[t].handle = thread[t].handle
          /\ thread'[t].kind = thread[t].kind /\ thread'[t].seen = View(thread[t].handle)
      BY <1>0, <2>4 DEF ChecksumReads, ThreadRecord
    <3>2. NoReader => thread'[t].seen = file
      <4>1. NoReader => InBody(t)
        BY <2>2 DEF NoReader, InBody, Locked
      <4> QED
        BY <2>2, <3>1, <4>1, NobodyWrites
    <3>3. (Held(t) /\ InBody(t))' => InBody(t)
      BY <2>2, <3>1 DEF InBody
    <3> QED
      BY <1>1, <2>1, <2>2, <3>1, <3>2, <3>3, CacheMoves
  <2> QED
    BY <1>8, <2>3, <2>4
<1> QED
  BY <1>2, <1>3, <1>4, <1>5, <1>6, <1>7, <1>8

\* A runtime is built, assigned and handed out: nobody has used it before, and whoever
\* works with another one at the time leaves it alone.
LEMMA CacheGets ==
  ASSUME Inv, CacheInv, NEW t \in Threads, NoReader' => NoReader,
         GetMisses(t) \/ GetAssigns(t) \/ GetReturns(t)
  PROVE  CacheInv'
<1>0. TypeOK /\ thread[t] \in ThreadRecord /\ thread \in [Threads -> ThreadRecord]
  BY DEF Inv, TypeOK
<1>1. \A u \in Threads \ {t} : thread'[u] = thread[u]
  <2>1. Arrive(t) \/ Serve(t)
    BY DEF Serve
  <2> QED
    BY <1>0, <2>1, OthersStay
<1>2. UNCHANGED <<file, writer, packages, checksums>>
  BY DEF GetMisses, GetAssigns, GetReturns, storeVars
<1>3. \A h : (Blank(h) => Blank(h)') /\ (Fresh(h) => Fresh(h)')
  BY <1>2 DEF Blank, Fresh, Current
<1>4. CASE GetMisses(t)
  <2>1. PICK h \in Handles :
          /\ model[h] = "unbuilt" /\ model' = [model EXCEPT ![h] = "built"]
          /\ thread' = [thread EXCEPT ![t].handle = h, ![t].pc = "build"]
    BY <1>4 DEF GetMisses
  <2>2. /\ thread'[t].pc = "build" /\ thread'[t].handle = h /\ ~Held(t)'
        /\ runtime' = runtime /\ runtime = Nothing
    BY <1>0, <1>4, <2>1 DEF GetMisses, ThreadRecord, Held
  <2>3. Blank(h) /\ h # Nothing /\ \A u \in Threads : Uses(u) => thread[u].handle # h
    BY <2>1, StoreAssumption DEF CacheInv, UnusedInv
  <2>4. \A u \in Threads \ {t} :
          (Uses(u)' <=> Uses(u)) /\ (Held(u)' <=> Held(u)) /\ (InBody(u)' <=> InBody(u))
    BY <1>1 DEF Uses, Held, InBody
  <2>5. \A g \in Handles : model'[g] = "unbuilt" => model[g] = "unbuilt" /\ g # h
    BY <1>0, <2>1 DEF TypeOK
  <2>6. UnusedInv'
    <3>1. ASSUME NEW g \in Handles, model'[g] = "unbuilt"
          PROVE  (Blank(g) /\ runtime # g /\ \A u \in Threads : Uses(u) => thread[u].handle # g)'
      BY <1>1, <1>3, <2>2, <2>4, <2>5, <3>1 DEF CacheInv, UnusedInv
    <3>2. ASSUME NEW u \in Threads, thread'[u].pc = "build"
          PROVE  (/\ Blank(thread[u].handle) /\ runtime # thread[u].handle
                  /\ \A v \in Threads \ {u} : Uses(v) => thread[v].handle # thread[u].handle)'
      <4>1. CASE u = t
        BY <1>1, <1>3, <2>2, <2>3, <2>4, <4>1
      <4>2. CASE u # t
        <5>1. Uses(u) /\ thread'[u] = thread[u] /\ thread[u].pc = "build"
          BY <1>1, <3>2, <4>2 DEF Uses
        <5> QED
          BY <1>1, <1>3, <2>2, <2>3, <2>4, <4>2, <5>1 DEF CacheInv, UnusedInv
      <4> QED
        BY <4>1, <4>2
    <3> QED
      BY <3>1, <3>2 DEF UnusedInv
  <2>7. FreshInv' /\ WriterInv' /\ SeenInv'
    BY <1>1, <1>2, <1>3, <2>2, <2>4 DEF CacheInv, FreshInv, WriterInv, SeenInv
  <2> QED
    BY <2>6, <2>7 DEF CacheInv
<1>5. CASE GetAssigns(t)
  <2>1. /\ thread[t].pc = "build" /\ runtime' = thread[t].handle /\ model' = model
        /\ thread'[t].pc = "got" /\ thread'[t].handle = thread[t].handle
        /\ ~Uses(t)' /\ ~Held(t)'
    BY <1>0, <1>5 DEF GetAssigns, At, Goto, ThreadRecord, Uses, Held
  <2>2. /\ Uses(t) /\ Blank(thread[t].handle)
        /\ \A u \in Threads \ {t} : Uses(u) => thread[u].handle # thread[t].handle
        /\ \A u \in Threads \ {t} : thread[u].pc = "build" => thread[u].handle # thread[t].handle
    BY <2>1 DEF CacheInv, UnusedInv, Uses
  <2>3. Blank(thread[t].handle) => Fresh(thread[t].handle)
    BY DEF Blank, Fresh, Current
  <2>4. \A u \in Threads \ {t} :
          (Uses(u)' <=> Uses(u)) /\ (Held(u)' <=> Held(u)) /\ (InBody(u)' <=> InBody(u))
    BY <1>1 DEF Uses, Held, InBody
  <2>5. UnusedInv'
    BY <1>1, <1>3, <2>1, <2>2, <2>4 DEF CacheInv, UnusedInv
  <2>6. FreshInv'
    BY <1>1, <1>3, <2>1, <2>2, <2>3, <2>4 DEF CacheInv, FreshInv
  <2>7. WriterInv' /\ SeenInv'
    BY <1>1, <1>2, <1>3, <2>1 DEF CacheInv, WriterInv, SeenInv
  <2> QED
    BY <2>5, <2>6, <2>7 DEF CacheInv
<1>6. CASE GetReturns(t)
  <2>1. /\ thread[t].pc = "got" /\ runtime' = runtime /\ model' = model
        /\ thread'[t].handle = runtime
        /\ thread'[t].pc \in {"release", "done", "load", "next", "sum"}
        /\ runtime = Nothing => thread'[t].pc \in {"release", "done"}
    BY <1>0, <1>6 DEF GetReturns, At, Leave, Body, ThreadRecord
  <2>2. Uses(t)' => runtime # Nothing
    BY <2>1 DEF Uses, Held
  <2>3. \A u \in Threads \ {t} :
          (Uses(u)' <=> Uses(u)) /\ (Held(u)' <=> Held(u)) /\ (InBody(u)' <=> InBody(u))
    BY <1>1 DEF Uses, Held, InBody
  <2>4. UnusedInv'
    BY <1>1, <1>3, <2>1, <2>2, <2>3 DEF CacheInv, UnusedInv
  <2>5. FreshInv'
    <3>1. Held(t)' => runtime # Nothing
      BY <2>2 DEF Uses
    <3> QED
      BY <1>1, <1>3, <2>1, <2>3, <3>1 DEF CacheInv, FreshInv
  <2>6. WriterInv' /\ SeenInv'
    BY <1>1, <1>2, <1>3, <2>1 DEF CacheInv, WriterInv, SeenInv
  <2> QED
    BY <2>4, <2>5, <2>6 DEF CacheInv
<1> QED
  BY <1>4, <1>5, <1>6

\* What has just been read goes into a cache: a question's package under the lock, and a
\* checksum under the lock as long as nobody reads without it.
LEMMA CacheFills ==
  ASSUME Inv, TransactionInv, CacheInv, NEW t \in Threads, NoReader' => NoReader,
         AskFills(t) \/ ChecksumKept(t)
  PROVE  CacheInv'
<1>1. PICK h \in Handles : h = thread[t].handle
  BY DEF AskFills, ChecksumKept, At, Inv, Placed
<1>0. TypeOK /\ thread[t] \in ThreadRecord /\ thread \in [Threads -> ThreadRecord]
  BY DEF Inv, TypeOK
<1>2. \A u \in Threads \ {t} : thread'[u] = thread[u]
  <2>1. Arrive(t) \/ Serve(t)
    BY DEF Serve, Ask, Checksum
  <2> QED
    BY <1>0, <2>1, OthersStay
<1>3. /\ UNCHANGED <<file, writer, runtime, model>> /\ Held(t) /\ thread[t].handle = h
      /\ thread[t].pc \in {"fill", "keep"}
      /\ thread'[t].pc \in {"infer", "release", "done"}
      /\ thread'[t].handle = h /\ thread'[t].kind = thread[t].kind
      /\ thread'[t].seen = thread[t].seen
  BY <1>0, <1>1 DEF AskFills, ChecksumKept, FillPackage, FillChecksum, At, Goto, Leave, Inv,
     Placed, Held, ThreadRecord
<1>4. packages \in [Handles -> Content \cup {Nothing}] /\ checksums \in [Handles -> Content \cup {Nothing}]
  BY DEF Inv, TypeOK, StoreTypeOK
<1>5. \A g \in Handles \ {h} : (Blank(g) => Blank(g)') /\ (Fresh(g) => Fresh(g)')
  BY <1>3, <1>4 DEF AskFills, ChecksumKept, FillPackage, FillChecksum, Blank, Fresh, Current
<1>6. UnusedInv'
  <2>1. \A u \in Threads : Uses(u)' => Uses(u) /\ thread'[u].handle = thread[u].handle
    BY <1>2, <1>3 DEF Uses, Held
  <2>2. \A g \in Handles : model[g] = "unbuilt" => g # h
    BY <1>3 DEF CacheInv, UnusedInv, Uses
  <2>3. \A u \in Threads : thread'[u].pc = "build" =>
          /\ u # t /\ thread'[u] = thread[u] /\ thread[u].pc = "build"
          /\ thread[u].handle # h /\ thread[u].handle \in Handles
    BY <1>2, <1>3 DEF CacheInv, UnusedInv, Uses, Inv, Placed
  <2> QED
    BY <1>3, <1>5, <2>1, <2>2, <2>3 DEF CacheInv, UnusedInv
<1>7. CASE AskFills(t)
  <2>1. thread[t].pc = "fill" /\ InBody(t) /\ thread[t].seen = file
    BY <1>7 DEF AskFills, At, Inv, LockInv, InBody, Locked, CacheInv, SeenInv
  <2>2. Fresh(h)'
    <3>1. Fresh(h)
      BY <1>3, <2>1 DEF CacheInv, FreshInv
    <3> QED
      BY <1>3, <1>4, <1>7, <2>1, <3>1 DEF AskFills, FillPackage, Fresh, Current
  <2>3. \A u \in Threads : InBody(u) => u = t
    BY <2>1 DEF Inv, LockInv
  <2>4. \A u \in Threads : thread[u].pc \in {"delete", "row", "units", "commit"} => InBody(u)
    BY DEF Inv, LockInv, InBody, Locked
  <2>5. \A u \in Threads \ {t} :
          thread[u].pc \notin {"delete", "row", "units", "commit"} /\ ~InBody(u)
    BY <2>3, <2>4
  <2>6. thread'[t].pc = "infer"
    BY <1>0, <1>7 DEF AskFills, Goto, ThreadRecord
  <2>7. FreshInv'
    <3>1. runtime # Nothing => Fresh(runtime)'
      BY <1>0, <1>3, <1>5, <2>2 DEF CacheInv, FreshInv, TypeOK
    <3>2. runtime # Nothing /\ runtime # h => Blank(runtime)'
      <4>1. runtime # Nothing /\ runtime # h => Blank(runtime) /\ runtime \in Handles \ {h}
        BY <1>0, <1>3, <2>1 DEF CacheInv, FreshInv, TypeOK
      <4> QED
        BY <1>3, <1>5, <4>1
    <3>3. \A u \in Threads \ {t} : ~InBody(u)'
      BY <1>2, <2>5 DEF InBody
    <3> QED
      BY <1>3, <2>2, <3>1, <3>2, <3>3 DEF FreshInv
  <2>8. WriterInv' /\ SeenInv'
    BY <1>2, <1>3, <2>1, <2>5, <2>6 DEF CacheInv, WriterInv, SeenInv
  <2> QED
    BY <1>6, <2>7, <2>8 DEF CacheInv
<1>8. CASE ChecksumKept(t)
  <2>1. thread[t].pc = "keep" /\ packages' = packages /\ ~Held(t)'
        /\ checksums' = [checksums EXCEPT ![h] = thread[t].seen]
    BY <1>3, <1>8 DEF ChecksumKept, FillChecksum, At, Held, Leave, Goto
  <2>2. NoReader => InBody(t) /\ thread[t].seen = file
    BY <2>1 DEF CacheInv, SeenInv, NoReader, InBody, Locked
  <2>3. Fresh(h) => Fresh(h)'
    BY <1>3, <1>4, <2>1, <2>2 DEF Fresh, Current
  <2>4. \A u \in Threads \ {t} : /\ NoReader => ~InBody(u)
                                 /\ thread[u].pc \in {"delete", "row", "units", "commit"} => InBody(u)
    BY <2>2 DEF Inv, LockInv, InBody, Locked
  <2>5. ~NoReader => (Blank(h) => Blank(h)')
    BY <2>1 DEF Blank
  <2>6. FreshInv'
    <3>1. runtime # Nothing => Fresh(runtime)'
      BY <1>0, <1>3, <1>5, <2>3 DEF CacheInv, FreshInv, TypeOK
    <3>2. ASSUME NEW u \in Threads, (Held(u) /\ InBody(u))'
          PROVE  /\ Fresh(thread[u].handle)'
                 /\ runtime # Nothing /\ runtime # thread[u].handle => Blank(runtime)'
      <4>1. u # t /\ Held(u) /\ InBody(u) /\ thread'[u] = thread[u] /\ ~NoReader
        BY <1>2, <2>1, <2>4, <3>2 DEF Held, InBody
      <4>2. thread[u].handle \in Handles /\ runtime \in Handles \cup {Nothing}
        BY <1>0, <4>1 DEF Inv, Placed, Held, TypeOK
      <4> QED
        <5>1. Fresh(thread[u].handle) /\ (runtime # Nothing /\ runtime # thread[u].handle => Blank(runtime))
          BY <4>1 DEF CacheInv, FreshInv
        <5>2. \A g \in Handles : (Fresh(g) => Fresh(g)') /\ (Blank(g) => Blank(g)')
          BY <1>5, <2>3, <2>5, <4>1
        <5> QED
          BY <1>3, <4>1, <4>2, <5>1, <5>2
    <3> QED
      BY <1>2, <1>3, <3>1, <3>2 DEF FreshInv
  <2>7. WriterInv'
    <3> SUFFICES ASSUME NEW u \in Threads, thread'[u].pc \in {"delete", "row", "units", "commit"}
                 PROVE  Blank(thread[u].handle)'
      BY DEF WriterInv
    <3>1. /\ u # t /\ thread'[u] = thread[u] /\ ~NoReader
          /\ thread[u].pc \in {"delete", "row", "units", "commit"}
      BY <1>2, <1>3, <2>4
    <3>2. Blank(thread[u].handle) /\ thread[u].handle \in Handles
      BY <3>1 DEF CacheInv, WriterInv, Inv, Placed
    <3> QED
      BY <1>5, <2>5, <3>1, <3>2
  <2>8. SeenInv'
    BY <1>2, <1>3, <2>1 DEF CacheInv, SeenInv, Held
  <2> QED
    BY <1>6, <2>6, <2>7, <2>8 DEF CacheInv
<1> QED
  BY <1>7, <1>8

\* A step of the request that writes a document, or of the server that commits for it:
\* whatever it does to the corpus, no cache that anybody will use holds anything.
LEMMA CacheWrites ==
  ASSUME Inv, CacheInv, NEW t \in Threads, InBody(t), Held(t), NoReader' => NoReader,
         UNCHANGED <<runtime, model>>,
         \A u \in Threads \ {t} : thread'[u] = thread[u],
         thread'[t].handle = thread[t].handle,
         thread'[t].pc \in {"next", "delete", "row", "units", "commit", "release"},
         Blank(thread[t].handle)',
         \A g \in Handles : Blank(g) => Blank(g)'
  PROVE  CacheInv'
<1>0. PICK h \in Handles : h = thread[t].handle
  BY DEF Held, Inv, Placed
<1>1. \A u \in Threads \ {t} :
        /\ ~InBody(u) /\ thread[u].pc \notin {"delete", "row", "units", "commit", "fill", "infer"}
        /\ NoReader => thread[u].pc # "keep"
  BY DEF Inv, LockInv, InBody, Locked, NoReader
<1>2. \A u \in Threads : (Uses(u)' => Uses(u)) /\ thread'[u].handle = thread[u].handle
  BY DEF Uses, Held
<1>3. \A u \in Threads : thread'[u].pc = "build" => u # t /\ thread[u].pc = "build"
  OBVIOUS
<1>4. UnusedInv'
  <2>1. \A u \in Threads : thread[u].pc = "build" => thread[u].handle \in Handles
    BY DEF Inv, Placed
  <2> QED
    BY <1>2, <1>3, <2>1 DEF CacheInv, UnusedInv
<1>5. \A g : Blank(g)' => Fresh(g)'
  BY DEF Blank, Fresh, Current
<1>6. FreshInv'
  <2>1. runtime # Nothing /\ runtime # h => Blank(runtime)'
    BY <1>0 DEF CacheInv, FreshInv, Inv, TypeOK
  <2>2. \A u \in Threads \ {t} : ~InBody(u)'
    BY <1>1 DEF InBody
  <2>3. Blank(h)' /\ thread'[t].handle = h /\ runtime' = runtime
    BY <1>0
  <2> QED
    BY <1>5, <2>1, <2>2, <2>3 DEF FreshInv
<1>7. WriterInv' /\ SeenInv'
  BY <1>1 DEF WriterInv, SeenInv
<1> QED
  BY <1>4, <1>6, <1>7 DEF CacheInv

\* The steps of an ingest that change a cache or a document.
LEMMA CacheIngests ==
  ASSUME Inv, CacheInv, NEW t \in Threads, NoReader' => NoReader,
         \/ IngestInvalidates(t) \/ IngestDeletes(t) \/ IngestInsertsRow(t)
         \/ IngestInsertsUnits(t) \/ IngestCommits(t) \/ IngestRollsBack(t)
  PROVE  CacheInv'
<1>0. TypeOK /\ thread[t] \in ThreadRecord /\ thread \in [Threads -> ThreadRecord]
  BY DEF Inv, TypeOK
<1>1. \A u \in Threads \ {t} : thread'[u] = thread[u]
  <2>1. Arrive(t) \/ Serve(t)
    BY DEF Serve, Ingest
  <2> QED
    BY <1>0, <2>1, OthersStay
<1>2. /\ thread[t].pc \in {"next", "delete", "row", "units", "commit"}
      /\ UNCHANGED <<runtime, model>>
  BY DEF IngestInvalidates, IngestDeletes, IngestInsertsRow, IngestInsertsUnits, IngestCommits,
     IngestRollsBack, Alive, At
<1>3. InBody(t) /\ Held(t) /\ thread[t].handle \in Handles
  BY <1>2 DEF Inv, LockInv, Placed, InBody, Locked, Held
<1>4. CASE IngestInvalidates(t)
  <2>1. thread'[t].pc = "delete" /\ thread'[t].handle = thread[t].handle
    <3>1. PICK d \in Docs :
            thread' = [thread EXCEPT ![t].todo = @ \ {d}, ![t].doc = d, ![t].pc = "delete"]
      BY <1>0, <1>4 DEF IngestInvalidates, ThreadRecord
    <3> QED
      BY <1>0, <3>1 DEF ThreadRecord
  <2>2. /\ packages' = [packages EXCEPT ![thread[t].handle] = Nothing]
        /\ checksums' = [checksums EXCEPT ![thread[t].handle] = Nothing]
    BY <1>4 DEF IngestInvalidates, Invalidate
  <2>3. packages'[thread[t].handle] = Nothing /\ checksums'[thread[t].handle] = Nothing
    BY <1>0, <1>3, <2>2 DEF TypeOK, StoreTypeOK
  <2>4. Blank(thread[t].handle)'
    BY <2>1, <2>3 DEF Blank
  <2>5. \A g \in Handles : Blank(g) => Blank(g)'
    BY <1>0, <2>2 DEF Blank, TypeOK, StoreTypeOK
  <2> QED
    BY <1>1, <1>2, <1>3, <2>1, <2>4, <2>5, CacheWrites
<1>5. CASE \/ IngestDeletes(t) \/ IngestInsertsRow(t) \/ IngestInsertsUnits(t)
           \/ IngestCommits(t) \/ IngestRollsBack(t)
  <2>1. /\ thread'[t].pc \in {"next", "row", "units", "commit", "release"}
        /\ thread'[t].handle = thread[t].handle
    <3>1. CASE IngestCommits(t)
      BY <1>0, <3>1 DEF IngestCommits, ThreadRecord
    <3>2. CASE \/ IngestDeletes(t) \/ IngestInsertsRow(t) \/ IngestInsertsUnits(t)
               \/ IngestRollsBack(t)
      BY <1>0, <3>2 DEF IngestDeletes, IngestInsertsRow, IngestInsertsUnits, IngestRollsBack,
         Goto, ThreadRecord
    <3> QED
      BY <1>5, <3>1, <3>2
  <2>2. UNCHANGED <<packages, checksums>>
    BY <1>5 DEF IngestDeletes, IngestInsertsRow, IngestInsertsUnits, IngestCommits,
       IngestRollsBack, DeleteDocument, InsertRow, InsertUnits, Modify, Commit, Rollback
  <2>3. thread[t].pc # "next"
    BY <1>5 DEF IngestDeletes, IngestInsertsRow, IngestInsertsUnits, IngestCommits,
       IngestRollsBack, Alive, At
  <2>4. Blank(thread[t].handle)
    BY <1>2, <2>3 DEF CacheInv, WriterInv
  <2>5. Blank(thread[t].handle)' /\ \A g \in Handles : Blank(g) => Blank(g)'
    BY <2>1, <2>2, <2>4 DEF Blank
  <2> QED
    BY <1>1, <1>2, <1>3, <2>1, <2>5, CacheWrites
<1> QED
  BY <1>4, <1>5

\* Stopping the server: committing or rolling back under a request touches a document
\* that is being written, which no cache holds.
LEMMA CacheStops ==
  ASSUME Inv, TransactionInv, KindInv, CacheInv, NoReader' => NoReader,
         Stop \/ CloseSession \/ CloseStore \/ CloseFails \/ Exit \/ UNCHANGED vars
  PROVE  CacheInv'
<1>0. UNCHANGED thread /\ (NoReader' <=> NoReader)
  BY ServerStays DEF NoReader
<1>1. \A u \in Threads : /\ Uses(u)' <=> Uses(u)
                         /\ Held(u)' <=> Held(u)
                         /\ InBody(u)' <=> InBody(u)
                         /\ thread'[u] = thread[u]
  BY <1>0 DEF Uses, Held, InBody
<1>2. ASSUME UNCHANGED <<file, writer, packages, checksums, runtime, model>> PROVE CacheInv'
  <2>1. \A h : (Blank(h)' <=> Blank(h)) /\ (Fresh(h)' <=> Fresh(h))
    BY <1>0, <1>2 DEF Blank, Fresh, Current
  <2> QED
    BY <1>0, <1>1, <1>2, <2>1 DEF CacheInv, UnusedInv, FreshInv, WriterInv, SeenInv
<1>3. CASE Stop \/ CloseFails \/ UNCHANGED vars
  BY <1>2, <1>3 DEF Stop, CloseFails, vars, wsVars, storeVars
<1>4. CASE CloseSession
  <2>1. CASE writer = closing
    <3>1. PICK t \in Threads : Writes(t, closing)
      BY <1>4, <2>1 DEF CloseSession, KindInv, TransactionInv
    <3>2. InBody(t) /\ Held(t) /\ Blank(thread[t].handle) /\ thread[t].handle = closing
          /\ thread[t].pc \in {"row", "units", "commit"}
      BY <3>1 DEF Writes, Held, CacheInv, WriterInv
    <3>3. UNCHANGED <<packages, checksums, runtime, model>>
      BY <1>4 DEF CloseSession, Commit, storeVars
    <3>4. Blank(thread[t].handle)' /\ \A g \in Handles : Blank(g) => Blank(g)'
      BY <1>0, <3>2, <3>3 DEF Blank
    <3> QED
      BY <1>1, <3>2, <3>3, <3>4, CacheWrites
  <2>2. CASE writer # closing
    <3>1. UNCHANGED <<file, writer, packages, checksums, runtime, model>>
      BY <1>4, <2>2 DEF CloseSession, Commit, storeVars
    <3> QED
      BY <1>2, <3>1
  <2> QED
    BY <2>1, <2>2
<1>5. CASE CloseStore \/ Exit
  <2>1. /\ UNCHANGED <<file, packages, checksums>> /\ runtime' \in {runtime, Nothing}
        /\ writer' \in {writer, Nothing}
        /\ \A h \in Handles : model'[h] = "unbuilt" => model[h] = "unbuilt"
    BY <1>5 DEF CloseStore, Exit, Rollback, Inv, TypeOK
  <2>2. \A h : Blank(h)' <=> Blank(h)
    BY <1>0, <2>1 DEF Blank
  <2>3. ASSUME NEW h, Fresh(h) PROVE Fresh(h)'
    <3>1. CASE writer # h
      BY <1>0, <2>1, <2>3, <3>1 DEF Fresh, Current
    <3>2. CASE writer = h /\ h # Nothing
      <4>1. PICK t \in Threads : Writes(t, writer)
        BY <3>2 DEF TransactionInv
      <4>2. Blank(h)'
        BY <2>2, <3>2, <4>1 DEF Writes, CacheInv, WriterInv
      <4> QED
        BY <4>2 DEF Blank, Fresh, Current
    <3>3. CASE writer = h /\ h = Nothing
      BY <1>0, <2>1, <2>3, <3>3 DEF Fresh, Current
    <3> QED
      BY <3>1, <3>2, <3>3
  <2>4. UnusedInv'
    <3>1. \A u \in Threads : thread[u].pc = "build" => thread[u].handle \in Handles
      BY DEF Inv, Placed
    <3> QED
      BY <1>1, <2>1, <2>2, <3>1, StoreAssumption DEF CacheInv, UnusedInv
  <2>5. FreshInv'
    BY <1>1, <2>1, <2>2, <2>3 DEF CacheInv, FreshInv
  <2>6. WriterInv' /\ SeenInv'
    BY <1>0, <1>1, <2>1, <2>2 DEF CacheInv, WriterInv, SeenInv
  <2> QED
    BY <2>4, <2>5, <2>6 DEF CacheInv
<1> QED
  BY <1>3, <1>4, <1>5

\* Every step keeps the caches right, as long as no other process writes.
LEMMA CacheNext ==
  ASSUME ~Outsiders, Inv, TransactionInv, KindInv, CacheInv, [Next]_vars
  PROVE  CacheInv'
<1>1. NoReader' => NoReader
  BY KindNext
<1>2. ASSUME NEW t \in Threads, Arrive(t) \/ Serve(t) PROVE CacheInv'
  BY <1>1, <1>2, CacheReads, CacheGets, CacheFills, CacheIngests DEF Serve, Ask, Ingest, Checksum
<1>3. CASE Stop \/ CloseSession \/ CloseStore \/ CloseFails \/ Exit \/ UNCHANGED vars
  BY <1>1, <1>3, CacheStops
<1> QED
  BY <1>2, <1>3 DEF Next, Runs, Outsider

\* A fresh server is in order.
LEMMA KindInit == Init => KindInv
  BY DEF Init, Idle, KindInv

\* Everything the properties of the store rest on.
Sound == Inv /\ TransactionInv /\ KindInv

\* ... and it holds of the server.
LEMMA SoundHolds == Spec => []Sound
<1>1. Init => Sound
  BY InvInit, TransactionInit, KindInit DEF Sound
<1>2. Sound /\ [Next]_vars => Sound'
  BY InvNext, TransactionNext, KindNext DEF Sound
<1> QED
  BY <1>1, <1>2, PTL DEF Spec

\* The caches are right as long as no other process writes.
LEMMA CacheHolds ==
  ASSUME ~Outsiders
  PROVE  Spec => [](Sound /\ CacheInv)
<1>1. Sound /\ CacheInv /\ [Next]_vars => CacheInv'
  BY CacheNext DEF Sound
<1> QED
  BY <1>1, CacheInit, SoundHolds, PTL DEF Spec

\* A question is answered from the corpus as it is committed at that moment, for any
\* number of requests, whatever was cached, and while readers without the lock and a
\* server that is being stopped get in between (context_package, _State.get).
THEOREM AnswersAreCommitted ==
  ASSUME ~Outsiders
  PROVE  Spec => []AnswersFromCommitted
<1>1. CacheInv => AnswersFromCommitted
  BY DEF CacheInv, SeenInv, AnswersFromCommitted, At
<1> QED
  BY <1>1, CacheHolds, PTL

\* The checksum in the cache of the server's runtime is that of the committed corpus, as
\* long as nobody reads it without the lock (corpus_checksum, _invalidate).
THEOREM ChecksumsAreFresh ==
  ASSUME ~Outsiders
  PROVE  Spec => []ChecksumFreshUnderLock
<1>1. CacheInv => ChecksumFreshUnderLock
  BY DEF CacheInv, FreshInv, Fresh, ChecksumFreshUnderLock
<1> QED
  BY <1>1, CacheHolds, PTL

-----------------------------------------------------------------------------
(* The documents.                                                          *)

\* A model is loaded for a question.
LoadedInv ==
  \A h \in Handles : model[h] = "loaded" => \E t \in Threads : thread[t].kind = "ask"

\* ... and nobody takes a question back.
LEMMA LoadedNext ==
  ASSUME Inv, KindInv, LoadedInv, [Next]_vars
  PROVE  LoadedInv'
<1>0. \A u \in Threads : thread[u].kind = "ask" => thread'[u].kind = "ask"
  BY KindNext
<1>1. ASSUME \A h \in Handles : model'[h] = "loaded" => model[h] = "loaded"
      PROVE  LoadedInv'
  BY <1>0, <1>1 DEF LoadedInv
<1>2. CASE \E t \in Threads : AskLoads(t)
  BY <1>0, <1>2 DEF AskLoads, Alive, At, KindInv, LoadedInv
<1>3. ASSUME NEW t \in Threads, Arrive(t) \/ Serve(t), ~AskLoads(t) PROVE LoadedInv'
  <2>1. CASE GetMisses(t)
    BY <1>1, <2>1 DEF GetMisses, Inv, TypeOK
  <2>2. CASE ~GetMisses(t)
    <3>1. UNCHANGED model
      BY <1>3, <2>2 DEF Arrive, Serve, Acquire, GetFinds, GetFails, GetAssigns, GetReturns, HitsClosedStore,
         Release, Ask, AskDiscovers, AskFills, AskAnswers, AskStalls, Checksum, ChecksumHit,
         ChecksumReads, ChecksumKept, Ingest, IngestSkips, IngestAborts, IngestInvalidates,
         IngestDeletes, IngestInsertsRow, IngestInsertsUnits, IngestCommits, IngestRollsBack,
         IngestReports
    <3> QED
      BY <1>1, <3>1
  <2> QED
    BY <2>1, <2>2
<1>4. CASE Stop \/ CloseSession \/ CloseStore \/ CloseFails \/ Exit \/ Outsider \/ UNCHANGED vars
  BY <1>1, <1>4 DEF Stop, CloseSession, CloseStore, CloseFails, Exit, Outsider, vars, wsVars, Inv, TypeOK
<1> QED
  BY <1>2, <1>3, <1>4 DEF Next, Runs

\* How far the document is that a thread is writing.
Progress(label) ==
  IF label = "row" THEN "absent" ELSE IF label = "units" THEN "hollow" ELSE "whole"

Writing == {"row", "units", "commit"}

\* What the connection of a thread that is writing sees: the corpus and its document.
PendingInv ==
  \A t \in Threads : thread[t].pc \in Writing /\ ~Dead(t) =>
    /\ writer = thread[t].handle
    /\ pending = [file EXCEPT ![thread[t].doc] = Progress(thread[t].pc)]

\* Nothing half-written is committed, cached or about to be used.
WholeInv ==
  /\ file \in Settled
  /\ \A h \in Handles : packages[h] \in Settled \cup {Nothing}
  /\ \A t \in Threads : thread[t].pc \in {"fill", "infer"} => thread[t].seen \in Settled

DocInv == LoadedInv /\ (NothingToClose => PendingInv /\ WholeInv)

\* Of two writes of a document the second one stands.
LEMMA Overwrite ==
  ASSUME NEW content \in Content, NEW d \in Docs, NEW a, NEW b
  PROVE  [[content EXCEPT ![d] = a] EXCEPT ![d] = b] = [content EXCEPT ![d] = b]
  BY DEF Content

\* A corpus with one more whole document.
LEMMA Complete ==
  ASSUME NEW content \in Settled, NEW d \in Docs
  PROVE  [content EXCEPT ![d] = "whole"] \in Settled
  BY DEF Settled

\* Only an ingest touches the corpus.
LEMMA CorpusStays ==
  ASSUME TypeOK, NEW t \in Threads, Arrive(t) \/ Serve(t),
         ~IngestDeletes(t), ~IngestInsertsRow(t), ~IngestInsertsUnits(t), ~IngestCommits(t),
         ~IngestRollsBack(t)
  PROVE  /\ UNCHANGED <<file, writer, pending>>
         /\ \A h \in Handles : model[h] = "closed" => model'[h] = "closed"
<1>1. CASE \/ Arrive(t) \/ Acquire(t) \/ GetFinds(t) \/ GetFails(t) \/ GetMisses(t) \/ GetAssigns(t)
           \/ GetReturns(t) \/ HitsClosedStore(t) \/ Release(t)
  BY <1>1 DEF Arrive, Acquire, GetFinds, GetFails, GetMisses, GetAssigns, GetReturns,
     HitsClosedStore, Release, storeVars, TypeOK
<1>2. CASE Ask(t) \/ Checksum(t)
  BY <1>2 DEF Ask, AskLoads, AskDiscovers, AskFills, AskAnswers, AskStalls, Checksum, ChecksumHit,
     ChecksumReads, ChecksumKept, FillPackage, FillChecksum, storeVars, TypeOK, Alive, Dead
<1>3. CASE IngestSkips(t) \/ IngestAborts(t) \/ IngestInvalidates(t) \/ IngestReports(t)
  BY <1>3 DEF IngestSkips, IngestAborts, IngestInvalidates, IngestReports, Invalidate,
     storeVars
<1> QED
  BY <1>1, <1>2, <1>3 DEF Serve, Ingest

\* A statement that writes: the document is as far as the next statement expects it.
LEMMA DocWrites ==
  ASSUME Inv, TransactionInv, PendingInv, WholeInv, NEW t \in Threads,
         IngestDeletes(t) \/ IngestInsertsRow(t) \/ IngestInsertsUnits(t)
  PROVE  PendingInv' /\ WholeInv'
<1>0. TypeOK /\ thread[t] \in ThreadRecord /\ thread \in [Threads -> ThreadRecord]
  BY DEF Inv, TypeOK
<1>1. \A u \in Threads \ {t} : thread'[u] = thread[u]
  <2>1. Arrive(t) \/ Serve(t)
    BY DEF Serve, Ingest
  <2> QED
    BY <1>0, <2>1, OthersStay
<1>2. thread[t].pc \in {"delete", "row", "units"} /\ ~Dead(t)
      /\ UNCHANGED <<file, packages, model>> /\ writer' = thread[t].handle
  BY DEF IngestDeletes, IngestInsertsRow, IngestInsertsUnits, Alive, At, DeleteDocument,
     InsertRow, InsertUnits, Modify
<1>3. PICK h \in Handles, d \in Docs : h = thread[t].handle /\ d = thread[t].doc
  BY <1>2 DEF Inv, Placed
<1>4. InBody(t)
  BY <1>2 DEF Inv, LockInv, InBody, Locked
<1>5. \A u \in Threads \ {t} : thread[u].pc \notin Writing
  BY <1>4 DEF Inv, LockInv, InBody, Locked, Writing
<1>6. file \in Content
  BY <1>0 DEF TypeOK, StoreTypeOK
<1>7. /\ thread'[t].handle = h /\ thread'[t].doc = d
      /\ pending' = [file EXCEPT ![d] = Progress(thread'[t].pc)]
      /\ thread'[t].pc \in Writing
  <2>1. CASE IngestDeletes(t)
    <3>1. View(h) = file
      BY <1>4, <2>1, NobodyWrites DEF IngestDeletes, Alive, At
    <3> QED
      BY <1>0, <1>3, <2>1, <3>1 DEF IngestDeletes, DeleteDocument, Modify, Goto, ThreadRecord,
         Progress, Writing
  <2>2. CASE IngestInsertsRow(t)
    <3>1. View(h) = [file EXCEPT ![d] = "absent"]
      BY <1>2, <1>3, <2>2 DEF IngestInsertsRow, Alive, At, PendingInv, Progress, View, Writing
    <3>2. pending' = [[file EXCEPT ![d] = "absent"] EXCEPT ![d] = "hollow"]
      BY <1>3, <2>2, <3>1 DEF IngestInsertsRow, InsertRow, Modify
    <3>3. thread'[t].pc = "units" /\ thread'[t].handle = h /\ thread'[t].doc = d
      BY <1>0, <1>3, <2>2 DEF IngestInsertsRow, Goto, ThreadRecord
    <3> QED
      BY <1>6, <3>2, <3>3, Overwrite DEF Progress, Writing
  <2>3. CASE IngestInsertsUnits(t)
    <3>1. View(h) = [file EXCEPT ![d] = "hollow"]
      BY <1>2, <1>3, <2>3 DEF IngestInsertsUnits, Alive, At, PendingInv, Progress, View, Writing
    <3>2. pending' = [[file EXCEPT ![d] = "hollow"] EXCEPT ![d] = "whole"]
      BY <1>3, <2>3, <3>1 DEF IngestInsertsUnits, InsertUnits, Modify
    <3>3. thread'[t].pc = "commit" /\ thread'[t].handle = h /\ thread'[t].doc = d
      BY <1>0, <1>3, <2>3 DEF IngestInsertsUnits, Goto, ThreadRecord
    <3> QED
      BY <1>6, <3>2, <3>3, Overwrite DEF Progress, Writing
  <2> QED
    BY <2>1, <2>2, <2>3
<1>8. PendingInv'
  BY <1>1, <1>2, <1>3, <1>5, <1>7 DEF PendingInv
<1>9. WholeInv'
  BY <1>1, <1>2, <1>7 DEF WholeInv, Writing
<1> QED
  BY <1>8, <1>9

\* A commit, or a rollback, ends the only write there is.
LEMMA DocEnds ==
  ASSUME Inv, PendingInv, WholeInv, NEW t \in Threads, IngestCommits(t) \/ IngestRollsBack(t)
  PROVE  /\ PendingInv' /\ WholeInv'
         /\ file' = file \/ file' = [file EXCEPT ![thread[t].doc] = "whole"]
         /\ IngestCommits(t) => file' = [file EXCEPT ![thread[t].doc] = "whole"]
<1>0. TypeOK /\ thread[t] \in ThreadRecord /\ thread \in [Threads -> ThreadRecord]
  BY DEF Inv, TypeOK
<1>1. \A u \in Threads \ {t} : thread'[u] = thread[u]
  <2>1. Arrive(t) \/ Serve(t)
    BY DEF Serve, Ingest
  <2> QED
    BY <1>0, <2>1, OthersStay
<1>2. /\ thread[t].pc \in {"delete", "row", "units", "commit"} /\ ~Dead(t)
      /\ UNCHANGED <<packages, model>>
      /\ thread[t].doc \in Docs
  BY DEF IngestCommits, IngestRollsBack, Commit, Rollback, Alive, At, Inv, Placed
<1>3. \A u \in Threads \ {t} : thread[u].pc \notin Writing
  BY <1>2 DEF Inv, LockInv, InBody, Locked, Writing
<1>4. thread'[t].pc \in {"next", "release"}
  <2>1. CASE IngestCommits(t)
    BY <1>0, <2>1 DEF IngestCommits, ThreadRecord
  <2>2. CASE IngestRollsBack(t)
    BY <1>0, <2>2 DEF IngestRollsBack, Goto, ThreadRecord
  <2> QED
    BY <2>1, <2>2
<1>5. IngestCommits(t) => file' = [file EXCEPT ![thread[t].doc] = "whole"]
  BY <1>2 DEF IngestCommits, Commit, Alive, At, PendingInv, Progress, Writing
<1>6. IngestRollsBack(t) => file' = file
  BY DEF IngestRollsBack, Rollback
<1>7. file' \in Settled
  BY <1>2, <1>5, <1>6, Complete DEF WholeInv
<1>8. PendingInv'
  BY <1>1, <1>3, <1>4 DEF PendingInv, Writing
<1>9. WholeInv'
  BY <1>1, <1>2, <1>4, <1>7 DEF WholeInv
<1> QED
  BY <1>5, <1>6, <1>8, <1>9

\* Where the other steps lead.
LEMMA QuietPlaces ==
  ASSUME TypeOK, NEW t \in Threads, Arrive(t) \/ Serve(t),
         ~IngestDeletes(t), ~IngestInsertsRow(t), ~IngestInsertsUnits(t), ~IngestCommits(t),
         ~IngestRollsBack(t)
  PROVE  /\ thread'[t].pc \notin Writing
         /\ thread'[t].pc \in {"fill", "infer"} => AskDiscovers(t) \/ AskFills(t)
<1>0. thread[t] \in ThreadRecord /\ thread \in [Threads -> ThreadRecord]
  BY DEF TypeOK
<1> USE DEF Goto, ThreadRecord, Writing
<1>1. CASE Arrive(t)
  BY <1>1, Arrives
<1>2. CASE \/ Acquire(t) \/ GetFinds(t) \/ GetFails(t) \/ GetAssigns(t) \/ Release(t)
           \/ HitsClosedStore(t)
  BY <1>0, <1>2 DEF Acquire, GetFinds, GetFails, GetAssigns, Release, HitsClosedStore, Leave
<1>3. CASE GetMisses(t)
  BY <1>0, <1>3 DEF GetMisses
<1>4. CASE GetReturns(t)
  BY <1>0, <1>4 DEF GetReturns, Leave, Body
<1>5. CASE Ask(t)
  BY <1>0, <1>5 DEF Ask, AskLoads, AskDiscovers, AskFills, AskAnswers, AskStalls
<1>6. CASE Checksum(t)
  BY <1>0, <1>6 DEF Checksum, ChecksumHit, ChecksumReads, ChecksumKept, Leave
<1>7. CASE IngestSkips(t)
  BY <1>0, <1>7 DEF IngestSkips, At
<1>8. CASE IngestAborts(t) \/ IngestReports(t)
  BY <1>0, <1>8 DEF IngestAborts, IngestReports
<1>9. CASE IngestInvalidates(t)
  <2>1. PICK d \in Docs :
          thread' = [thread EXCEPT ![t].todo = @ \ {d}, ![t].doc = d, ![t].pc = "delete"]
    BY <1>0, <1>9 DEF IngestInvalidates
  <2> QED
    BY <1>0, <2>1
<1> QED
  BY <1>1, <1>2, <1>3, <1>4, <1>5, <1>6, <1>7, <1>8, <1>9 DEF Serve, Ingest

\* Every other step of a request reads whole documents and caches what it has read.
LEMMA DocReads ==
  ASSUME Inv, TransactionInv, PendingInv, WholeInv, NEW t \in Threads,
         Arrive(t) \/ Serve(t),
         ~IngestDeletes(t), ~IngestInsertsRow(t), ~IngestInsertsUnits(t), ~IngestCommits(t),
         ~IngestRollsBack(t)
  PROVE  PendingInv' /\ WholeInv'
<1>0. TypeOK /\ thread[t] \in ThreadRecord /\ thread \in [Threads -> ThreadRecord]
  BY DEF Inv, TypeOK
<1>1. \A u \in Threads \ {t} : thread'[u] = thread[u]
  BY <1>0, OthersStay
<1>2. /\ UNCHANGED <<file, writer, pending>>
      /\ \A h \in Handles : model[h] = "closed" => model'[h] = "closed"
  BY <1>0, CorpusStays
<1>3. /\ thread'[t].pc \notin Writing
      /\ thread'[t].pc \in {"fill", "infer"} => AskDiscovers(t) \/ AskFills(t)
  BY <1>0, QuietPlaces
<1>4. PendingInv'
  BY <1>1, <1>2, <1>3 DEF PendingInv, Writing, Dead, Inv, Placed
<1>5. \A h \in Handles : packages'[h] \in Settled \cup {Nothing}
  <2>1. CASE AskFills(t)
    BY <1>0, <2>1 DEF AskFills, At, FillPackage, WholeInv, TypeOK, StoreTypeOK
  <2>2. CASE IngestInvalidates(t)
    BY <1>0, <2>2 DEF IngestInvalidates, Invalidate, WholeInv, TypeOK, StoreTypeOK
  <2>3. CASE ~AskFills(t) /\ ~IngestInvalidates(t)
    <3>1. UNCHANGED packages
      BY <2>3 DEF Arrive, Serve, Acquire, GetFinds, GetFails, GetMisses, GetAssigns, GetReturns,
         HitsClosedStore, Release, Ask, AskLoads, AskDiscovers, AskAnswers, AskStalls, Checksum,
         ChecksumHit, ChecksumReads, ChecksumKept, FillChecksum, Ingest, IngestSkips,
         IngestAborts, IngestReports, storeVars
    <3> QED
      BY <3>1 DEF WholeInv
  <2> QED
    BY <2>1, <2>2, <2>3
<1>6. thread'[t].pc \in {"fill", "infer"} => thread'[t].seen \in Settled
  <2>1. CASE AskDiscovers(t)
    <3>1. thread[t].handle \in Handles /\ InBody(t) /\ thread[t].pc = "discover"
      BY <2>1 DEF AskDiscovers, Alive, At, Inv, Placed, LockInv, InBody, Locked
    <3>2. View(thread[t].handle) = file
      BY <3>1, NobodyWrites
    <3>3. CASE Goto(t, "release")
      BY <1>0, <3>3 DEF Goto, ThreadRecord
    <3>4. CASE packages[thread[t].handle] # Nothing
      BY <1>0, <2>1, <3>1, <3>4 DEF AskDiscovers, WholeInv, ThreadRecord
    <3>5. CASE packages[thread[t].handle] = Nothing /\ ~Goto(t, "release")
      BY <1>0, <2>1, <3>2, <3>5 DEF AskDiscovers, WholeInv, ThreadRecord
    <3> QED
      BY <3>3, <3>4, <3>5
  <2>2. CASE AskFills(t)
    BY <1>0, <2>2 DEF AskFills, At, Goto, WholeInv, ThreadRecord
  <2> QED
    BY <1>3, <2>1, <2>2
<1>7. WholeInv'
  BY <1>1, <1>2, <1>5, <1>6 DEF WholeInv
<1> QED
  BY <1>4, <1>7

\* Stopping the server commits nothing when there is no session to close, and another
\* process commits whole documents.
LEMMA DocStops ==
  ASSUME Inv, KindInv, LoadedInv, PendingInv, WholeInv, NothingToClose,
         Stop \/ CloseSession \/ CloseStore \/ CloseFails \/ Exit \/ Outsider \/ UNCHANGED vars
  PROVE  PendingInv' /\ WholeInv'
<1>0. UNCHANGED thread
  BY ServerStays
<1>1. ASSUME UNCHANGED <<file, writer, pending, packages, model>>
      PROVE  PendingInv' /\ WholeInv'
  BY <1>0, <1>1 DEF PendingInv, WholeInv, Dead
<1>2. CASE Stop \/ CloseFails \/ UNCHANGED vars
  BY <1>1, <1>2 DEF Stop, CloseFails, vars, wsVars, storeVars
<1>3. CASE CloseSession
  <2>1. model[closing] # "loaded" \/ closing = Nothing
    BY <1>3 DEF CloseSession, NothingToClose, LoadedInv, Inv, TypeOK
  <2>2. closing # Nothing
    BY <1>3 DEF CloseSession, KindInv
  <2> QED
    BY <1>1, <1>3, <2>1, <2>2 DEF CloseSession, storeVars
<1>4. CASE CloseStore
  <2>1. /\ UNCHANGED <<file, packages>>
        /\ IF writer = closing THEN writer' = Nothing ELSE UNCHANGED <<writer, pending>>
        /\ model' = [model EXCEPT ![closing] = "closed"]
    BY <1>4 DEF CloseStore, Rollback
  <2>2. ASSUME NEW t \in Threads, thread[t].pc \in Writing, ~Dead(t)'
        PROVE  writer # closing /\ ~Dead(t)
    <3>1. /\ thread[t].handle \in Handles /\ closing \in Handles \cup {Nothing}
          /\ model \in [Handles -> {"unbuilt", "built", "loaded", "closed"}]
      BY <2>2 DEF Inv, TypeOK, Placed, Writing
    <3>2. thread[t].handle # closing
      BY <1>0, <2>1, <2>2, <3>1 DEF Dead
    <3>3. ~Dead(t)
      BY <1>0, <2>1, <2>2, <3>1, <3>2 DEF Dead
    <3> QED
      BY <2>2, <3>2, <3>3 DEF PendingInv
  <2>3. PendingInv'
    BY <1>0, <2>1, <2>2 DEF PendingInv
  <2> QED
    BY <1>0, <2>1, <2>3 DEF WholeInv
<1>6. CASE Exit
  <2>1. UNCHANGED <<file, packages>> /\ \A h \in Handles : model'[h] = "closed"
    BY <1>6 DEF Exit, Rollback
  <2>2. \A t \in Threads : thread[t].pc \in Writing => Dead(t)'
    BY <1>0, <2>1 DEF Dead, Inv, Placed, Writing
  <2>3. PendingInv'
    BY <1>0, <2>2 DEF PendingInv
  <2> QED
    BY <1>0, <2>1, <2>3 DEF WholeInv
<1>5. CASE Outsider
  <2>1. /\ writer = Nothing /\ file' \in Settled /\ UNCHANGED <<writer, packages, model>>
    BY <1>5 DEF Outsider, ForeignCommit, wsVars
  <2>2. \A t \in Threads : thread[t].pc \in Writing => Dead(t)
    BY <2>1, StoreAssumption DEF PendingInv, Inv, Placed, Writing
  <2>3. PendingInv'
    BY <1>0, <2>1, <2>2 DEF PendingInv, Dead
  <2> QED
    BY <1>0, <2>1, <2>3 DEF WholeInv
<1> QED
  BY <1>2, <1>3, <1>4, <1>5, <1>6

\* Every step keeps the documents whole, also beside another process.
LEMMA DocNext ==
  ASSUME Sound, DocInv, [Next]_vars
  PROVE  DocInv'
<1>0. Inv /\ TransactionInv /\ KindInv /\ LoadedInv
  BY DEF Sound, DocInv
<1>1. LoadedInv' /\ (NothingToClose' => NothingToClose)
  BY <1>0, LoadedNext, KindNext
<1>2. ASSUME NothingToClose PROVE PendingInv' /\ WholeInv'
  <2>1. PendingInv /\ WholeInv
    BY <1>2 DEF DocInv
  <2>2. ASSUME NEW t \in Threads, Arrive(t) \/ Serve(t) PROVE PendingInv' /\ WholeInv'
    BY <1>0, <2>1, <2>2, DocWrites, DocEnds, DocReads
  <2>3. CASE Stop \/ CloseSession \/ CloseStore \/ CloseFails \/ Exit \/ Outsider \/ UNCHANGED vars
    BY <1>0, <1>2, <2>1, <2>3, DocStops
  <2> QED
    BY <2>2, <2>3 DEF Next, Runs
<1> QED
  BY <1>1, <1>2 DEF DocInv

\* They are whole.
LEMMA DocHolds == Spec => [](Sound /\ DocInv)
<1>1. Init => DocInv
  <2> SUFFICES ASSUME Init PROVE DocInv
    OBVIOUS
  <2>1. LoadedInv
    BY DEF Init, LoadedInv
  <2>2. \A t \in Threads : thread[t].pc = "new"
    BY DEF Init, Idle
  <2> QED
    BY <2>1, <2>2 DEF DocInv, PendingInv, WholeInv, Writing, Init, StoreInit
<1> QED
  BY <1>1, DocNext, SoundHolds, PTL DEF Spec

\* What is committed is whole documents: a failed ingest, a server stopped under one, and
\* other processes leave no half documents, as long as no session is closed under one
\* (upsert_document, _State.close).
THEOREM DocumentsAreWhole == Spec => []DocumentsStayWhole
<1>1. DocInv => DocumentsStayWhole
  BY DEF DocInv, WholeInv, DocumentsStayWhole
<1> QED
  BY <1>1, DocHolds, PTL

\* And no question is answered from a half document, though the cached package may be an
\* old one when another process writes (context_package).
THEOREM AnswersFromWhole == Spec => []AnswersWhole
<1>1. DocInv => AnswersWhole
  BY DEF DocInv, WholeInv, AnswersWhole, At
<1> QED
  BY <1>1, DocHolds, PTL

\* A document that ingest has reported is in the store and stays there, whatever fails
\* later, as long as no other process writes (LeanLMRuntime.ingest).
THEOREM StoredForGood ==
  ASSUME ~Outsiders
  PROVE  Spec => []IngestedIsStored
<1>1. Init => IngestedIsStored
  BY DEF Init, Idle, IngestedIsStored
<1>2. Sound /\ DocInv /\ IngestedIsStored /\ [Next]_vars => IngestedIsStored'
  <2> SUFFICES ASSUME Sound, DocInv, IngestedIsStored, [Next]_vars, NothingToClose'
               PROVE  \A t \in Threads : \A d \in thread'[t].stored : file'[d] = "whole"
    BY DEF IngestedIsStored
  <2>0. Inv /\ TypeOK /\ TransactionInv /\ KindInv
    BY DEF Sound, Inv
  <2>1. NothingToClose /\ PendingInv /\ WholeInv /\ LoadedInv
    BY <2>0, KindNext DEF DocInv
  <2>2. \A t \in Threads : \A d \in thread[t].stored : d \in Docs /\ file[d] = "whole"
    BY <2>0, <2>1 DEF IngestedIsStored, TypeOK, ThreadRecord
  <2>3. file \in Content
    BY <2>0 DEF TypeOK, StoreTypeOK
  <2>4. ASSUME NEW t \in Threads, Arrive(t) \/ Serve(t)
        PROVE  \A u \in Threads : \A d \in thread'[u].stored : file'[d] = "whole"
    <3>1. \A u \in Threads \ {t} : thread'[u] = thread[u]
      BY <2>0, <2>4, OthersStay
    <3>2. CASE IngestCommits(t)
      <4>1. file' = [file EXCEPT ![thread[t].doc] = "whole"] /\ thread[t].doc \in Docs
        BY <2>0, <2>1, <3>2, DocEnds DEF IngestCommits, Alive, At, Inv, Placed
      <4>2. thread'[t].stored = thread[t].stored \cup {thread[t].doc}
        BY <2>0, <3>2 DEF IngestCommits, TypeOK, ThreadRecord
      <4> QED
        BY <2>2, <2>3, <3>1, <4>1, <4>2 DEF Content
    <3>3. CASE ~IngestCommits(t)
      <4>1. thread'[t].stored = thread[t].stored
        BY <2>0, <2>4, <3>3, OwnSteps, Arrives
      <4>2. file' = file
        <5>1. CASE \/ IngestDeletes(t) \/ IngestInsertsRow(t) \/ IngestInsertsUnits(t)
                   \/ IngestRollsBack(t)
          BY <5>1 DEF IngestDeletes, IngestInsertsRow, IngestInsertsUnits, IngestRollsBack,
             DeleteDocument, InsertRow, InsertUnits, Modify, Rollback
        <5> QED
          BY <2>0, <2>4, <3>3, <5>1, CorpusStays
      <4> QED
        BY <2>2, <3>1, <4>1, <4>2
    <3> QED
      BY <3>2, <3>3
  <2>5. CASE Stop \/ CloseSession \/ CloseStore \/ CloseFails \/ Exit \/ UNCHANGED vars
    <3>1. UNCHANGED thread
      BY <2>5, ServerStays
    <3>2. file' = file
      <4>1. CASE CloseSession
        <5>1. model[closing] # "loaded"
          BY <2>0, <2>1, <4>1 DEF CloseSession, NothingToClose, LoadedInv, TypeOK, KindInv
        <5> QED
          BY <4>1, <5>1 DEF CloseSession, storeVars
      <4> QED
        BY <2>5, <4>1 DEF Stop, CloseStore, Rollback, CloseFails, Exit, vars, wsVars, storeVars
    <3> QED
      BY <2>2, <3>1, <3>2
  <2> QED
    BY <2>4, <2>5 DEF Next, Runs, Outsider
<1> QED
  BY <1>1, <1>2, DocHolds, PTL DEF Spec
=============================================================================
