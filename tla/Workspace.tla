----------------------------- MODULE Workspace -----------------------------
(***************************************************************************)
(* The local workspace server, apps/workspace/server.py: one thread per    *)
(* HTTP request (ThreadingHTTPServer), one lazily built runtime, one lock. *)
(*                                                                         *)
(*   POST /api/ask, POST /api/ingest, GET /api/status   take the lock;     *)
(*   GET /api/corpus                                    does not.          *)
(*                                                                         *)
(* A runtime is its CorpusStore handle and the model it may have loaded.   *)
(* Inside the lock a request runs runtime.ask or runtime.ingest, whose     *)
(* steps are those of module LeanLMRuntime; here they are cut where they   *)
(* touch what other threads touch: the caches, the connection, the model.  *)
(***************************************************************************)
EXTENDS CorpusStore

CONSTANTS
  Threads,     \* the requests, one thread each
  Free,        \* nobody holds the lock
  Outsiders,   \* another process writes to the same corpus file
  MayStop      \* the user may stop the server while requests run

\* The endpoints
Kinds == {"ask", "ingest", "status", "corpus"}

ASSUME WorkspaceAssumption ==
  /\ Free \notin Threads
  /\ Outsiders \in BOOLEAN
  /\ MayStop \in BOOLEAN

VARIABLES
  lock,        \* _State.lock
  runtime,     \* _State.runtime
  model,       \* what has become of each runtime
  thread,      \* where each request stands, and its locals
  server,      \* "serving", then "stopping", "closing", "stopped", "exited"
  closing      \* the runtime that _State.close() is closing

wsVars == <<lock, runtime, model, thread, server, closing>>
vars == <<storeVars, wsVars>>

\* The fields of a thread: the endpoint; what get() returned; the documents
\* not yet ingested, the one being ingested and those reported as ingested;
\* the content last read
Idle == [pc |-> "new", kind |-> "none", handle |-> Nothing, todo |-> {},
         doc |-> Nothing, stored |-> {}, seen |-> Nothing]

Locked(kind) == kind # "corpus"

ThreadRecord ==
  [pc : {"new", "wait", "get", "build", "got", "load", "discover", "fill",
         "infer", "stalled", "next", "delete", "row", "units", "commit", "sum",
         "keep", "release", "done"},
   kind : Kinds \cup {"none"},
   handle : Handles \cup {Nothing},
   todo : SUBSET Docs,
   doc : Docs \cup {Nothing},
   stored : SUBSET Docs,
   seen : Content \cup {Nothing}]

TypeOK ==
  /\ StoreTypeOK
  /\ lock \in Threads \cup {Free}
  /\ runtime \in Handles \cup {Nothing}
  /\ model \in [Handles -> {"unbuilt", "built", "loaded", "closed"}]
  /\ server \in {"serving", "stopping", "closing", "stopped", "exited"}
  /\ closing \in Handles \cup {Nothing}
  /\ thread \in [Threads -> ThreadRecord]

\* A server that has just started, or has built its runtime for a request that
\* is over
Init ==
  /\ \E content \in Settled : StoreInit(content)
  /\ lock = Free
  /\ thread = [t \in Threads |-> Idle]
  /\ server = "serving"
  /\ closing = Nothing
  /\ \/ /\ runtime = Nothing
        /\ model = [h \in Handles |-> "unbuilt"]
     \/ \E h \in Handles :
          /\ runtime = h
          /\ model = [g \in Handles |-> IF g = h THEN "built" ELSE "unbuilt"]

-----------------------------------------------------------------------------
At(t, label) == thread[t].pc = label
Goto(t, label) == thread' = [thread EXCEPT ![t].pc = label]

\* The connection of the thread's runtime has been closed under it: every
\* statement on it raises, and no handler catches that
Dead(t) == model[thread[t].handle] = "closed"
Alive(t, label) == At(t, label) /\ ~Dead(t)

\* A request arrives, its body included: do_GET or do_POST
Arrive(t) ==
  /\ server = "serving"
  /\ At(t, "new")
  /\ \E kind \in Kinds :
       \E todo \in IF kind = "ingest" THEN (SUBSET Docs) \ {{}} ELSE {{}} :
         thread' = [thread EXCEPT ![t].pc = IF Locked(kind) THEN "wait" ELSE "get",
                                  ![t].kind = kind,
                                  ![t].todo = todo]
  /\ UNCHANGED <<storeVars, lock, runtime, model, server, closing>>

\* Mutant: the lock does not exclude anybody
AcquireAnyway(t) ==
  /\ At(t, "wait")
  /\ lock' = t
  /\ Goto(t, "get")
  /\ UNCHANGED <<storeVars, runtime, model, server, closing>>

Acquire(t) ==
  /\ At(t, "wait")
  /\ lock = Free
  /\ lock' = t
  /\ Goto(t, "get")
  /\ UNCHANGED <<storeVars, runtime, model, server, closing>>

\* The first step of each handler, once it has a runtime
Body(kind) ==
  CASE kind = "ask" -> "load"
    [] kind = "ingest" -> "next"
    [] OTHER -> "sum"

\* Mutant: a request that took no lock releases it too
LeaveUnlocking(kind) == "release"

\* Back to the caller: the lock, if it is held, is released on the way
Leave(kind) == IF Locked(kind) THEN "release" ELSE "done"

\* _State.get: the test ...
GetFinds(t) ==
  /\ At(t, "get")
  /\ runtime # Nothing
  /\ Goto(t, "got")
  /\ UNCHANGED <<storeVars, lock, runtime, model, server, closing>>

GetMisses(t) ==
  /\ At(t, "get")
  /\ runtime = Nothing
  /\ \E h \in Handles :
       /\ model[h] = "unbuilt"
       /\ model' = [model EXCEPT ![h] = "built"]
       /\ thread' = [thread EXCEPT ![t].handle = h, ![t].pc = "build"]
  /\ UNCHANGED <<storeVars, lock, runtime, server, closing>>

\* The constructor raises, out of the handler: the profile, SQLite, the model file
GetFails(t) ==
  /\ At(t, "get")
  /\ runtime = Nothing
  /\ Goto(t, Leave(thread[t].kind))
  /\ UNCHANGED <<storeVars, lock, runtime, model, server, closing>>

\* ... and, a construction later, the assignment ...
GetAssigns(t) ==
  /\ At(t, "build")
  /\ runtime' = thread[t].handle
  /\ Goto(t, "got")
  /\ UNCHANGED <<storeVars, lock, model, server, closing>>

\* ... and `return self.runtime', whatever it is by now: None after close()
GetReturns(t) ==
  /\ At(t, "got")
  /\ thread' = [thread EXCEPT ![t].handle = runtime,
                 ![t].pc = IF runtime = Nothing THEN Leave(thread[t].kind)
                           ELSE Body(thread[t].kind)]
  /\ UNCHANGED <<storeVars, lock, runtime, model, server, closing>>

-----------------------------------------------------------------------------
(* ask, under the lock: LeanLMRuntime.ask as far as it is shared.          *)

\* Mutant: a failed load returns without releasing the lock
AskLoadsLeaking(t) ==
  /\ Alive(t, "load")
  /\ LET h == thread[t].handle IN
     \/ model' = [model EXCEPT ![h] = "loaded"] /\ Goto(t, "discover")
     \/ model[h] = "built" /\ UNCHANGED model /\ Goto(t, "done")
  /\ UNCHANGED <<storeVars, lock, runtime, server, closing>>

\* load(), which may fail when there is something to load, and open_session()
\* when the runtime has no session yet: its first question
AskLoads(t) ==
  /\ Alive(t, "load")
  /\ LET h == thread[t].handle IN
     \/ model' = [model EXCEPT ![h] = "loaded"] /\ Goto(t, "discover")
     \/ model[h] = "built" /\ UNCHANGED model /\ Goto(t, "release")
  /\ UNCHANGED <<storeVars, lock, runtime, server, closing>>

\* context_package(): the cache, or the rows; COR-001 if there are none
AskDiscovers(t) ==
  /\ Alive(t, "discover")
  /\ LET h == thread[t].handle IN
     \/ /\ packages[h] # Nothing
        /\ thread' = [thread EXCEPT ![t].seen = packages[h], ![t].pc = "infer"]
     \/ /\ packages[h] = Nothing
        /\ View(h) # Empty
        /\ thread' = [thread EXCEPT ![t].seen = View(h), ![t].pc = "fill"]
     \/ /\ packages[h] = Nothing
        /\ \A d \in Docs : View(h)[d] # "whole"
        /\ Goto(t, "release")
  /\ UNCHANGED <<storeVars, lock, runtime, model, server, closing>>

AskFills(t) ==
  /\ At(t, "fill")
  /\ FillPackage(thread[t].handle, thread[t].seen)
  /\ Goto(t, "infer")
  /\ UNCHANGED <<lock, runtime, model, server, closing>>

\* The rest of the pipeline, then record_metrics; answered or failed ...
AskAnswers(t) ==
  /\ At(t, "infer")
  /\ Goto(t, "release")
  /\ UNCHANGED <<storeVars, lock, runtime, model, server, closing>>

\* ... unless the model never returns: a llama-cli that falls silent is waited for
\* without limit, under the lock
AskStalls(t) ==
  /\ At(t, "infer")
  /\ Goto(t, "stalled")
  /\ UNCHANGED <<storeVars, lock, runtime, model, server, closing>>

-----------------------------------------------------------------------------
(* ingest, under the lock: the loop of LeanLMRuntime.ingest.               *)

\* A document that the document pipeline refuses is reported, and the loop
\* goes on
IngestSkips(t) ==
  /\ At(t, "next")
  /\ \E d \in thread[t].todo : thread' = [thread EXCEPT ![t].todo = @ \ {d}]
  /\ UNCHANGED <<storeVars, lock, runtime, model, server, closing>>

\* COR-002, no file at all; or an exception nobody expects, reading one
IngestAborts(t) ==
  /\ At(t, "next")
  /\ thread[t].todo # {}
  /\ Goto(t, "release")
  /\ UNCHANGED <<storeVars, lock, runtime, model, server, closing>>

IngestInvalidates(t) ==
  /\ At(t, "next")
  /\ \E d \in thread[t].todo :
       thread' = [thread EXCEPT ![t].todo = @ \ {d}, ![t].doc = d, ![t].pc = "delete"]
  /\ Invalidate(thread[t].handle)
  /\ UNCHANGED <<lock, runtime, model, server, closing>>

IngestDeletes(t) ==
  /\ Alive(t, "delete")
  /\ DeleteDocument(thread[t].handle, thread[t].doc)
  /\ Goto(t, "row")
  /\ UNCHANGED <<lock, runtime, model, server, closing>>

IngestInsertsRow(t) ==
  /\ Alive(t, "row")
  /\ InsertRow(thread[t].handle, thread[t].doc)
  /\ Goto(t, "units")
  /\ UNCHANGED <<lock, runtime, model, server, closing>>

IngestInsertsUnits(t) ==
  /\ Alive(t, "units")
  /\ InsertUnits(thread[t].handle, thread[t].doc)
  /\ Goto(t, "commit")
  /\ UNCHANGED <<lock, runtime, model, server, closing>>

IngestCommits(t) ==
  /\ Alive(t, "commit")
  /\ Commit(thread[t].handle)
  /\ thread' = [thread EXCEPT ![t].stored = @ \cup {thread[t].doc}, ![t].pc = "next"]
  /\ UNCHANGED <<lock, runtime, model, server, closing>>

\* Mutant: a document that failed is counted as ingested
IngestSwallows(t) ==
  /\ \E label \in {"delete", "row", "units", "commit"} : Alive(t, label)
  /\ Rollback(thread[t].handle)
  /\ thread' = [thread EXCEPT ![t].stored = @ \cup {thread[t].doc}, ![t].pc = "next"]
  /\ UNCHANGED <<lock, runtime, model, server, closing>>

\* Mutant: a failed statement leaves the transaction open
IngestGivesUp(t) ==
  /\ \E label \in {"delete", "row", "units", "commit"} : Alive(t, label)
  /\ Goto(t, "release")
  /\ UNCHANGED <<storeVars, lock, runtime, model, server, closing>>

\* SQLite refuses a statement or the COMMIT (a full disk; another writer, after
\* five seconds): `with connection:' rolls back and the exception, which is not a
\* LeanLMError, ends the request
IngestRollsBack(t) ==
  /\ \E label \in {"delete", "row", "units", "commit"} : Alive(t, label)
  /\ Rollback(thread[t].handle)
  /\ Goto(t, "release")
  /\ UNCHANGED <<lock, runtime, model, server, closing>>

IngestReports(t) ==
  /\ At(t, "next")
  /\ thread[t].todo = {}
  /\ Goto(t, "sum")
  /\ UNCHANGED <<storeVars, lock, runtime, model, server, closing>>

-----------------------------------------------------------------------------
(* corpus_checksum(), which ends ingest, status and corpus requests.       *)

ChecksumHit(t) ==
  /\ At(t, "sum")
  /\ LET h == thread[t].handle IN
     /\ checksums[h] # Nothing
     /\ thread' = [thread EXCEPT ![t].seen = checksums[h],
                                   ![t].pc = Leave(thread[t].kind)]
  /\ UNCHANGED <<storeVars, lock, runtime, model, server, closing>>

ChecksumReads(t) ==
  /\ Alive(t, "sum")
  /\ LET h == thread[t].handle IN
     /\ checksums[h] = Nothing
     /\ thread' = [thread EXCEPT ![t].seen = View(h), ![t].pc = "keep"]
  /\ UNCHANGED <<storeVars, lock, runtime, model, server, closing>>

ChecksumKept(t) ==
  /\ At(t, "keep")
  /\ FillChecksum(thread[t].handle, thread[t].seen)
  /\ Goto(t, Leave(thread[t].kind))
  /\ UNCHANGED <<lock, runtime, model, server, closing>>

-----------------------------------------------------------------------------
(* The end of a request, and of the server.                                *)

\* A statement on a closed connection raises; nobody catches that
HitsClosedStore(t) ==
  /\ thread[t].pc \in {"load", "discover", "delete", "row", "units", "commit", "sum"}
  /\ Dead(t)
  /\ At(t, "sum") => checksums[thread[t].handle] = Nothing
  /\ Goto(t, Leave(thread[t].kind))
  /\ UNCHANGED <<storeVars, lock, runtime, model, server, closing>>

Release(t) ==
  /\ At(t, "release")
  /\ lock' = Free
  /\ Goto(t, "done")
  /\ UNCHANGED <<storeVars, runtime, model, server, closing>>

\* Ctrl-C: serve_forever returns and the listening socket is closed.  The
\* threads are daemons and nobody waits for them.
Stop ==
  /\ MayStop
  /\ server = "serving"
  /\ server' = IF runtime = Nothing THEN "stopped" ELSE "stopping"
  /\ closing' = runtime
  /\ UNCHANGED <<storeVars, lock, runtime, model, thread>>

\* Mutant: close() commits even when there is no session to close
CloseSessionAlways ==
  /\ server = "stopping"
  /\ writer \in {Nothing, closing}
  /\ Commit(closing)
  /\ server' = "closing"
  /\ UNCHANGED <<lock, runtime, model, thread, closing>>

\* runtime.close() without the lock.  First close_session(): a runtime that
\* has answered has a session, and writing its row commits the connection.
CloseSession ==
  /\ server = "stopping"
  /\ IF model[closing] = "loaded"
     THEN /\ writer \in {Nothing, closing}
          /\ Commit(closing)
     ELSE UNCHANGED storeVars
  /\ server' = "closing"
  /\ UNCHANGED <<lock, runtime, model, thread, closing>>

\* Then the connection is closed and what is uncommitted on it is lost
CloseStore ==
  /\ server = "closing"
  /\ server' = "stopped"
  /\ Rollback(closing)
  /\ model' = [model EXCEPT ![closing] = "closed"]
  /\ runtime' = Nothing
  /\ UNCHANGED <<lock, thread, closing>>

\* The session's row does not get through: another connection is writing
CloseFails ==
  /\ server = "stopping"
  /\ model[closing] = "loaded"
  /\ writer \notin {Nothing, closing}
  /\ server' = "stopped"
  /\ UNCHANGED <<storeVars, lock, runtime, model, thread, closing>>

\* serve() returns, or lets the exception out, and the process ends: the threads
\* with it, wherever they are, and every connection; SQLite undoes what is open
Exit ==
  /\ server = "stopped"
  /\ server' = "exited"
  /\ Rollback(writer)
  /\ model' = [h \in Handles |-> "closed"]
  /\ UNCHANGED <<lock, runtime, thread, closing>>

\* Another process ingests a document, or replaces the corpus
Outsider ==
  /\ Outsiders
  /\ \E content \in Settled : content # file /\ ForeignCommit(content)
  /\ UNCHANGED wsVars

-----------------------------------------------------------------------------
Ask(t) == AskLoads(t) \/ AskDiscovers(t) \/ AskFills(t) \/ AskAnswers(t) \/ AskStalls(t)
Ingest(t) ==
  \/ IngestSkips(t) \/ IngestAborts(t) \/ IngestInvalidates(t) \/ IngestDeletes(t)
  \/ IngestInsertsRow(t) \/ IngestInsertsUnits(t) \/ IngestCommits(t) \/ IngestRollsBack(t)
  \/ IngestReports(t)
Checksum(t) == ChecksumHit(t) \/ ChecksumReads(t) \/ ChecksumKept(t)

Serve(t) ==
  \/ Acquire(t) \/ GetFinds(t) \/ GetMisses(t) \/ GetFails(t) \/ GetAssigns(t) \/ GetReturns(t)
  \/ Ask(t) \/ Ingest(t) \/ Checksum(t)
  \/ HitsClosedStore(t) \/ Release(t)

\* A thread lives as long as the process
Runs(t) == server # "exited" /\ Serve(t)

Next ==
  \/ \E t \in Threads : Arrive(t) \/ Runs(t)
  \/ Stop \/ CloseSession \/ CloseStore \/ CloseFails \/ Exit
  \/ Outsider

Spec == Init /\ [][Next]_vars

\* Every thread is scheduled while the process lives.  A thread waits for the lock
\* once, so that no fairness of the lock is needed: whoever else takes it gives it
\* back for good, or keeps it for good.
FairSpec == Spec /\ \A t \in Threads : WF_vars(Runs(t))

-----------------------------------------------------------------------------
(* Properties.  Some hold as long as one kind of request has not been made; *)
(* what happens with it is described in README.md.                         *)

\* Nobody has asked for the list of documents, the request without the lock
NoReader == \A t \in Threads : thread[t].kind # "corpus"

\* Nobody has asked a question, so no runtime has a session to close; or the
\* server is not being stopped
NothingToClose == server = "serving" \/ \A t \in Threads : thread[t].kind # "ask"

\* The checksum that status and ingest report is that of the committed corpus,
\* as long as it is read under the lock (corpus_checksum, _invalidate).
ChecksumFreshUnderLock ==
  NoReader /\ runtime # Nothing => Current(runtime, checksums)

\* The bodies of ask, ingest and status never overlap, so a runtime executes
\* one call at a time: what LeanLMRuntime takes for granted.
InBody(t) == Locked(thread[t].kind) /\ thread[t].pc \notin {"new", "wait", "done"}
OneCallAtATime == \A t, u \in Threads : InBody(t) /\ InBody(u) => t = u

\* A question is answered from the corpus as it is committed at that moment,
\* whatever was cached and whatever the other requests are doing.
AnswersFromCommitted ==
  \A t \in Threads : At(t, "infer") /\ ~Dead(t) => thread[t].seen = file

\* Even when another process makes the cached package an old one, no question
\* is answered from a document that is being written.  Once a server that has
\* answered is stopped under an ingest, a question that waits may be.
AnswersWhole ==
  NothingToClose => \A t \in Threads : At(t, "infer") => thread[t].seen \in Settled

\* No transaction outlives the request that opened it, whichever way it ends:
\* one left open would lock every other process out of the corpus.
TransactionOwned ==
  writer # Nothing =>
    \E t \in Threads : InBody(t) /\ thread[t].handle = writer
      /\ thread[t].pc \in {"row", "units", "commit"}

\* A document is committed with all of its units or not at all: ingests that
\* fail half-way, and a server stopped under them, leave no half documents.
DocumentsStayWhole == NothingToClose => file \in Settled

\* A document that ingest has reported as ingested is in the store, whole, and
\* stays there: re-ingesting it, failing half-way, or stopping loses nothing.
IngestedIsStored ==
  NothingToClose => \A t \in Threads : \A d \in thread[t].stored : file[d] = "whole"

\* Every request that has come in is served to its end, whatever fails in it or
\* before it, also while the runtime is closed under it.  What may cut it off is the
\* end of the process, which does not wait for its threads; what may hold it up for
\* good is one question of which the model never returns.
RequestsEnd ==
  \A t \in Threads :
    ~At(t, "new") ~> \/ At(t, "done") \/ server = "exited"
                     \/ \E u \in Threads : At(u, "stalled")

-----------------------------------------------------------------------------
(* What the repository says of the program and the code does not do.       *)

\* server.py:13-14, 41: "the model load is the expensive part and a second copy
\* would not fit in 8 GB"; "requests queue rather than duplicate the model".
NeverTwoModels == \A g, h \in Handles : model[g] = "loaded" /\ model[h] = "loaded" => g = h
=============================================================================
