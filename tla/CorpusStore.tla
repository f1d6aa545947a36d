---------------------------- MODULE CorpusStore ----------------------------
(***************************************************************************)
(* The corpus store of runtime/corpus.py: one SQLite file, and for every   *)
(* CorpusStore object (a handle) a connection to it and two caches, the    *)
(* context package and the corpus checksum.                                *)
(*                                                                         *)
(* A document id is derived from the content of the file, so an edited     *)
(* file is another document and ingesting the same file again replaces a   *)
(* document by itself.  What can differ is how much of a document is       *)
(* there: its row and its units are written by separate statements.  A     *)
(* package and a checksum are functions of the stored units, injective up  *)
(* to hash collisions, and are modelled by the content they were read from.*)
(*                                                                         *)
(* The operators are the steps of the methods, statement by statement,     *)
(* where another thread or another process can come in between.  Who takes *)
(* them, and in which order, is up to the module that uses the store.      *)
(***************************************************************************)
EXTENDS FiniteSets

CONSTANTS
  Docs,        \* the documents there are to ingest
  Handles,     \* the CorpusStore objects of one process
  Nothing      \* None: an empty cache, no writer

\* A hollow document has its row in table documents, and not all of its units
Content == [Docs -> {"absent", "hollow", "whole"}]
Settled == [Docs -> {"absent", "whole"}]
Empty == [d \in Docs |-> "absent"]

ASSUME StoreAssumption == Nothing \notin Content \cup Docs \cup Handles

VARIABLES
  file,        \* the committed content
  writer,      \* the handle whose connection is inside a transaction
  pending,     \* the content that connection sees
  packages,    \* _package_cache[None] of each handle
  checksums    \* _checksum_cache of each handle

storeVars == <<file, writer, pending, packages, checksums>>

StoreTypeOK ==
  /\ file \in Content
  /\ writer \in Handles \cup {Nothing}
  /\ pending \in Content
  /\ packages \in [Handles -> Content \cup {Nothing}]
  /\ checksums \in [Handles -> Content \cup {Nothing}]

StoreInit(content) ==
  /\ file = content
  /\ writer = Nothing
  /\ pending = Empty
  /\ packages = [h \in Handles |-> Nothing]
  /\ checksums = [h \in Handles |-> Nothing]

\* What a SELECT on the connection of h returns: its own uncommitted writes
\* included, whichever thread issues it, since the threads share the connection
View(h) == IF writer = h THEN pending ELSE file

\* Mutant: a write invalidates the package and not the checksum
InvalidatePackage(h) ==
  /\ packages' = [packages EXCEPT ![h] = Nothing]
  /\ UNCHANGED <<file, writer, pending, checksums>>

\* _invalidate(), which upsert_document calls before its transaction
Invalidate(h) ==
  /\ packages' = [packages EXCEPT ![h] = Nothing]
  /\ checksums' = [checksums EXCEPT ![h] = Nothing]
  /\ UNCHANGED <<file, writer, pending>>

\* A statement that modifies the corpus.  The first one opens a transaction;
\* SQLite admits one writer at a time.
Modify(h, d, as) ==
  /\ writer \in {Nothing, h}
  /\ writer' = h
  /\ pending' = [View(h) EXCEPT ![d] = as]
  /\ UNCHANGED <<file, packages, checksums>>

\* The three statements of upsert_document: DELETE, whose cascade takes the
\* units; INSERT of the row; INSERT of the units
DeleteDocument(h, d) == Modify(h, d, "absent")
InsertRow(h, d) == Modify(h, d, "hollow")
InsertUnits(h, d) == Modify(h, d, "whole")

\* `with connection:' ends.  A commit commits whatever the connection has
\* pending, and nothing when there is no transaction; a rollback likewise.
Commit(h) ==
  /\ IF writer = h
     THEN file' = pending /\ writer' = Nothing /\ pending' = Empty
     ELSE UNCHANGED <<file, writer, pending>>
  /\ UNCHANGED <<packages, checksums>>

\* Mutant: a rollback leaves the connection without a view of the corpus
RollbackToNothing(h) ==
  /\ IF writer = h
     THEN writer' = Nothing /\ pending' = Nothing
     ELSE UNCHANGED <<writer, pending>>
  /\ UNCHANGED <<file, packages, checksums>>

Rollback(h) ==
  /\ IF writer = h
     THEN writer' = Nothing /\ pending' = Empty
     ELSE UNCHANGED <<writer, pending>>
  /\ UNCHANGED <<file, packages, checksums>>

\* The last statements of context_package() and corpus_checksum(): what was
\* read some steps ago goes into the cache
FillPackage(h, content) ==
  /\ packages' = [packages EXCEPT ![h] = content]
  /\ UNCHANGED <<file, writer, pending, checksums>>

FillChecksum(h, content) ==
  /\ checksums' = [checksums EXCEPT ![h] = content]
  /\ UNCHANGED <<file, writer, pending, packages>>

\* Another process (`leanlm ingest' beside `leanlm serve') commits a document
\* or a cleared corpus through a connection, and caches, of its own
ForeignCommit(content) ==
  /\ writer = Nothing
  /\ file' = content
  /\ UNCHANGED <<writer, pending, packages, checksums>>

-----------------------------------------------------------------------------
\* What is cached is what is committed, unless the handle is in the middle of
\* a write of its own
Current(h, cache) == cache[h] # Nothing /\ writer # h => cache[h] = file
=============================================================================
