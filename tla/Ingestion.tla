----------------------------- MODULE Ingestion -----------------------------
(***************************************************************************)
(* runtime.ingest(): the files below the given paths go through the        *)
(* document pipeline one after the other, CAP-001 (describe, load,         *)
(* normalize) and CAP-002 (see Understanding), and are stored.  Files      *)
(* change and disappear while this goes on, and the process may die.       *)
(*                                                                         *)
(* A file is a record: name, format ("pdf", "text" or "other"), size       *)
(* ("empty", "fits" or "huge"), lines, and readable, the extractors that   *)
(* get its text out of a PDF.                                              *)
(***************************************************************************)
EXTENDS Understanding

CONSTANTS
  Disks,        \* the functions from paths to files the disk may start as
  Edits,        \* files somebody may write to a path meanwhile
  Requests,     \* records: paths (a sequence), replace
  Installed,    \* the PDF extractors of the machine
  MinText,      \* min_extractable_chars, in tokens
  MaxCalls      \* bound: calls of ingest

ASSUME IngestionAssumption ==
  /\ MinText \in Nat \ {0} /\ MaxCalls \in Nat
  /\ Installed \subseteq {"pypdf", "pdfminer", "pdftotext"}
  /\ \A start \in Disks : \A path \in DOMAIN start : start[path].lines \in Seq(Lines)
  /\ \A file \in Edits : file.lines \in Seq(Lines)

VARIABLES
  disk,      \* the files that exist
  store,     \* the corpus: document id -> units, and the lines they were made of
  pc,        \* "idle", "clear", "describe", "load", "store", "report"
  calls,
  request,
  files,     \* the paths collected
  at,        \* the position of the file in work
  described, \* what describe() saw of it
  text,      \* what load has read
  ingested,  \* report: ids, in order
  failed,    \* report: codes, in order
  result     \* "none" while a call runs, "report", the code raised, or "OSError"

vars == <<disk, store, pc, calls, request, files, at, described, text, ingested, failed, result>>

NoRequest == [paths |-> <<>>, replace |-> FALSE]
Nothing == [name |-> "", format |-> "other", size |-> "empty", lines |-> <<>>, readable |-> {}]
EmptyStore == [d \in {} |-> <<>>]

Init ==
  /\ disk \in Disks
  /\ store = EmptyStore
  /\ pc = "idle" /\ calls = 0 /\ request = NoRequest
  /\ files = <<>> /\ at = 1 /\ described = Nothing /\ text = <<>>
  /\ ingested = <<>> /\ failed = <<>> /\ result = "none"

Exists(path) == path \in DOMAIN disk

\* _collect_files: each existing file once, in the order given
Collect(paths) ==
  LET first(i) == Exists(paths[i]) /\ \A j \in 1..(i - 1) : paths[j] # paths[i]
      Add(seq, i) == IF first(i) THEN Append(seq, paths[i]) ELSE seq
  IN FoldLeft(Add, <<>>, [i \in DOMAIN paths |-> i])

Ingest(call) ==
  /\ pc = "idle" /\ calls < MaxCalls
  /\ calls' = calls + 1
  /\ request' = call /\ files' = Collect(call.paths) /\ at' = 1
  /\ ingested' = <<>> /\ failed' = <<>>
  /\ IF files' = <<>> THEN pc' = "idle" /\ result' = "COR-002"
     ELSE pc' = "clear" /\ result' = "none"
  /\ UNCHANGED <<disk, store, described, text>>

\* Mutant: the corpus is never emptied
ClearNothing ==
  /\ pc = "clear"
  /\ pc' = "describe"
  /\ UNCHANGED <<disk, store, calls, request, files, at, described, text, ingested, failed, result>>

Clear ==
  /\ pc = "clear"
  /\ store' = IF request.replace THEN EmptyStore ELSE store
  /\ pc' = "describe"
  /\ UNCHANGED <<disk, calls, request, files, at, described, text, ingested, failed, result>>

Path == files[at]
NextFile ==
  IF at = Len(files) THEN at' = at /\ pc' = "report" ELSE at' = at + 1 /\ pc' = "describe"

\* A LeanLMError of one file goes into the report and the next file is tried
Fails(code) ==
  /\ failed' = Append(failed, code)
  /\ NextFile
  /\ UNCHANGED <<store, described, text, ingested, result>>

DescribeError(path) ==
  CASE ~Exists(path) -> "ING-004"
    [] Exists(path) /\ disk[path].format = "other" -> "ING-001"
    [] Exists(path) /\ disk[path].format # "other" /\ disk[path].size = "empty" -> "ING-005"
    [] Exists(path) /\ disk[path].format # "other" /\ disk[path].size = "huge" -> "ING-006"
    [] OTHER -> "none"

Describe ==
  /\ pc = "describe"
  /\ LET code == DescribeError(Path)
     IN IF code # "none" THEN Fails(code)
        ELSE /\ described' = disk[Path]
             /\ pc' = "load"
             /\ UNCHANGED <<store, at, text, ingested, failed, result>>
  /\ UNCHANGED <<disk, calls, request, files>>

\* The id of a document: a digest of the content of its file and of its name
DocumentId == <<described.lines, described.name>>

\* The extractors of a PDF are tried one after the other, whatever they raise
Unreadable ==
  /\ described.format = "pdf"
  /\ ~(Exists(Path) /\ Installed \cap disk[Path].readable # {})

\* The file is opened again: what it holds by now is read
Load ==
  /\ pc = "load"
  /\ \/ Unreadable /\ Fails("ING-002")
     \/ /\ ~Exists(Path) /\ described.format = "text"
        /\ pc' = "idle" /\ result' = "OSError"
        /\ UNCHANGED <<store, at, described, text, ingested, failed>>
     \/ /\ ~Unreadable /\ Exists(Path)
        /\ LET lines == disk[Path].lines
           IN IF TokensIn(lines, [i \in DOMAIN lines |-> i]) < MinText THEN Fails("ING-007")
              ELSE /\ text' = lines
                   /\ pc' = "store"
                   /\ UNCHANGED <<store, at, described, ingested, failed, result>>
  /\ UNCHANGED <<disk, calls, request, files>>

\* CAP-002, and the transaction of upsert_document: a document of the same id
\* is replaced
Upsert ==
  /\ pc = "store"
  /\ LET units == BuildStructuredDocument(text)
     IN IF units = <<>> THEN Fails("UND-002")
        ELSE /\ store' = [d \in DOMAIN store \cup {DocumentId} |->
                            IF d = DocumentId THEN [units |-> units, lines |-> text] ELSE store[d]]
             /\ ingested' = Append(ingested, DocumentId)
             /\ NextFile
             /\ UNCHANGED <<described, text, failed, result>>
  /\ UNCHANGED <<disk, calls, request, files>>

Report ==
  /\ pc = "report"
  /\ pc' = "idle" /\ result' = "report"
  /\ UNCHANGED <<disk, store, calls, request, files, at, described, text, ingested, failed>>

\* SQLite keeps what has been committed; the caller sees nothing of the call
Dies ==
  /\ pc # "idle"
  /\ pc' = "idle" /\ result' = "died"
  /\ UNCHANGED <<disk, store, calls, request, files, at, described, text, ingested, failed>>

\* Somebody saves or removes a file of the call that is running
Edited ==
  /\ pc \in {"describe", "load"}
  /\ \/ \E file \in Edits : disk' = [p \in DOMAIN disk \cup {Path} |-> IF p = Path THEN file ELSE disk[p]]
     \/ disk' = [p \in DOMAIN disk \ {Path} |-> disk[p]]
  /\ disk' # disk
  /\ UNCHANGED <<store, pc, calls, request, files, at, described, text, ingested, failed, result>>

Next ==
  \/ \E call \in Requests : Ingest(call)
  \/ Clear \/ Describe \/ Load \/ Upsert \/ Report
  \/ Dies \/ Edited

Spec == Init /\ [][Next]_vars

-----------------------------------------------------------------------------
(* Properties *)

Stored == {store[d] : d \in DOMAIN store}

\* A call that ends with its report accounts for every file, everything it
\* calls ingested is in the corpus, and with replace nothing else is: a
\* measurement is not taken on documents of an earlier corpus.  Calls before
\* may have died anywhere, files may change.
ReportIsCorpus ==
  result = "report" =>
    /\ Len(ingested) + Len(failed) = Len(files)
    /\ ToSet(ingested) \subseteq DOMAIN store
    /\ request.replace => DOMAIN store = ToSet(ingested)

\* A call that finds no document leaves the corpus as it was, also with replace
RefusedLeavesCorpus == [][result' = "COR-002" => store' = store]_vars

TextOfUnits(units) == FlattenSeq([k \in DOMAIN units |-> units[k].text])

\* Merging, splitting and folding neither lose, repeat nor reorder text: the
\* units of a document read one after the other are the document.  A document
\* that reaches max_units_per_document is cut off.
HeadingsOf(lines) ==
  LET blocks == Analyze(lines)
  IN {blocks[k].text[1] : k \in {n \in DOMAIN blocks : blocks[n].kind = "heading"}}
Prose(lines) ==
  {i \in DOMAIN lines : lines[i].class \in {"text", "table", "bullet", "fence"}
                        /\ ~Underlined(lines, i)}

LinesConserved ==
  \A doc \in Stored :
    LET read == TextOfUnits(doc.units)
    IN /\ \A i, j \in DOMAIN read : i < j => read[i] < read[j]
       /\ ToSet(read) \cap HeadingsOf(doc.lines) = {}
       /\ Len(doc.units) < MaxUnits => Prose(doc.lines) \subseteq ToSet(read)

TitlesOnce(lines) ==
  \A i, j \in HeadingsOf(lines) : lines[i].title = lines[j].title => i = j

\* No level is skipped on the way down
WellNested(lines) ==
  LET level(i) == HeadingLevel(lines, i)
      headings == HeadingsOf(lines)
  IN \A i \in headings :
       \/ level(i) = 1
       \/ \E j \in headings : /\ j < i /\ level(j) >= level(i) - 1
                              /\ \A k \in headings : j < k /\ k < i => level(k) >= level(i) - 1

\* The titles some headings leave: of each level that of the last one, unless a
\* heading of a lower level has closed it
Open(lines, headings) ==
  {i \in headings : \A j \in headings : j > i => HeadingLevel(lines, j) > HeadingLevel(lines, i)}
TitlesAfter(lines, headings) ==
  [n \in {HeadingLevel(lines, i) : i \in Open(lines, headings)} |->
     lines[CHOOSE i \in Open(lines, headings) : HeadingLevel(lines, i) = n].title]

HeadingsAbove(lines, line) == {i \in HeadingsOf(lines) : i < line}

\* A unit carries the titles its text is under, unless the document skips a level,
\* and never crosses a heading, unless its title comes twice.
SectionsKept ==
  \A doc \in Stored : \A k \in DOMAIN doc.units :
    LET held == ToSet(doc.units[k].text)
    IN /\ WellNested(doc.lines) =>
            \A line \in held :
              doc.units[k].path = TitlesAfter(doc.lines, HeadingsAbove(doc.lines, line))
       /\ TitlesOnce(doc.lines) =>
            \A line, other \in held : HeadingsAbove(doc.lines, line) = HeadingsAbove(doc.lines, other)

\* Limits that leave each other room, as 180, 320, 24 and 90 tokens do
LimitsAgree ==
  /\ MinTokens <= MergeBelowTokens /\ 2 * MinTokens <= TargetTokens
  /\ TargetTokens + MinTokens <= MaxTokens /\ 0 < MinTokens

\* A sentence that is above the target by itself, with the lines it goes over
LongSentence(lines, held) ==
  \E first, last \in ToSet(held) :
    /\ first <= last /\ first..last \subseteq ToSet(held)
    /\ \A i \in first..(last - 1) : SameSentence(lines, i, i + 1)
    /\ TokensIn(lines, [k \in 1..(last - first + 1) |-> first + k - 1]) > TargetTokens

\* A unit is above max_tokens only by the small piece folded into it, unless one of
\* its sentences alone is above the target: a table, a list or a listing is a single
\* sentence as long as no line of it ends with a mark.  Sections that share a title
\* are out of it: folding takes them for one and adds to their unit each time.
UnitsFit ==
  \A doc \in Stored : LimitsAgree /\ TitlesOnce(doc.lines) =>
    \A k \in DOMAIN doc.units :
      \/ TokensIn(doc.lines, doc.units[k].text) < MaxTokens + MinTokens
      \/ LongSentence(doc.lines, doc.units[k].text)
=============================================================================
