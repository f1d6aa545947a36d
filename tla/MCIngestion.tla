---------------------------- MODULE MCIngestion ----------------------------
(* Instances of Ingestion for TLC: every short document of a few kinds of  *)
(* lines as the only file, and a folder with everything that can go wrong. *)
EXTENDS Ingestion, TLC

Line(class, level, title, tokens) ==
  [class |-> class, level |-> level, title |-> title, tokens |-> tokens,
   ends |-> class \in {"blank", "text"}, long |-> FALSE]
Chapter == Line("atx", 1, "Chapter", 1)
Annex == Line("atx", 1, "Annex", 1)
Section == Line("caption", 2, "SECTION", 1)
Point == Line("atx", 3, "Point", 1)
Rule == Line("rule", 2, "---", 0)
Blank == Line("blank", 0, "", 0)
Fence == Line("fence", 0, "", 0)
Row == Line("table", 0, "row", 2)
Note == Line("text", 0, "note", 1)
Sentence == Line("text", 0, "sentence", 3)
Clause == [Sentence EXCEPT !.ends = FALSE]
Speech == [Line("text", 0, "speech", 5) EXCEPT !.long = TRUE]
AllLines == {Chapter, Annex, Section, Point, Rule, Blank, Fence, Row, Note, Sentence, Clause, Speech}
FewLines == {Chapter, Annex, Section, Blank, Note, Sentence, Clause}

Document(lines) ==
  [name |-> "doc", format |-> "text", size |-> "fits", lines |-> lines, readable |-> {}]
Pdf(lines, readable) == [Document(lines) EXCEPT !.format = "pdf", !.readable = readable]

Short == UNION {[1..n -> AllLines] : n \in 1..4}
Long == [1..5 -> FewLines]

Old == Document(<<Chapter, Sentence>>)
New == Document(<<Chapter, Sentence, Sentence>>)
Folder == [p \in {"new", "old", "copy", "scan", "pdf", "zip", "void", "big", "bare", "few"} |->
  CASE p \in {"old", "copy"} -> Old
    [] p = "new" -> New
    [] p = "scan" -> Pdf(<<Sentence>>, {})
    [] p = "pdf" -> Pdf(<<Sentence, Blank, Sentence>>, {"pdfminer"})
    [] p = "zip" -> [Old EXCEPT !.format = "other"]
    [] p = "void" -> [Old EXCEPT !.size = "empty"]
    [] p = "big" -> [Old EXCEPT !.size = "huge"]
    [] p = "bare" -> Document(<<Chapter, Section, Annex>>)
    [] p = "few" -> Document(<<Note>>)]

MCDisks == {Folder}
Single == {[p \in {"only"} |-> Document(lines)] : lines \in Short \cup Long}
SingleRequest == {[paths |-> <<"only">>, replace |-> FALSE]}
MCEdits == {New}
Call(paths, replace) == [paths |-> paths, replace |-> replace]
MCRequests == {
  Call(<<"old", "copy">>, FALSE), Call(<<"old", "new">>, TRUE), Call(<<"pdf", "old">>, TRUE),
  Call(<<"scan", "zip", "void", "big", "bare", "few">>, TRUE),
  Call(<<"missing">>, TRUE), Call(<<"new", "missing">>, FALSE)}
=============================================================================
