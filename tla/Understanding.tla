--------------------------- MODULE Understanding ---------------------------
(***************************************************************************)
(* packages/understanding: the lines of a document become blocks, the      *)
(* blocks become semantic units that carry their section path.             *)
(*                                                                         *)
(* A line is a record of its class, of its length in tokens, of whether it *)
(* ends a sentence (with one of . ! ? ; :) and is long (above 120          *)
(* characters) and, for a heading, of its level and title.  The classes    *)
(* are those the patterns tell apart: "atx" (# Title), "caption" (1.2      *)
(* Title, or TITLE, as far as its length makes it one), "rule" (--- or     *)
(* ===, which underlines what comes before), "fence", "table", "bullet",   *)
(* "blank" and "text".  A line with several sentences stands as one line   *)
(* for each.  The text of a block or a unit is the sequence of the         *)
(* positions of its lines, and the tokens of a text are those of its       *)
(* lines: what a counter rounds up when texts are joined is left out.      *)
(***************************************************************************)
EXTENDS Integers, Sequences, FiniteSets, SequencesExt

CONSTANTS
  TargetTokens, MaxTokens, MinTokens, MergeBelowTokens,   \* SegmentationPolicy
  MaxUnits                                                \* max_units_per_document

ASSUME SegmentationAssumption ==
  /\ {TargetTokens, MaxTokens, MinTokens, MergeBelowTokens} \subseteq Nat
  /\ MaxUnits \in Nat \ {0}

\* A heading, and the rule that makes one of the line above it, has a level; an
\* empty line ends a sentence
Lines ==
  {line \in [class : {"atx", "caption", "rule", "fence", "table", "bullet", "blank", "text"},
             level : Nat, title : STRING, tokens : Nat, ends : BOOLEAN, long : BOOLEAN] :
     /\ line.class \in {"atx", "caption", "rule"} => line.level # 0
     /\ line.class = "blank" => line.ends}

TokensIn(lines, text) == FoldLeft(LAMBDA sum, i : sum + lines[i].tokens, 0, text)

-----------------------------------------------------------------------------
(* StructureAnalyzer *)

KindOf(line) ==
  CASE line.class = "table" -> "table"
    [] line.class = "bullet" -> "list"
    [] OTHER -> "paragraph"

Heading(lines, i, level) ==
  [kind |-> "heading", text |-> <<i>>, title |-> lines[i].title, level |-> level]

\* A rule makes a heading of a line above it that is not long, if it is no ATX heading
Underlined(lines, i) == i < Len(lines) /\ lines[i + 1].class = "rule" /\ ~lines[i].long

HeadingLevel(lines, i) ==
  IF lines[i].class # "atx" /\ Underlined(lines, i) THEN lines[i + 1].level ELSE lines[i].level

IsHeading(lines, i) ==
  \/ lines[i].class \in {"atx", "caption"}
  \/ lines[i].class # "blank" /\ Underlined(lines, i)

Flush(s) ==
  IF s.buffer = <<>> THEN s
  ELSE [s EXCEPT !.blocks = Append(@, [kind |-> s.kind, text |-> s.buffer, title |-> "", level |-> 0]),
                 !.buffer = <<>>, !.kind = "paragraph"]

Buffered(s, i) == [s EXCEPT !.buffer = Append(@, i)]

ReadLine(lines, s, i) ==
  LET line == lines[i]
      fence == line.class = "fence"
      kind == KindOf(line)
      kept == IF kind # s.kind THEN Flush(s) ELSE s
  IN CASE s.skip -> [s EXCEPT !.skip = FALSE]
       [] ~s.skip /\ s.fenced /\ fence -> [Flush(Buffered(s, i)) EXCEPT !.fenced = FALSE]
       [] ~s.skip /\ s.fenced /\ ~fence -> Buffered(s, i)
       [] ~s.skip /\ ~s.fenced /\ fence ->
            [Flush(s) EXCEPT !.fenced = TRUE, !.kind = "code", !.buffer = <<i>>]
       [] ~s.skip /\ ~s.fenced /\ line.class = "blank" -> Flush(s)
       [] ~s.skip /\ ~s.fenced /\ ~fence /\ IsHeading(lines, i) ->
            [Flush(s) EXCEPT !.blocks = Append(@, Heading(lines, i, HeadingLevel(lines, i))),
                             !.skip = line.class # "atx" /\ Underlined(lines, i)]
       [] OTHER -> [Buffered(kept, i) EXCEPT !.kind = kind]

Unread == [blocks |-> <<>>, buffer |-> <<>>, kind |-> "paragraph", fenced |-> FALSE, skip |-> FALSE]

Analyze(lines) ==
  Flush(FoldLeftDomain(LAMBDA s, i : ReadLine(lines, s, i), Unread, lines)).blocks

-----------------------------------------------------------------------------
(* Segmenter *)

\* Between two blocks stands an empty line
LastLines(lines) ==
  LET blocks == Analyze(lines) IN {Last(blocks[k].text) : k \in DOMAIN blocks}

\* A sentence goes on over the ends of lines; an empty line, as in a listing, ends it
SameSentence(lines, i, j) ==
  /\ j = i + 1 /\ i \notin LastLines(lines)
  /\ lines[i].ends => lines[j].class = "blank"

AddLine(lines, sentences, i) ==
  IF sentences # <<>> /\ SameSentence(lines, Last(Last(sentences)), i)
  THEN Append(Front(sentences), Append(Last(sentences), i))
  ELSE Append(sentences, <<i>>)

Sentences(lines, text) == FoldLeft(LAMBDA sofar, i : AddLine(lines, sofar, i), <<>>, text)

\* Mutant: a piece is closed once it is full, whatever the next sentence adds
SplitWhenFull(lines, text) ==
  LET Add(s, sentence) ==
        IF s.current # <<>> /\ TokensIn(lines, s.current) > TargetTokens
        THEN [pieces |-> Append(s.pieces, s.current), current |-> sentence]
        ELSE [s EXCEPT !.current = @ \o sentence]
      split == FoldLeft(Add, [pieces |-> <<>>, current |-> <<>>], Sentences(lines, text))
  IN Append(split.pieces, split.current)

AddSentence(lines, s, sentence) ==
  IF s.current # <<>> /\ TokensIn(lines, s.current) + TokensIn(lines, sentence) > TargetTokens
  THEN [pieces |-> Append(s.pieces, s.current), current |-> sentence]
  ELSE [s EXCEPT !.current = @ \o sentence]

\* Long texts are split where a sentence ends, and only there
SplitOversized(lines, text) ==
  LET split == FoldLeft(LAMBDA s, sentence : AddSentence(lines, s, sentence),
                        [pieces |-> <<>>, current |-> <<>>], Sentences(lines, text))
  IN Append(split.pieces, split.current)

\* Too small to stand alone: folded into the previous unit of the same section
Foldable(lines, units, text, path) ==
  /\ TokensIn(lines, text) < MinTokens
  /\ units # <<>> /\ Last(units).path = path

\* Mutant: small pieces go to the first unit of their section
AddToSection(lines, units, text, kind, path) ==
  IF Foldable(lines, units, text, path)
  THEN LET first == CHOOSE k \in DOMAIN units : units[k].path = path /\
                        \A j \in 1..(k - 1) : units[j].path # path
       IN [units EXCEPT ![first].text = @ \o text]
  ELSE Append(units, [kind |-> kind, text |-> text, path |-> path])

AddUnit(lines, units, text, kind, path) ==
  IF Foldable(lines, units, text, path)
  THEN Append(Front(units), [Last(units) EXCEPT !.text = @ \o text])
  ELSE Append(units, [kind |-> kind, text |-> text, path |-> path])

TextOf(blocks) == FlattenSeq([k \in DOMAIN blocks |-> blocks[k].text])

AddPieces(lines, units, pieces, kind, path) ==
  FoldLeft(LAMBDA sofar, piece : AddUnit(lines, sofar, piece, kind, path), units, pieces)

Pieces(lines, text) ==
  IF TokensIn(lines, text) > MaxTokens THEN SplitOversized(lines, text) ELSE <<text>>

\* The blocks collected so far become one unit, or several if they are too long
Emit(lines, s) ==
  IF s.pending = <<>> THEN s
  ELSE [s EXCEPT !.units = AddPieces(lines, @, Pieces(lines, TextOf(s.pending)),
                                     Head(s.pending).kind, s.path),
                 !.pending = <<>>]

\* Mutant: a heading leaves its predecessor of the same level in the path
UnderSibling(path, heading) ==
  Append(SubSeq(path, 1, Min({heading.level, Len(path)})), heading.title)

\* A heading of level n replaces the path from its n-th part on
Under(path, heading) ==
  Append(SubSeq(path, 1, Min({heading.level - 1, Len(path)})), heading.title)

\* The blocks under a heading are collected until they are worth a unit.
AddBlock(lines, s, block) ==
  LET collected == [s EXCEPT !.pending = Append(@, block)]
  IN CASE s.full -> s
       [] ~s.full /\ block.kind = "heading" -> [Emit(lines, s) EXCEPT !.path = Under(@, block)]
       [] ~s.full /\ block.kind # "heading" ->
            LET next == IF TokensIn(lines, TextOf(collected.pending)) >= MergeBelowTokens
                        THEN Emit(lines, collected) ELSE collected
            IN [next EXCEPT !.full = Len(next.units) >= MaxUnits]

Unsegmented == [units |-> <<>>, path |-> <<>>, pending |-> <<>>, full |-> FALSE]

Segment(lines, blocks) ==
  Emit(lines, FoldLeft(LAMBDA s, block : AddBlock(lines, s, block), Unsegmented, blocks)).units

BuildStructuredDocument(lines) == Segment(lines, Analyze(lines))
=============================================================================
