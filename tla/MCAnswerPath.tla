---------------------------- MODULE MCAnswerPath ----------------------------
(* Instances of AnswerPath for TLC: a small handbook, two questions about   *)
(* it and one about something else.                                        *)
EXTENDS AnswerPath, TLC

Vocab == <<"%", ".", "5", "9", "S1", "S2", "S3", "S4", "500", "RTT", "the",
           "1500", "1800", "days", "echo", "long", "many", "page",
           "allow", "leave", "answer", "banner", "notice", "refund", "school", "status",
           "ticket", "travel", "<think>", "answer:", "manager", "request", "</think>",
           "/command", "managers", "supplied", "documents", "conclusion">>
MCWordOrder == [w \in ToSet(Vocab) |-> CHOOSE i \in DOMAIN Vocab : Vocab[i] = w]
MCIgnored == {"the", "5", "9", ".", "%"} \cup Labels \cup Marks
MCFigures == {"5", "9", "500", "1500", "1800"}
MCPoints == {"."}
MCPercents == {"%"}
MCSpelling ==
  [w \in MCFigures \cup MCPoints \cup MCPercents |->
     CASE w = "500" -> <<"5", "0", "0">>
       [] w = "1500" -> <<"1", "5", "0", "0">>
       [] w = "1800" -> <<"1", "8", "0", "0">>
       [] OTHER -> <<w>>]
MCStemOf == [w \in ToSet(Vocab) |-> IF w = "managers" THEN "manager" ELSE w]
MCWidth ==
  [w \in ToSet(Vocab) |-> CASE w \in {".", "%"} -> 1
                            [] w \in Labels -> 5
                            [] OTHER -> Len(w) + 1]
MCBoilerplate == {<<"page", "1500">>}
MCGenericTerms == {"long", "many"}
MCNumericMarkers == {"many"}
MCWeights == {1, 200}
MCMaxEvidenceChars == 900

Rule(words, chars) ==
  [id |-> 0, doc |-> "hr", name |-> <<"leave">>, section |-> <<"RTT", "leave">>, kind |-> "paragraph",
   text |-> Text(words, chars), tokens |-> HeuristicCount(Text(words, chars))]
InTravel(u) == [u EXCEPT !.doc = "travel", !.name = <<"travel">>, !.section = <<"travel">>]

\* Stored passages: short and long ones, near duplicates with and without a
\* different figure, figures of several words, a page number and a table
Passages == {
  Rule(<<"leave", "request", "manager", "days", "RTT", "1500">>, 36),
  Rule(<<"leave", "request", "manager", "days", "RTT", "1800">>, 36),
  Rule(<<"leave", "request", "manager", "days", "RTT">>, 36),
  Rule(<<"leave", "request", "manager", "days", "RTT", "notice">>, 400),
  Rule(<<"leave", "request", "manager", "days", "5", "500", ".">>, 72),
  Rule(<<"the", "leave", "request", "manager", "days", "9", "500", "%">>, 72),
  Rule(<<"page", "1500">>, 7),
  InTravel(Rule(<<"travel", "ticket", "refund", "notice">>, 1000)),
  InTravel(Rule(<<"travel", "ticket", "refund", ".", "manager", ".", "days", ".", "page", ".">>, 450)),
  InTravel([Rule(<<"1800">>, 30) EXCEPT !.kind = "table"])}

Grouped(p, q) == ~(p.doc = "travel" /\ q.doc = "hr")
Nth(i, p) == [p EXCEPT !.id = i]
\* Three passages for what happens between duplicates, and under the budget
Trio == {p \in Passages : p.text.chars \in {36, 400, 450, 1000} /\ "1800" \notin ToSet(p.text.words)}
MCCorpora ==
  {<<Nth(1, p)>> : p \in Passages} \cup
  {<<Nth(1, t[1]), Nth(2, t[2])>> : t \in {x \in Passages \X Passages : Grouped(x[1], x[2])}} \cup
  {<<Nth(1, t[1]), Nth(2, t[2]), Nth(3, t[3])>> :
     t \in {x \in Trio \X Trio \X Trio : Grouped(x[1], x[2]) /\ Grouped(x[2], x[3])}}

Asks(words, chars, marked) ==
  [text |-> Text(words, chars),
   hits |-> [i \in ToSet(Intents) |-> IF i \in marked THEN 1 ELSE 0]]
MCQuestions == {
  Asks(<<"many", "days", "RTT", "leave">>, 40, {"extraction"}),
  Asks(<<"travel", "ticket", "refund", "managers", "long">>, 60, {"summary", "comparison"}),
  Asks(<<"school", "refund", "long">>, 50, {})}

Host(ram, cpu, chip) ==
  [library |-> TRUE, meminfo |-> TRUE, ram |-> ram, total |-> 4000, cpu |-> cpu,
   chip |-> chip, zone |-> 85]
\* Cool, short of memory, hot, read without psutil, and not readable at all
MCHosts == {
  Host(3800, 10, 60),
  Host(1500, 10, 60),
  Host(600, 95, Unknown),
  [Host(300, 95, 60) EXCEPT !.library = FALSE, !.zone = 95],
  [Host(1500, 10, 60) EXCEPT !.library = FALSE, !.meminfo = FALSE, !.zone = Unknown]}
MCMachines == {
  [model |-> [context |-> 512, output |-> 128, footprint |-> 0],
   backend |-> "llama-server", counter |-> "heuristic"],
  [model |-> [context |-> 1024, output |-> 128, footprint |-> 700],
   backend |-> "llama-cli", counter |-> "heuristic"],
  [model |-> [context |-> 1024, output |-> 128, footprint |-> 700],
   backend |-> "llama-cpp-python", counter |-> "llama.cpp"],
  [model |-> [context |-> 1024, output |-> 128, footprint |-> 0],
   backend |-> "simulated", counter |-> "heuristic"]}

Quote == <<"leave", "request", "manager", "days", ".">>
MCOutputs == {
  Quote \o <<"S1">>,
  Quote \o <<"S3">>,
  <<"answer:">> \o Quote \o <<"S1">>,
  <<"banner", "/command", "echo">> \o Insufficient \o <<"status">>,
  <<"<think>">> \o Quote \o <<"</think>", "travel", "ticket", "refund", "notice", ".", "S1", "S2">>,
  <<"<think>">> \o Quote,
  <<"school", "refund", "days", "RTT", ".", "S1">>,
  <<"RTT", "leave", ".", "S1">>,
  Quote \o <<"S1", "answer:", "refund", ".">>,
  Quote \o <<"S1", "answer:", "conclusion">>,
  <<>>}
=============================================================================
