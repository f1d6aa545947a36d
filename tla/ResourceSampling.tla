-------------------------- MODULE ResourceSampling --------------------------
(***************************************************************************)
(* What a request knows of its machine: packages/performance.  The sampler *)
(* reads memory, processor and temperature from whatever the platform      *)
(* offers and keeps the peaks since the request began; the metrics stage   *)
(* reports them and warns.                                                 *)
(*                                                                         *)
(* A host says what can be read at a moment: library, whether psutil works *)
(* here; meminfo, whether the system's own files can be read instead; the  *)
(* values; and the hottest temperature of the chips psutil knows and of    *)
(* the thermal zones, Unknown without one.                                 *)
(***************************************************************************)
EXTENDS Integers

Unknown == -1

\* From psutil, or from the system's own files, or nothing
Memory(host) ==
  IF host.library \/ host.meminfo THEN <<host.total, host.ram>> ELSE <<0, 0>>

\* From the chips psutil knows, or from the thermal zones
Temperature(host) == IF host.library /\ host.chip # Unknown THEN host.chip ELSE host.zone

\* Only a temperature that cannot be read differs from one that is 0
Sample(host) ==
  [total |-> Memory(host)[1],
   ram |-> Memory(host)[2],
   cpu |-> IF host.library THEN host.cpu ELSE 0,
   temperature |-> Temperature(host)]

-----------------------------------------------------------------------------
(* Peaks *)

NoPeak == [temperature |-> Unknown, cpu |-> 0]
Higher(a, b) == IF a < b THEN b ELSE a
Raised(peak, seen) ==
  [temperature |-> Higher(peak.temperature, seen.temperature), cpu |-> Higher(peak.cpu, seen.cpu)]

-----------------------------------------------------------------------------
(* The metrics stage *)

Metrics(peak, seen) ==
  [temperature |-> IF peak.temperature # Unknown THEN peak.temperature ELSE seen.temperature,
   cpu |-> Higher(peak.cpu, seen.cpu),
   ram |-> seen.ram]

WarnAt == 78
CriticalAt == 92
MemoryWarnRatio == 88
Warnings(metrics, seen) == {w \in {"thermal critical", "thermal warning", "memory pressure"} :
  CASE w = "thermal critical" -> metrics.temperature >= CriticalAt
    [] w = "thermal warning" -> metrics.temperature >= WarnAt /\ metrics.temperature < CriticalAt
    [] w = "memory pressure" ->
         /\ metrics.ram > 0 /\ seen.total > 0
         /\ 100 * (seen.total - metrics.ram) >= MemoryWarnRatio * seen.total}
=============================================================================
