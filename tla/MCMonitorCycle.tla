--------------------------- MODULE MCMonitorCycle ---------------------------
(* Instances of MonitorCycle for TLC. *)
EXTENDS MonitorCycle

CONSTANTS r1, r2, r3, t1

MCFound == <<r1, r2, r3>>
MCNetwork == [r \in Relay |-> IF r = r1 THEN "tor" ELSE "clearnet"]
MCMaxTasks == [n \in {"tor", "clearnet"} |-> 1]
MCRetries == [c \in Compute |-> IF c = "nip11_info" THEN 1 ELSE 0]
MCTarget == <<t1>>
MCKeys == <<"profile">>
=============================================================================
