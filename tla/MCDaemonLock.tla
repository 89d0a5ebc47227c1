--------------------------- MODULE MCDaemonLock ---------------------------
(* A job of launchd and a command in its home, with its port or another.   *)
EXTENDS DaemonLock

CONSTANTS job, command, home, p1, p2

MCHomeOf  == [d \in Daemons |-> home]
MCPortsOf == [d \in Daemons |-> IF d = job THEN {p1} ELSE {p1, p2}]
=============================================================================
