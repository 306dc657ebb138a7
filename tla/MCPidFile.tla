------------------------------ MODULE MCPidFile ------------------------------
(* PidFile for TLC.  The pids are interchangeable, so one of them stands   *)
(* for all in the liveness property; nothing is assumed of the others.     *)
EXTENDS PidFile

CONSTANT Observed

ObservedSpec == Spec /\ FairStart(Observed)

(* StartSettles of PidFile for the observed pid: preemptOldDaemon waits    *)
(* 5 s at most, so no start hangs behind an old daemon.                    *)
StartsSettle == StartSettles(Observed)

=============================================================================
