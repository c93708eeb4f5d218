-------------------------- MODULE MCDaemonProcess ---------------------------
(* A small instance of DaemonProcess for TLC.  The signals of one process    *)
(* interrupt its log calls; the other one, which may be there or not, logs     *)
(* errors only and is sent none.                                               *)
EXTENDS DaemonProcess, TLC

CONSTANTS first, second, main, handler

TwoProcesses == {first, second}
TwoThreads   == {main, handler}
Pids         == {101, 102}
Frames       == (main :> 3) @@ (handler :> 1)
Signals      == [p \in Process |-> IF p = first THEN Signal ELSE {}]
Levels       == [p \in Process |-> IF p = first THEN LogLevel ELSE {"ERROR"}]
=============================================================================
