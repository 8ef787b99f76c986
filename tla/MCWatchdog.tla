----------------------------- MODULE MCWatchdog -----------------------------
(* WatchdogProps on two clients and a device.                               *)
EXTENDS WatchdogProps, TLC

CONSTANTS c1, c2, b1, here, there

TwoHosts == c1 :> here @@ c2 :> there
=============================================================================
