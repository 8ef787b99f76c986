---------------------------- MODULE MCWaitQueue -----------------------------
(* WaitQueueProps on small sets of clients and devices.                     *)
EXTENDS WaitQueueProps, TLC

Everyone == Permutations(Clients)
=============================================================================
