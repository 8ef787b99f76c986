---------------------------- MODULE MCSendQueue -----------------------------
(* SendQueue with a few threads and commands.                               *)
EXTENDS SendQueue, TLC

Alike == Permutations(Threads) \cup Permutations(Commands)
=============================================================================
