--------------------------- MODULE MCAccessTable ----------------------------
(* AccessTableProps on two addresses and two threads of each process.       *)
EXTENDS AccessTableProps, TLC
CONSTANTS p1, p2, w1, w2, g1, g2, s1, s2
Threads == Permutations({w1, w2}) \cup Permutations({g1, g2}) \cup Permutations({p1, p2})
               \cup Permutations({s1, s2})
=============================================================================
