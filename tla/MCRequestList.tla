--------------------------- MODULE MCRequestList ----------------------------
(* RequestListProps on small sets of requests and processors.               *)
EXTENDS RequestListProps, TLC

Alike == Permutations(Requests) \cup Permutations(Processors)
=============================================================================
