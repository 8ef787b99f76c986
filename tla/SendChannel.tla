---------------------------- MODULE SendChannel -----------------------------
(***************************************************************************)
(* What the threads of the driver expect of send: commands reach the       *)
(* socket once each, in the order in which they were pushed.               *)
(***************************************************************************)
EXTENDS Sequences

CONSTANT Commands

VARIABLES
    queue,   \* pushed and not yet given to the socket
    wire     \* given to the socket

vars == <<queue, wire>>

Init == queue = <<>> /\ wire = <<>>

Push(c) == queue' = Append(queue, c) /\ UNCHANGED wire

Transmit ==
    /\ queue # <<>>
    /\ wire' = Append(wire, Head(queue))
    /\ queue' = Tail(queue)

Next == Transmit \/ \E c \in Commands : Push(c)

Spec == Init /\ [][Next]_vars
=============================================================================
