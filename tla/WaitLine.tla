------------------------------ MODULE WaitLine ------------------------------
(***************************************************************************)
(* The waiting list of one device (one value of queue.json, server/web.py). *)
(*                                                                         *)
(* The code keeps a list of client ids without duplicates.  Such a list is *)
(* the set of its members together with the strict order of their places,  *)
(* and that is how it is modelled: "who" waits, and who stands "before"    *)
(* whom.  Filtering a list is then restricting an order.                   *)
(***************************************************************************)
EXTENDS Naturals, FiniteSets

Lines(C) == [who : SUBSET C, before : SUBSET (C \X C)]

EmptyLine == [who |-> {}, before |-> {}]

Behind(l, x, y) == <<x, y>> \in l.before

\* ids[0] == x
IsFirst(l, x) ==
    /\ x \in l.who
    /\ \A y \in l.who : ~Behind(l, y, x)

First(l) == CHOOSE x \in l.who : IsFirst(l, x)

\* [item for item in ids if item not in S]
Leave(l, S) ==
    [ who    |-> l.who \ S,
      before |-> {p \in l.before : p[1] \notin S /\ p[2] \notin S} ]

\* Leave, then append: a repeat waiter goes to the tail.
JoinAtTail(l, x) ==
    LET rest == Leave(l, {x}) IN
    [ who    |-> rest.who \cup {x},
      before |-> rest.before \cup (rest.who \X {x}) ]

\* current[-max:]: one append can exceed the bound by one, the first leaves.
Capped(l, max) ==
    IF Cardinality(l.who) > max
    THEN Leave(l, {x \in l.who : IsFirst(l, x)})
    ELSE l

\* What makes the pair a list without duplicates.
IsLine(l) ==
    /\ \A p \in l.before : p[1] \in l.who /\ p[2] \in l.who
    /\ \A x \in l.who : ~Behind(l, x, x)
    /\ \A x, y \in l.who : x # y => (Behind(l, x, y) \/ Behind(l, y, x))
    /\ \A x, y, z \in l.who : Behind(l, x, y) /\ Behind(l, y, z) => Behind(l, x, z)
=============================================================================
