-------------------------- MODULE RequestContract ---------------------------
(***************************************************************************)
(* What a driver promises for a transfer request it was given: the outcome *)
(* is decided once, nobody touches the memory of the request after that    *)
(* except to finish, and the request goes back once, when its outcome is   *)
(* decided and nobody uses its memory any more.                            *)
(***************************************************************************)
CONSTANTS
    Requests,   \* handles; the same handle comes again for another transfer
    Outcomes,   \* how a transfer can end
    Undecided   \* no outcome yet

VARIABLES
    held,      \* the requests the driver has
    uses,      \* who uses the memory of a request
    outcome    \* how it will be completed

vars == <<held, uses, outcome>>

\* WskSend reads the buffer of a request, an answer is copied into it.
Uses == {"send", "answer"}

Init ==
    /\ held = {}
    /\ uses = [r \in Requests |-> {}]
    /\ outcome = [r \in Requests |-> Undecided]

Take(r) ==
    /\ r \notin held
    /\ held' = held \cup {r}
    /\ \E u \in SUBSET Uses : uses' = [uses EXCEPT ![r] = u]
    /\ \E o \in Outcomes \cup {Undecided} : outcome' = [outcome EXCEPT ![r] = o]

Work(r) ==
    /\ r \in held
    /\ outcome[r] = Undecided
    /\ \E u \in SUBSET Uses : uses' = [uses EXCEPT ![r] = u]
    /\ \E o \in Outcomes \cup {Undecided} : outcome' = [outcome EXCEPT ![r] = o]
    /\ UNCHANGED held

Finish(r) ==
    /\ r \in held
    /\ outcome[r] # Undecided
    /\ \E u \in SUBSET uses[r] : uses' = [uses EXCEPT ![r] = u]
    /\ UNCHANGED <<held, outcome>>

Give(r) ==
    /\ r \in held
    /\ uses[r] = {}
    /\ outcome[r] # Undecided
    /\ held' = held \ {r}
    /\ outcome' = [outcome EXCEPT ![r] = Undecided]
    /\ UNCHANGED uses

Next == \E r \in Requests : Take(r) \/ Work(r) \/ Finish(r) \/ Give(r)

Spec == Init /\ [][Next]_vars
=============================================================================
