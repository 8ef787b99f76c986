----------------------------- MODULE GrantTable -----------------------------
(***************************************************************************)
(* The table of grants as its users take it to be: a request is carried    *)
(* out at once, on the table as it is by then, or it fails and changes     *)
(* nothing.                                                                *)
(***************************************************************************)
EXTENDS Naturals

CONSTANTS
    Peers,       \* source addresses
    Everybody,   \* all of them
    Workers,     \* who carries out requests
    Ttl          \* lifetime of a grant

VARIABLES
    there,    \* a table has been made
    grants,   \* what remains of each address's grant
    asked     \* the request of each worker

vars == <<there, grants, asked>>

NoRequest == [kind |-> "idle", peer |-> Everybody]

Init ==
    /\ there = FALSE
    /\ grants = [p \in Peers |-> 0]
    /\ asked = [w \in Workers |-> NoRequest]

\* Only an address that has a grant may ask to renew it.
Ask(w, kind, p) ==
    /\ asked[w] = NoRequest
    /\ kind = "renew" => grants[p] > 0
    /\ asked' = [asked EXCEPT ![w] = [kind |-> kind, peer |-> p]]
    /\ UNCHANGED <<there, grants>>

Fail(w) ==
    /\ asked' = [asked EXCEPT ![w] = NoRequest]
    /\ UNCHANGED <<there, grants>>

Authorized(p) == [grants EXCEPT ![p] = Ttl]
Revoked(p)    == [q \in Peers |-> IF p \in {q, Everybody} THEN 0 ELSE grants[q]]

\* A grant that has ended meanwhile is not renewed, as if the request had failed.
CarryOut(w) ==
    LET p == asked[w].peer IN
    /\ \/ asked[w].kind = "authorize" /\ grants' = Authorized(p)
       \/ asked[w].kind = "renew" /\ grants[p] > 0 /\ grants' = Authorized(p)
       \/ asked[w].kind = "revoke" /\ grants' = Revoked(p)
    /\ asked' = [asked EXCEPT ![w] = NoRequest]
    /\ there' = TRUE

Expire ==
    /\ grants' = [p \in Peers |-> IF grants[p] > 0 THEN grants[p] - 1 ELSE 0]
    /\ UNCHANGED <<there, asked>>

\* A start forgets the requests, and the grants unless the table cannot be replaced.
Restart ==
    /\ \/ there' = TRUE /\ grants' = [p \in Peers |-> 0]
       \/ UNCHANGED <<there, grants>>
    /\ asked' = [w \in Workers |-> NoRequest]

Next ==
    \/ \E w \in Workers : CarryOut(w) \/ Fail(w)
    \/ \E w \in Workers, p \in Peers, kind \in {"authorize", "renew"} : Ask(w, kind, p)
    \/ \E w \in Workers, p \in Peers \cup {Everybody} : Ask(w, "revoke", p)
    \/ Expire \/ Restart

Spec == Init /\ [][Next]_vars
=============================================================================
