-------------------------- MODULE AccessTableProps --------------------------
(***************************************************************************)
(* What a grant and its revocation mean.                                   *)
(***************************************************************************)
EXTENDS AccessTable

\* A decision agrees with what the file has said for more than a reload interval.
Agrees(p) == calm[p] = 2 => (Admits(p) <=> Live(p))

\* A revocation takes effect, and so does a grant, although stat() may not see that
\* the file was replaced (the unconditional reload of _refresh) and although a
\* slow thread may put old entries over new ones: unless a thread is reloading.
SettledVerdict ==
    \A g \in Relays, p \in Peers :
        relay[g].step = "decide" /\ (\A h \in Relays : relay[h].step \notin {"parse", "assign"})
            => Agrees(p)

\* A revoked or expired address is back in the table only when it has been
\* authorized again, never by a heartbeat that was under way (access_renew).
RevokeSticks ==
    [][\A p \in Peers : file.grants[p] = 0 /\ file'.grants[p] > 0
        => \E w \in Workers : op[w].kind = "authorize" /\ op[w].peer = p]_vars

\* No request takes the grant of another address with it: a grant ends by being
\* revoked, by expiring or with web.py (_read_access_grants_strict).
GrantsKept ==
    [][\A p \in Peers : file.grants[p] > 0 /\ file'.grants[p] = 0
        => \/ \E w \in Workers : op[w].kind = "revoke" /\ op[w].peer \in {p, Everybody}
           \/ file.grants[p] = 1 /\ Tick
           \/ WebStarts]_vars

\* The table as GrantTable has it: what the file says, and what each worker is about.
Asked == [w \in Workers |-> [kind |-> op[w].kind, peer |-> op[w].peer]]

Table == INSTANCE GrantTable WITH
    there <- file.there, grants <- file.grants, asked <- Asked

\* Reading the table and replacing it are two steps of a request, and still every
\* request is carried out at once on the table as it is by then, or not at all: no
\* grant is lost to, or brought back by, a request that was under way
\* (_ACCESS_LOCK, _read_access_grants_strict, access_renew).
TableKept == Table!Spec
=============================================================================
