----------------------------- MODULE AccessTable ----------------------------
(***************************************************************************)
(* The table of addresses that may use USB/IP: the request threads of      *)
(* web.py that read, change and replace the file under _ACCESS_LOCK, and   *)
(* the threads of the gateway that share one unlocked cache of it          *)
(* (gateway.py, AccessGate).  Access control is on.  A tick is             *)
(* ACCESS_RELOAD_INTERVAL_SECONDS; a request or a decision takes less.     *)
(***************************************************************************)
EXTENDS Naturals

CONSTANTS
    Peers,     \* source addresses
    Workers,   \* request threads of web.py
    Relays,    \* connection threads of gateway.py
    Stamps,    \* what stat() tells of a version of the file
    NoStamp, Nobody, Everybody,
    Ttl        \* access_ttl_seconds, in ticks

ASSUME TtlAssumption == Ttl \in Nat \ {0}
ASSUME NamesAssumption ==
    NoStamp \notin Stamps /\ Nobody \notin Workers /\ Everybody \notin Peers

VARIABLES
    file,     \* ACCESS_FILE: is it there, what remains of each grant, its stamp
    op,       \* what each worker has been asked
    lock,     \* _ACCESS_LOCK
    cache,    \* AccessGate: _loaded, _entries, the stat fields, age of _loaded_at
    relay,    \* each gateway thread: its step, the stat it saw, what it parsed
    calm      \* ticks since a peer's record changed, or a read of the gateway failed

web     == <<file, op, lock>>
gateway == <<cache, relay>>
vars    == <<web, gateway, calm>>

Grants   == [Peers -> 0 .. Ttl]
NoGrants == [p \in Peers |-> 0]
Idle     == [kind |-> "idle", peer |-> Everybody, step |-> "wait",
             snap |-> NoGrants]
Resting  == [step |-> "idle", stat |-> NoStamp, parsed |-> NoGrants]

Kinds == {"idle", "authorize", "renew", "revoke"}
Steps == {"idle", "note", "parse", "assign", "decide"}

TypeOK ==
    /\ file \in [there : BOOLEAN, grants : Grants, stamp : Stamps]
    /\ op \in [Workers -> [kind : Kinds, peer : Peers \cup {Everybody},
                           step : {"wait", "write"}, snap : Grants]]
    /\ lock \in Workers \cup {Nobody}
    /\ \A w \in Workers : op[w].step = "write" <=> lock = w
    /\ cache \in [loaded : BOOLEAN, entries : Grants, stamp : Stamps \cup {NoStamp},
                  age : 0 .. 2]
    /\ relay \in [Relays -> [step : Steps, stat : Stamps \cup {NoStamp}, parsed : Grants]]
    /\ calm \in [Peers -> 0 .. 2]

\* Before sync_access_file has run there is no file, and if it fails there is none
\* either: web.py serves requests all the same.
Init ==
    /\ \E s \in Stamps : file = [there |-> FALSE, grants |-> NoGrants, stamp |-> s]
    /\ op = [w \in Workers |-> Idle]
    /\ lock = Nobody
    /\ cache = [loaded |-> FALSE, entries |-> NoGrants, stamp |-> NoStamp, age |-> 0]
    /\ relay = [g \in Relays |-> Resting]
    /\ calm = [p \in Peers |-> 2]

Live(p) == file.there => file.grants[p] > 0

-----------------------------------------------------------------------------
(* web.py                                                                  *)

\* The version that replaces the file: while both are on disk they differ in
\* inode, so two in a row differ in stamp, and a later one may repeat one.
Replace(grants) ==
    /\ \E s \in Stamps \ {file.stamp} :
        file' = [there |-> TRUE, grants |-> grants, stamp |-> s]
    /\ calm' = [p \in Peers |->
        IF file.there /\ grants[p] = file.grants[p] THEN calm[p] ELSE 0]

\* do_POST: a heartbeat of an authorized address goes on to renew its grant.
Heartbeat(w, p) ==
    /\ op[w] = Idle /\ file.grants[p] > 0 /\ lock = Nobody
    /\ op' = [op EXCEPT ![w] = [Idle EXCEPT !.kind = "renew", !.peer = p]]
    /\ UNCHANGED <<file, lock, gateway, calm>>

\* The request a worker takes up: that renewal, an address that sent the access
\* password, the administrator's revocation of one address or of all.
Takes(w, kind, p) ==
    CASE kind = "renew"     -> op[w].kind = kind /\ op[w].step = "wait" /\ op[w].peer = p
      [] kind = "authorize" -> op[w] = Idle /\ p # Everybody
      [] kind = "revoke"    -> op[w] = Idle

\* with _ACCESS_LOCK
Free == lock = Nobody

Done(w) == op' = [op EXCEPT ![w] = Idle]

\* Mutant of ReadFails: an unreadable table is taken for an empty one.
ReadsNothing(w, kind, p) ==
    /\ Takes(w, kind, p) /\ Free
    /\ Replace([q \in Peers |-> IF kind # "revoke" /\ p = q THEN Ttl ELSE 0])
    /\ Done(w)
    /\ UNCHANGED <<lock, gateway>>

\* _read_access_grants_strict fails: the request is given up.
ReadFails(w, kind, p) ==
    /\ Takes(w, kind, p) /\ Free
    /\ Done(w)
    /\ UNCHANGED <<file, lock, gateway, calm>>

\* access_authorize, access_renew, access_revoke: the read,
Read(w, kind, p) ==
    /\ Takes(w, kind, p) /\ Free
    /\ lock' = w
    /\ op' = [op EXCEPT ![w] =
        [kind |-> kind, peer |-> p, step |-> "write", snap |-> file.grants]]
    /\ UNCHANGED <<file, gateway, calm>>

\* access_renew returns None for an address that lost its grant meanwhile.
Renewable(w) == op[w].snap[op[w].peer] > 0

\* what becomes of the grants,
Outcome(w) ==
    CASE op[w].kind = "revoke" ->
           [q \in Peers |-> IF op[w].peer \in {q, Everybody} THEN 0 ELSE op[w].snap[q]]
      [] OTHER -> [op[w].snap EXCEPT ![op[w].peer] = Ttl]

\* and _write_access_grants; the lock is released in any case.
Write(w) ==
    /\ op[w].step = "write"
    /\ lock' = Nobody
    /\ Done(w)
    /\ IF op[w].kind = "renew" /\ ~Renewable(w)
       THEN UNCHANGED <<file, calm>> ELSE Replace(Outcome(w))
    /\ UNCHANGED gateway

\* atomic_write_json fails: the request is given up, and the table stays as it is.
WriteFails(w) ==
    /\ op[w].step = "write"
    /\ lock' = Nobody
    /\ Done(w)
    /\ UNCHANGED <<file, gateway, calm>>

\* web.py starts, again or for the first time: sync_access_file empties the table, or
\* cannot write and leaves what there is, also after a change of the password.
WebStarts ==
    /\ op' = [w \in Workers |-> Idle]
    /\ lock' = Nobody
    /\ Replace(NoGrants) \/ UNCHANGED <<file, calm>>
    /\ UNCHANGED gateway

-----------------------------------------------------------------------------
(* gateway.py: allows() of a connection, with the cache that all share.    *)

\* handle: the first byte is USB/IP's; _refresh: os.stat.
Connect(g) ==
    /\ relay[g] = Resting
    /\ relay' = [relay EXCEPT ![g].step = "note",
                  ![g].stat = IF file.there THEN file.stamp ELSE NoStamp]
    /\ UNCHANGED <<web, cache, calm>>

\* The step after a stat, and after an assignment.
Goes(g, step) == relay' = [relay EXCEPT ![g] = [Resting EXCEPT !.step = step]]

\* Mutant of Recent: what was loaded stays valid until the file looks different.
EverRecent == TRUE

\* Less than ACCESS_RELOAD_INTERVAL_SECONDS have passed since _loaded_at: with an
\* age of one tick that may be so or not.
Recent == cache.age < 2

\* _refresh, the file is gone: access control is off.
NoteGone(g) ==
    /\ relay[g].step = "note" /\ relay[g].stat = NoStamp
    /\ cache' = [loaded |-> FALSE, stamp |-> NoStamp, age |-> 0,
                  entries |-> IF cache.loaded THEN NoGrants ELSE cache.entries]
    /\ Goes(g, "decide")
    /\ UNCHANGED <<web, calm>>

Unchanged(g) == cache.loaded /\ cache.stamp = relay[g].stat /\ Recent

NoteUnchanged(g) ==
    /\ relay[g].step = "note" /\ relay[g].stat # NoStamp /\ Unchanged(g)
    /\ Goes(g, "decide")
    /\ UNCHANGED <<web, cache, calm>>

\* Otherwise the stat fields are noted first,
NoteChanged(g) ==
    /\ relay[g].step = "note" /\ relay[g].stat # NoStamp
    /\ ~Unchanged(g) \/ cache.age > 0
    /\ cache' = [cache EXCEPT !.loaded = TRUE, !.stamp = relay[g].stat, !.age = 0]
    /\ Goes(g, "parse")
    /\ UNCHANGED <<web, calm>>

\* then the file is parsed: one that cannot be read denies all,
Parse(g) ==
    /\ relay[g].step = "parse"
    /\ \/ relay' = [relay EXCEPT ![g].step = "assign", ![g].parsed = file.grants]
          /\ UNCHANGED calm
       \/ relay' = [relay EXCEPT ![g].step = "assign", ![g].parsed = NoGrants]
          /\ calm' = [p \in Peers |-> 0]
    /\ UNCHANGED <<web, cache>>

\* and the entries replaced,
Assign(g) ==
    /\ relay[g].step = "assign"
    /\ cache' = [cache EXCEPT !.entries = relay[g].parsed]
    /\ Goes(g, "decide")
    /\ UNCHANGED <<web, calm>>

\* by which the thread lets an address in, whoever has loaded them.
Admits(p) == cache.loaded => cache.entries[p] > 0

Decide(g) ==
    /\ relay[g].step = "decide"
    /\ Goes(g, "idle")
    /\ UNCHANGED <<web, cache, calm>>

\* The gateway starts: main asks enabled() before any connection is served.
GatewayStarts ==
    /\ relay' = [g \in Relays |-> Resting]
    /\ cache' = [loaded |-> file.there, entries |-> file.grants, age |-> 0,
                 stamp |-> IF file.there THEN file.stamp ELSE NoStamp]
    /\ UNCHANGED <<web, calm>>

-----------------------------------------------------------------------------
\* Time: grants expire, in the file and in the cache.
Less(grants) == [p \in Peers |-> IF grants[p] > 0 THEN grants[p] - 1 ELSE 0]

Tick ==
    /\ lock = Nobody /\ \A w \in Workers : op[w] = Idle
    /\ \A g \in Relays : relay[g] = Resting
    /\ file' = [file EXCEPT !.grants = Less(@)]
    /\ cache' = [cache EXCEPT !.entries = Less(@), !.age = IF @ < 2 THEN @ + 1 ELSE @]
    /\ calm' = [p \in Peers |-> IF calm[p] < 2 THEN calm[p] + 1 ELSE 2]
    /\ UNCHANGED <<op, lock, relay>>

Next ==
    \/ \E w \in Workers :
        \/ \E p \in Peers \cup {Everybody}, kind \in {"authorize", "renew", "revoke"} :
            ReadFails(w, kind, p) \/ Read(w, kind, p)
        \/ \E p \in Peers : Heartbeat(w, p)
        \/ Write(w) \/ WriteFails(w)
    \/ \E g \in Relays :
        \/ Connect(g) \/ NoteGone(g) \/ NoteUnchanged(g) \/ NoteChanged(g)
        \/ Parse(g) \/ Assign(g) \/ Decide(g)
    \/ WebStarts \/ GatewayStarts \/ Tick

Spec == Init /\ [][Next]_vars
=============================================================================
