------------------------- MODULE AccessTable_proofs -------------------------
(***************************************************************************)
(* Proofs about AccessTable, for any set of addresses, threads and stamps  *)
(* and any lifetime of a grant.                                            *)
(*                                                                         *)
(* A request reads the table in one step and replaces it in another.  What *)
(* it writes is about the table as it is, because nobody replaces it       *)
(* between the two: the inductive invariant says so of whoever has         *)
(* _ACCESS_LOCK.                                                           *)
(***************************************************************************)
EXTENDS AccessTableProps, TLAPS

\* Whoever is about to write has read the present table, for a request.
SnapFresh ==
    \A w \in Workers : op[w].step = "write" =>
        /\ op[w].snap = file.grants
        /\ op[w].kind \in {"authorize", "renew", "revoke"}

IInv == TypeOK /\ SnapFresh

Tables == [there : BOOLEAN, grants : Grants, stamp : Stamps]
Orders == [kind : Kinds, peer : Peers \cup {Everybody}, step : {"wait", "write"}, snap : Grants]

-----------------------------------------------------------------------------
(* The data.                                                               *)

LEMMA NoGrantsOK == NoGrants \in Grants
BY TtlAssumption DEF NoGrants, Grants

LEMMA IdleOK == Idle \in Orders /\ Idle.step = "wait"
BY NoGrantsOK DEF Idle, Orders, Kinds

LEMMA RestingOK ==
    Resting \in [step : Steps, stat : Stamps \cup {NoStamp}, parsed : Grants]
BY NoGrantsOK DEF Resting, Steps

\* Time takes one tick from a grant, and none from an expired one.
LEMMA LessOK ==
    ASSUME NEW grants \in Grants
    PROVE  /\ Less(grants) \in Grants
           /\ \A p \in Peers : /\ Less(grants)[p] <= grants[p]
                               /\ grants[p] > 0 /\ Less(grants)[p] = 0 => grants[p] = 1
BY TtlAssumption DEF Less, Grants

LEMMA OutcomeOK ==
    ASSUME TypeOK, NEW w \in Workers
    PROVE  Outcome(w) \in Grants
<1>1. op[w].snap \in [Peers -> 0 .. Ttl] /\ 0 \in 0 .. Ttl /\ Ttl \in 0 .. Ttl
    BY TtlAssumption DEF TypeOK, Grants
<1>2. CASE op[w].kind = "revoke"
    BY <1>1, <1>2 DEF Outcome, Grants
<1>3. CASE op[w].kind # "revoke"
    <2>1. Outcome(w) = [op[w].snap EXCEPT ![op[w].peer] = Ttl]
        BY <1>3 DEF Outcome
    <2> QED
        BY <1>1, <2>1 DEF Grants
<1> QED
    BY <1>2, <1>3

LEMMA ReplaceOK ==
    ASSUME TypeOK, NEW grants \in Grants, Replace(grants)
    PROVE  file' \in Tables /\ file'.grants = grants /\ calm' \in [Peers -> 0 .. 2]
BY DEF Replace, Tables, TypeOK

\* No two threads write.
LEMMA OneWriter ==
    ASSUME TypeOK, lock = Nobody, NEW w \in Workers
    PROVE  op[w].step # "write"
BY NamesAssumption DEF TypeOK

-----------------------------------------------------------------------------
(* The invariant.                                                          *)

LEMMA InitIInv == Init => IInv
<1> SUFFICES ASSUME Init PROVE IInv
    OBVIOUS
<1> USE NoGrantsOK, IdleOK, RestingOK, NamesAssumption
<1>1. TypeOK
    BY DEF Init, TypeOK, Orders
<1>2. SnapFresh
    BY DEF Init, SnapFresh
<1> QED
    BY <1>1, <1>2 DEF IInv

LEMMA HeartbeatKeepsIInv ==
    ASSUME IInv, NEW w \in Workers, NEW p \in Peers, Heartbeat(w, p)
    PROVE  IInv'
<1> DEFINE o == [Idle EXCEPT !.kind = "renew", !.peer = p]
<1>1. o \in Orders /\ o.step = "wait"
    BY NoGrantsOK DEF Idle, Orders, Kinds
<1>2. op' = [op EXCEPT ![w] = o] /\ lock' = lock /\ lock = Nobody
    BY DEF Heartbeat
<1> HIDE DEF o
<1>3. TypeOK'
    BY <1>1, <1>2, NamesAssumption DEF Heartbeat, gateway, IInv, TypeOK, Orders
<1>4. SnapFresh'
    BY <1>1, <1>2 DEF Heartbeat, IInv, TypeOK, SnapFresh
<1> QED
    BY <1>3, <1>4 DEF IInv

\* A thread that is done waits again.
LEMMA DoneOK ==
    ASSUME IInv, NEW w \in Workers, Done(w)
    PROVE  /\ op' \in [Workers -> Orders]
           /\ op'[w].step = "wait"
           /\ \A v \in Workers \ {w} : op'[v] = op[v]
BY IdleOK DEF Done, IInv, TypeOK, Orders

LEMMA ReadFailsKeepsIInv ==
    ASSUME IInv, NEW w \in Workers, NEW kind, NEW p, ReadFails(w, kind, p)
    PROVE  IInv'
<1>1. lock = Nobody /\ lock' = lock /\ Done(w)
    BY DEF ReadFails, Free
<1>2. TypeOK'
    BY <1>1, DoneOK, OneWriter, NamesAssumption DEF ReadFails, gateway, IInv, TypeOK, Orders
<1>3. SnapFresh'
    BY <1>1, DoneOK, OneWriter DEF ReadFails, IInv, TypeOK, SnapFresh
<1> QED
    BY <1>2, <1>3 DEF IInv

LEMMA ReadKeepsIInv ==
    ASSUME IInv, NEW w \in Workers, NEW kind \in {"authorize", "renew", "revoke"},
           NEW p \in Peers \cup {Everybody}, Read(w, kind, p)
    PROVE  IInv'
<1> DEFINE o == [kind |-> kind, peer |-> p, step |-> "write", snap |-> file.grants]
<1>1. o \in Orders /\ o.step = "write" /\ o.snap = file.grants /\ o.kind = kind
    BY DEF Orders, Kinds, IInv, TypeOK
<1>2. op' = [op EXCEPT ![w] = o] /\ lock' = w /\ lock = Nobody
    BY DEF Read, Free
<1> HIDE DEF o
<1>3. \A v \in Workers : op[v].step # "write"
    BY <1>2, OneWriter DEF IInv
<1>4. TypeOK'
    BY <1>1, <1>2, <1>3 DEF Read, gateway, IInv, TypeOK, Orders
<1>5. SnapFresh'
    BY <1>1, <1>2, <1>3 DEF Read, IInv, TypeOK, SnapFresh
<1> QED
    BY <1>4, <1>5 DEF IInv

LEMMA WriteKeepsIInv ==
    ASSUME IInv, NEW w \in Workers, Write(w)
    PROVE  IInv'
<1>1. lock = w /\ lock' = Nobody /\ Done(w)
    BY DEF Write, IInv, TypeOK
<1>2. file' \in Tables /\ calm' \in [Peers -> 0 .. 2]
    <2>1. CASE UNCHANGED <<file, calm>>
        BY <2>1 DEF IInv, TypeOK, Tables
    <2>2. CASE Replace(Outcome(w))
        BY <2>2, ReplaceOK, OutcomeOK DEF IInv
    <2> QED
        BY <2>1, <2>2 DEF Write
<1>3. \A v \in Workers : op'[v].step # "write"
    BY <1>1, DoneOK DEF IInv, TypeOK
<1>4. TypeOK'
    BY <1>1, <1>2, <1>3, DoneOK, NamesAssumption
       DEF Write, gateway, IInv, TypeOK, Tables, Orders
<1>5. SnapFresh'
    BY <1>3 DEF SnapFresh
<1> QED
    BY <1>4, <1>5 DEF IInv

LEMMA WriteFailsKeepsIInv ==
    ASSUME IInv, NEW w \in Workers, WriteFails(w)
    PROVE  IInv'
<1>1. lock = w /\ lock' = Nobody /\ Done(w)
    BY DEF WriteFails, IInv, TypeOK
<1>2. \A v \in Workers : op'[v].step # "write"
    BY <1>1, DoneOK DEF IInv, TypeOK
<1>3. TypeOK'
    BY <1>1, <1>2, DoneOK, NamesAssumption DEF WriteFails, gateway, IInv, TypeOK, Orders
<1>4. SnapFresh'
    BY <1>2 DEF SnapFresh
<1> QED
    BY <1>3, <1>4 DEF IInv

LEMMA WebStartsKeepsIInv ==
    ASSUME IInv, WebStarts
    PROVE  IInv'
<1>1. file' \in Tables /\ calm' \in [Peers -> 0 .. 2]
    <2>1. CASE Replace(NoGrants)
        BY <2>1, NoGrantsOK, ReplaceOK DEF IInv
    <2>2. CASE UNCHANGED <<file, calm>>
        BY <2>2 DEF IInv, TypeOK, Tables
    <2> QED
        BY <2>1, <2>2 DEF WebStarts
<1>2. \A w \in Workers : op'[w] = Idle
    BY DEF WebStarts
<1>3. TypeOK'
    BY <1>1, <1>2, IdleOK, NamesAssumption DEF WebStarts, gateway, IInv, TypeOK, Tables, Orders
<1>4. SnapFresh'
    BY <1>2, IdleOK DEF SnapFresh
<1> QED
    BY <1>3, <1>4 DEF IInv

\* A step of the gateway leaves the table and the requests alone.
GatewayTypes ==
    /\ cache \in [loaded : BOOLEAN, entries : Grants, stamp : Stamps \cup {NoStamp},
                  age : 0 .. 2]
    /\ relay \in [Relays -> [step : Steps, stat : Stamps \cup {NoStamp}, parsed : Grants]]
    /\ calm \in [Peers -> 0 .. 2]

LEMMA GatewayKeepsIInv ==
    ASSUME IInv, UNCHANGED web, GatewayTypes'
    PROVE  IInv'
BY DEF web, GatewayTypes, IInv, TypeOK, SnapFresh

LEMMA RelayKeepsIInv ==
    ASSUME IInv, NEW g \in Relays,
           Connect(g) \/ NoteGone(g) \/ NoteUnchanged(g) \/ NoteChanged(g)
             \/ Parse(g) \/ Assign(g) \/ Decide(g)
    PROVE  IInv'
<1> USE NoGrantsOK, RestingOK DEF GatewayTypes, IInv, TypeOK, Steps
<1>1. CASE Connect(g)
    BY <1>1, GatewayKeepsIInv DEF Connect
<1>2. ASSUME NEW step \in Steps, Goes(g, step)
      PROVE  relay' \in [Relays -> [step : Steps, stat : Stamps \cup {NoStamp}, parsed : Grants]]
    BY <1>2 DEF Goes, Resting
<1>3. CASE NoteGone(g)
    BY <1>2, <1>3, GatewayKeepsIInv DEF NoteGone
<1>4. CASE NoteUnchanged(g) \/ Decide(g)
    BY <1>2, <1>4, GatewayKeepsIInv DEF NoteUnchanged, Decide
<1>5. CASE NoteChanged(g)
    <2>1. cache' = [loaded |-> TRUE, entries |-> cache.entries, stamp |-> relay[g].stat, age |-> 0]
        BY <1>5 DEF NoteChanged
    <2>2. relay[g].stat \in Stamps \cup {NoStamp} /\ cache.entries \in Grants
        OBVIOUS
    <2>3. cache' \in [loaded : BOOLEAN, entries : Grants, stamp : Stamps \cup {NoStamp},
                      age : 0 .. 2]
        BY <2>1, <2>2
    <2>4. Goes(g, "parse") /\ UNCHANGED <<web, calm>>
        BY <1>5 DEF NoteChanged
    <2>5. GatewayTypes'
        BY <1>2, <2>3, <2>4
    <2> QED
        BY <2>4, <2>5, GatewayKeepsIInv
<1>6. CASE Parse(g)
    BY <1>6, GatewayKeepsIInv DEF Parse
<1>7. CASE Assign(g)
    BY <1>2, <1>7, GatewayKeepsIInv DEF Assign
<1> QED
    BY <1>1, <1>3, <1>4, <1>5, <1>6, <1>7

LEMMA GatewayStartsKeepsIInv ==
    ASSUME IInv, GatewayStarts
    PROVE  IInv'
BY RestingOK, GatewayKeepsIInv DEF GatewayStarts, GatewayTypes, IInv, TypeOK

LEMMA TickKeepsIInv ==
    ASSUME IInv, Tick
    PROVE  IInv'
<1>1. file' \in Tables
    BY LessOK DEF Tick, IInv, TypeOK, Tables
<1>2. GatewayTypes'
    <2>1. cache' = [loaded |-> cache.loaded, entries |-> Less(cache.entries),
                    stamp |-> cache.stamp,
                    age |-> IF cache.age < 2 THEN cache.age + 1 ELSE cache.age]
        BY DEF Tick, IInv, TypeOK
    <2>2. Less(cache.entries) \in Grants
        BY LessOK DEF IInv, TypeOK
    <2>3. relay' = relay /\ calm' \in [Peers -> 0 .. 2]
        BY DEF Tick, IInv, TypeOK
    <2> QED
        BY <2>1, <2>2, <2>3 DEF GatewayTypes, IInv, TypeOK
<1>3. TypeOK'
    BY <1>1, <1>2 DEF Tick, GatewayTypes, Tables, IInv, TypeOK
<1>4. SnapFresh'
    BY OneWriter DEF Tick, IInv, SnapFresh
<1> QED
    BY <1>3, <1>4 DEF IInv

LEMMA NextIInv == IInv /\ [Next]_vars => IInv'
<1> SUFFICES ASSUME IInv, [Next]_vars PROVE IInv'
    OBVIOUS
<1>1. CASE UNCHANGED vars
    BY <1>1 DEF vars, web, gateway, IInv, TypeOK, SnapFresh
<1>2. CASE Next
    BY <1>2, HeartbeatKeepsIInv, ReadFailsKeepsIInv, ReadKeepsIInv, WriteKeepsIInv,
       WriteFailsKeepsIInv, WebStartsKeepsIInv, RelayKeepsIInv, GatewayStartsKeepsIInv, TickKeepsIInv DEF Next
<1> QED
    BY <1>1, <1>2

LEMMA Invariance == Spec => []IInv
BY InitIInv, NextIInv, PTL DEF Spec

\* In every reachable state the variables have their types, and the thread that
\* is about to write is the one that has _ACCESS_LOCK.
THEOREM TypeCorrect == Spec => []TypeOK
<1>1. IInv => TypeOK
    BY DEF IInv
<1> QED
    BY <1>1, Invariance, PTL

-----------------------------------------------------------------------------
(* What becomes of a grant.                                                *)

\* Only three steps change the grants.
LEMMA WhoChanges ==
    ASSUME [Next]_vars, file'.grants # file.grants
    PROVE  (\E w \in Workers : Write(w)) \/ WebStarts \/ Tick
BY DEF Next, vars, web, ReadFails, Read, WriteFails, Heartbeat, Connect, NoteGone, NoteUnchanged,
       NoteChanged, Parse, Assign, Decide, GatewayStarts

\* A write changes the grant it is about, and a revocation of all changes all.
LEMMA WriteChanges ==
    ASSUME IInv, NEW w \in Workers, Write(w), NEW p \in Peers,
           file'.grants[p] # file.grants[p]
    PROVE  /\ op[w].kind \in {"authorize", "renew", "revoke"}
           /\ op[w].peer = p \/ (op[w].kind = "revoke" /\ op[w].peer = Everybody)
           /\ op[w].kind = "revoke" => file'.grants[p] = 0
           /\ op[w].kind # "revoke" => file'.grants[p] = Ttl
           /\ op[w].kind = "renew" => file.grants[p] > 0
<1>1. op[w].snap = file.grants /\ op[w].kind \in {"authorize", "renew", "revoke"}
    BY DEF Write, IInv, SnapFresh
<1>2. Replace(Outcome(w)) /\ (op[w].kind = "renew" => Renewable(w))
    BY DEF Write
<1>3. file'.grants = Outcome(w)
    BY <1>2, ReplaceOK, OutcomeOK DEF IInv
<1>4. file.grants \in Grants
    BY DEF IInv, TypeOK
<1> QED
    BY <1>1, <1>2, <1>3, <1>4 DEF Outcome, Renewable, Grants

\* A grant that has ended comes back by an authorization only, never by a
\* heartbeat that was under way when it was revoked (access_renew).
THEOREM RevocationsStick == Spec => RevokeSticks
<1> DEFINE Sticks ==
        \A p \in Peers : file.grants[p] = 0 /\ file'.grants[p] > 0
            => \E w \in Workers : op[w].kind = "authorize" /\ op[w].peer = p
<1>1. ASSUME IInv, [Next]_vars
      PROVE  [Sticks]_vars
    <2> SUFFICES ASSUME NEW p \in Peers, file.grants[p] = 0, file'.grants[p] > 0
                 PROVE  \E w \in Workers : op[w].kind = "authorize" /\ op[w].peer = p
        OBVIOUS
    <2>1. (\E w \in Workers : Write(w)) \/ WebStarts \/ Tick
        BY <1>1, WhoChanges
    <2>2. ~WebStarts
        BY NoGrantsOK, ReplaceOK, <1>1 DEF WebStarts, NoGrants, IInv
    <2>3. ~Tick
        <3> SUFFICES ASSUME Tick PROVE FALSE
            OBVIOUS
        <3>1. file'.grants = Less(file.grants) /\ file.grants \in Grants
            BY <1>1 DEF Tick, IInv, TypeOK
        <3> QED
            BY <3>1, LessOK, TtlAssumption DEF Grants
    <2>4. PICK w \in Workers : Write(w)
        BY <2>1, <2>2, <2>3
    <2>5. op[w].kind = "authorize" /\ op[w].peer = p
        BY <1>1, <2>4, WriteChanges
    <2> QED
        BY <2>5
<1> QED
    BY <1>1, Invariance, PTL DEF Spec, RevokeSticks

\* No request takes another address's grant with it: a grant ends by being
\* revoked, by expiring or with web.py (_read_access_grants_strict).
THEOREM GrantsStay == Spec => GrantsKept
<1> DEFINE Kept ==
        \A p \in Peers : file.grants[p] > 0 /\ file'.grants[p] = 0
            => \/ \E w \in Workers : op[w].kind = "revoke" /\ op[w].peer \in {p, Everybody}
               \/ file.grants[p] = 1 /\ Tick
               \/ WebStarts
<1>1. ASSUME IInv, [Next]_vars
      PROVE  [Kept]_vars
    <2> SUFFICES ASSUME NEW p \in Peers, file.grants[p] > 0, file'.grants[p] = 0
                 PROVE  \/ \E w \in Workers : op[w].kind = "revoke" /\ op[w].peer \in {p, Everybody}
                        \/ file.grants[p] = 1 /\ Tick
                        \/ WebStarts
        OBVIOUS
    <2>1. (\E w \in Workers : Write(w)) \/ WebStarts \/ Tick
        BY <1>1, WhoChanges
    <2>2. ASSUME NEW w \in Workers, Write(w)
          PROVE  op[w].kind = "revoke" /\ op[w].peer \in {p, Everybody}
        BY <1>1, <2>2, WriteChanges, TtlAssumption
    <2>3. CASE Tick
        <3>1. file'.grants = Less(file.grants) /\ file.grants \in Grants
            BY <1>1, <2>3 DEF Tick, IInv, TypeOK
        <3> QED
            BY <2>3, <3>1, LessOK
    <2> QED
        BY <2>1, <2>2, <2>3
<1> QED
    BY <1>1, Invariance, PTL DEF Spec, GrantsKept

-----------------------------------------------------------------------------
(* The requests carry out GrantTable: each step of AccessTable is one of   *)
(* its steps, and Write is the moment a request is carried out.            *)

LEMMA InitIsTable == Init => Table!Init
BY DEF Init, Idle, NoGrants, Asked, Table!Init, Table!NoRequest

\* A worker takes up a request, or is done with one.
LEMMA Asking ==
    ASSUME IInv, NEW w \in Workers, NEW o \in Orders, op' = [op EXCEPT ![w] = o]
    PROVE  Asked' = [Asked EXCEPT ![w] = [kind |-> o.kind, peer |-> o.peer]]
BY DEF IInv, TypeOK, Asked

LEMMA DoneAsking ==
    ASSUME IInv, NEW w \in Workers, Done(w)
    PROVE  Asked' = [Asked EXCEPT ![w] = Table!NoRequest]
<1>1. Idle \in Orders /\ Idle.kind = "idle" /\ Idle.peer = Everybody
    BY IdleOK DEF Idle
<1> QED
    BY <1>1, Asking DEF Done, Table!NoRequest

LEMMA AskedOf ==
    ASSUME NEW w \in Workers
    PROVE  /\ Asked[w].kind = op[w].kind /\ Asked[w].peer = op[w].peer
           /\ op[w] = Idle => Asked[w] = Table!NoRequest
BY DEF Asked, Idle, Table!NoRequest

LEMMA WriteCarriesOut ==
    ASSUME IInv, NEW w \in Workers, Write(w)
    PROVE  Table!CarryOut(w) \/ Table!Fail(w)
<1>1. /\ op[w].snap = file.grants
      /\ op[w].kind \in {"authorize", "renew", "revoke"}
    BY DEF Write, IInv, SnapFresh
<1>2. Asked' = [Asked EXCEPT ![w] = Table!NoRequest]
    BY DoneAsking DEF Write
<1>3. CASE op[w].kind = "renew" /\ ~Renewable(w)
    <2>1. file' = file
        BY <1>3 DEF Write
    <2> QED
        BY <1>2, <2>1 DEF Table!Fail
<1>4. CASE op[w].kind = "renew" => Renewable(w)
    <2>1. file'.grants = Outcome(w) /\ file'.there = TRUE
        BY <1>4, OutcomeOK, ReplaceOK DEF Write, Replace, IInv
    <2>2. \/ op[w].kind = "authorize" /\ file'.grants = Table!Authorized(op[w].peer)
          \/ /\ op[w].kind = "renew" /\ file.grants[op[w].peer] > 0
             /\ file'.grants = Table!Authorized(op[w].peer)
          \/ op[w].kind = "revoke" /\ file'.grants = Table!Revoked(op[w].peer)
        <3>1. CASE op[w].kind = "revoke"
            BY <1>1, <2>1, <3>1 DEF Outcome, Table!Revoked
        <3>2. CASE op[w].kind = "authorize"
            BY <1>1, <2>1, <3>2 DEF Outcome, Table!Authorized
        <3>3. CASE op[w].kind = "renew"
            BY <1>1, <1>4, <2>1, <3>3 DEF Outcome, Renewable, Table!Authorized
        <3> QED
            BY <1>1, <3>1, <3>2, <3>3
    <2> QED
        BY <1>2, <2>1, <2>2, AskedOf DEF Table!CarryOut
<1> QED
    BY <1>3, <1>4

\* A request begins with its read, a renewal already with the heartbeat.
LEMMA ReadAsks ==
    ASSUME IInv, NEW w \in Workers, NEW kind \in {"authorize", "renew", "revoke"},
           NEW p \in Peers \cup {Everybody}, Read(w, kind, p)
    PROVE  \/ Table!Ask(w, kind, p) /\ kind # "renew" /\ (kind = "authorize" => p \in Peers)
           \/ UNCHANGED Table!vars
<1> DEFINE o == [kind |-> kind, peer |-> p, step |-> "write", snap |-> file.grants]
<1>1. o \in Orders /\ o.kind = kind /\ o.peer = p
    BY DEF Orders, Kinds, IInv, TypeOK
<1>2. op' = [op EXCEPT ![w] = o] /\ file' = file
    BY DEF Read
<1> HIDE DEF o
<1>3. Asked' = [Asked EXCEPT ![w] = [kind |-> kind, peer |-> p]]
    BY <1>1, <1>2, Asking
<1>4. CASE kind = "renew"
    <2>1. op[w].kind = "renew" /\ op[w].peer = p
        BY <1>4 DEF Read, Takes
    <2>2. Asked' = Asked
        BY <1>3, <1>4, <2>1 DEF Asked
    <2> QED
        BY <1>2, <2>2 DEF Table!vars
<1>5. CASE kind # "renew"
    <2>1. op[w] = Idle /\ (kind = "authorize" => p # Everybody)
        BY <1>5 DEF Read, Takes
    <2> QED
        BY <1>2, <1>3, <1>5, <2>1, AskedOf DEF Table!Ask
<1> QED
    BY <1>4, <1>5

LEMMA HeartbeatAsks ==
    ASSUME IInv, NEW w \in Workers, NEW p \in Peers, Heartbeat(w, p)
    PROVE  Table!Ask(w, "renew", p)
<1> DEFINE o == [Idle EXCEPT !.kind = "renew", !.peer = p]
<1>1. o \in Orders /\ o.kind = "renew" /\ o.peer = p
    BY NoGrantsOK DEF Idle, Orders, Kinds
<1>2. /\ op' = [op EXCEPT ![w] = o] /\ op[w] = Idle
      /\ file' = file /\ file.grants[p] > 0
    BY DEF Heartbeat
<1> HIDE DEF o
<1>3. Asked' = [Asked EXCEPT ![w] = [kind |-> "renew", peer |-> p]]
    BY <1>1, <1>2, Asking
<1>4. Asked[w] = Table!NoRequest
    BY <1>2, AskedOf
<1> QED
    BY <1>2, <1>3, <1>4 DEF Table!Ask

LEMMA RestsOfTable ==
    ASSUME IInv,
           \/ UNCHANGED web
           \/ WebStarts
           \/ Tick
    PROVE  UNCHANGED Table!vars \/ Table!Restart \/ Table!Expire
<1>1. CASE UNCHANGED web
    BY <1>1 DEF web, Asked, Table!vars
<1>2. CASE WebStarts
    <2>1. (file'.there = TRUE /\ file'.grants = NoGrants) \/ file' = file
        BY <1>2, NoGrantsOK, ReplaceOK DEF WebStarts, Replace, IInv
    <2>2. Asked' = [w \in Workers |-> Table!NoRequest]
        BY <1>2 DEF WebStarts, Asked, Idle, Table!NoRequest
    <2> QED
        BY <2>1, <2>2 DEF NoGrants, Table!Restart
<1>3. CASE Tick
    <2>1. file'.there = file.there /\ file'.grants = Less(file.grants) /\ op' = op
        BY <1>3 DEF Tick, IInv, TypeOK
    <2> QED
        BY <2>1 DEF Less, Asked, Table!Expire
<1> QED
    BY <1>1, <1>2, <1>3

LEMMA StepIsTable == IInv /\ [Next]_vars => [Table!Next]_Table!vars
<1> SUFFICES ASSUME IInv, [Next]_vars PROVE [Table!Next]_Table!vars
    OBVIOUS
<1>1. CASE UNCHANGED vars
    BY <1>1, RestsOfTable DEF vars, Table!Next
<1>2. ASSUME NEW w \in Workers, Write(w)
      PROVE  Table!Next
    BY <1>2, WriteCarriesOut DEF Table!Next
<1>3. ASSUME NEW w \in Workers, NEW p \in Peers, Heartbeat(w, p)
      PROVE  Table!Next
    BY <1>3, HeartbeatAsks DEF Table!Next
<1>4. ASSUME NEW w \in Workers, NEW kind \in {"authorize", "renew", "revoke"},
             NEW p \in Peers \cup {Everybody}, Read(w, kind, p)
      PROVE  [Table!Next]_Table!vars
    BY <1>4, ReadAsks DEF Table!Next
<1>5. ASSUME NEW w \in Workers,
             WriteFails(w) \/ \E kind, p : ReadFails(w, kind, p)
      PROVE  Table!Next
    <2>1. Asked' = [Asked EXCEPT ![w] = Table!NoRequest] /\ file' = file
        BY <1>5, DoneAsking DEF ReadFails, WriteFails
    <2> QED
        BY <2>1 DEF Table!Fail, Table!Next
<1>6. ASSUME NEW g \in Relays,
             Connect(g) \/ NoteGone(g) \/ NoteUnchanged(g) \/ NoteChanged(g)
               \/ Parse(g) \/ Assign(g) \/ Decide(g)
      PROVE  UNCHANGED web
    BY <1>6 DEF Connect, NoteGone, NoteUnchanged, NoteChanged, Parse, Assign, Decide
<1>7. CASE WebStarts \/ GatewayStarts \/ Tick
    BY <1>7, RestsOfTable DEF GatewayStarts, Table!Next
<1> QED
    BY <1>1, <1>2, <1>3, <1>4, <1>5, <1>6, <1>7, RestsOfTable DEF Next, Table!Next

\* Every request on the table of grants is carried out at once or not at all,
\* although it reads the table in one step and replaces it in another, while others
\* wait, heartbeats come in and web.py starts again (_ACCESS_LOCK).
THEOREM TableImplemented == Spec => TableKept
<1>1. Spec => Table!Init
    BY InitIsTable DEF Spec
<1> QED
    BY <1>1, Invariance, StepIsTable, PTL DEF Spec, TableKept, Table!Spec

-----------------------------------------------------------------------------
(* What the gateway decides.  The cache agrees with the file on every      *)
(* address that has been calm for longer than the cache is old, unless a   *)
(* thread is between noting the stat and assigning; and who decides has    *)
(* seen to it that the cache is younger than two ticks.                    *)

Loading(g) == relay[g].step \in {"parse", "assign"}

Absent ==
    ~file.there =>
        /\ ~cache.loaded
        /\ \A g \in Relays : relay[g].stat = NoStamp /\ ~Loading(g)

Cached ==
    cache.loaded /\ (\A g \in Relays : ~Loading(g))
        => \A p \in Peers : calm[p] > cache.age => cache.entries[p] = file.grants[p]

Parsed ==
    \A g \in Relays : relay[g].step = "assign"
        => \A p \in Peers : calm[p] > 0 => relay[g].parsed[p] = file.grants[p]

Stirred == \A p \in Peers : calm[p] = 0

\* A thread that saw no file, or no cache, where now there is one, saw it just now.
Noted ==
    file.there => \A g \in Relays :
        /\ relay[g].step = "note" /\ relay[g].stat = NoStamp => Stirred
        /\ Loading(g) \/ relay[g].step = "decide" => (cache.loaded /\ cache.age < 2) \/ Stirred

Verdict == Absent /\ Cached /\ Parsed /\ Noted
LEMMA InitVerdict == Init => Verdict
BY RestingOK DEF Init, Verdict, Absent, Cached, Parsed, Noted, Loading, Resting

LEMMA SameKeepsVerdict ==
    ASSUME Verdict, UNCHANGED <<file, gateway, calm>>
    PROVE  Verdict'
BY DEF gateway, Verdict, Absent, Cached, Parsed, Noted, Loading, Stirred

\* A new version of the file: who is calm has the grant of the old one.
LEMMA ReplaceKeepsVerdict ==
    ASSUME TypeOK, Verdict, NEW grants \in Grants, Replace(grants), UNCHANGED gateway
    PROVE  Verdict'
<1>1. file'.there /\ file'.grants = grants
    BY DEF Replace
<1>2. \A p \in Peers :
        \/ file.there /\ grants[p] = file.grants[p] /\ calm'[p] = calm[p]
        \/ calm'[p] = 0
    BY DEF Replace
<1>3. cache.age \in 0 .. 2 /\ calm \in [Peers -> 0 .. 2]
    BY DEF TypeOK
<1>4. ~file.there => Stirred'
    BY <1>2 DEF Stirred
<1>5. Stirred => Stirred'
    BY <1>2 DEF Stirred
<1>6. Absent'
    BY <1>1 DEF Absent
<1>7. Cached'
    BY <1>1, <1>2, <1>3 DEF gateway, Verdict, Cached, Loading
<1>8. Parsed'
    BY <1>1, <1>2 DEF gateway, Verdict, Parsed
<1>9. Noted'
    BY <1>4, <1>5 DEF gateway, Verdict, Noted, Loading
<1> QED
    BY <1>6, <1>7, <1>8, <1>9 DEF Verdict

\* One thread goes on.
LEMMA GoesOn ==
    ASSUME TypeOK, NEW g \in Relays, NEW step \in Steps, Goes(g, step)
    PROVE  /\ relay'[g].step = step /\ relay'[g].stat = NoStamp
           /\ \A h \in Relays \ {g} : relay'[h] = relay[h]
           /\ \A h \in Relays \ {g} : Loading(h)' <=> Loading(h)
BY DEF Goes, Resting, TypeOK, Loading

LEMMA RelayKeepsVerdict ==
    ASSUME TypeOK, Verdict, NEW g \in Relays,
           Connect(g) \/ NoteGone(g) \/ NoteUnchanged(g) \/ NoteChanged(g)
             \/ Parse(g) \/ Assign(g) \/ Decide(g)
    PROVE  Verdict'
<1> USE NamesAssumption
<1>1. /\ cache.age \in 0 .. 2 /\ calm \in [Peers -> 0 .. 2]
      /\ relay \in [Relays -> [step : Steps, stat : Stamps \cup {NoStamp}, parsed : Grants]]
      /\ cache \in [loaded : BOOLEAN, entries : Grants, stamp : Stamps \cup {NoStamp}, age : 0 .. 2]
      /\ file.stamp \in Stamps
    BY DEF TypeOK
<1>2. {"idle", "note", "parse", "assign", "decide"} \subseteq Steps
    BY DEF Steps
<1>3. CASE Connect(g)
    <2>1. /\ relay[g].step = "idle" /\ UNCHANGED <<file, cache, calm>>
          /\ relay'[g].step = "note" /\ relay'[g].parsed = relay[g].parsed
          /\ relay'[g].stat = IF file.there THEN file.stamp ELSE NoStamp
          /\ \A h \in Relays \ {g} : relay'[h] = relay[h]
        BY <1>1, <1>3 DEF Connect, Resting, web
    <2>2. \A h \in Relays : Loading(h)' <=> Loading(h)
        BY <2>1 DEF Loading
    <2>3. file.there => relay'[g].stat # NoStamp
        BY <1>1, <2>1
    <2> QED
        BY <2>1, <2>2, <2>3 DEF Verdict, Absent, Cached, Parsed, Noted, Stirred
<1>4. CASE NoteGone(g)
    <2>1. /\ Goes(g, "decide") /\ UNCHANGED <<file, calm>> /\ ~cache'.loaded
          /\ relay[g].step = "note" /\ relay[g].stat = NoStamp
        BY <1>4 DEF NoteGone, web
    <2>2. /\ relay'[g].step = "decide" /\ relay'[g].stat = NoStamp
          /\ \A h \in Relays \ {g} : relay'[h] = relay[h] /\ (Loading(h)' <=> Loading(h))
          /\ ~Loading(g)'
        BY <1>2, <2>1, GoesOn DEF Loading
    <2>3. file.there => Stirred
        BY <2>1 DEF Verdict, Noted
    <2> QED
        BY <2>1, <2>2, <2>3 DEF Verdict, Absent, Cached, Parsed, Noted, Stirred
<1>5. CASE NoteUnchanged(g)
    <2>1. /\ Goes(g, "decide") /\ UNCHANGED <<file, cache, calm>>
          /\ relay[g].step = "note" /\ cache.loaded /\ cache.age < 2
        BY <1>5 DEF NoteUnchanged, Unchanged, Recent, web
    <2>2. /\ relay'[g].step = "decide" /\ relay'[g].stat = NoStamp
          /\ \A h \in Relays \ {g} : relay'[h] = relay[h] /\ (Loading(h)' <=> Loading(h))
          /\ ~Loading(g)' /\ ~Loading(g)
        BY <1>2, <2>1, GoesOn DEF Loading
    <2> QED
        BY <2>1, <2>2 DEF Verdict, Absent, Cached, Parsed, Noted, Stirred
<1>6. CASE NoteChanged(g)
    <2>1. /\ Goes(g, "parse") /\ UNCHANGED <<file, calm>>
          /\ cache'.loaded /\ cache'.age = 0
          /\ relay[g].step = "note" /\ relay[g].stat # NoStamp
        BY <1>1, <1>6 DEF NoteChanged, web
    <2>2. /\ relay'[g].step = "parse" /\ relay'[g].stat = NoStamp
          /\ \A h \in Relays \ {g} : relay'[h] = relay[h] /\ (Loading(h)' <=> Loading(h))
          /\ Loading(g)'
        BY <1>2, <2>1, GoesOn DEF Loading
    <2>3. file.there
        BY <2>1 DEF Verdict, Absent
    <2> QED
        BY <2>1, <2>2, <2>3 DEF Verdict, Absent, Cached, Parsed, Noted, Stirred
<1>7. CASE Parse(g)
    <2>1. /\ UNCHANGED <<file, cache>> /\ relay[g].step = "parse"
          /\ relay'[g].step = "assign" /\ relay'[g].stat = relay[g].stat
          /\ \A h \in Relays \ {g} : relay'[h] = relay[h]
          /\ \/ relay'[g].parsed = file.grants /\ UNCHANGED calm
             \/ calm' = [p \in Peers |-> 0]
        BY <1>1, <1>7 DEF Parse, web
    <2>2. \A h \in Relays : Loading(h)' <=> Loading(h)
        BY <2>1 DEF Loading
    <2>3. file.there
        BY <2>1 DEF Verdict, Absent, Loading
    <2>4. Absent' /\ Cached'
        BY <1>1, <2>1, <2>2, <2>3 DEF Absent, Cached, Loading
    <2>5. Parsed'
        BY <2>1 DEF Verdict, Parsed
    <2>6. Stirred => Stirred'
        BY <2>1 DEF Stirred
    <2>7. Noted'
        BY <2>1, <2>2, <2>3, <2>6 DEF Verdict, Noted, Loading
    <2> QED
        BY <2>4, <2>5, <2>7 DEF Verdict
<1>8. CASE Assign(g)
    <2>1. /\ Goes(g, "decide") /\ UNCHANGED <<file, calm>>
          /\ cache'.loaded = cache.loaded /\ cache'.age = cache.age
          /\ cache'.entries = relay[g].parsed
          /\ relay[g].step = "assign"
        BY <1>1, <1>8 DEF Assign, web
    <2>2. /\ relay'[g].step = "decide" /\ relay'[g].stat = NoStamp
          /\ \A h \in Relays \ {g} : relay'[h] = relay[h] /\ (Loading(h)' <=> Loading(h))
          /\ ~Loading(g)' /\ Loading(g)
        BY <1>2, <2>1, GoesOn DEF Loading
    <2>3. \A p \in Peers : calm[p] > cache.age => relay[g].parsed[p] = file.grants[p]
        BY <1>1, <2>1 DEF Verdict, Parsed
    <2> QED
        BY <2>1, <2>2, <2>3 DEF Verdict, Absent, Cached, Parsed, Noted, Stirred
<1>9. CASE Decide(g)
    <2>1. /\ Goes(g, "idle") /\ UNCHANGED <<file, cache, calm>> /\ relay[g].step = "decide"
        BY <1>9 DEF Decide, web
    <2>2. /\ relay'[g].step = "idle" /\ relay'[g].stat = NoStamp
          /\ \A h \in Relays \ {g} : relay'[h] = relay[h] /\ (Loading(h)' <=> Loading(h))
          /\ ~Loading(g)' /\ ~Loading(g)
        BY <1>2, <2>1, GoesOn DEF Loading
    <2> QED
        BY <2>1, <2>2 DEF Verdict, Absent, Cached, Parsed, Noted, Stirred
<1> QED
    BY <1>3, <1>4, <1>5, <1>6, <1>7, <1>8, <1>9

LEMMA GatewayStartsKeepsVerdict ==
    ASSUME Verdict, GatewayStarts
    PROVE  Verdict'
<1>1. /\ \A g \in Relays : relay'[g].step = "idle" /\ relay'[g].stat = NoStamp
      /\ UNCHANGED <<file, calm>>
      /\ cache'.loaded = file.there /\ cache'.entries = file.grants
    BY DEF GatewayStarts, Resting, web
<1> QED
    BY <1>1 DEF Verdict, Absent, Cached, Parsed, Noted, Loading

LEMMA TickKeepsVerdict ==
    ASSUME TypeOK, Verdict, Tick
    PROVE  Verdict'
<1>1. /\ \A g \in Relays : relay'[g] = Resting /\ relay[g] = Resting
      /\ Resting.step = "idle" /\ Resting.stat = NoStamp
    BY DEF Tick, Resting
<1>2. /\ file'.there = file.there /\ file'.grants = Less(file.grants)
      /\ cache'.loaded = cache.loaded /\ cache'.entries = Less(cache.entries)
      /\ cache'.age = IF cache.age < 2 THEN cache.age + 1 ELSE cache.age
      /\ calm' = [p \in Peers |-> IF calm[p] < 2 THEN calm[p] + 1 ELSE 2]
    BY DEF Tick, TypeOK
<1>3. \A g \in Relays : ~Loading(g) /\ ~Loading(g)'
    BY <1>1 DEF Loading
<1>4. Absent'
    BY <1>1, <1>2, <1>3 DEF Verdict, Absent
<1>5. Cached'
    <2> SUFFICES ASSUME cache.loaded, NEW p \in Peers, calm'[p] > cache'.age
                 PROVE  Less(cache.entries)[p] = Less(file.grants)[p]
        BY <1>2 DEF Cached
    <2>1. calm[p] > cache.age
        BY <1>2 DEF TypeOK
    <2>2. cache.entries[p] = file.grants[p]
        BY <1>3, <2>1 DEF Verdict, Cached
    <2> QED
        BY <2>2 DEF Less
<1>6. Parsed' /\ Noted'
    BY <1>1, <1>3 DEF Parsed, Noted
<1> QED
    BY <1>4, <1>5, <1>6 DEF Verdict

LEMMA NextVerdict == IInv /\ Verdict /\ [Next]_vars => Verdict'
<1> SUFFICES ASSUME IInv, Verdict, [Next]_vars PROVE Verdict'
    OBVIOUS
<1>1. TypeOK
    BY DEF IInv
<1>2. CASE UNCHANGED vars
    BY <1>2, SameKeepsVerdict DEF vars, web
<1>3. ASSUME NEW w \in Workers, NEW kind, NEW p, ReadFails(w, kind, p) \/ Read(w, kind, p)
      PROVE  Verdict'
    BY <1>3, SameKeepsVerdict DEF ReadFails, Read
<1>7. ASSUME NEW w \in Workers, WriteFails(w)
      PROVE  Verdict'
    BY <1>7, SameKeepsVerdict DEF WriteFails
<1>4. ASSUME NEW w \in Workers, NEW p \in Peers, Heartbeat(w, p)
      PROVE  Verdict'
    BY <1>4, SameKeepsVerdict DEF Heartbeat
<1>5. ASSUME NEW w \in Workers, Write(w)
      PROVE  Verdict'
    <2>1. UNCHANGED gateway /\ (UNCHANGED <<file, calm>> \/ Replace(Outcome(w)))
        BY <1>5 DEF Write
    <2> QED
        BY <1>1, <2>1, OutcomeOK, ReplaceKeepsVerdict, SameKeepsVerdict
<1>6. CASE WebStarts
    BY <1>1, <1>6, NoGrantsOK, ReplaceKeepsVerdict, SameKeepsVerdict DEF WebStarts
<1> QED
    BY <1>1, <1>2, <1>3, <1>4, <1>5, <1>6, <1>7, RelayKeepsVerdict, GatewayStartsKeepsVerdict,
       TickKeepsVerdict DEF Next

\* Unless a thread is reloading, a decision agrees with what the file has said for
\* more than a reload interval, although stat() may not tell two versions apart
\* and threads share the cache without a lock (_refresh, allows).
THEOREM VerdictSettles == Spec => []SettledVerdict
<1>1. IInv /\ Verdict => SettledVerdict
    <2> SUFFICES ASSUME IInv, Verdict, NEW g \in Relays, NEW p \in Peers,
                        relay[g].step = "decide", \A h \in Relays : ~Loading(h), calm[p] = 2
                 PROVE  Admits(p) <=> Live(p)
        BY DEF SettledVerdict, Agrees, Loading
    <2>1. CASE ~file.there
        BY <2>1 DEF Verdict, Absent, Admits, Live
    <2>2. CASE file.there
        <3>1. cache.loaded /\ cache.age < 2
            BY <2>2 DEF Verdict, Noted, Stirred
        <3>2. cache.entries[p] = file.grants[p]
            BY <3>1 DEF Verdict, Cached, IInv, TypeOK
        <3> QED
            BY <2>2, <3>1, <3>2 DEF Admits, Live
    <2> QED
        BY <2>1, <2>2
<1>2. Spec => []Verdict
    BY InitVerdict, Invariance, NextVerdict, PTL DEF Spec
<1> QED
    BY <1>1, <1>2, Invariance, PTL
=============================================================================
