-------------------------- MODULE WaitQueue_proofs --------------------------
(***************************************************************************)
(* Proofs about WaitQueue, for any finite set of clients, any set of       *)
(* devices, any bound of the lists and any environment.                    *)
(*                                                                         *)
(* The inductive invariant IInv joins three facts that need one another:   *)
(* a wakeup names First(l), which is a client only if l is a list with a   *)
(* first element; a list stays within its bound only if cutting it removes *)
(* exactly one client, which again needs the order.                        *)
(***************************************************************************)
EXTENDS WaitQueueProps, FiniteSetTheorems, WellFoundedInduction, TLAPS

-----------------------------------------------------------------------------
(* The operations on a waiting list yield lists without duplicates, in one *)
(* order, of bounded length.                                               *)

\* The empty list is a list.
LEMMA EmptyIsLine ==
    ASSUME NEW C
    PROVE  EmptyLine \in Lines(C) /\ IsLine(EmptyLine)
BY DEF EmptyLine, Lines, IsLine

\* Filtering a list yields a list (the list comprehensions of queue_remove,
\* queue_drop_stale_clients and cleanup_client_queue_and_notify).
LEMMA LeaveIsLine ==
    ASSUME NEW C, NEW l \in Lines(C), IsLine(l), NEW S
    PROVE  /\ Leave(l, S) \in Lines(C)
           /\ IsLine(Leave(l, S))
<1>1. Leave(l, S) \in Lines(C)
    BY DEF Leave, Lines
<1>2. \A x, y \in Leave(l, S).who : Behind(Leave(l, S), x, y) <=> Behind(l, x, y)
    BY DEF Leave, Behind
<1>3. \A p \in Leave(l, S).before :
        p[1] \in Leave(l, S).who /\ p[2] \in Leave(l, S).who
    BY DEF Leave, IsLine
<1>4. Leave(l, S).who \subseteq l.who
    BY DEF Leave
<1> QED
    BY <1>1, <1>2, <1>3, <1>4 DEF IsLine

\* Appending a client that is taken out first yields a list (queue_append).
LEMMA JoinIsLine ==
    ASSUME NEW C, NEW l \in Lines(C), IsLine(l), NEW x \in C
    PROVE  /\ JoinAtTail(l, x) \in Lines(C)
           /\ IsLine(JoinAtTail(l, x))
<1> DEFINE r == Leave(l, {x})
           j == JoinAtTail(l, x)
<1>1. r \in Lines(C) /\ IsLine(r) /\ x \notin r.who
    BY LeaveIsLine DEF Leave
<1>2. j = [who |-> r.who \cup {x}, before |-> r.before \cup (r.who \X {x})]
    BY DEF JoinAtTail
<1> HIDE DEF r, j
<1>3. j \in Lines(C)
    BY <1>1, <1>2 DEF Lines
<1>4. \A p \in j.before : p[1] \in j.who /\ p[2] \in j.who
    BY <1>1, <1>2 DEF IsLine
<1>5. \A y, z \in j.who :
        Behind(j, y, z) <=> \/ y \in r.who /\ z \in r.who /\ Behind(r, y, z)
                            \/ y \in r.who /\ z = x
    BY <1>1, <1>2 DEF Behind, IsLine
<1>6. j.who = r.who \cup {x}
    BY <1>2
<1>7. IsLine(j)
    BY <1>1, <1>4, <1>5, <1>6 DEF IsLine
<1> QED
    BY <1>3, <1>7 DEF j

\* A list that is not empty has a first element: inclusion of the sets of
\* predecessors is well founded because the list is finite.
LEMMA FirstExists ==
    ASSUME NEW l, IsLine(l), IsFiniteSet(l.who), l.who # {}
    PROVE  \E x \in l.who : IsFirst(l, x)
<1> DEFINE pred(x) == {y \in l.who : Behind(l, y, x)}
           preds == {pred(x) : x \in l.who}
<1>1. \A x : pred(x) \in SUBSET l.who /\ IsFiniteSet(pred(x))
    BY FS_Subset
<1>2. preds \subseteq FiniteSubsetsOf(l.who) /\ preds # {}
    BY <1>1 DEF FiniteSubsetsOf
<1>3. PICK p \in preds : \A q \in preds : <<q, p>> \notin StrictSubsetOrdering(l.who)
    <2> HIDE DEF preds
    <2> QED BY <1>2, FS_StrictSubsetOrderingWellFounded, WFMin
<1>4. PICK x \in l.who : p = pred(x)
    BY <1>3
<1>5. ASSUME NEW y \in l.who, Behind(l, y, x)
      PROVE  FALSE
    <2>1. pred(y) \subseteq pred(x) /\ y \in pred(x) /\ y \notin pred(y)
        BY <1>4, <1>5 DEF IsLine
    <2>2. <<pred(y), pred(x)>> \in StrictSubsetOrdering(l.who)
        BY <1>1, <2>1 DEF StrictSubsetOrdering
    <2> QED
        BY <1>3, <1>4, <1>5, <2>2
<1> QED
    BY <1>4, <1>5 DEF IsFirst

\* There is no second first element, so First(l) is the client at the head.
LEMMA FirstUnique ==
    ASSUME NEW l, IsLine(l), NEW x, IsFirst(l, x)
    PROVE  /\ \A y : IsFirst(l, y) => y = x
           /\ First(l) = x
           /\ x \in l.who
<1>1. \A y : IsFirst(l, y) => y = x
    BY DEF IsLine, IsFirst
<1>2. x \in l.who
    BY DEF IsFirst
<1> QED
    BY <1>1, <1>2 DEF First

\* Cutting a list yields a list, of at most max elements when one append can
\* have exceeded max by one (the cap of queue_append).
LEMMA CappedIsLine ==
    ASSUME NEW C, NEW l \in Lines(C), IsLine(l), IsFiniteSet(C),
           NEW max \in Nat, Cardinality(l.who) <= max + 1
    PROVE  /\ Capped(l, max) \in Lines(C)
           /\ IsLine(Capped(l, max))
           /\ Cardinality(Capped(l, max).who) <= max
<1>1. l.who \in SUBSET C /\ IsFiniteSet(l.who) /\ Cardinality(l.who) \in Nat
    <2>1. l.who \in SUBSET C
        BY DEF Lines
    <2> QED BY <2>1, FS_Subset, FS_CardinalityType
<1>2. CASE Cardinality(l.who) <= max
    BY <1>1, <1>2 DEF Capped
<1>3. CASE Cardinality(l.who) > max
    <2>1. l.who # {}
        BY <1>1, <1>3, FS_EmptySet
    <2>2. PICK x \in l.who : IsFirst(l, x)
        BY <1>1, <2>1, FirstExists
    <2>3. {y \in l.who : IsFirst(l, y)} = {x}
        BY <2>2, FirstUnique
    <2>4. Capped(l, max) = Leave(l, {x})
        BY <1>3, <2>3 DEF Capped
    <2>5. Leave(l, {x}).who = l.who \ {x}
        BY DEF Leave
    <2>6. Cardinality(l.who \ {x}) = Cardinality(l.who) - 1
        BY <1>1, <2>2, FS_RemoveElement
    <2>7. Leave(l, {x}) \in Lines(C) /\ IsLine(Leave(l, {x}))
        BY LeaveIsLine
    <2>8. Cardinality(Capped(l, max).who) <= max
        <3>1. Cardinality(Capped(l, max).who) = Cardinality(l.who) - 1
            BY <2>4, <2>5, <2>6
        <3> QED BY <1>1, <3>1
    <2> QED
        BY <2>4, <2>7, <2>8
<1> QED
    BY <1>1, <1>2, <1>3

\* Lengths: leaving never makes a list longer, joining adds at most one.
LEMMA LeaveLength ==
    ASSUME NEW C, NEW l \in Lines(C), IsFiniteSet(C), NEW S
    PROVE  /\ Cardinality(Leave(l, S).who) \in Nat
           /\ Cardinality(l.who) \in Nat
           /\ Cardinality(Leave(l, S).who) <= Cardinality(l.who)
<1>1. l.who \in SUBSET C /\ IsFiniteSet(l.who)
    <2>1. l.who \in SUBSET C
        BY DEF Lines
    <2> QED BY <2>1, FS_Subset
<1>2. Leave(l, S).who \in SUBSET l.who
    BY DEF Leave
<1>3. /\ IsFiniteSet(Leave(l, S).who)
      /\ Cardinality(Leave(l, S).who) <= Cardinality(l.who)
    BY <1>1, <1>2, FS_Subset
<1> QED
    BY <1>1, <1>3, FS_CardinalityType

LEMMA JoinLength ==
    ASSUME NEW C, NEW l \in Lines(C), IsFiniteSet(C), NEW x \in C
    PROVE  Cardinality(JoinAtTail(l, x).who) <= Cardinality(l.who) + 1
<1> DEFINE r == Leave(l, {x}).who
<1>1. /\ Cardinality(r) \in Nat /\ Cardinality(l.who) \in Nat
      /\ Cardinality(r) <= Cardinality(l.who)
    BY LeaveLength
<1>2. IsFiniteSet(r) /\ x \notin r
    <2>1. r \in SUBSET C
        BY DEF Leave, Lines
    <2> QED BY <2>1, FS_Subset DEF Leave
<1>3. JoinAtTail(l, x).who = r \cup {x}
    BY DEF JoinAtTail
<1>4. Cardinality(r \cup {x}) = Cardinality(r) + 1
    <2> HIDE DEF r
    <2> QED BY <1>2, FS_AddElement
<1> HIDE DEF r
<1> QED
    BY <1>1, <1>3, <1>4

-----------------------------------------------------------------------------
(* The lists of the server, its memo and the mail.                         *)

GoodLine(l) ==
    /\ l \in Lines(Clients)
    /\ IsLine(l)
    /\ Cardinality(l.who) <= MaxQueue

GoodLines(q) == q \in [Busids -> Lines(Clients)] /\ \A b \in Busids : GoodLine(q[b])

MemoFits(m, q) ==
    /\ m \in [Busids -> Holders]
    /\ \A b \in Busids : m[b] # NoClient => IsFirst(q[b], m[b])

MailOK(ml) == ml \in [Clients -> Mail]

\* TypeOK without the lists, the memo and the mailboxes.
RestOK ==
    /\ registered \subseteq Clients
    /\ claims \in [Clients -> SUBSET Busids]
    /\ shared \subseteq Busids
    /\ session \in [Busids -> Holders]
    /\ mode \in [Clients -> {"up", "leaving", "off"}]
    /\ wants \in [Clients -> SUBSET Busids]
    /\ net \in [Clients -> {Idle} \cup Sensible \cup [kind : {"reply"}, notices : Mail]]
    /\ bye \in [Clients -> [sent : BOOLEAN, busids : SUBSET Busids]]

\* The first half of MemoNamesFirst.
MemoInLine == \A b \in Busids : notified[b] # NoClient => IsFirst(queue[b], notified[b])

IInv == TypeOK /\ LinesOrdered /\ MemoInLine

LEMMA IInvParts ==
    IInv <=> GoodLines(queue) /\ MemoFits(notified, queue) /\ MailOK(mailbox) /\ RestOK
BY DEF IInv, TypeOK, LinesOrdered, MemoInLine, GoodLines, GoodLine, MemoFits, MailOK, RestOK

LEMMA IInvPartsPrimed ==
    GoodLines(queue') /\ MemoFits(notified', queue') /\ MailOK(mailbox') /\ RestOK' => IInv'
BY DEF IInv, TypeOK, LinesOrdered, MemoInLine, GoodLines, GoodLine, MemoFits, MailOK, RestOK

-----------------------------------------------------------------------------
(* The helpers of the handlers.                                            *)

LEMMA EmptyIsGood == GoodLine(EmptyLine)
<1>1. Cardinality(EmptyLine.who) = 0
    BY FS_EmptySet DEF EmptyLine
<1> QED
    BY <1>1, EmptyIsLine, MaxQueueAssumption DEF GoodLine

\* Taking clients out of a list keeps it good.
LEMMA LeaveIsGood ==
    ASSUME NEW l, GoodLine(l), NEW S
    PROVE  GoodLine(Leave(l, S))
<1>1. Leave(l, S) \in Lines(Clients) /\ IsLine(Leave(l, S))
    BY LeaveIsLine DEF GoodLine
<1>2. /\ Cardinality(Leave(l, S).who) \in Nat
      /\ Cardinality(l.who) \in Nat
      /\ Cardinality(Leave(l, S).who) <= Cardinality(l.who)
    BY LeaveLength, ClientsAssumption DEF GoodLine
<1>3. Cardinality(l.who) <= MaxQueue
    BY DEF GoodLine
<1> QED
    BY <1>1, <1>2, <1>3, MaxQueueAssumption DEF GoodLine

\* queue_append keeps a list good.
LEMMA AppendIsGood ==
    ASSUME NEW l, GoodLine(l), NEW c \in Clients
    PROVE  GoodLine(Capped(JoinAtTail(l, c), MaxQueue))
<1> DEFINE j == JoinAtTail(l, c)
<1>1. j \in Lines(Clients) /\ IsLine(j)
    BY JoinIsLine DEF GoodLine
<1>2. Cardinality(j.who) <= Cardinality(l.who) + 1
    BY JoinLength, ClientsAssumption DEF GoodLine
<1>3. Cardinality(j.who) \in Nat /\ Cardinality(l.who) \in Nat
    BY <1>1, LeaveLength, ClientsAssumption DEF GoodLine
<1>4. Cardinality(l.who) <= MaxQueue
    BY DEF GoodLine
<1> HIDE DEF j
<1>5. Cardinality(j.who) <= MaxQueue + 1 /\ MaxQueue \in Nat
    BY <1>2, <1>3, <1>4, MaxQueueAssumption
<1> QED
    BY <1>1, <1>5, CappedIsLine, ClientsAssumption DEF GoodLine, j

\* Whatever the memo was, KeepAll fits it to the lists.
LEMMA KeepAllFits ==
    ASSUME NEW m \in [Busids -> Holders], NEW q
    PROVE  MemoFits(KeepAll(m, q), q)
BY DEF KeepAll, Keep, MemoFits, Holders

\* Waking first waiters keeps the memo fitted.
LEMMA MemoOfFits ==
    ASSUME NEW q, GoodLines(q), NEW m, MemoFits(m, q),
           NEW W, \A b \in W : b \in Busids => \E x \in q[b].who : IsFirst(q[b], x)
    PROVE  MemoFits(MemoOf(W, q, m), q)
<1>1. ASSUME NEW b \in Busids, b \in W
      PROVE  First(q[b]) \in Clients /\ IsFirst(q[b], First(q[b]))
    <2>1. PICK x \in q[b].who : IsFirst(q[b], x)
        BY <1>1
    <2>2. First(q[b]) = x
        BY <2>1, FirstUnique DEF GoodLines, GoodLine
    <2>3. x \in Clients
        BY <2>1 DEF GoodLines, Lines
    <2> QED BY <2>1, <2>2, <2>3
<1>2. MemoOf(W, q, m) \in [Busids -> Holders]
    BY <1>1 DEF MemoOf, MemoFits, Holders
<1>3. \A b \in Busids : MemoOf(W, q, m)[b] # NoClient => IsFirst(q[b], MemoOf(W, q, m)[b])
    BY <1>1 DEF MemoOf, MemoFits
<1> QED
    BY <1>2, <1>3 DEF MemoFits

\* queue_notify_head_if_free wakes only where somebody waits.
LEMMA WakesWaiters ==
    ASSUME NEW B, NEW q, NEW m, NEW sh, NEW held
    PROVE  \A b \in Wakes(B, q, m, sh, held) : \E x \in q[b].who : IsFirst(q[b], x)
BY DEF Wakes

LEMMA MailOfOK ==
    ASSUME NEW W, NEW q, NEW ml, MailOK(ml)
    PROVE  MailOK(MailOf(W, q, ml))
BY DEF MailOf, MailOK, Mail, Notices

LEMMA MailEmptied ==
    ASSUME NEW ml, MailOK(ml), NEW c \in Clients
    PROVE  MailOK([ml EXCEPT ![c] = NoMail])
BY DEF MailOK, Mail, Notices, NoMail

LEMMA DroppedMailOK ==
    ASSUME MailOK(mailbox), NEW b \in Busids
    PROVE  MailOK(DroppedMail(b, mailbox))
BY DEF MailOK, Mail, Notices, DroppedMail

-----------------------------------------------------------------------------
(* The invariant.                                                          *)

LEMMA InitIInv == Init => IInv
<1> SUFFICES ASSUME Init PROVE IInv
    OBVIOUS
<1>1. GoodLines(queue)
    BY EmptyIsGood, EmptyIsLine DEF Init, GoodLines
<1>2. MemoFits(notified, queue)
    BY DEF Init, MemoFits, Holders
<1>3. MailOK(mailbox)
    BY DEF Init, MailOK, Mail, NoMail, Notices
<1>4. RestOK
    BY DEF Init, RestOK, Holders, NoBye
<1> QED
    BY <1>1, <1>2, <1>3, <1>4, IInvParts

ClientStep(c) ==
    \/ SendHeartbeat(c) \/ LoseExchange(c) \/ ReceiveReply(c)
    \/ Quit(c) \/ Exit(c) \/ Crash(c) \/ Start(c)
    \/ \E b \in Busids :
        \/ JoinQueue(c, b) \/ LeaveQueue(c, b) \/ Connect(c, b)
        \/ BackgroundAttach(c, b) \/ Detach(c, b)

\* The steps of a client touch neither lists, memo nor mailboxes.
LEMMA ClientStepKeepsIInv ==
    ASSUME IInv, NEW c \in Clients, ClientStep(c)
    PROVE  IInv'
<1>1. GoodLines(queue) /\ MemoFits(notified, queue) /\ MailOK(mailbox) /\ RestOK
    BY IInvParts
<1>2. UNCHANGED <<queue, notified, mailbox>>
    BY DEF ClientStep, SendHeartbeat, LoseExchange, ReceiveReply, Quit, Exit, Crash,
           Start, JoinQueue, LeaveQueue, Connect, BackgroundAttach, Detach,
           server, kernel, clients
<1>3. GoodLines(queue') /\ MemoFits(notified', queue') /\ MailOK(mailbox')
    BY <1>1, <1>2
<1>4. RestOK'
    <2>1. CASE SendHeartbeat(c)
        <3>1. PICK out \in SUBSET Busids :
                /\ out \cap wants[c] = {}
                /\ net' = [net EXCEPT ![c] = Request(Attached(c), wants[c], out)]
            BY <2>1 DEF SendHeartbeat
        <3>2. Request(Attached(c), wants[c], out) \in Sensible
            BY <1>1, <3>1 DEF RestOK, Request, Requests, Sensible, Attached
        <3> QED
            BY <1>1, <2>1, <3>1, <3>2 DEF RestOK, SendHeartbeat, server, kernel
    <2>2. CASE LoseExchange(c)
        BY <1>1, <2>2 DEF RestOK, LoseExchange, server, kernel
    <2>3. CASE ReceiveReply(c)
        <3>1. UNCHANGED <<registered, claims, shared, mode, bye>>
            BY <2>3 DEF ReceiveReply, server
        <3>2. session' \in [Busids -> Holders]
            <4>1. \/ session' = session
                  \/ \E won : session' = [b \in Busids |-> IF b \in won THEN c ELSE session[b]]
                BY <2>3 DEF ReceiveReply
            <4> QED
                BY <1>1, <4>1 DEF RestOK, Holders
        <3>3. wants' \in [Clients -> SUBSET Busids]
            <4>1. wants' = wants \/ \E S : wants' = [wants EXCEPT ![c] = wants[c] \ S]
                BY <2>3 DEF ReceiveReply
            <4> QED
                BY <1>1, <4>1 DEF RestOK
        <3>4. net' = [net EXCEPT ![c] = Idle]
            BY <2>3 DEF ReceiveReply
        <3> QED
            BY <1>1, <3>1, <3>2, <3>3, <3>4 DEF RestOK
    <2>4. CASE Quit(c)
        <3>1. bye' = [bye EXCEPT ![c] = [sent |-> TRUE, busids |-> Attached(c)]]
            BY <2>4 DEF Quit
        <3>2. Attached(c) \in SUBSET Busids
            BY DEF Attached
        <3>3. UNCHANGED <<registered, claims, shared, session, wants, net>>
            BY <2>4 DEF Quit, server, kernel
        <3>4. mode' = [mode EXCEPT ![c] = "leaving"]
            BY <2>4 DEF Quit
        <3> QED
            BY <1>1, <3>1, <3>2, <3>3, <3>4 DEF RestOK
    <2>5. CASE Exit(c)
        BY <1>1, <2>5 DEF RestOK, Exit, server, kernel
    <2>6. CASE Crash(c)
        BY <1>1, <2>6 DEF RestOK, Crash, server, kernel, NoBye
    <2>7. CASE Start(c)
        BY <1>1, <2>7 DEF RestOK, Start, server, kernel
    <2>8. ASSUME NEW b \in Busids, JoinQueue(c, b) \/ LeaveQueue(c, b)
          PROVE  RestOK'
        BY <1>1, <2>8 DEF RestOK, JoinQueue, LeaveQueue, server, kernel
    <2>9. ASSUME NEW b \in Busids,
                 Connect(c, b) \/ BackgroundAttach(c, b) \/ Detach(c, b)
          PROVE  RestOK'
        <3>1. UNCHANGED <<registered, claims, shared, mode, net, bye>>
            BY <2>9 DEF Connect, BackgroundAttach, Detach, server, clients
        <3>2. session' \in [Busids -> Holders]
            BY <1>1, <2>9 DEF RestOK, Connect, BackgroundAttach, Detach, Holders
        <3>3. wants' \in [Clients -> SUBSET Busids]
            BY <1>1, <2>9 DEF RestOK, Connect, BackgroundAttach, Detach, clients
        <3> QED
            BY <1>1, <3>1, <3>2, <3>3 DEF RestOK
    <2> QED
        BY <2>1, <2>2, <2>3, <2>4, <2>5, <2>6, <2>7, <2>8, <2>9 DEF ClientStep
<1> QED
    BY <1>3, <1>4, IInvPartsPrimed

\* Sharing a device or losing a session disturbs no list either.
LEMMA KernelStepKeepsIInv ==
    ASSUME IInv, NEW b \in Busids, EndSession(b) \/ Share(b)
    PROVE  IInv'
<1>1. GoodLines(queue) /\ MemoFits(notified, queue) /\ MailOK(mailbox) /\ RestOK
    BY IInvParts
<1>2. UNCHANGED <<queue, notified, mailbox>>
    BY DEF EndSession, Share, server
<1>3. RestOK'
    BY <1>1 DEF RestOK, EndSession, Share, server, clients, Holders
<1> QED
    BY <1>1, <1>2, <1>3, IInvPartsPrimed

\* Lists out of which clients were taken, one device at a time.
LEMMA LeaveAllIsGood ==
    ASSUME GoodLines(queue), NEW S
    PROVE  GoodLines([b \in Busids |-> Leave(queue[b], S)])
<1>1. \A b \in Busids : GoodLine(Leave(queue[b], S))
    BY LeaveIsGood DEF GoodLines
<1>2. \A b \in Busids : Leave(queue[b], S) \in Lines(Clients)
    BY <1>1 DEF GoodLine
<1> QED
    BY <1>1, <1>2 DEF GoodLines

\* What update_client computes on its way: the lists it appends to, the lists after
\* the appends, and the memo and the wakeups these lead to.
Joins(c) == net[c].enqueue \cap shared

LeftBy(c, b) == IF b \in net[c].busids THEN Leave(queue[b], {c}) ELSE queue[b]

JoinedBy(c, b) ==
    IF b \in Joins(c) THEN Capped(JoinAtTail(LeftBy(c, b), c), MaxQueue) ELSE LeftBy(c, b)

Joined(c) == [b \in Busids |-> JoinedBy(c, b)]

BeatMemo(c) ==
    [b \in Busids |-> IF b \in net[c].busids THEN ForgetNotified(notified[b])
                      ELSE Keep(notified[b], Joined(c)[b])]

BeatTaken(c) ==
    {b \in Busids :
        IsHeld(b, registered \cup {c}, [claims EXCEPT ![c] = net[c].busids], session)}

BeatWakes(c) ==
    Wakes({b \in Joins(c) : IsFirst(Joined(c)[b], c)}, Joined(c), BeatMemo(c), shared,
          BeatTaken(c))

LEMMA BeatComputes ==
    ASSUME NEW c \in Clients, HandleHeartbeat(c)
    PROVE  LET mail == MailOf(BeatWakes(c), Joined(c), mailbox)
               told == MemoOf(BeatWakes(c), Joined(c), BeatMemo(c))
               out  == net[c].dequeue
           IN /\ registered' = registered \cup {c}
              /\ claims' = [claims EXCEPT ![c] = net[c].busids]
              /\ queue' = [b \in Busids |-> IF b \in out THEN Leave(Joined(c)[b], {c})
                                            ELSE Joined(c)[b]]
              /\ notified' = [b \in Busids |-> IF b \in out THEN Keep(told[b], queue'[b])
                                               ELSE told[b]]
              /\ mailbox' = [mail EXCEPT ![c] = NoMail]
              /\ net' = [net EXCEPT ![c] = Reply(mail[c])]
              /\ UNCHANGED <<shared, session, mode, wants, bye>>
BY Zenon DEF HandleHeartbeat, Joined, JoinedBy, LeftBy, Joins, BeatMemo, BeatTaken, BeatWakes, kernel

LEMMA BeatQueue ==
    ASSUME NEW c \in Clients, HandleHeartbeat(c), NEW b \in Busids
    PROVE  queue'[b] = IF b \in net[c].dequeue THEN Leave(Joined(c)[b], {c}) ELSE Joined(c)[b]
<1>1. queue' = [d \in Busids |-> IF d \in net[c].dequeue THEN Leave(Joined(c)[d], {c})
                                  ELSE Joined(c)[d]]
    BY Zenon, BeatComputes
<1> QED
    BY <1>1

\* A heartbeat is a sensible one.
LEMMA BeatRequest ==
    ASSUME IInv, NEW c \in Clients, HandleHeartbeat(c)
    PROVE  /\ net[c].busids \in SUBSET Busids
           /\ net[c].dequeue \in SUBSET Busids
           /\ Joins(c) \in SUBSET Busids
           /\ Joins(c) \cap net[c].dequeue = {}
<1>1. net[c].kind = "request"
    BY Zenon DEF HandleHeartbeat
<1>2. net[c] \in {Idle} \cup Sensible \cup [kind : {"reply"}, notices : Mail]
    BY IInvParts DEF RestOK
<1>3. net[c] \in Sensible
    BY <1>1, <1>2 DEF Idle
<1> QED
    BY <1>3 DEF Sensible, Requests, Request, Joins

\* The lists after update_client's removals and appends are good, and so are those
\* after the removals the client asks for.
LEMMA HeartbeatLines ==
    ASSUME IInv, NEW c \in Clients, HandleHeartbeat(c)
    PROVE  GoodLines(Joined(c)) /\ GoodLines(queue')
<1>1. GoodLines(queue)
    BY IInvParts
<1>2. \A b \in Busids : GoodLine(LeftBy(c, b))
    BY <1>1, LeaveIsGood DEF GoodLines, LeftBy
<1>3. \A b \in Busids : GoodLine(JoinedBy(c, b))
    BY <1>2, AppendIsGood DEF JoinedBy
<1>4. GoodLines(Joined(c))
    <2>1. \A b \in Busids : JoinedBy(c, b) \in Lines(Clients)
        BY <1>3 DEF GoodLine
    <2> QED
        BY <1>3, <2>1 DEF GoodLines, Joined
<1>5. \A b \in Busids : queue'[b] = Joined(c)[b] \/ queue'[b] = Leave(Joined(c)[b], {c})
    BY BeatComputes
<1>6. \A b \in Busids : GoodLine(queue'[b])
    BY <1>4, <1>5, LeaveIsGood DEF GoodLines
<1>7. DOMAIN queue' = Busids /\ queue' = [b \in Busids |-> queue'[b]]
    BY BeatComputes
<1> QED
    BY <1>4, <1>6, <1>7 DEF GoodLines, GoodLine

\* Whom update_client wakes is first in a list it does not take the client out of.
LEMMA BeatWakesJoiner ==
    ASSUME IInv, NEW c \in Clients, HandleHeartbeat(c), NEW b \in BeatWakes(c)
    PROVE  /\ b \in Joins(c) /\ b \in shared /\ b \notin BeatTaken(c) /\ b \in Busids
           /\ IsFirst(Joined(c)[b], c)
           /\ queue'[b] = Joined(c)[b]
<1>1. /\ b \in Joins(c) /\ b \in shared /\ b \notin BeatTaken(c)
      /\ IsFirst(Joined(c)[b], c)
    BY DEF BeatWakes, Wakes
<1>2. b \in Busids /\ b \notin net[c].dequeue
    BY <1>1, BeatRequest
<1> QED
    BY <1>1, <1>2, BeatQueue

\* update_client keeps the invariant: the appended list is cut to its bound,
\* and the memo is fitted to it before the first waiter is woken.
LEMMA HeartbeatKeepsIInv ==
    ASSUME IInv, NEW c \in Clients, HandleHeartbeat(c)
    PROVE  IInv'
<1> DEFINE q    == Joined(c)
           W    == BeatWakes(c)
           mail == MailOf(W, q, mailbox)
           told == MemoOf(W, q, BeatMemo(c))
<1>1. GoodLines(queue) /\ MemoFits(notified, queue) /\ MailOK(mailbox) /\ RestOK
    BY IInvParts
<1>2. GoodLines(q) /\ GoodLines(queue')
    BY HeartbeatLines
<1>3. MemoFits(BeatMemo(c), q)
    BY <1>1 DEF MemoFits, BeatMemo, ForgetNotified, Keep, Holders
<1>4. \A b \in W : \E x \in q[b].who : IsFirst(q[b], x)
    BY WakesWaiters DEF BeatWakes
<1>5. MemoFits(told, q)
    <2> HIDE DEF q, W
    <2> QED BY <1>2, <1>3, <1>4, MemoOfFits
<1>6. MailOK(mail)
    BY <1>1, MailOfOK
<1>7. /\ registered' = registered \cup {c}
      /\ claims' = [claims EXCEPT ![c] = net[c].busids]
      /\ notified' = [b \in Busids |-> IF b \in net[c].dequeue THEN Keep(told[b], queue'[b])
                                       ELSE told[b]]
      /\ mailbox' = [mail EXCEPT ![c] = NoMail]
      /\ net' = [net EXCEPT ![c] = Reply(mail[c])]
      /\ UNCHANGED <<shared, session, mode, wants, bye>>
    BY Zenon, BeatComputes
<1>11. \A b \in Busids : b \notin net[c].dequeue => queue'[b] = q[b]
    BY BeatQueue
<1> HIDE DEF W, mail, told, q
<1>8. MemoFits(notified', queue')
    <2>1. \A b \in Busids : told[b] \in Holders /\ (told[b] # NoClient => IsFirst(q[b], told[b]))
        BY <1>5 DEF MemoFits
    <2>2. \A b \in Busids :
            notified'[b] = IF b \in net[c].dequeue THEN Keep(told[b], queue'[b]) ELSE told[b]
        BY <1>7
    <2>3. \A b \in Busids :
            /\ notified'[b] \in Holders
            /\ notified'[b] # NoClient => IsFirst(queue'[b], notified'[b])
        BY <1>11, <2>1, <2>2 DEF Keep, Holders
    <2>4. notified' \in [Busids -> Holders]
        <3>1. DOMAIN notified' = Busids /\ notified' = [b \in Busids |-> notified'[b]]
            BY <1>7
        <3> HIDE <1>7
        <3> QED BY <2>3, <3>1
    <2> QED
        BY <2>3, <2>4 DEF MemoFits
<1>9. MailOK(mailbox')
    BY <1>6, <1>7, MailEmptied
<1>10. RestOK'
    <2>1. Reply(mail[c]) \in [kind : {"reply"}, notices : Mail]
        BY <1>6 DEF MailOK, Reply
    <2>2. net' \in [Clients -> {Idle} \cup Sensible \cup [kind : {"reply"}, notices : Mail]]
        BY <1>1, <1>7, <2>1 DEF RestOK
    <2>3. registered' \subseteq Clients /\ claims' \in [Clients -> SUBSET Busids]
        BY <1>1, <1>7, BeatRequest DEF RestOK
    <2> QED
        BY <1>1, <1>7, <2>2, <2>3 DEF RestOK
<1> QED
    BY <1>2, <1>8, <1>9, <1>10, IInvPartsPrimed

\* handle_client_goodbye keeps the invariant.
LEMMA GoodbyeKeepsIInv ==
    ASSUME IInv, NEW c \in Clients, HandleGoodbye(c)
    PROVE  IInv'
<1> DEFINE q     == [b \in Busids |-> Leave(queue[b], {c})]
           memo  == KeepAll(notified, q)
           left  == {b \in Busids : c \in queue[b].who}
           taken == {b \in Busids : IsHeld(b, registered', claims', session)}
           W     == Wakes(left \cup bye[c].busids, q, memo, shared, taken)
<1>1. GoodLines(queue) /\ MemoFits(notified, queue) /\ MailOK(mailbox) /\ RestOK
    BY IInvParts
<1>2. GoodLines(q)
    BY <1>1, LeaveAllIsGood
<1>3. MemoFits(memo, q)
    BY <1>1, KeepAllFits DEF MemoFits
<1>4. \A b \in W : \E x \in q[b].who : IsFirst(q[b], x)
    BY WakesWaiters
<1>5. /\ queue' = q
      /\ notified' = MemoOf(W, q, memo)
      /\ mailbox' = MailOf(W, q, [mailbox EXCEPT ![c] = NoMail])
    BY DEF HandleGoodbye
<1>6. MailOK([mailbox EXCEPT ![c] = NoMail])
    BY <1>1, MailEmptied
<1>7. RestOK'
    BY <1>1 DEF HandleGoodbye, RestOK, kernel, NoBye
<1> HIDE DEF W, memo, q
<1>8. MemoFits(notified', q) /\ MailOK(mailbox')
    BY <1>2, <1>3, <1>4, <1>5, <1>6, MemoOfFits, MailOfOK
<1> QED
    BY <1>2, <1>5, <1>7, <1>8, IInvPartsPrimed

\* The administrator's calls keep the invariant.
LEMMA AdminKeepsIInv ==
    ASSUME IInv, NEW b \in Busids,
           \/ Unshare(b) \/ AdminClear(b) \/ Kick(b)
           \/ \E c \in Clients : AdminEnqueue(b, c) \/ AdminDequeue(b, c)
    PROVE  IInv'
<1>1. GoodLines(queue) /\ MemoFits(notified, queue) /\ MailOK(mailbox) /\ RestOK
    BY IInvParts
<1>2. CASE Unshare(b) \/ AdminClear(b)
    <2>1. /\ queue' = [queue EXCEPT ![b] = EmptyLine]
          /\ notified' = [notified EXCEPT ![b] = NoClient]
          /\ mailbox' = DroppedMail(b, mailbox)
        BY <1>2 DEF Unshare, AdminClear
    <2>2. GoodLines(queue')
        BY <1>1, <2>1, EmptyIsGood DEF GoodLines, GoodLine
    <2>3. MemoFits(notified', queue')
        BY <1>1, <2>1 DEF MemoFits, Holders, GoodLines
    <2>4. MailOK(mailbox')
        BY <1>1, <2>1, DroppedMailOK
    <2>5. RestOK'
        BY <1>1, <1>2 DEF Unshare, AdminClear, RestOK, kernel, clients, Holders
    <2> QED
        BY <2>2, <2>3, <2>4, <2>5, IInvPartsPrimed
<1>3. CASE Kick(b)
    <2> DEFINE taken == {d \in Busids : IsHeld(d, registered, claims', session')}
               W     == Wakes({b}, queue, notified, shared, taken)
    <2>1. /\ queue' = queue
          /\ notified' = MemoOf(W, queue, notified)
          /\ mailbox' = MailOf(W, queue, mailbox)
        BY <1>3 DEF Kick
    <2>2. \A d \in W : \E x \in queue[d].who : IsFirst(queue[d], x)
        BY WakesWaiters
    <2>3. RestOK'
        <3>1. claims' \in [Clients -> SUBSET Busids] /\ session' \in [Busids -> Holders]
            BY <1>1, <1>3 DEF Kick, RestOK, Holders
        <3>2. UNCHANGED <<registered, shared, clients>>
            BY <1>3 DEF Kick
        <3> QED
            BY <1>1, <3>1, <3>2 DEF RestOK, clients
    <2> HIDE DEF W
    <2>4. MemoFits(notified', queue') /\ MailOK(mailbox')
        BY <1>1, <2>1, <2>2, MemoOfFits, MailOfOK
    <2> QED
        BY <1>1, <2>1, <2>3, <2>4, IInvPartsPrimed
<1>4. ASSUME NEW c \in Clients, AdminEnqueue(b, c)
      PROVE  IInv'
    <2> DEFINE q     == [queue EXCEPT ![b] = Capped(JoinAtTail(queue[b], c), MaxQueue)]
               memo  == KeepAll(notified, q)
               taken == {d \in Busids : IsHeld(d, registered, claims, session)}
               W     == IF IsFirst(q[b], c) THEN Wakes({b}, q, memo, shared, taken) ELSE {}
    <2>1. GoodLines(q)
        <3>1. GoodLine(Capped(JoinAtTail(queue[b], c), MaxQueue))
            BY <1>1, AppendIsGood DEF GoodLines
        <3> QED
            BY <1>1, <3>1 DEF GoodLines, GoodLine
    <2>2. MemoFits(memo, q)
        BY <1>1, KeepAllFits DEF MemoFits
    <2>3. \A d \in W : \E x \in q[d].who : IsFirst(q[d], x)
        BY WakesWaiters
    <2>4. /\ queue' = q
          /\ notified' = MemoOf(W, q, memo)
          /\ mailbox' = MailOf(W, q, mailbox)
        BY <1>4 DEF AdminEnqueue
    <2>5. RestOK'
        BY <1>1, <1>4 DEF AdminEnqueue, RestOK, kernel, clients
    <2> HIDE DEF W, memo, q
    <2>6. MemoFits(notified', q) /\ MailOK(mailbox')
        BY <1>1, <2>1, <2>2, <2>3, <2>4, MemoOfFits, MailOfOK
    <2> QED
        BY <2>1, <2>4, <2>5, <2>6, IInvPartsPrimed
<1>5. ASSUME NEW c \in Clients, AdminDequeue(b, c)
      PROVE  IInv'
    <2>1. /\ queue' = [queue EXCEPT ![b] = Leave(queue[b], {c})]
          /\ notified' = KeepAll(notified, queue')
          /\ mailbox' = mailbox
        BY <1>5 DEF AdminDequeue
    <2>2. GoodLines(queue')
        <3>1. GoodLine(Leave(queue[b], {c}))
            BY <1>1, LeaveIsGood DEF GoodLines
        <3> QED
            BY <1>1, <2>1, <3>1 DEF GoodLines, GoodLine
    <2>3. MemoFits(notified', queue')
        BY <1>1, <2>1, KeepAllFits DEF MemoFits
    <2>4. RestOK'
        BY <1>1, <1>5 DEF AdminDequeue, RestOK, kernel, clients
    <2> QED
        BY <1>1, <2>1, <2>2, <2>3, <2>4, IInvPartsPrimed
<1> QED
    BY <1>2, <1>3, <1>4, <1>5

\* The watchdog, the pruning of records and a restart keep the invariant.
LEMMA BackgroundKeepsIInv ==
    ASSUME IInv,
           \/ Sweep \/ Restart
           \/ \E c \in Clients : WatchdogRelease(c) \/ Expire(c)
    PROVE  IInv'
<1>1. GoodLines(queue) /\ MemoFits(notified, queue) /\ MailOK(mailbox) /\ RestOK
    BY IInvParts
<1>2. CASE Sweep
    <2>1. queue' = DropStale(queue, registered) /\ notified' = KeepAll(notified, queue')
        BY <1>2 DEF Sweep
    <2>2. GoodLines(queue')
        BY <1>1, <2>1, LeaveAllIsGood DEF DropStale
    <2>3. MemoFits(notified', queue')
        BY <1>1, <2>1, KeepAllFits DEF MemoFits
    <2>4. MailOK(mailbox') /\ RestOK'
        BY <1>1, <1>2 DEF Sweep, RestOK, kernel, clients
    <2> QED
        BY <2>2, <2>3, <2>4, IInvPartsPrimed
<1>3. CASE Restart
    <2>1. UNCHANGED <<queue, mailbox>> /\ notified' = [b \in Busids |-> NoClient]
        BY <1>3 DEF Restart
    <2>2. RestOK'
        <3>1. session' \in [Busids -> Holders]
            BY <1>3 DEF Restart, Holders
        <3>2. bye' \in [Clients -> [sent : BOOLEAN, busids : SUBSET Busids]]
            BY <1>3 DEF Restart, NoBye
        <3>3. net' = [c \in Clients |-> IF net[c].kind = "request" THEN Idle ELSE net[c]]
            BY <1>3 DEF Restart
        <3>4. UNCHANGED <<registered, claims, shared, mode, wants>>
            BY <1>3 DEF Restart
        <3> QED
            BY <1>1, <3>1, <3>2, <3>3, <3>4 DEF RestOK
    <2>3. MemoFits(notified', queue')
        BY <2>1 DEF MemoFits, Holders
    <2> QED
        BY <1>1, <2>1, <2>2, <2>3, IInvPartsPrimed
<1>4. ASSUME NEW c \in Clients, WatchdogRelease(c)
      PROVE  IInv'
    <2> DEFINE reg   == registered \ {c}
               cl    == [claims EXCEPT ![c] = {}]
               q     == [b \in Busids |-> Leave(queue[b], {c})]
               memo1 == KeepAll(notified, q)
               mail1 == [mailbox EXCEPT ![c] = NoMail]
               left  == {b \in Busids : c \in queue[b].who}
               taken == {b \in Busids : IsHeld(b, reg, cl, session)}
               W1    == Wakes(left, q, memo1, shared, taken)
               memo2 == MemoOf(W1, q, memo1)
               mail2 == MailOf(W1, q, mail1)
               freed == {b \in claims[c] : ForceReleaseAllowed(b, c, reg, cl)}
               W2    == Wakes(freed, q, memo2, shared, {})
               memo3 == MemoOf(W2, q, memo2)
    <2>1. GoodLines(q)
        BY <1>1, LeaveAllIsGood
    <2>2. MemoFits(memo1, q) /\ MailOK(mail1)
        BY <1>1, KeepAllFits, MailEmptied DEF MemoFits
    <2>3. /\ \A b \in W1 : \E x \in q[b].who : IsFirst(q[b], x)
          /\ \A b \in W2 : \E x \in q[b].who : IsFirst(q[b], x)
        BY WakesWaiters
    <2>4. /\ queue' = DropStale(q, registered)
          /\ mailbox' = MailOf(W2, q, mail2)
          /\ notified' = KeepAll(memo3, queue')
          /\ registered' = reg
          /\ claims' = cl
          /\ session' = [b \in Busids |-> IF b \in freed THEN NoClient ELSE session[b]]
          /\ UNCHANGED <<shared, clients>>
        BY <1>4 DEF WatchdogRelease
    <2>5. RestOK'
        <3>1. session' \in [Busids -> Holders]
            <4> HIDE DEF freed
            <4> QED BY <1>1, <2>4 DEF RestOK, Holders
        <3>2. registered' \subseteq Clients /\ claims' \in [Clients -> SUBSET Busids]
            BY <1>1, <2>4 DEF RestOK
        <3> QED
            BY <1>1, <2>4, <3>1, <3>2 DEF RestOK, clients
    <2>6. GoodLines(queue')
        <3>1. \A b \in Busids : GoodLine(Leave(q[b], Clients \ registered))
            BY <2>1, LeaveIsGood DEF GoodLines
        <3>2. queue' = [b \in Busids |-> Leave(q[b], Clients \ registered)]
            BY <2>4 DEF DropStale
        <3> HIDE DEF q
        <3> QED
            BY <3>1, <3>2 DEF GoodLines, GoodLine
    <2> HIDE DEF W1, W2, q, memo1, mail1
    <2>7. MemoFits(memo2, q) /\ MailOK(mail2)
        BY <2>1, <2>2, <2>3, MemoOfFits, MailOfOK
    <2> HIDE DEF memo2, mail2
    <2>8. MemoFits(memo3, q) /\ MailOK(mailbox')
        BY <2>1, <2>3, <2>4, <2>7, MemoOfFits, MailOfOK
    <2>9. MemoFits(notified', queue')
        BY <2>4, <2>8, KeepAllFits DEF MemoFits
    <2> QED
        BY <2>5, <2>6, <2>8, <2>9, IInvPartsPrimed
<1>5. ASSUME NEW c \in Clients, Expire(c)
      PROVE  IInv'
    <2>1. UNCHANGED <<queue, mailbox, notified>>
        BY <1>5 DEF Expire
    <2>2. RestOK'
        BY <1>1, <1>5 DEF Expire, RestOK, kernel, clients
    <2> QED
        BY <1>1, <2>1, <2>2, IInvPartsPrimed
<1> QED
    BY <1>2, <1>3, <1>4, <1>5

LEMMA StutterKeepsIInv ==
    ASSUME IInv, UNCHANGED vars
    PROVE  IInv'
BY DEF IInv, TypeOK, LinesOrdered, MemoInLine, vars, server, kernel, clients

LEMMA NextKeepsIInv ==
    ASSUME IInv, [Next]_vars
    PROVE  IInv'
<1>1. ASSUME NEW c \in Clients, ClientStep(c)
      PROVE  IInv'
    BY <1>1, ClientStepKeepsIInv
<1>2. ASSUME NEW b \in Busids, EndSession(b) \/ Share(b)
      PROVE  IInv'
    BY <1>2, KernelStepKeepsIInv
<1>3. ASSUME NEW c \in Clients, HandleHeartbeat(c) \/ HandleGoodbye(c)
      PROVE  IInv'
    BY <1>3, HeartbeatKeepsIInv, GoodbyeKeepsIInv
<1>4. ASSUME NEW b \in Busids,
             \/ Unshare(b) \/ AdminClear(b) \/ Kick(b)
             \/ \E c \in Clients : AdminEnqueue(b, c) \/ AdminDequeue(b, c)
      PROVE  IInv'
    BY <1>4, AdminKeepsIInv
<1>5. CASE \/ Sweep \/ Restart
           \/ \E c \in Clients : WatchdogRelease(c) \/ Expire(c)
    BY <1>5, BackgroundKeepsIInv
<1>6. CASE UNCHANGED vars
    BY <1>6, StutterKeepsIInv
<1> QED
    BY <1>1, <1>2, <1>3, <1>4, <1>5, <1>6 DEF Next, ClientStep

\* The lists, the memo and the mailboxes are consistent in every reachable
\* state.
THEOREM Consistent == Spec => []IInv
BY InitIInv, NextKeepsIInv, PTL DEF Spec

\* TypeOK holds in every reachable state, with the bound of the lists
\* (MAX_QUEUE_PER_BUSID) among its conjuncts.
THEOREM TypeCorrect == Spec => []TypeOK
BY Consistent, PTL DEF IInv

\* Every waiting list keeps every waiter once, in one order.
THEOREM LinesStayOrdered == Spec => []LinesOrdered
BY Consistent, PTL DEF IInv

-----------------------------------------------------------------------------
(* Nobody but one client changes place in a step.                          *)

Overtakes(l, k, m) ==
    \E x, y \in k.who \ {m} : Behind(l, x, y) /\ ~Behind(k, x, y)

LEMMA LeavingOvertakesNobody ==
    ASSUME NEW l, NEW S, NEW m
    PROVE  ~Overtakes(l, Leave(l, S), m)
BY DEF Overtakes, Leave, Behind

\* Whoever joins at the tail, and whoever is cut at the head, nobody else
\* changes place.
LEMMA AppendingOvertakesNobody ==
    ASSUME NEW l, NEW c, NEW max
    PROVE  ~Overtakes(l, Capped(JoinAtTail(l, c), max), c)
<1> DEFINE j == JoinAtTail(l, c)
<1>1. ~Overtakes(l, j, c)
    BY DEF Overtakes, JoinAtTail, Leave, Behind
<1>2. ~Overtakes(j, Capped(j, max), c)
    BY LeavingOvertakesNobody DEF Capped, Overtakes
<1>3. Capped(j, max).who \subseteq j.who
    BY DEF Capped, Leave
<1> HIDE DEF j
<1> QED
    BY <1>1, <1>2, <1>3 DEF Overtakes, j

LEMMA HeartbeatOvertakesNobody ==
    ASSUME NEW c \in Clients, HandleHeartbeat(c), NEW b \in Busids
    PROVE  ~Overtakes(queue[b], queue'[b], c)
<1> DEFINE left == LeftBy(c, b)
           q    == Joined(c)[b]
<1>1. q = left \/ q = Capped(JoinAtTail(left, c), MaxQueue)
    BY DEF Joined, JoinedBy
<1>2. ~Overtakes(queue[b], left, c)
    BY LeavingOvertakesNobody DEF Overtakes, LeftBy
<1>3. ~Overtakes(left, q, c)
    BY <1>1, AppendingOvertakesNobody DEF Overtakes
<1>4. q.who \ {c} \subseteq left.who
    <2>1. Capped(JoinAtTail(left, c), MaxQueue).who \ {c} \subseteq left.who
        <3> HIDE DEF left
        <3> QED BY DEF Capped, JoinAtTail, Leave
    <2> HIDE DEF left, q
    <2> QED BY <1>1, <2>1
<1>5. queue'[b] = q \/ queue'[b] = Leave(q, {c})
    BY BeatComputes
<1>6. ~Overtakes(q, Leave(q, {c}), c) /\ Leave(q, {c}).who \subseteq q.who
    BY LeavingOvertakesNobody DEF Leave
<1> HIDE DEF left, q
<1> QED
    BY <1>2, <1>3, <1>4, <1>5, <1>6 DEF Overtakes

\* No step lets one waiter overtake another, except the one client the step is
\* about (queue_append's promise about "every other client").
THEOREM NobodyOvertakes == Spec => OnlyOneMoves
<1> DEFINE Fair(b) == \E m \in Holders : ~Overtakes(queue[b], queue'[b], m)
<1>1. ASSUME [Next]_vars, NEW b \in Busids, IInv
      PROVE  Fair(b)
    <2>1. ASSUME queue' = queue
          PROVE  Fair(b)
        BY <2>1 DEF Overtakes, Holders
    <2>2. ASSUME NEW c \in Clients, HandleHeartbeat(c)
          PROVE  Fair(b)
        BY <2>2, HeartbeatOvertakesNobody DEF Holders
    <2>3. ASSUME NEW S, queue'[b] = Leave(queue[b], S)
          PROVE  Fair(b)
        BY <2>3, LeavingOvertakesNobody DEF Holders
    <2>4. ASSUME queue'[b] = EmptyLine
          PROVE  Fair(b)
        BY <2>4 DEF Holders, Overtakes, EmptyLine
    <2>5. ASSUME NEW c \in Clients, HandleGoodbye(c)
          PROVE  Fair(b)
        <3>1. queue'[b] = Leave(queue[b], {c})
            BY <2>5 DEF HandleGoodbye
        <3> QED BY <2>3, <3>1
    <2>6. ASSUME NEW c \in Clients, WatchdogRelease(c)
          PROVE  Fair(b)
        <3> DEFINE l == Leave(queue[b], {c})
        <3>1. queue'[b] = Leave(l, Clients \ registered)
            BY <2>6 DEF WatchdogRelease, DropStale
        <3>2. Leave(l, Clients \ registered).who \subseteq l.who
            BY DEF Leave
        <3>3. /\ ~Overtakes(queue[b], l, c)
              /\ ~Overtakes(l, queue'[b], c)
            BY <3>1, LeavingOvertakesNobody
        <3> HIDE DEF l
        <3> QED BY <3>1, <3>2, <3>3 DEF Overtakes, Holders
    <2>7. ASSUME Sweep
          PROVE  Fair(b)
        <3>1. queue'[b] = Leave(queue[b], Clients \ registered)
            BY <2>7 DEF Sweep, DropStale
        <3> QED BY <2>3, <3>1
    <2>8. ASSUME NEW d \in Busids, Unshare(d) \/ AdminClear(d)
          PROVE  Fair(b)
        <3>1. queue' = [queue EXCEPT ![d] = EmptyLine]
            BY <2>8 DEF Unshare, AdminClear
        <3>2. queue'[b] = queue[b] \/ queue'[b] = EmptyLine
            BY <1>1, <3>1, IInvParts DEF GoodLines
        <3> QED BY <2>4, <3>2 DEF Overtakes, Holders
    <2>9. ASSUME NEW d \in Busids, NEW c \in Clients, AdminEnqueue(d, c)
          PROVE  Fair(b)
        <3>1. queue' = [queue EXCEPT ![d] = Capped(JoinAtTail(queue[d], c), MaxQueue)]
            BY <2>9 DEF AdminEnqueue
        <3>2. \/ queue'[b] = queue[b]
              \/ queue'[b] = Capped(JoinAtTail(queue[b], c), MaxQueue)
            BY <1>1, <3>1, IInvParts DEF GoodLines
        <3> QED BY <3>2, AppendingOvertakesNobody DEF Overtakes, Holders
    <2>13. ASSUME NEW d \in Busids, NEW c \in Clients, AdminDequeue(d, c)
           PROVE  Fair(b)
        <3>1. queue'[b] = queue[b] \/ queue'[b] = Leave(queue[b], {c})
            BY <1>1, <2>13, IInvParts DEF AdminDequeue, GoodLines
        <3> QED BY <2>3, <3>1 DEF Overtakes, Holders
    <2>10. ASSUME NEW c \in Clients, ClientStep(c) \/ Expire(c)
           PROVE  queue' = queue
        BY <2>10
        DEF ClientStep, SendHeartbeat, LoseExchange, ReceiveReply, Quit, Exit, Crash,
            Start, JoinQueue, LeaveQueue, Connect, BackgroundAttach, Detach, Expire,
            server, kernel, clients
    <2>11. ASSUME NEW d \in Busids, EndSession(d) \/ Share(d) \/ Kick(d)
           PROVE  queue' = queue
        BY <2>11 DEF EndSession, Share, Kick, server
    <2>12. ASSUME Restart \/ UNCHANGED vars
           PROVE  queue' = queue
        BY <2>12 DEF Restart, vars, server
    <2> HIDE DEF Fair
    <2> QED
        BY <1>1, <2>1, <2>2, <2>5, <2>6, <2>7, <2>8, <2>9, <2>10, <2>11, <2>12,
           <2>13
        DEF Next, ClientStep
<1>2. IInv /\ [Next]_vars =>
        [\A b \in Busids : \E m \in Holders :
            \A x, y \in queue'[b].who \ {m} :
                Behind(queue[b], x, y) => Behind(queue'[b], x, y)]_vars
    BY <1>1 DEF Overtakes
<1> QED
    BY <1>2, Consistent, PTL DEF Spec, OnlyOneMoves

-----------------------------------------------------------------------------
(* Who may be told to attach without standing in line.                     *)

\* Client d has no "attach" for e in its box without standing in that line.
Fits(ml, reg, q, d, e) == d \in reg /\ ml[d][e] = "attach" => d \in q[e].who

\* When every client fits into a list, an append pushes nobody out.
LEMMA RoomForEveryone ==
    ASSUME MaxQueue >= Cardinality(Clients), NEW l, GoodLine(l), NEW c \in Clients
    PROVE  Capped(JoinAtTail(l, c), MaxQueue).who = l.who \cup {c}
<1> DEFINE j == JoinAtTail(l, c)
<1>1. j \in Lines(Clients)
    BY JoinIsLine DEF GoodLine
<1>2. j.who \in SUBSET Clients
    BY <1>1 DEF Lines
<1>3. Cardinality(j.who) <= Cardinality(Clients) /\ Cardinality(j.who) \in Nat
    BY <1>1, <1>2, FS_Subset, FS_CardinalityType, ClientsAssumption
<1>4. Cardinality(Clients) \in Nat
    BY FS_CardinalityType, ClientsAssumption
<1>5. ~(Cardinality(j.who) > MaxQueue)
    <2> HIDE DEF j
    <2> QED BY <1>3, <1>4, MaxQueueAssumption
<1>6. j.who = l.who \cup {c}
    BY DEF JoinAtTail, Leave
<1> QED
    BY <1>5, <1>6 DEF Capped

\* Waking first waiters of q puts "attach" only into boxes of waiters of q.
LEMMA MailOfFits ==
    ASSUME NEW W, NEW q, NEW ml, NEW reg, NEW d \in Clients, NEW e \in Busids,
           Fits(ml, reg, q, d, e)
    PROVE  Fits(MailOf(W, q, ml), reg, q, d, e)
BY DEF Fits, MailOf, IsFirst

\* An emptied box, and lists that only that client left.
LEMMA LeavingFits ==
    ASSUME MailOK(mailbox), NEW d \in Clients, NEW e \in Busids,
           Fits(mailbox, registered, queue, d, e), NEW c \in Clients
    PROVE  Fits([mailbox EXCEPT ![c] = NoMail], registered \ {c},
                [b \in Busids |-> Leave(queue[b], {c})], d, e)
BY DEF Fits, Leave, MailOK

\* A heartbeat empties the box of the one client it moves.
LEMMA HeartbeatStrandsNobody ==
    ASSUME MaxQueue >= Cardinality(Clients), IInv, NEW c \in Clients, HandleHeartbeat(c),
           NEW d \in Clients, NEW e \in Busids, Fits(mailbox, registered, queue, d, e)
    PROVE  Fits(mailbox', registered', queue', d, e)
<1> DEFINE mail == MailOf(BeatWakes(c), Joined(c), mailbox)
<1>1. GoodLines(queue) /\ MailOK(mailbox) /\ RestOK
    BY IInvParts
<1>2. registered' = registered \cup {c} /\ mailbox' = [mail EXCEPT ![c] = NoMail]
    BY Zenon, BeatComputes
<1>3. DOMAIN mail = Clients
    BY DEF MailOf
<1>4. CASE d = c
    <2>1. mailbox'[d][e] = "none"
        <3> HIDE DEF mail
        <3> QED BY <1>2, <1>3, <1>4 DEF NoMail
    <2> QED BY <2>1 DEF Fits
<1>5. CASE d # c
    <2>1. mailbox'[d][e] = mail[d][e]
        <3> HIDE DEF mail
        <3> QED BY <1>2, <1>3, <1>5
    <2>2. queue[e].who \ {c} \subseteq Joined(c)[e].who
        <3>1. GoodLine(LeftBy(c, e)) /\ queue[e].who \ {c} \subseteq LeftBy(c, e).who
            BY <1>1, LeaveIsGood DEF GoodLines, Leave, LeftBy
        <3>2. \/ Joined(c)[e] = LeftBy(c, e)
              \/ Joined(c)[e] = Capped(JoinAtTail(LeftBy(c, e), c), MaxQueue)
            BY DEF Joined, JoinedBy
        <3> QED BY <3>1, <3>2, RoomForEveryone
    <2>3. Fits(mailbox, registered, Joined(c), d, e)
        BY <1>5, <2>2 DEF Fits
    <2>4. Fits(mail, registered, Joined(c), d, e)
        BY <2>3, MailOfFits
    <2>5. Joined(c)[e].who \ {c} \subseteq queue'[e].who
        <3>1. Leave(Joined(c)[e], {c}).who = Joined(c)[e].who \ {c}
            BY DEF Leave
        <3>2. queue'[e] = Joined(c)[e] \/ queue'[e] = Leave(Joined(c)[e], {c})
            BY BeatQueue
        <3> QED BY <3>1, <3>2
    <2> HIDE DEF mail
    <2> QED BY <1>2, <1>5, <2>1, <2>4, <2>5 DEF Fits
<1> QED
    BY <1>4, <1>5

\* A pass of the watchdog drops only clients without a record from the lines.
LEMMA WatchdogStrandsNobody ==
    ASSUME IInv, NEW c \in Clients, WatchdogRelease(c),
           NEW d \in Clients, NEW e \in Busids, Fits(mailbox, registered, queue, d, e)
    PROVE  Fits(mailbox', registered', queue', d, e)
<1> DEFINE q == [b \in Busids |-> Leave(queue[b], {c})]
           m == [mailbox EXCEPT ![c] = NoMail]
<1>1. MailOK(mailbox)
    BY IInvParts
<1>2. registered' = registered \ {c}
    BY DEF WatchdogRelease
<1>3. Fits(m, registered', q, d, e)
    BY <1>1, <1>2, LeavingFits
<1>4. \E W1, W2 : mailbox' = MailOf(W2, q, MailOf(W1, q, m))
    BY DEF WatchdogRelease
<1>5. queue' = DropStale(q, registered)
    BY DEF WatchdogRelease
<1> HIDE DEF m
<1>6. Fits(mailbox', registered', q, d, e)
    BY <1>3, <1>4, MailOfFits
<1>7. d \in registered' /\ d \in q[e].who => d \in queue'[e].who
    BY <1>2, <1>5 DEF DropStale, Leave
<1> HIDE DEF q
<1> QED
    BY <1>6, <1>7 DEF Fits

\* A cleared list and a device taken off the export replace the wakeup of every
\* waiter by the word that the line is gone.
LEMMA ClearingStrandsNobody ==
    ASSUME IInv, NEW b \in Busids, Unshare(b) \/ AdminClear(b),
           NEW d \in Clients, NEW e \in Busids, Fits(mailbox, registered, queue, d, e)
    PROVE  Fits(mailbox', registered', queue', d, e)
<1>1. GoodLines(queue) /\ MailOK(mailbox)
    BY IInvParts
<1>2. /\ mailbox' = DroppedMail(b, mailbox)
      /\ registered' = registered
      /\ queue' = [queue EXCEPT ![b] = EmptyLine]
    BY DEF Unshare, AdminClear
<1>3. CASE e = b
    <2>1. d \notin queue[b].who => mailbox'[d][b] = mailbox[d][b]
        BY <1>1, <1>2 DEF DroppedMail, MailOK, Mail
    <2>2. d \in queue[b].who => mailbox'[d][b] = "dropped"
        BY <1>1, <1>2 DEF DroppedMail, MailOK, Mail
    <2> QED BY <1>2, <1>3, <2>1, <2>2 DEF Fits
<1>4. CASE e # b
    <2>1. mailbox'[d][e] = mailbox[d][e]
        BY <1>1, <1>2, <1>4 DEF DroppedMail, MailOK, Mail
    <2>2. queue'[e] = queue[e]
        BY <1>1, <1>2, <1>4 DEF GoodLines
    <2> QED BY <1>2, <2>1, <2>2 DEF Fits
<1> QED
    BY <1>3, <1>4

\* A kick and a place given by the administrator wake only who stands in line.
LEMMA WakingStrandsNobody ==
    ASSUME MaxQueue >= Cardinality(Clients), IInv, NEW b \in Busids,
           Kick(b) \/ \E c \in Clients : AdminEnqueue(b, c),
           NEW d \in Clients, NEW e \in Busids, Fits(mailbox, registered, queue, d, e)
    PROVE  Fits(mailbox', registered', queue', d, e)
<1>1. GoodLines(queue)
    BY IInvParts
<1>2. CASE Kick(b)
    <2>1. /\ \E W : mailbox' = MailOf(W, queue, mailbox)
          /\ registered' = registered /\ queue' = queue
        BY <1>2 DEF Kick
    <2> QED BY <2>1, MailOfFits
<1>3. ASSUME NEW c \in Clients, AdminEnqueue(b, c)
      PROVE  Fits(mailbox', registered', queue', d, e)
    <2> DEFINE q == [queue EXCEPT ![b] = Capped(JoinAtTail(queue[b], c), MaxQueue)]
    <2>1. /\ \E W : mailbox' = MailOf(W, q, mailbox)
          /\ registered' = registered /\ queue' = q
        BY <1>3 DEF AdminEnqueue
    <2>2. Capped(JoinAtTail(queue[b], c), MaxQueue).who = queue[b].who \cup {c}
        BY <1>1, RoomForEveryone DEF GoodLines
    <2>3. queue[e].who \subseteq q[e].who
        BY <1>1, <2>2 DEF GoodLines
    <2> HIDE DEF q
    <2>4. Fits(mailbox, registered, q, d, e)
        BY <2>3 DEF Fits
    <2> QED BY <2>1, <2>4, MailOfFits
<1> QED
    BY <1>2, <1>3

\* Of all the steps, only the administrator's removal of d from the line of e
\* leaves d a wakeup it is no longer in line for.
LEMMA OthersStrandNobody ==
    ASSUME MaxQueue >= Cardinality(Clients), IInv, [Next]_vars,
           NEW d \in Clients, NEW e \in Busids, Fits(mailbox, registered, queue, d, e),
           ~AdminDequeue(e, d)
    PROVE  Fits(mailbox', registered', queue', d, e)
<1>1. GoodLines(queue) /\ MailOK(mailbox)
    BY IInvParts
<1>2. ASSUME NEW c \in Clients, ClientStep(c)
      PROVE  UNCHANGED <<mailbox, registered, queue>>
    BY <1>2
    DEF ClientStep, SendHeartbeat, LoseExchange, ReceiveReply, Quit, Exit, Crash, Start,
        JoinQueue, LeaveQueue, Connect, BackgroundAttach, Detach, server, kernel, clients
<1>3. ASSUME NEW c \in Clients, HandleGoodbye(c)
      PROVE  Fits(mailbox', registered', queue', d, e)
    <2> DEFINE q == [b \in Busids |-> Leave(queue[b], {c})]
    <2>1. Fits([mailbox EXCEPT ![c] = NoMail], registered \ {c}, q, d, e)
        BY <1>1, LeavingFits
    <2>2. \E W : mailbox' = MailOf(W, q, [mailbox EXCEPT ![c] = NoMail])
        BY <1>3 DEF HandleGoodbye
    <2>3. registered' = registered \ {c} /\ queue' = q
        BY <1>3 DEF HandleGoodbye
    <2> HIDE DEF q
    <2> QED BY <2>1, <2>2, <2>3, MailOfFits
<1>4. ASSUME NEW b \in Busids, NEW c \in Clients, AdminDequeue(b, c)
      PROVE  Fits(mailbox', registered', queue', d, e)
    <2>1. /\ mailbox' = mailbox /\ registered' = registered
          /\ queue' = [queue EXCEPT ![b] = Leave(queue[b], {c})]
        BY <1>4 DEF AdminDequeue
    <2>2. b # e \/ c # d
        BY <1>4
    <2>3. d \in queue[e].who => d \in queue'[e].who
        BY <1>1, <2>1, <2>2 DEF GoodLines, Leave
    <2> QED BY <2>1, <2>3 DEF Fits
<1>5. ASSUME Sweep
      PROVE  Fits(mailbox', registered', queue', d, e)
    BY <1>5 DEF Sweep, DropStale, Leave, Fits
<1>6. ASSUME NEW c \in Clients, Expire(c)
      PROVE  Fits(mailbox', registered', queue', d, e)
    BY <1>6 DEF Expire, Fits
<1>7. ASSUME NEW b \in Busids, EndSession(b) \/ Share(b)
      PROVE  UNCHANGED <<mailbox, registered, queue>>
    BY <1>7 DEF EndSession, Share, server
<1>8. ASSUME Restart \/ UNCHANGED vars
      PROVE  UNCHANGED <<mailbox, registered, queue>>
    BY <1>8 DEF Restart, vars, server
<1> QED
    BY <1>2, <1>3, <1>4, <1>5, <1>6, <1>7, <1>8,
       HeartbeatStrandsNobody, WatchdogStrandsNobody, ClearingStrandsNobody,
       WakingStrandsNobody
    DEF Next, ClientStep

\* Every handler but the administrator's DELETE that takes a registered client out of
\* a list also settles its mailbox, or drains it in the same step: do_DELETE alone
\* leaves an "attach" to a client that is no longer in line.
THEOREM WakeupsAreForWaiters == Spec => WakeupForWaiter
<1>1. ASSUME IInv, [Next]_vars, MaxQueue >= Cardinality(Clients),
             NEW c \in Clients, NEW b \in Busids, Stranded(c, b)', ~Stranded(c, b)
      PROVE  AdminDequeue(b, c)
    BY <1>1, OthersStrandNobody DEF Stranded, Fits
<1>2. IInv /\ [Next]_vars =>
        [MaxQueue >= Cardinality(Clients) =>
            \A c \in Clients, b \in Busids :
                Stranded(c, b)' /\ ~Stranded(c, b) => AdminDequeue(b, c)]_vars
    BY <1>1
<1> QED
    BY <1>2, Consistent, PTL DEF Spec, WakeupForWaiter

-----------------------------------------------------------------------------
(* Who is woken, and for what.                                             *)

MayWake(c, b) ==
    /\ b \in shared
    /\ IsFirst(queue[b], c) \/ c \notin registered
    /\ \A d \in registered : b \notin claims[d]
    /\ Gateway => session[b] = NoClient

\* queue_notify_head_if_free puts an "attach" into the box of the first waiter of a
\* device that is not held.
LEMMA NewMail ==
    ASSUME NEW B, NEW q, NEW m, NEW sh, NEW held, NEW ml, NEW c \in Clients, NEW b \in Busids,
           MailOf(Wakes(B, q, m, sh, held), q, ml)[c][b] = "attach",
           ml[c][b] # "attach"
    PROVE  b \in B /\ b \in sh /\ b \notin held /\ IsFirst(q[b], c)
<1> DEFINE W == Wakes(B, q, m, sh, held)
<1>1. MailOf(W, q, ml)[c][b] = IF b \in W /\ IsFirst(q[b], c) THEN "attach" ELSE ml[c][b]
    BY DEF MailOf
<1>2. b \in W /\ IsFirst(q[b], c)
    BY <1>1
<1> QED
    BY <1>2 DEF Wakes

\* An emptied box holds no wakeup.
LEMMA EmptiedBox ==
    ASSUME NEW ml, MailOK(ml), NEW x \in Clients, NEW c \in Clients, NEW b \in Busids,
           ml[c][b] # "attach"
    PROVE  [ml EXCEPT ![x] = NoMail][c][b] # "attach"
BY DEF MailOK, NoMail

\* A step that does not begin a reply.
LEMMA WokenByMail ==
    ASSUME NEW c \in Clients, NEW b \in Busids, Woken(c, b)', ~Woken(c, b),
           net'[c] = net[c] \/ net'[c].kind # "reply"
    PROVE  mailbox'[c][b] = "attach" /\ mailbox[c][b] # "attach"
BY DEF Woken

\* update_client wakes the client itself, in its reply.
LEMMA HeartbeatWakes ==
    ASSUME IInv, NEW x \in Clients, HandleHeartbeat(x),
           NEW c \in Clients, NEW b \in Busids, Woken(c, b)', ~Woken(c, b)
    PROVE  MayWake(c, b)'
<1> DEFINE mail == MailOf(BeatWakes(x), Joined(x), mailbox)
<1>1. MailOK(mailbox) /\ RestOK
    BY IInvParts
<1>2. /\ registered' = registered \cup {x} /\ UNCHANGED <<shared, session>>
      /\ claims' = [claims EXCEPT ![x] = net[x].busids]
      /\ mailbox' = [mail EXCEPT ![x] = NoMail]
      /\ net' = [net EXCEPT ![x] = Reply(mail[x])]
    BY Zenon, BeatComputes
<1>3. DOMAIN mail = Clients /\ DOMAIN net = Clients
    BY <1>1 DEF MailOf, RestOK
<1> HIDE DEF mail
<1>4. mail[c][b] = "attach"
    <2>1. CASE c = x
        <3>1. mailbox'[c] = NoMail /\ net'[c] = Reply(mail[c])
            BY <1>2, <1>3, <2>1
        <3>2. mailbox'[c][b] # "attach"
            BY <3>1 DEF NoMail
        <3>3. net'[c].notices = mail[c]
            BY <3>1 DEF Reply
        <3> QED BY <3>2, <3>3 DEF Woken
    <2>2. CASE c # x
        BY <1>2, <1>3, <2>2 DEF Woken
    <2> QED BY <2>1, <2>2
<1>5. mailbox[c][b] # "attach"
    BY DEF Woken
<1>6. b \in BeatWakes(x) /\ IsFirst(Joined(x)[b], c)
    BY <1>4, <1>5 DEF mail, MailOf
<1>7. b \in shared /\ b \notin BeatTaken(x) /\ IsFirst(queue'[b], c)
    BY <1>6, BeatWakesJoiner
<1> QED
    BY <1>2, <1>7 DEF MayWake, IsHeld, BeatTaken

\* handle_client_goodbye wakes the lines it leaves and those of the devices it gives up.
LEMMA GoodbyeWakes ==
    ASSUME IInv, NEW x \in Clients, HandleGoodbye(x),
           NEW c \in Clients, NEW b \in Busids, Woken(c, b)', ~Woken(c, b)
    PROVE  MayWake(c, b)'
<1> DEFINE q     == [d \in Busids |-> Leave(queue[d], {x})]
           reg   == registered \ {x}
           cl    == [claims EXCEPT ![x] = {}]
           left  == {d \in Busids : x \in queue[d].who}
           taken == {d \in Busids : IsHeld(d, reg, cl, session)}
           memo  == KeepAll(notified, q)
           base  == [mailbox EXCEPT ![x] = NoMail]
           W     == Wakes(left \cup bye[x].busids, q, memo, shared, taken)
<1>1. /\ registered' = reg /\ claims' = cl /\ queue' = q /\ mailbox' = MailOf(W, q, base)
      /\ UNCHANGED <<shared, session, net>>
    BY DEF HandleGoodbye, kernel
<1>2. mailbox'[c][b] = "attach" /\ mailbox[c][b] # "attach"
    BY <1>1, WokenByMail
<1>3. base[c][b] # "attach"
    BY <1>2, EmptiedBox, IInvParts
<1>4. b \in shared /\ b \notin taken /\ IsFirst(q[b], c)
    <2> HIDE DEF taken, memo, q, left, base
    <2> QED BY <1>1, <1>2, <1>3, NewMail
<1> HIDE DEF reg, cl, q
<1> QED
    BY <1>1, <1>4 DEF MayWake, IsHeld

\* A kick and an appended line wake the first waiter.
LEMMA AdminWakes ==
    ASSUME IInv, NEW d \in Busids, Kick(d) \/ \E x \in Clients : AdminEnqueue(d, x),
           NEW c \in Clients, NEW b \in Busids, Woken(c, b)', ~Woken(c, b)
    PROVE  MayWake(c, b)'
<1>1. UNCHANGED <<net, registered, shared>>
    BY DEF Kick, AdminEnqueue, clients, kernel
<1>2. mailbox'[c][b] = "attach" /\ mailbox[c][b] # "attach"
    BY <1>1, WokenByMail
<1>3. CASE Kick(d)
    <2> DEFINE taken == {e \in Busids : IsHeld(e, registered, claims', session')}
    <2>1. /\ mailbox' = MailOf(Wakes({d}, queue, notified, shared, taken), queue, mailbox)
          /\ queue' = queue
        BY <1>3 DEF Kick
    <2>2. b \in shared /\ b \notin taken /\ IsFirst(queue[b], c)
        <3> HIDE DEF taken
        <3> QED BY <1>2, <2>1, NewMail
    <2> QED
        BY <1>1, <2>1, <2>2 DEF MayWake, IsHeld
<1>4. ASSUME NEW x \in Clients, AdminEnqueue(d, x)
      PROVE  MayWake(c, b)'
    <2> DEFINE q     == [queue EXCEPT ![d] = Capped(JoinAtTail(queue[d], x), MaxQueue)]
               memo  == KeepAll(notified, q)
               taken == {e \in Busids : IsHeld(e, registered, claims, session)}
               W     == Wakes({d}, q, memo, shared, taken)
    <2>1. /\ queue' = q /\ UNCHANGED <<claims, session>>
          /\ mailbox' = MailOf(IF IsFirst(q[d], x) THEN W ELSE {}, q, mailbox)
        BY <1>4 DEF AdminEnqueue, kernel
    <2>2. mailbox' = MailOf(W, q, mailbox)
        <3>1. mailbox' = MailOf({}, q, mailbox) => mailbox'[c][b] = mailbox[c][b]
            BY DEF MailOf
        <3> QED BY <1>2, <2>1, <3>1
    <2>3. b \in shared /\ b \notin taken /\ IsFirst(q[b], c)
        <3> HIDE DEF taken, memo, q
        <3> QED BY <1>2, <2>2, NewMail
    <2> HIDE DEF q
    <2> QED
        BY <1>1, <2>1, <2>3 DEF MayWake, IsHeld
<1> QED
    BY <1>3, <1>4

\* The first of a line stays first when others leave it.
LEMMA StaysFirst ==
    ASSUME NEW l, NEW S, NEW c, IsFirst(l, c), c \notin S
    PROVE  IsFirst(Leave(l, S), c)
BY DEF IsFirst, Leave, Behind

\* A pass of the watchdog wakes for the lines its client leaves, and for the devices it
\* releases.
LEMMA WatchdogWakes ==
    ASSUME IInv, NEW x \in Clients, WatchdogRelease(x),
           NEW c \in Clients, NEW b \in Busids, Woken(c, b)', ~Woken(c, b)
    PROVE  MayWake(c, b)'
<1> DEFINE reg   == registered \ {x}
           cl    == [claims EXCEPT ![x] = {}]
           q     == [d \in Busids |-> Leave(queue[d], {x})]
           memo1 == KeepAll(notified, q)
           mail1 == [mailbox EXCEPT ![x] = NoMail]
           left  == {d \in Busids : x \in queue[d].who}
           taken == {d \in Busids : IsHeld(d, reg, cl, session)}
           W1    == Wakes(left, q, memo1, shared, taken)
           memo2 == MemoOf(W1, q, memo1)
           mail2 == MailOf(W1, q, mail1)
           freed == {d \in claims[x] : ForceReleaseAllowed(d, x, reg, cl)}
           W2    == Wakes(freed, q, memo2, shared, {})
<1>1. /\ registered' = reg /\ claims' = cl
      /\ session' = [d \in Busids |-> IF d \in freed THEN NoClient ELSE session[d]]
      /\ mailbox' = MailOf(W2, q, mail2)
      /\ queue' = DropStale(q, registered)
      /\ UNCHANGED <<shared, net>>
    BY DEF WatchdogRelease, clients
<1>2. mailbox'[c][b] = "attach" /\ mailbox[c][b] # "attach"
    BY <1>1, WokenByMail
<1>3. mail1[c][b] # "attach"
    BY <1>2, EmptiedBox, IInvParts
<1>4. CASE mail2[c][b] = "attach"
    <2>1. b \in shared /\ b \notin taken /\ IsFirst(q[b], c)
        <3> HIDE DEF taken, memo1, q, left, mail1
        <3> QED BY <1>3, <1>4, NewMail
    <2>2. /\ \A d \in reg : b \notin cl[d]
          /\ Gateway => session[b] = NoClient
        <3> HIDE DEF reg, cl
        <3> QED BY <2>1 DEF IsHeld
    <2> QED
        BY <1>1, <2>1, <2>2, StaysFirst DEF MayWake, DropStale
<1>5. CASE mail2[c][b] # "attach"
    <2>1. b \in shared /\ b \in freed /\ IsFirst(q[b], c)
        <3> HIDE DEF memo2, q, freed, mail2
        <3> QED BY <1>1, <1>2, <1>5, NewMail
    <2>2. (\A d \in reg : b \notin cl[d]) /\ session'[b] = NoClient
        BY <1>1, <2>1 DEF ForceReleaseAllowed
    <2> QED
        BY <1>1, <2>1, <2>2, StaysFirst DEF MayWake, DropStale
<1> QED
    BY <1>4, <1>5

\* No other step wakes anybody.
LEMMA OthersWakeNobody ==
    ASSUME IInv, NEW c \in Clients, NEW b \in Busids, Woken(c, b)', ~Woken(c, b), [Next]_vars
    PROVE  \/ \E x \in Clients : HandleHeartbeat(x) \/ HandleGoodbye(x) \/ WatchdogRelease(x)
           \/ \E d \in Busids : Kick(d) \/ \E x \in Clients : AdminEnqueue(d, x)
<1>1. MailOK(mailbox) /\ RestOK
    BY IInvParts
<1>2. DOMAIN net = Clients
    BY <1>1 DEF RestOK
<1>3. ASSUME NEW x \in Clients, ClientStep(x)
      PROVE  mailbox' = mailbox /\ (net'[c] = net[c] \/ net'[c].kind # "reply")
    <2>1. mailbox' = mailbox
        BY <1>3
        DEF ClientStep, SendHeartbeat, LoseExchange, ReceiveReply, Quit, Exit, Crash, Start,
            JoinQueue, LeaveQueue, Connect, BackgroundAttach, Detach, server
    <2>2. \/ net' = net \/ net' = [net EXCEPT ![x] = Idle]
          \/ \E out : net' = [net EXCEPT ![x] = Request(Attached(x), wants[x], out)]
        BY <1>3
        DEF ClientStep, SendHeartbeat, LoseExchange, ReceiveReply, Quit, Exit, Crash, Start,
            JoinQueue, LeaveQueue, Connect, BackgroundAttach, Detach, clients
    <2>3. Idle.kind # "reply" /\ \A out : Request(Attached(x), wants[x], out).kind # "reply"
        BY DEF Idle, Request
    <2>4. \/ net'[c] = net[c] \/ net'[c] = Idle
          \/ \E out : net'[c] = Request(Attached(x), wants[x], out)
        BY <1>2, <2>2
    <2> QED
        BY <2>1, <2>3, <2>4
<1>4. ASSUME NEW d \in Busids, EndSession(d) \/ Share(d)
      PROVE  mailbox' = mailbox /\ net' = net
    BY <1>4 DEF EndSession, Share, server, clients
<1>5. ASSUME \/ Sweep \/ UNCHANGED vars \/ \E x \in Clients : Expire(x)
             \/ \E d \in Busids, x \in Clients : AdminDequeue(d, x)
      PROVE  mailbox' = mailbox /\ net' = net
    BY <1>5 DEF Sweep, Expire, AdminDequeue, vars, server, clients
<1>6. ASSUME Restart
      PROVE  mailbox' = mailbox /\ (net'[c] = net[c] \/ net'[c].kind # "reply")
    BY <1>6 DEF Restart, Idle
<1>7. ASSUME NEW d \in Busids, Unshare(d) \/ AdminClear(d)
      PROVE  net' = net /\ (mailbox'[c][b] = "attach" => mailbox[c][b] = "attach")
    <2>1. net' = net /\ mailbox' = DroppedMail(d, mailbox)
        BY <1>7 DEF Unshare, AdminClear, clients
    <2> QED
        BY <1>1, <2>1 DEF DroppedMail, MailOK, Mail
<1> QED
    BY <1>3, <1>4, <1>5, <1>6, <1>7, WokenByMail DEF Next, ClientStep

\* A new wakeup names the first waiter of a device that nobody holds
\* (queue_notify_head_if_free, in every handler that calls it).
THEOREM WakesForFreeDevices == Spec => WakesOnlyForFreeDevice
<1>1. ASSUME IInv, [Next]_vars, NEW c \in Clients, NEW b \in Busids,
             Woken(c, b)', ~Woken(c, b)
      PROVE  MayWake(c, b)'
    BY <1>1, OthersWakeNobody, HeartbeatWakes, GoodbyeWakes, AdminWakes, WatchdogWakes
<1>2. IInv /\ [Next]_vars =>
        [\A c \in Clients, b \in Busids :
            Woken(c, b)' /\ ~Woken(c, b) =>
                /\ b \in shared'
                /\ IsFirst(queue'[b], c) \/ c \notin registered'
                /\ \A d \in registered' : b \notin claims'[d]
                /\ Gateway => session'[b] = NoClient]_vars
    BY <1>1 DEF MayWake
<1> QED
    BY <1>2, Consistent, PTL DEF Spec, WakesOnlyForFreeDevice

-----------------------------------------------------------------------------
(* Who loses a session.                                                    *)

HasCause(b) ==
    \/ Detach(session[b], b)
    \/ mode[session[b]] = "off"
    \/ Unshare(b) \/ Kick(b) \/ Restart
    \/ /\ ~Gateway
       /\ \E c \in Clients :
             /\ WatchdogRelease(c) /\ b \in claims[c]
             /\ \A d \in registered \ {c} : b \notin claims[d]

\* A step that ends a session is one of those that may.
LEMMA SessionEnds ==
    ASSUME IInv, [Next]_vars, NEW b \in Busids,
           session[b] # NoClient, session'[b] # session[b]
    PROVE  HasCause(b)
<1>1. session \in [Busids -> Holders] /\ claims \in [Clients -> SUBSET Busids]
    BY IInvParts DEF RestOK
<1>2. ASSUME NEW c \in Clients, ReceiveReply(c)
      PROVE  session'[b] = session[b]
    BY <1>1, <1>2 DEF ReceiveReply
<1>3. ASSUME NEW c \in Clients, NEW d \in Busids, Connect(c, d) \/ BackgroundAttach(c, d)
      PROVE  session'[b] = session[b]
    BY <1>1, <1>3 DEF Connect, BackgroundAttach
<1>4. ASSUME NEW c \in Clients, NEW d \in Busids, Detach(c, d)
      PROVE  HasCause(b)
    <2>1. b = d /\ session[b] = c
        BY <1>1, <1>4 DEF Detach
    <2> QED BY <1>4, <2>1 DEF HasCause
<1>5. ASSUME NEW d \in Busids, EndSession(d)
      PROVE  HasCause(b)
    <2>1. b = d /\ mode[session[d]] = "off"
        BY <1>1, <1>5 DEF EndSession
    <2> QED BY <2>1 DEF HasCause
<1>6. ASSUME NEW d \in Busids, Unshare(d) \/ Kick(d)
      PROVE  HasCause(b)
    <2>1. session' = [session EXCEPT ![d] = NoClient]
        BY <1>6 DEF Unshare, Kick
    <2>2. b = d
        BY <1>1, <2>1
    <2> QED BY <1>6, <2>2 DEF HasCause
<1>7. ASSUME NEW c \in Clients, WatchdogRelease(c)
      PROVE  HasCause(b)
    <2> DEFINE reg   == registered \ {c}
               cl    == [claims EXCEPT ![c] = {}]
               freed == {d \in claims[c] : ForceReleaseAllowed(d, c, reg, cl)}
    <2>1. /\ session' = [d \in Busids |-> IF d \in freed THEN NoClient ELSE session[d]]
          /\ mode[c] = "off"
        BY <1>7 DEF WatchdogRelease, Silent
    <2>2. b \in freed
        <3> HIDE DEF freed
        <3> QED BY <1>1, <2>1
    <2>3. /\ b \in claims[c] /\ \A d \in reg : b \notin cl[d]
          /\ Gateway => session[b] = c
        BY <1>1, <2>2 DEF ForceReleaseAllowed
    <2>4. \A d \in registered \ {c} : b \notin claims[d]
        BY <1>1, <2>3, IInvParts DEF RestOK
    <2> HIDE DEF reg, cl, freed
    <2>5. CASE Gateway
        BY <2>1, <2>3, <2>5 DEF HasCause
    <2>6. CASE ~Gateway
        BY <1>7, <2>3, <2>4, <2>6 DEF HasCause
    <2> QED BY <2>5, <2>6
<1>8. ASSUME Restart
      PROVE  HasCause(b)
    BY <1>8 DEF HasCause
<1>9. ASSUME NEW c \in Clients,
             \/ SendHeartbeat(c) \/ LoseExchange(c) \/ Quit(c) \/ Exit(c) \/ Crash(c)
             \/ Start(c) \/ HandleHeartbeat(c) \/ HandleGoodbye(c) \/ Expire(c)
      PROVE  session' = session
    BY <1>9 DEF SendHeartbeat, LoseExchange, Quit, Exit, Crash, Start, HandleHeartbeat,
        HandleGoodbye, Expire, kernel
<1>10. ASSUME NEW c \in Clients, NEW d \in Busids,
              \/ JoinQueue(c, d) \/ LeaveQueue(c, d)
              \/ AdminEnqueue(d, c) \/ AdminDequeue(d, c)
       PROVE  session' = session
    BY <1>10 DEF JoinQueue, LeaveQueue, AdminEnqueue, AdminDequeue, kernel
<1>11. ASSUME \/ Sweep \/ UNCHANGED vars
              \/ \E d \in Busids : Share(d) \/ AdminClear(d)
       PROVE  session' = session
    BY <1>11 DEF Sweep, Share, AdminClear, vars, kernel
<1> HIDE DEF HasCause
<1> QED
    BY <1>1, <1>2, <1>3, <1>4, <1>5, <1>6, <1>7, <1>8, <1>9, <1>10, <1>11 DEF Next

\* Nobody's import is cut by a heartbeat, a goodbye or anybody's wait, and the watchdog
\* cuts it only for a silent client that alone claims the device (force_release_allowed).
THEOREM SessionsEndForCauseOnly == Spec => SessionsEndForCause
<1>1. IInv /\ [Next]_vars =>
        [\A b \in Busids :
            session[b] # NoClient /\ session'[b] # session[b] => HasCause(b)]_vars
    BY SessionEnds
<1> QED
    BY <1>1, Consistent, PTL DEF Spec, SessionsEndForCause, HasCause

-----------------------------------------------------------------------------
(* What the wakeup memo stands for.                                        *)

Unclaimed(b) == \A d \in registered : b \notin claims[d]

MemoUnclaimed == \A b \in Busids : notified[b] # NoClient => Unclaimed(b)

\* Whom the memo names is being told, of a device nobody holds.
Told(b) ==
    /\ Unclaimed(b)
    /\ Gateway => session[b] = NoClient
    /\ Woken(notified[b], b)

\* queue_notify_head_if_free writes into the memo only the first waiter of a device that
\* is not held, together with the notice.
LEMMA NewName ==
    ASSUME NEW B, NEW q, NEW m, NEW sh, NEW held, NEW b \in Busids,
           MemoOf(Wakes(B, q, m, sh, held), q, m)[b] # m[b]
    PROVE  /\ b \in B /\ b \notin held /\ b \in Wakes(B, q, m, sh, held)
           /\ IsFirst(q[b], MemoOf(Wakes(B, q, m, sh, held), q, m)[b])
<1>1. /\ b \in Wakes(B, q, m, sh, held)
      /\ MemoOf(Wakes(B, q, m, sh, held), q, m)[b] = First(q[b])
    BY DEF MemoOf
<1>2. \E x \in q[b].who : IsFirst(q[b], x)
    BY <1>1 DEF Wakes
<1>3. IsFirst(q[b], First(q[b]))
    BY <1>2 DEF First
<1>4. b \in B /\ b \notin held
    BY <1>1 DEF Wakes
<1> QED
    BY <1>1, <1>3, <1>4

LEMMA NewNotice ==
    ASSUME NEW W, NEW q, NEW ml, NEW c \in Clients, NEW b \in Busids,
           b \in W, IsFirst(q[b], c)
    PROVE  MailOf(W, q, ml)[c][b] = "attach"
BY DEF MailOf

\* Waking others takes no notice away.
LEMMA NoticeStays ==
    ASSUME NEW W, NEW q, NEW ml, NEW c \in Clients, NEW b \in Busids, ml[c][b] = "attach"
    PROVE  MailOf(W, q, ml)[c][b] = "attach"
BY DEF MailOf

\* A name that survives Keep was there before.
LEMMA KeptName ==
    ASSUME NEW m, NEW q, NEW b \in Busids, KeepAll(m, q)[b] # NoClient
    PROVE  KeepAll(m, q)[b] = m[b]
BY DEF KeepAll, Keep

\* update_client names nobody for a device the client reports, and whom it names anew it
\* tells.
LEMMA HeartbeatNames ==
    ASSUME IInv, IInv', NEW x \in Clients, HandleHeartbeat(x),
           NEW b \in Busids, notified'[b] # NoClient
    PROVE  \/ notified'[b] = notified[b] /\ b \notin net[x].busids
           \/ Told(b)'
<1> DEFINE mail == MailOf(BeatWakes(x), Joined(x), mailbox)
           told == MemoOf(BeatWakes(x), Joined(x), BeatMemo(x))
<1>1. MailOK(mailbox) /\ RestOK
    BY IInvParts
<1>2. /\ registered' = registered \cup {x} /\ UNCHANGED <<shared, session>>
      /\ claims' = [claims EXCEPT ![x] = net[x].busids]
      /\ notified' = [d \in Busids |-> IF d \in net[x].dequeue THEN Keep(told[d], queue'[d])
                                       ELSE told[d]]
      /\ mailbox' = [mail EXCEPT ![x] = NoMail]
      /\ net' = [net EXCEPT ![x] = Reply(mail[x])]
    BY Zenon, BeatComputes
<1>3. DOMAIN mail = Clients /\ DOMAIN net = Clients
    BY <1>1 DEF MailOf, RestOK
<1>4. PICK c \in Clients : notified'[b] = c
    BY DEF IInv, TypeOK, Holders
<1>5. told[b] = c
    <2> HIDE DEF told
    <2>1. notified'[b] = IF b \in net[x].dequeue THEN Keep(told[b], queue'[b]) ELSE told[b]
        BY <1>2
    <2> QED BY <1>4, <2>1, ClientsAssumption DEF Keep
<1>6. CASE BeatMemo(x)[b] = c
    <2>1. BeatMemo(x)[b] = IF b \in net[x].busids THEN ForgetNotified(notified[b])
                           ELSE Keep(notified[b], Joined(x)[b])
        BY DEF BeatMemo
    <2>2. b \notin net[x].busids /\ c = Keep(notified[b], Joined(x)[b])
        BY <1>6, <2>1, ClientsAssumption DEF ForgetNotified
    <2> QED
        BY <1>4, <2>2, ClientsAssumption DEF Keep
<1>7. CASE BeatMemo(x)[b] # c
    <2>1. b \notin BeatTaken(x) /\ mail[c][b] = "attach"
        BY <1>5, <1>7, NewName, NewNotice DEF BeatWakes
    <2>2. Unclaimed(b)' /\ (Gateway => session'[b] = NoClient)
        <3>1. ~IsHeld(b, registered', claims', session)
            BY <1>2, <2>1 DEF BeatTaken
        <3> QED BY <1>2, <3>1 DEF IsHeld, Unclaimed
    <2> HIDE DEF mail
    <2>3. Woken(c, b)'
        <3>1. CASE c = x
            <4>1. net'[c] = Reply(mail[c])
                BY <1>2, <1>3, <3>1
            <4> QED BY <2>1, <4>1 DEF Reply, Woken
        <3>2. CASE c # x
            BY <1>2, <1>3, <2>1, <3>2 DEF Woken
        <3> QED BY <3>1, <3>2
    <2> QED
        BY <1>4, <2>2, <2>3 DEF Told
<1> QED
    BY <1>6, <1>7

\* handle_client_goodbye tells whom it names anew.
LEMMA GoodbyeNames ==
    ASSUME IInv, IInv', NEW x \in Clients, HandleGoodbye(x),
           NEW b \in Busids, notified'[b] # NoClient
    PROVE  notified'[b] = notified[b] \/ Told(b)'
<1> DEFINE q     == [d \in Busids |-> Leave(queue[d], {x})]
           reg   == registered \ {x}
           cl    == [claims EXCEPT ![x] = {}]
           taken == {d \in Busids : IsHeld(d, reg, cl, session)}
           memo  == KeepAll(notified, q)
           base  == [mailbox EXCEPT ![x] = NoMail]
           B     == {d \in Busids : x \in queue[d].who} \cup bye[x].busids
           W     == Wakes(B, q, memo, shared, taken)
<1>1. /\ registered' = reg /\ claims' = cl /\ session' = session
      /\ notified' = MemoOf(W, q, memo)
      /\ mailbox' = MailOf(W, q, base)
    BY DEF HandleGoodbye, kernel
<1>2. PICK c \in Clients : notified'[b] = c
    BY DEF IInv, TypeOK, Holders
<1>3. CASE memo[b] = c
    BY <1>2, <1>3, KeptName, ClientsAssumption
<1>4. CASE memo[b] # c
    <2>1. b \notin taken /\ mailbox'[c][b] = "attach"
        <3> HIDE DEF taken, memo, B, q, base
        <3> QED BY <1>1, <1>2, <1>4, NewName, NewNotice
    <2>2. Unclaimed(b)' /\ (Gateway => session'[b] = NoClient)
        <3> HIDE DEF reg, cl
        <3> QED BY <1>1, <2>1 DEF IsHeld, Unclaimed
    <2> QED
        BY <1>2, <2>1, <2>2 DEF Told, Woken
<1> QED
    BY <1>3, <1>4

\* A kick and an appended line tell whom they name anew.
LEMMA AdminNames ==
    ASSUME IInv, IInv', NEW d \in Busids, Kick(d) \/ \E x \in Clients : AdminEnqueue(d, x),
           NEW b \in Busids, notified'[b] # NoClient
    PROVE  notified'[b] = notified[b] \/ Told(b)'
<1>1. PICK c \in Clients : notified'[b] = c
    BY DEF IInv, TypeOK, Holders
<1>2. ASSUME Kick(d), notified[b] # c
      PROVE  Told(b)'
    <2> DEFINE taken == {e \in Busids : IsHeld(e, registered, claims', session')}
               W     == Wakes({d}, queue, notified, shared, taken)
    <2>1. /\ mailbox' = MailOf(W, queue, mailbox)
          /\ notified' = MemoOf(W, queue, notified)
          /\ registered' = registered
        BY <1>2 DEF Kick
    <2>2. b \notin taken /\ mailbox'[c][b] = "attach"
        <3> HIDE DEF taken
        <3> QED BY <1>1, <1>2, <2>1, NewName, NewNotice
    <2>3. Unclaimed(b)' /\ (Gateway => session'[b] = NoClient)
        BY <2>1, <2>2 DEF IsHeld, Unclaimed
    <2> QED
        BY <1>1, <2>2, <2>3 DEF Told, Woken
<1>3. ASSUME NEW x \in Clients, AdminEnqueue(d, x), notified[b] # c
      PROVE  Told(b)'
    <2> DEFINE q     == [queue EXCEPT ![d] = Capped(JoinAtTail(queue[d], x), MaxQueue)]
               memo  == KeepAll(notified, q)
               taken == {e \in Busids : IsHeld(e, registered, claims, session)}
               W     == Wakes({d}, q, memo, shared, taken)
               V     == IF IsFirst(q[d], x) THEN W ELSE {}
    <2>1. /\ mailbox' = MailOf(V, q, mailbox)
          /\ notified' = MemoOf(V, q, memo)
          /\ UNCHANGED <<registered, claims, session>>
        BY <1>3 DEF AdminEnqueue, kernel
    <2>2. memo[b] # c
        BY <1>3, KeptName, ClientsAssumption
    <2>3. V = W
        <3>1. MemoOf({}, q, memo)[b] = memo[b]
            BY DEF MemoOf
        <3> HIDE DEF q, memo, W
        <3> QED BY <1>1, <2>1, <2>2, <3>1
    <2>4. b \notin taken /\ mailbox'[c][b] = "attach"
        <3> HIDE DEF taken, memo, q, V
        <3> QED BY <1>1, <2>1, <2>2, <2>3, NewName, NewNotice
    <2>5. Unclaimed(b)' /\ (Gateway => session'[b] = NoClient)
        BY <2>1, <2>4 DEF IsHeld, Unclaimed
    <2> QED
        BY <1>1, <2>4, <2>5 DEF Told, Woken
<1> QED
    BY <1>1, <1>2, <1>3

\* A pass of the watchdog tells whom it names anew, in either of its two rounds.
LEMMA WatchdogNames ==
    ASSUME IInv, IInv', NEW x \in Clients, WatchdogRelease(x),
           NEW b \in Busids, notified'[b] # NoClient
    PROVE  notified'[b] = notified[b] \/ Told(b)'
<1> DEFINE reg   == registered \ {x}
           cl    == [claims EXCEPT ![x] = {}]
           q     == [d \in Busids |-> Leave(queue[d], {x})]
           memo1 == KeepAll(notified, q)
           mail1 == [mailbox EXCEPT ![x] = NoMail]
           left  == {d \in Busids : x \in queue[d].who}
           taken == {d \in Busids : IsHeld(d, reg, cl, session)}
           W1    == Wakes(left, q, memo1, shared, taken)
           memo2 == MemoOf(W1, q, memo1)
           mail2 == MailOf(W1, q, mail1)
           freed == {d \in claims[x] : ForceReleaseAllowed(d, x, reg, cl)}
           W2    == Wakes(freed, q, memo2, shared, {})
           memo3 == MemoOf(W2, q, memo2)
<1>1. /\ registered' = reg /\ claims' = cl
      /\ session' = [d \in Busids |-> IF d \in freed THEN NoClient ELSE session[d]]
      /\ mailbox' = MailOf(W2, q, mail2)
      /\ notified' = KeepAll(memo3, queue')
    BY DEF WatchdogRelease
<1>2. PICK c \in Clients : notified'[b] = c
    BY DEF IInv, TypeOK, Holders
<1>3. memo3[b] = c
    <2> HIDE DEF memo3
    <2> QED BY <1>1, <1>2, KeptName, ClientsAssumption
<1>4. CASE memo1[b] = c
    BY <1>2, <1>4, KeptName, ClientsAssumption
<1>5. CASE memo1[b] # c /\ memo2[b] = c
    <2>1. b \notin taken /\ mail2[c][b] = "attach"
        <3> HIDE DEF taken, memo1, q, left, mail1
        <3> QED BY <1>5, NewName, NewNotice
    <2>2. mailbox'[c][b] = "attach"
        <3> HIDE DEF mail2, W2, q
        <3> QED BY <1>1, <2>1, NoticeStays
    <2>3. /\ \A d \in reg : b \notin cl[d]
          /\ Gateway => session[b] = NoClient
        <3> HIDE DEF reg, cl
        <3> QED BY <2>1 DEF IsHeld
    <2>4. Unclaimed(b)' /\ (Gateway => session'[b] = NoClient)
        <3> HIDE DEF reg, cl, freed
        <3> QED BY <1>1, <2>3 DEF Unclaimed
    <2> QED
        BY <1>2, <2>2, <2>4 DEF Told, Woken
<1>6. CASE memo2[b] # c
    <2>1. b \in freed /\ mailbox'[c][b] = "attach"
        <3> HIDE DEF memo2, q, freed, mail2
        <3> QED BY <1>1, <1>3, <1>6, NewName, NewNotice
    <2>2. (\A d \in reg : b \notin cl[d]) /\ session'[b] = NoClient
        BY <1>1, <2>1 DEF ForceReleaseAllowed
    <2>3. Unclaimed(b)'
        <3> HIDE DEF reg, cl
        <3> QED BY <1>1, <2>2 DEF Unclaimed
    <2> QED
        BY <1>2, <2>1, <2>2, <2>3 DEF Told, Woken
<1> QED
    BY <1>4, <1>5, <1>6

\* No other step names anybody.
LEMMA OthersNameNobody ==
    ASSUME IInv, [Next]_vars, NEW b \in Busids, notified'[b] # NoClient
    PROVE  \/ notified'[b] = notified[b]
           \/ \E x \in Clients : HandleHeartbeat(x) \/ HandleGoodbye(x) \/ WatchdogRelease(x)
           \/ \E d \in Busids : Kick(d) \/ \E x \in Clients : AdminEnqueue(d, x)
<1>1. notified \in [Busids -> Holders]
    BY DEF IInv, TypeOK
<1>2. ASSUME NEW x \in Clients, ClientStep(x)
      PROVE  notified' = notified
    BY <1>2
    DEF ClientStep, SendHeartbeat, LoseExchange, ReceiveReply, Quit, Exit, Crash, Start,
        JoinQueue, LeaveQueue, Connect, BackgroundAttach, Detach, server
<1>3. ASSUME NEW d \in Busids, EndSession(d) \/ Share(d)
      PROVE  notified' = notified
    BY <1>3 DEF EndSession, Share, server
<1>4. ASSUME NEW d \in Busids, Unshare(d) \/ AdminClear(d)
      PROVE  notified'[b] = notified[b]
    BY <1>1, <1>4 DEF Unshare, AdminClear
<1>5. CASE Sweep \/ \E d \in Busids, x \in Clients : AdminDequeue(d, x)
    <2>1. notified' = KeepAll(notified, queue')
        BY <1>5 DEF Sweep, AdminDequeue
    <2> QED
        BY <2>1, KeptName
<1>6. ASSUME UNCHANGED vars \/ \E x \in Clients : Expire(x)
      PROVE  notified' = notified
    BY <1>6 DEF Expire, vars, server
<1>7. ~Restart
    BY DEF Restart
<1> QED
    BY <1>2, <1>3, <1>4, <1>5, <1>6, <1>7 DEF Next, ClientStep

\* Whom the memo names it named before, or it is being told.
LEMMA NamedIsTold ==
    ASSUME IInv, [Next]_vars, NEW b \in Busids, notified'[b] # NoClient
    PROVE  notified'[b] = notified[b] \/ Told(b)'
BY NextKeepsIInv, OthersNameNobody, HeartbeatNames, GoodbyeNames, AdminNames, WatchdogNames

\* A device the memo has a name for is not claimed: a claim clears the name
\* (queue_forget_notified), and a claimed device gets none.
LEMMA MemoStaysUnclaimed ==
    ASSUME IInv, MemoUnclaimed, [Next]_vars
    PROVE  MemoUnclaimed'
<1> SUFFICES ASSUME NEW b \in Busids, notified'[b] # NoClient
             PROVE  Unclaimed(b)'
    BY DEF MemoUnclaimed
<1>1. RestOK
    BY IInvParts
<1>2. CASE Told(b)'
    BY <1>2 DEF Told
<1>3. CASE notified'[b] = notified[b] /\ ~Told(b)'
    <2>1. Unclaimed(b)
        BY <1>3 DEF MemoUnclaimed
    <2>2. ASSUME NEW x \in Clients, HandleHeartbeat(x)
          PROVE  Unclaimed(b)'
        <3>1. b \notin net[x].busids
            BY <1>3, <2>2, NextKeepsIInv, HeartbeatNames
        <3>2. /\ registered' = registered \cup {x}
              /\ claims' = [claims EXCEPT ![x] = net[x].busids]
            BY <2>2 DEF HandleHeartbeat
        <3> QED
            BY <1>1, <2>1, <3>1, <3>2 DEF Unclaimed, RestOK
    <2>3. ASSUME NEW x \in Clients, HandleGoodbye(x) \/ WatchdogRelease(x) \/ Expire(x)
          PROVE  Unclaimed(b)'
        <3>1. registered' = registered \ {x} /\ claims' = [claims EXCEPT ![x] = {}]
            BY <2>3 DEF HandleGoodbye, WatchdogRelease, Expire
        <3> QED
            BY <1>1, <2>1, <3>1 DEF Unclaimed, RestOK
    <2>4. ASSUME NEW d \in Busids, Kick(d)
          PROVE  Unclaimed(b)'
        <3>1. registered' = registered /\ claims' = [c \in Clients |-> claims[c] \ {d}]
            BY <2>4 DEF Kick
        <3> QED
            BY <1>1, <2>1, <3>1 DEF Unclaimed, RestOK
    <2>5. ASSUME \/ \E x \in Clients : ClientStep(x)
                 \/ \E d \in Busids : EndSession(d) \/ Share(d) \/ Unshare(d) \/ AdminClear(d)
                 \/ \E d \in Busids, x \in Clients : AdminEnqueue(d, x) \/ AdminDequeue(d, x)
                 \/ Sweep \/ Restart \/ UNCHANGED vars
          PROVE  UNCHANGED <<registered, claims>>
        BY <2>5
        DEF ClientStep, SendHeartbeat, LoseExchange, ReceiveReply, Quit, Exit, Crash, Start,
            JoinQueue, LeaveQueue, Connect, BackgroundAttach, Detach, EndSession, Share,
            Unshare, AdminClear, AdminEnqueue, AdminDequeue, Sweep, Restart, vars, server
    <2>6. UNCHANGED <<registered, claims>> => Unclaimed(b)'
        BY <2>1 DEF Unclaimed
    <2> QED
        BY <2>2, <2>3, <2>4, <2>5, <2>6 DEF Next, ClientStep
<1> QED
    BY <1>2, <1>3, NamedIsTold

\* The wakeup memo names nobody but the first waiter of a device no record claims.
THEOREM MemoStaysFirst == Spec => []MemoNamesFirst
<1>1. Init => MemoUnclaimed
    BY DEF Init, MemoUnclaimed
<1>2. MemoUnclaimed /\ UNCHANGED vars => MemoUnclaimed'
    BY DEF MemoUnclaimed, Unclaimed, vars, server
<1>3. IInv /\ MemoUnclaimed /\ [Next]_vars => MemoUnclaimed'
    BY MemoStaysUnclaimed
<1>4. IInv /\ MemoUnclaimed => MemoNamesFirst
    BY DEF IInv, MemoInLine, MemoUnclaimed, Unclaimed, MemoNamesFirst
<1> QED
    BY <1>1, <1>3, <1>4, Consistent, PTL DEF Spec

-----------------------------------------------------------------------------
(* The memo is honest: whom it keeps from being woken again is being told, *)
(* or the device is in use.                                                *)

\* What MemoHonest asks of the environment.
Quiet == Gateway /\ Env \cap {"admin", "loss", "brief"} = {}

\* A client that is not mortal runs and says no goodbye.
StayersUp == \A c \in Clients \ Mortal : mode[c] = "up" /\ ~bye[c].sent

\* An importer that leaves or is gone was recorded before, so the memo is empty.
LeaversUnnamed ==
    \A b \in Busids :
        session[b] # NoClient /\ mode[session[b]] # "up" => notified[b] = NoClient

NamedAreTold ==
    \A c \in Clients \ Mortal, b \in Busids :
        notified[b] = c => Woken(c, b) \/ session[b] # NoClient

HonestInv ==
    IInv /\ MemoUnclaimed /\ shared = Busids /\ StayersUp /\ LeaversUnnamed /\ NamedAreTold

LEMMA InitHonest == Init => HonestInv
<1> SUFFICES ASSUME Init PROVE HonestInv
    OBVIOUS
<1>1. MemoUnclaimed /\ LeaversUnnamed
    BY DEF Init, MemoUnclaimed, LeaversUnnamed
<1>2. StayersUp
    BY DEF Init, StayersUp, NoBye
<1>3. NamedAreTold
    BY ClientsAssumption DEF Init, NamedAreTold
<1> QED
    BY <1>1, <1>2, <1>3, InitIInv DEF Init, HonestInv

\* An importer that may leave is recorded, so nobody is named for its devices.
LEMMA RecordedUnnamed ==
    ASSUME Quiet, IInv, MemoUnclaimed, NEW c \in Clients, NEW B \in SUBSET Busids,
           Lasting(c, B)
    PROVE  \A b \in B : notified[b] = NoClient
BY DEF Quiet, Lasting, MemoUnclaimed, Unclaimed

\* Without the administrator no device is bound or unbound.
LEMMA SharedStays ==
    ASSUME Quiet, [Next]_vars, shared = Busids
    PROVE  shared' = Busids
<1>1. "admin" \notin Env
    BY DEF Quiet
<1>2. ASSUME NEW x \in Clients, ClientStep(x)
      PROVE  shared' = shared
    BY <1>2
    DEF ClientStep, SendHeartbeat, LoseExchange, ReceiveReply, Quit, Exit, Crash, Start,
        JoinQueue, LeaveQueue, Connect, BackgroundAttach, Detach, kernel
<1>3. ASSUME NEW x \in Clients, HandleHeartbeat(x) \/ HandleGoodbye(x) \/ Expire(x)
      PROVE  shared' = shared
    BY <1>3 DEF HandleHeartbeat, HandleGoodbye, Expire, kernel
<1>4. ASSUME NEW x \in Clients, WatchdogRelease(x)
      PROVE  shared' = shared
    BY <1>4 DEF WatchdogRelease
<1>5. ASSUME Sweep \/ Restart \/ UNCHANGED vars \/ \E d \in Busids : EndSession(d)
      PROVE  shared' = shared
    BY <1>5 DEF Sweep, Restart, EndSession, vars, kernel
<1>6. \A d \in Busids : ~(Share(d) \/ Unshare(d) \/ Kick(d) \/ AdminClear(d))
    BY <1>1 DEF Share, Unshare, Kick, AdminClear
<1>7. \A d \in Busids, x \in Clients : ~AdminEnqueue(d, x) /\ ~AdminDequeue(d, x)
    BY <1>1 DEF AdminEnqueue, AdminDequeue
<1> QED
    BY <1>2, <1>3, <1>4, <1>5, <1>6, <1>7 DEF Next, ClientStep

\* Only a mortal client stops.
LEMMA StayersStayUp ==
    ASSUME IInv, StayersUp, [Next]_vars
    PROVE  StayersUp'
<1> SUFFICES ASSUME NEW c \in Clients \ Mortal
             PROVE  mode'[c] = "up" /\ ~bye'[c].sent
    BY DEF StayersUp
<1>1. mode[c] = "up" /\ ~bye[c].sent
    BY DEF StayersUp
<1>2. /\ DOMAIN mode = Clients /\ DOMAIN bye = Clients
    BY DEF IInv, TypeOK
<1>3. ASSUME NEW x \in Clients,
             Quit(x) \/ Exit(x) \/ Crash(x) \/ Start(x) \/ HandleGoodbye(x)
      PROVE  mode'[c] = mode[c] /\ bye'[c] = bye[c]
    BY <1>1, <1>2, <1>3 DEF Quit, Exit, Crash, Start, HandleGoodbye, NoBye
<1>4. CASE Restart
    BY <1>1, <1>4 DEF Restart, NoBye
<1>5. ASSUME NEW x \in Clients,
             \/ SendHeartbeat(x) \/ LoseExchange(x) \/ ReceiveReply(x)
             \/ HandleHeartbeat(x) \/ Expire(x)
      PROVE  UNCHANGED <<mode, bye>>
    BY <1>5 DEF SendHeartbeat, LoseExchange, ReceiveReply, HandleHeartbeat, Expire, clients
<1>6. ASSUME NEW x \in Clients, WatchdogRelease(x)
      PROVE  UNCHANGED <<mode, bye>>
    BY <1>6 DEF WatchdogRelease, clients
<1>7. ASSUME NEW x \in Clients, NEW d \in Busids,
             \/ JoinQueue(x, d) \/ LeaveQueue(x, d) \/ Connect(x, d)
             \/ BackgroundAttach(x, d) \/ Detach(x, d)
      PROVE  UNCHANGED <<mode, bye>>
    BY <1>7 DEF JoinQueue, LeaveQueue, Connect, BackgroundAttach, Detach, clients
<1>8. ASSUME NEW d \in Busids, EndSession(d) \/ Share(d) \/ Unshare(d) \/ AdminClear(d)
      PROVE  UNCHANGED <<mode, bye>>
    BY <1>8 DEF EndSession, Share, Unshare, AdminClear, clients
<1>9. ASSUME NEW d \in Busids,
             Kick(d) \/ \E x \in Clients : AdminEnqueue(d, x) \/ AdminDequeue(d, x)
      PROVE  UNCHANGED <<mode, bye>>
    BY <1>9 DEF Kick, AdminEnqueue, AdminDequeue, clients
<1>10. ASSUME Sweep \/ UNCHANGED vars
      PROVE  UNCHANGED <<mode, bye>>
    BY <1>10 DEF Sweep, vars, clients
<1> QED
    BY <1>1, <1>3, <1>4, <1>5, <1>6, <1>7, <1>8, <1>9, <1>10 DEF Next

\* Who takes a device runs, and goes on running in that step.
LEMMA ImporterIsUp ==
    ASSUME IInv, [Next]_vars, NEW b \in Busids,
           session'[b] # session[b], session'[b] # NoClient
    PROVE  mode'[session'[b]] = "up"
<1>1. session \in [Busids -> Holders]
    BY DEF IInv, TypeOK
<1>2. ASSUME NEW x \in Clients, ReceiveReply(x)
      PROVE  mode'[session'[b]] = "up"
    <2>1. mode[x] = "up" /\ mode' = mode
        BY <1>2 DEF ReceiveReply
    <2>2. \E won : session' = [d \in Busids |-> IF d \in won THEN x ELSE session[d]]
        BY <1>2, <2>1 DEF ReceiveReply
    <2>3. session'[b] = x
        BY <2>2
    <2> QED BY <2>1, <2>3
<1>3. ASSUME NEW x \in Clients, NEW d \in Busids, Connect(x, d) \/ BackgroundAttach(x, d)
      PROVE  mode'[session'[b]] = "up"
    BY <1>1, <1>3 DEF Connect, BackgroundAttach, clients
<1>4. ASSUME NEW d \in Busids,
             EndSession(d) \/ Unshare(d) \/ Kick(d) \/ \E x \in Clients : Detach(x, d)
      PROVE  FALSE
    <2>1. session' = [session EXCEPT ![d] = NoClient]
        BY <1>4 DEF EndSession, Unshare, Kick, Detach
    <2> QED BY <1>1, <2>1
<1>5. ASSUME NEW x \in Clients, WatchdogRelease(x)
      PROVE  FALSE
    <2>1. \E freed : session' = [d \in Busids |-> IF d \in freed THEN NoClient ELSE session[d]]
        BY <1>5 DEF WatchdogRelease
    <2> QED BY <2>1
<1>6. ~Restart
    BY DEF Restart
<1>7. ASSUME NEW c \in Clients,
             \/ SendHeartbeat(c) \/ LoseExchange(c) \/ Quit(c) \/ Exit(c) \/ Crash(c)
             \/ Start(c) \/ HandleHeartbeat(c) \/ HandleGoodbye(c) \/ Expire(c)
      PROVE  FALSE
    BY <1>7 DEF SendHeartbeat, LoseExchange, Quit, Exit, Crash, Start, HandleHeartbeat,
        HandleGoodbye, Expire, kernel
<1>8. ASSUME NEW c \in Clients, NEW d \in Busids,
             \/ JoinQueue(c, d) \/ LeaveQueue(c, d)
             \/ AdminEnqueue(d, c) \/ AdminDequeue(d, c)
      PROVE  FALSE
    BY <1>8 DEF JoinQueue, LeaveQueue, AdminEnqueue, AdminDequeue, kernel
<1>9. ASSUME \/ Sweep \/ UNCHANGED vars
             \/ \E d \in Busids : Share(d) \/ AdminClear(d)
      PROVE  FALSE
    BY <1>9 DEF Sweep, Share, AdminClear, vars, kernel
<1> QED
    BY <1>2, <1>3, <1>4, <1>5, <1>6, <1>7, <1>8, <1>9 DEF Next

\* Who stops running was recorded with what it has attached.
LEMMA StopsRecorded ==
    ASSUME IInv, [Next]_vars, NEW c \in Clients, mode[c] = "up", mode'[c] # "up"
    PROVE  Lasting(c, Attached(c))
<1>1. DOMAIN mode = Clients
    BY DEF IInv, TypeOK
<1>2. ASSUME NEW x \in Clients, Quit(x) \/ Crash(x)
      PROVE  Lasting(c, Attached(c))
    <2>1. x = c
        BY <1>1, <1>2 DEF Quit, Crash
    <2> QED BY <1>2, <2>1 DEF Quit, Crash
<1>3. ASSUME NEW x \in Clients, Exit(x) \/ Start(x)
      PROVE  FALSE
    BY <1>1, <1>3 DEF Exit, Start
<1>4. ASSUME NEW x \in Clients,
             \/ SendHeartbeat(x) \/ LoseExchange(x) \/ ReceiveReply(x)
             \/ HandleHeartbeat(x) \/ HandleGoodbye(x) \/ Expire(x)
      PROVE  mode' = mode
    BY <1>4 DEF SendHeartbeat, LoseExchange, ReceiveReply, HandleHeartbeat, HandleGoodbye,
        Expire, clients
<1>5. ASSUME NEW x \in Clients, WatchdogRelease(x)
      PROVE  mode' = mode
    BY <1>5 DEF WatchdogRelease, clients
<1>6. ASSUME NEW x \in Clients, NEW d \in Busids,
             \/ JoinQueue(x, d) \/ LeaveQueue(x, d) \/ Connect(x, d)
             \/ BackgroundAttach(x, d) \/ Detach(x, d)
      PROVE  mode' = mode
    BY <1>6 DEF JoinQueue, LeaveQueue, Connect, BackgroundAttach, Detach, clients
<1>7. ASSUME NEW d \in Busids, EndSession(d) \/ Share(d) \/ Unshare(d) \/ AdminClear(d)
      PROVE  mode' = mode
    BY <1>7 DEF EndSession, Share, Unshare, AdminClear, clients
<1>8. ASSUME NEW d \in Busids,
             Kick(d) \/ \E x \in Clients : AdminEnqueue(d, x) \/ AdminDequeue(d, x)
      PROVE  mode' = mode
    BY <1>8 DEF Kick, AdminEnqueue, AdminDequeue, clients
<1>9. ASSUME Sweep \/ Restart \/ UNCHANGED vars
      PROVE  mode' = mode
    BY <1>9 DEF Sweep, Restart, vars, clients
<1> QED
    BY <1>2, <1>3, <1>4, <1>5, <1>6, <1>7, <1>8, <1>9 DEF Next

\* Who leaves or is gone still has no name in the memo of its devices.
LEMMA LeaversStayUnnamed ==
    ASSUME Quiet, HonestInv, [Next]_vars
    PROVE  LeaversUnnamed'
<1> SUFFICES ASSUME NEW b \in Busids, session'[b] # NoClient, mode'[session'[b]] # "up",
                    notified'[b] # NoClient
             PROVE  FALSE
    BY DEF LeaversUnnamed
<1>1. IInv /\ MemoUnclaimed /\ LeaversUnnamed
    BY DEF HonestInv
<1>2. notified'[b] = notified[b]
    BY <1>1, NamedIsTold DEF Told, Quiet
<1>3. session'[b] = session[b]
    BY <1>1, ImporterIsUp
<1>4. mode[session[b]] = "up"
    BY <1>1, <1>2, <1>3 DEF LeaversUnnamed
<1>5. session[b] \in Clients
    BY <1>1, <1>3 DEF IInv, TypeOK, Holders
<1>6. Lasting(session[b], Attached(session[b]))
    BY <1>1, <1>3, <1>4, <1>5, StopsRecorded
<1>7. b \in Attached(session[b]) /\ Attached(session[b]) \in SUBSET Busids
    BY DEF Attached
<1> QED
    BY <1>1, <1>2, <1>5, <1>6, <1>7, RecordedUnnamed

\* A notice under way to a client that stays is delivered, and then the client has the
\* device or somebody else was faster.
LEMMA NoticeArrives ==
    ASSUME Quiet, HonestInv, [Next]_vars, NEW c \in Clients \ Mortal, NEW b \in Busids,
           Woken(c, b)
    PROVE  Woken(c, b)' \/ session'[b] # NoClient \/ notified'[b] # c
<1>1. /\ DOMAIN net = Clients /\ DOMAIN mailbox = Clients /\ DOMAIN session = Busids
      /\ Mail = [Busids -> Notices] /\ mailbox \in [Clients -> Mail]
    BY DEF HonestInv, IInv, TypeOK, Mail
<1>2. mode[c] = "up" /\ ~bye[c].sent /\ shared = Busids /\ c \in Clients
    BY DEF HonestInv, StayersUp
<1>3. ASSUME NEW x \in Clients, ReceiveReply(x)
      PROVE  Woken(c, b)' \/ session'[b] # NoClient
    <2>1. net' = [net EXCEPT ![x] = Idle] /\ mailbox' = mailbox
        BY <1>3 DEF ReceiveReply, server
    <2>2. CASE x # c \/ mailbox[c][b] = "attach"
        BY <1>1, <2>1, <2>2 DEF Woken
    <2>3. CASE x = c /\ net[c].notices[b] = "attach"
        <3> DEFINE told == {d \in Busids : net[c].notices[d] = "attach"}
                   won  == {d \in told : \/ session[d] = c
                                         \/ d \in shared /\ session[d] = NoClient}
        <3>1. session' = [d \in Busids |-> IF d \in won THEN c ELSE session[d]]
            BY <1>2, <1>3, <2>3 DEF ReceiveReply
        <3>2. b \in won \/ session[b] # NoClient
            BY <1>2, <2>3
        <3> HIDE DEF won
        <3> QED
            BY <1>2, <3>1, <3>2, ClientsAssumption
    <2> QED BY <2>2, <2>3 DEF Woken
<1>4. ASSUME NEW x \in Clients, HandleHeartbeat(x)
      PROVE  Woken(c, b)'
    <2> DEFINE W == BeatWakes(x)
               q == Joined(x)
    <2>2. /\ mailbox' = [MailOf(W, q, mailbox) EXCEPT ![x] = NoMail]
          /\ net' = [net EXCEPT ![x] = Reply(MailOf(W, q, mailbox)[x])]
        BY Zenon, <1>4, BeatComputes
    <2> HIDE DEF W, q
    <2>3. DOMAIN MailOf(W, q, mailbox) = Clients
        BY DEF MailOf
    <2>4. CASE mailbox[c][b] = "attach"
        <3>1. MailOf(W, q, mailbox)[c][b] = "attach"
            BY <1>2, <2>4, NoticeStays
        <3> DEFINE mail == MailOf(W, q, mailbox)
        <3> HIDE DEF mail
        <3>2. CASE x = c
            BY <1>1, <1>2, <2>2, <3>1, <3>2 DEF mail, Woken, Reply
        <3>3. CASE x # c
            BY <1>1, <1>2, <2>2, <2>3, <3>1, <3>3 DEF mail, Woken
        <3> QED BY <3>2, <3>3
    <2>5. CASE mailbox[c][b] # "attach"
        <3>1. x # c /\ net[c].kind = "reply" /\ net[c].notices[b] = "attach"
            BY <1>4, <2>5 DEF Woken, HandleHeartbeat
        <3> QED
            BY <1>1, <2>2, <3>1 DEF Woken
    <2> QED BY <2>4, <2>5
<1>5. ASSUME NEW x \in Clients, HandleGoodbye(x) \/ WatchdogRelease(x)
      PROVE  Woken(c, b)'
    <2> DEFINE base == [mailbox EXCEPT ![x] = NoMail]
    <2>1. x # c /\ net' = net
        BY <1>2, <1>5 DEF HandleGoodbye, WatchdogRelease, Silent, clients
    <2>2. base[c] = mailbox[c]
        BY <1>1, <2>1
    <2>3. \E V, W, q : mailbox' = MailOf(V, q, MailOf(W, q, base)) \/ mailbox' = MailOf(W, q, base)
        <3> HIDE DEF base
        <3>1. CASE HandleGoodbye(x)
            BY <3>1 DEF HandleGoodbye, base
        <3>2. CASE WatchdogRelease(x)
            BY <3>2 DEF WatchdogRelease, base
        <3> QED BY <1>5, <3>1, <3>2
    <2>4. base[c][b] = "attach" => mailbox'[c][b] = "attach"
        <3> HIDE DEF base
        <3> QED BY <2>3, NoticeStays
    <2> QED
        BY <2>1, <2>2, <2>4 DEF Woken
<1>6. ASSUME NEW x \in Clients, SendHeartbeat(x) \/ Crash(x)
      PROVE  Woken(c, b)'
    <2>1. mailbox' = mailbox /\ \E y : net' = [net EXCEPT ![x] = y]
        BY <1>6 DEF SendHeartbeat, Crash, server
    <2>2. x = c => net[c] = Idle
        BY <1>6 DEF SendHeartbeat, Crash
    <2> QED
        BY <1>1, <2>1, <2>2 DEF Woken, Idle
<1>7. ASSUME NEW x \in Clients, Quit(x) \/ Exit(x) \/ Start(x) \/ Expire(x)
      PROVE  Woken(c, b)'
    BY <1>7 DEF Quit, Exit, Start, Expire, Woken, server, clients
<1>8. ASSUME NEW x \in Clients, NEW d \in Busids,
             \/ JoinQueue(x, d) \/ LeaveQueue(x, d) \/ Connect(x, d)
             \/ BackgroundAttach(x, d) \/ Detach(x, d)
      PROVE  Woken(c, b)'
    BY <1>8 DEF JoinQueue, LeaveQueue, Connect, BackgroundAttach, Detach, Woken, server, clients
<1>9. ASSUME Sweep \/ UNCHANGED vars \/ \E d \in Busids : EndSession(d)
      PROVE  Woken(c, b)'
    BY <1>9 DEF Sweep, EndSession, Woken, vars, server, clients
<1>10. Restart => notified'[b] # c
    BY <1>2, ClientsAssumption DEF Restart
<1>11. /\ \A x \in Clients : ~LoseExchange(x)
       /\ \A d \in Busids : ~(Share(d) \/ Unshare(d) \/ Kick(d) \/ AdminClear(d))
    BY DEF Quiet, LoseExchange, Share, Unshare, Kick, AdminClear
<1>12. \A d \in Busids, x \in Clients : ~AdminEnqueue(d, x) /\ ~AdminDequeue(d, x)
    BY DEF Quiet, AdminEnqueue, AdminDequeue
<1> QED
    BY <1>3, <1>4, <1>5, <1>6, <1>7, <1>8, <1>9, <1>10, <1>11, <1>12 DEF Next

\* A device for which the memo names somebody loses no session: who gives one up was
\* recorded, and who is off is a leaver.
LEMMA NamedSessionStays ==
    ASSUME Quiet, HonestInv, [Next]_vars, NEW b \in Busids,
           session[b] # NoClient, notified[b] # NoClient, notified'[b] = notified[b]
    PROVE  session'[b] # NoClient
<1> SUFFICES ASSUME session'[b] = NoClient
             PROVE  FALSE
    OBVIOUS
<1>1. IInv /\ MemoUnclaimed /\ LeaversUnnamed
    BY DEF HonestInv
<1>2. HasCause(b)
    BY <1>1, SessionEnds
<1>3. ~Restart /\ ~Unshare(b) /\ ~Kick(b)
    BY DEF Restart, Unshare, Kick, Quiet
<1>4. Gateway
    BY DEF Quiet
<1>5. session[b] \in Clients
    BY <1>1 DEF IInv, TypeOK, Holders
<1>6. CASE Detach(session[b], b)
    <2>1. Lasting(session[b], {b})
        BY <1>6 DEF Detach
    <2> QED BY <1>1, <1>5, <2>1, RecordedUnnamed
<1>7. CASE mode[session[b]] = "off"
    BY <1>1, <1>7 DEF LeaversUnnamed
<1> QED
    BY <1>2, <1>3, <1>4, <1>6, <1>7 DEF HasCause

LEMMA NextKeepsHonest ==
    ASSUME Quiet, HonestInv, [Next]_vars
    PROVE  HonestInv'
<1>1. IInv /\ MemoUnclaimed /\ shared = Busids /\ StayersUp /\ NamedAreTold
    BY DEF HonestInv
<1>2. ASSUME NEW c \in Clients \ Mortal, NEW b \in Busids, notified'[b] = c
      PROVE  Woken(c, b)' \/ session'[b] # NoClient
    <2>1. notified'[b] # NoClient
        BY <1>2, ClientsAssumption
    <2>2. CASE Told(b)'
        BY <1>2, <2>2 DEF Told
    <2>3. CASE notified'[b] = notified[b]
        <3>1. Woken(c, b) \/ session[b] # NoClient
            BY <1>1, <1>2, <2>3 DEF NamedAreTold
        <3> QED
            BY <1>2, <2>1, <2>3, <3>1, NoticeArrives, NamedSessionStays
    <2> QED
        BY <1>1, <2>1, <2>2, <2>3, NamedIsTold
<1>3. NamedAreTold'
    BY <1>2 DEF NamedAreTold
<1> QED
    BY <1>1, <1>3, NextKeepsIInv, MemoStaysUnclaimed, SharedStays, StayersStayUp,
       LeaversStayUnnamed DEF HonestInv

\* The memo keeps from a second wakeup only a client that is being told, or one whose
\* device is in use again.
THEOREM MemoStaysHonest == Spec => []MemoHonest
<1>1. CASE Quiet
    <2>1. HonestInv /\ [Next]_vars => HonestInv'
        BY <1>1, NextKeepsHonest
    <2>2. HonestInv => MemoHonest
        BY DEF HonestInv, NamedAreTold, MemoHonest
    <2> QED
        BY <2>1, <2>2, InitHonest, PTL DEF Spec
<1>2. CASE ~Quiet
    <2>1. MemoHonest
        BY <1>2 DEF Quiet, MemoHonest
    <2> QED
        BY <2>1, PTL
<1> QED
    BY <1>1, <1>2
=============================================================================
