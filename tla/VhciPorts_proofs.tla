-------------------------- MODULE VhciPorts_proofs --------------------------
(***************************************************************************)
(* Proofs about VhciPorts, for any numbers of locations, devices, attach   *)
(* requests and ports.                                                     *)
(*                                                                         *)
(* The promises speak of the port, of UDE and of the session separately;   *)
(* what keeps them together is the order in which attaching takes them and *)
(* detaching gives them back.  Attaching and Detaching say at each stage   *)
(* what the device has, Tabled, Plugged and Flagged what it has when       *)
(* nobody works on it.                                                     *)
(***************************************************************************)
EXTENDS VhciPortsProps, SequenceTheorems, FiniteSetTheorems, WellFoundedInduction, TLAPS

Requests ==
    [op : {"plugin"}, loc : Locations, by : {User, Once} \cup Attempts]
    \cup [op : {"plugout"}, port : -2 .. NPorts, reattach : BOOLEAN]

AttachTypes ==
    [at : {"idle", "connect", "import", "create", "claim", "plugin", "receive", "giveup"},
     dev : Devices \cup {NoDevice}, by : {User, Once} \cup Attempts]
DetachTypes ==
    [at : {"idle", "flag", "close", "reclaim", "plugout", "start", "add"},
     dev : Devices \cup {NoDevice}, plugout : BOOLEAN, reattach : BOOLEAN]
AttemptStates == Status \cup {"none", "timer", "sent"}
TailStates == Status \cup {"none", "start", "add", "cleanup"}

\* TypeOK in parts; the queue is a sequence.
DevicesTyped ==
    /\ devices \in [Ports -> Devices \cup {NoDevice}]
    /\ port \in [Devices -> 0 .. NPorts]
    /\ hub \in [Devices -> 0 .. NPorts]
    /\ unplugged \subseteq Devices /\ abandoned \subseteq Devices
    /\ sessions \subseteq Devices /\ lost \subseteq sessions
    /\ noticing \subseteq noticed /\ noticed \subseteq Devices \X Noticers
    /\ unheard \subseteq noticed
WorkTyped ==
    /\ attach \in AttachTypes
    /\ detach \in DetachTypes
    /\ sweep \in [ports : SUBSET Ports, plugout : BOOLEAN]
AttemptsTyped ==
    /\ attempt \in [Attempts -> AttemptStates]
    /\ listed \subseteq Attempts /\ stopped \subseteq Attempts
    /\ retries \in [Attempts -> 0 .. MaxAttempts + 1]
OthersTyped ==
    /\ queue \in Seq(Requests)
    /\ tail \in [Devices -> TailStates]
    /\ removing \in BOOLEAN /\ removal \in {"none", "flagged", "stopped", "sent", "unsent"}
    /\ events \in 0 .. MaxEvents
Typed == DevicesTyped /\ WorkTyped /\ AttemptsTyped /\ OthersTyped

Agree == \A d \in Devices, p \in Ports : port[d] = p <=> devices[p] = d

\* Detaches exclude each other and, but for the end of a failed one, attaching.
OneWorker ==
    /\ attach.at = "idle" => attach = NoAttach
    /\ attach.at # "idle" => attach.dev \in Devices /\ sweep = NoSweep
    /\ detach.at = "idle" => detach = NoDetach
    /\ detach.at # "idle" => detach.dev \in Devices
    /\ attach.at # "idle" /\ detach.at # "idle" =>
        attach.at = "giveup" /\ detach.dev = attach.dev /\ ~detach.reattach

\* What a device has while it is attached.
AttachStage(d) ==
    /\ attach.at \in {"connect", "import"} => d \notin sessions
    /\ attach.at \in {"connect", "import", "create", "claim"} => port[d] = 0
    /\ attach.at \in {"plugin", "receive"} => port[d] # 0
    /\ attach.at \in {"connect", "import", "create", "claim", "plugin"} => hub[d] = 0
    /\ attach.at = "receive" => hub[d] = port[d]
    /\ attach.at # "giveup" => d \notin unplugged
    /\ attach.at = "giveup" /\ detach.at = "idle" => port[d] = 0 /\ d \notin sessions
Attaching == attach.at # "idle" => AttachStage(attach.dev)

\* What it has while it is detached; its notices are over before the port goes.
DetachStage(d) ==
    /\ detach.at \in {"flag", "close"} =>
        /\ hub[d] \in {0, port[d]}
        /\ attach.at = "idle" => port[d] # 0
    /\ attach.at # "idle" =>
        /\ detach.at = "flag" <=> d \notin unplugged
        /\ ~detach.plugout => hub[d] = 0
        /\ detach.at \notin {"start", "add"}
    /\ attach.at = "idle" /\ detach.at \in {"reclaim", "plugout"} => hub[d] # 0
    /\ detach.at \in {"close", "reclaim", "plugout"} => d \in unplugged
    /\ detach.at \notin {"flag", "close"} => d \notin sessions
    /\ detach.at = "reclaim" => \A n \in noticing : n[1] # d
    /\ detach.at \in {"plugout", "start", "add"} => port[d] = 0
    /\ detach.at \in {"start", "add"} =>
        /\ hub[d] # 0 => d \in abandoned
        /\ d \in unplugged => hub[d] # 0
Detaching == detach.at # "idle" => DetachStage(detach.dev)

\* Who has a port is plugged on it; who is plugged has a port, or is being
\* detached, or was left; and the flag is set of nobody else.
Tabled == \A d \in Devices : port[d] # 0 => hub[d] = port[d] \/ attach.dev = d
Plugged == \A d \in Devices : hub[d] # 0 =>
    hub[d] = port[d] \/ (d \in unplugged /\ (detach.dev = d \/ d \in abandoned))
Flagged == \A d \in unplugged :
    port[d] # 0 \/ hub[d] # 0 \/ detach.dev = d \/ attach.dev = d

\* A connection nobody works on has a port, or a work item that will close it;
\* no device was ever made of the latter.
Held == \A d \in sessions :
    port[d] # 0 \/ attach.dev = d \/ (tail[d] # "none" /\ hub[d] = 0 /\ d \notin unplugged)

Owned == Held /\ NoticeNamesPort

Core == OneWorker /\ Attaching /\ Detaching /\ Tabled /\ Plugged /\ Flagged /\ Owned

IInv == Typed /\ Agree /\ Core

-----------------------------------------------------------------------------
LEMMA LowestIn ==
    ASSUME NEW S \in SUBSET Ports, S # {}
    PROVE  Lowest(S) \in S
<1> DEFINE below(p) == 1 .. (p - 1)
           belows == {below(p) : p \in S}
<1>1. \A p \in S : p \in Nat /\ 1 <= p
    BY PortsAssumption DEF Ports
<1>2. \A p \in S : below(p) \in SUBSET Nat /\ IsFiniteSet(below(p))
    <2> SUFFICES ASSUME NEW p \in S PROVE below(p) \in SUBSET Nat /\ IsFiniteSet(below(p))
        OBVIOUS
    <2>1. p - 1 \in Int /\ 1 \in Int
        BY <1>1
    <2>2. IsFiniteSet(1 .. (p - 1))
        BY <2>1, FS_Interval
    <2> QED
        BY <2>2
<1>3. belows \subseteq FiniteSubsetsOf(Nat) /\ belows # {}
    BY <1>2 DEF FiniteSubsetsOf
<1>4. PICK s \in belows : \A t \in belows : <<t, s>> \notin StrictSubsetOrdering(Nat)
    <2> HIDE DEF belows
    <2> QED
        BY <1>3, FS_StrictSubsetOrderingWellFounded, WFMin
<1>5. PICK p \in S : s = below(p)
    BY <1>4
<1>6. ASSUME NEW q \in S, q < p
      PROVE  FALSE
    <2>1. below(q) \subseteq below(p) /\ q \in below(p) /\ q \notin below(q)
        BY <1>1, <1>6
    <2>2. <<below(q), below(p)>> \in StrictSubsetOrdering(Nat)
        BY <1>2, <2>1 DEF StrictSubsetOrdering
    <2> QED
        BY <1>4, <1>5, <2>2
<1>7. \A q \in S : p <= q
    BY <1>1, <1>6
<1> QED
    BY <1>7 DEF Lowest

\* The values of idle parts, and of nobody's device.
LEMMA Idle ==
    /\ NoAttach.at = "idle" /\ NoAttach.dev = NoDevice /\ NoAttach.by = User
    /\ NoDetach.at = "idle" /\ NoDetach.dev = NoDevice
    /\ NoDetach.plugout = FALSE /\ NoDetach.reattach = FALSE
    /\ NoSweep.ports = {} /\ NoSweep.plugout = FALSE
    /\ NoDevice \notin Devices
BY NamesAssumption DEF NoAttach, NoDetach, NoSweep

LEMMA IdleTypes ==
    /\ NoAttach \in AttachTypes /\ NoDetach \in DetachTypes
    /\ NoSweep \in [ports : SUBSET Ports, plugout : BOOLEAN]
BY DEF NoAttach, NoDetach, NoSweep, AttachTypes, DetachTypes

LEMMA RequestTypes ==
    /\ \A l \in Locations, by \in {User, Once} \cup Attempts : Plugin(l, by) \in Requests
    /\ \A p \in -2 .. NPorts, again \in BOOLEAN : Plugout(p, again) \in Requests
    /\ \A r \in Attempts : LocationOf(r) \in Locations
    /\ \A d \in Devices : LocationOf(d) \in Locations
BY DEF Plugin, Plugout, Requests, Attempts, Devices, LocationOf

LEMMA StateTypes ==
    /\ Status \subseteq AttemptStates /\ Status \subseteq TailStates
    /\ "none" \in AttemptStates /\ "timer" \in AttemptStates /\ "sent" \in AttemptStates
    /\ "none" \in TailStates /\ "start" \in TailStates /\ "add" \in TailStates
    /\ \A d : AtEnd(d) \in TailStates
    /\ "ok" \in Status /\ "busy" \in Status /\ "failed" \in Status /\ "final" \in Status
BY DEF Status, AttemptStates, TailStates, AtEnd

LEMMA TypedOK == Typed => TypeOK
BY DEF Typed, DevicesTyped, WorkTyped, AttemptsTyped, OthersTyped, AttachTypes, DetachTypes,
       AttemptStates, TailStates, Requests, TypeOK

LEMMA InitIInv == Init => IInv
<1> SUFFICES ASSUME Init PROVE IInv
    OBVIOUS
<1>1. DevicesTyped
    BY PortsAssumption DEF Init, DevicesTyped
<1>2. WorkTyped
    BY IdleTypes DEF Init, WorkTyped
<1>3. AttemptsTyped
    <2>1. retries \in [Attempts -> 0 .. MaxAttempts + 1]
        BY LimitsAssumption DEF Init
    <2>2. attempt \in [Attempts -> AttemptStates] /\ listed \subseteq Attempts /\ stopped = {}
        BY StateTypes DEF Init
    <2> QED
        BY <2>1, <2>2 DEF AttemptsTyped
<1>4. OthersTyped
    <2>1. queue \in Seq(Requests)
        <3>1. CASE queue = <<>>
            BY <3>1
        <3>2. ASSUME NEW r \in Attempts, queue = <<Plugin(LocationOf(r), r)>>
              PROVE  queue \in Seq(Requests)
            <4>1. Plugin(LocationOf(r), r) \in Requests
                BY RequestTypes
            <4> QED
                BY <3>2, <4>1
        <3> QED
            BY <3>1, <3>2 DEF Init
    <2>2. tail \in [Devices -> TailStates]
        BY StateTypes DEF Init
    <2>3. /\ removing \in BOOLEAN /\ removal \in {"none", "flagged", "stopped", "sent", "unsent"}
          /\ events \in 0 .. MaxEvents
        <3>1. removing = FALSE /\ removal = "none" /\ events = 0
            BY DEF Init
        <3>2. removing \in BOOLEAN /\ removal \in {"none", "flagged", "stopped", "sent", "unsent"}
            BY <3>1
        <3>3. events \in 0 .. MaxEvents
            BY <3>1, LimitsAssumption
        <3> QED
            BY <3>2, <3>3
    <2> QED
        BY <2>1, <2>2, <2>3 DEF OthersTyped
<1>5. Agree
    BY Idle, PortsAssumption DEF Init, Agree, Ports
<1>6. OneWorker /\ Attaching /\ Detaching
    BY Idle DEF Init, OneWorker, Attaching, Detaching
<1>7. Tabled /\ Plugged /\ Flagged /\ Owned
    BY DEF Init, Tabled, Plugged, Flagged, Owned, Held, NoticeNamesPort
<1> QED
    BY <1>1, <1>2, <1>3, <1>4, <1>5, <1>6, <1>7 DEF IInv, Typed, Core

-----------------------------------------------------------------------------
(* Steps that move no device.                                              *)

Same == UNCHANGED <<devices, port, hub, unplugged, abandoned, sessions, lost,
                    noticed, noticing, unheard, attach, detach, sweep>>

LEMMA SameKeepsIInv ==
    ASSUME IInv, Same, AttemptsTyped', OthersTyped',
           \A d \in sessions : port[d] = 0 /\ tail[d] # "none" => tail'[d] # "none"
    PROVE  IInv'
<1>1. DevicesTyped' /\ WorkTyped'
    BY DEF IInv, Typed, Same, DevicesTyped, WorkTyped
<1>2. Agree' /\ Core'
    BY DEF IInv, Same, Agree, Core, OneWorker, Attaching, AttachStage, Detaching, DetachStage,
           Tabled, Plugged, Flagged, Owned, Held, NoticeNamesPort
<1> QED
    BY <1>1, <1>2 DEF IInv, Typed

\* stop_attach_attempts, deletions and start_attach_attempts.
LEMMA AttemptsKept ==
    ASSUME AttemptsTyped, UNCHANGED background
    PROVE  AttemptsTyped'
BY DEF AttemptsTyped, background

LEMMA Stopping ==
    ASSUME AttemptsTyped, NEW R, StopAttempts(R)
    PROVE  AttemptsTyped'
BY DEF StopAttempts, AttemptsTyped

LEMMA Deleting ==
    ASSUME AttemptsTyped, NEW r \in Attempts, DeleteAttempt(r)
    PROVE  AttemptsTyped'
BY StateTypes, LimitsAssumption DEF DeleteAttempt, AttemptsTyped

LEMMA Adding ==
    ASSUME AttemptsTyped, NEW l, AddAttempt(l)
    PROVE  AttemptsTyped'
<1>1. CASE UNCHANGED background
    BY <1>1, AttemptsKept
<1>2. ASSUME NEW r \in Attempts,
             attempt' = [attempt EXCEPT ![r] = "timer"], retries' = [retries EXCEPT ![r] = 1],
             listed' = listed \cup {r}, UNCHANGED stopped
      PROVE  AttemptsTyped'
    BY <1>2, StateTypes, LimitsAssumption DEF AttemptsTyped
<1> QED
    BY <1>1, <1>2 DEF AddAttempt, AttemptsOf

LEMMA TimersKeepIInv ==
    ASSUME IInv, NEW r \in Attempts, AttachTimer(r) \/ CancelQueued(r) \/ OnPluginHardware(r)
    PROVE  IInv'
<1> USE DEF table, plug, net, notices, control
<1>1. Same /\ UNCHANGED <<tail, removing, removal, events>>
    BY DEF AttachTimer, CancelQueued, OnPluginHardware, Same
<1>2. AttemptsTyped /\ OthersTyped
    BY DEF IInv, Typed
<1>3. CASE AttachTimer(r)
    <2>1. CASE DeleteAttempt(r) /\ UNCHANGED queue
        BY <1>1, <1>2, <2>1, Deleting, SameKeepsIInv DEF OthersTyped
    <2>2. CASE attempt' = [attempt EXCEPT ![r] = "sent"] /\ UNCHANGED <<listed, stopped, retries>>
               /\ queue' = Append(queue, Plugin(LocationOf(r), r))
        <3>1. Plugin(LocationOf(r), r) \in Requests
            BY RequestTypes
        <3>2. OthersTyped'
            BY <1>1, <1>2, <2>2, <3>1 DEF OthersTyped
        <3>3. AttemptsTyped'
            BY <1>2, <2>2, StateTypes DEF AttemptsTyped
        <3> QED
            BY <1>1, <3>2, <3>3, SameKeepsIInv
    <2> QED
        BY <1>3, <2>1, <2>2 DEF AttachTimer
<1>4. CASE CancelQueued(r)
    <2>1. PICK i \in 1 .. Len(queue) :
            queue' = SubSeq(queue, 1, i - 1) \o SubSeq(queue, i + 1, Len(queue))
        BY <1>4 DEF CancelQueued
    <2>2. queue \in Seq(Requests)
        BY <1>2 DEF OthersTyped
    <2>3. SubSeq(queue, 1, i - 1) \in Seq(Requests)
        BY <2>2, SubSeqProperties
    <2>4. SubSeq(queue, i + 1, Len(queue)) \in Seq(Requests)
        BY <2>2, SubSeqProperties
    <2>5. OthersTyped'
        BY <1>1, <1>2, <2>1, <2>3, <2>4 DEF OthersTyped
    <2>6. AttemptsTyped'
        BY <1>2, <1>4, StateTypes DEF CancelQueued, AttemptsTyped
    <2> QED
        BY <1>1, <2>5, <2>6, SameKeepsIInv
<1>5. CASE OnPluginHardware(r)
    <2>1. OthersTyped'
        BY <1>1, <1>2, <1>5 DEF OnPluginHardware, OthersTyped
    <2>2. CASE DeleteAttempt(r)
        BY <1>1, <1>2, <2>1, <2>2, Deleting, SameKeepsIInv
    <2>3. CASE /\ attempt' = [attempt EXCEPT ![r] = "timer"] /\ retries[r] < MaxAttempts
               /\ retries' = [retries EXCEPT ![r] = @ + 1] /\ UNCHANGED <<listed, stopped>>
        <3>1. AttemptsTyped'
            BY <1>2, <2>3, StateTypes, LimitsAssumption DEF AttemptsTyped
        <3> QED
            BY <1>1, <2>1, <3>1, SameKeepsIInv
    <2> QED
        BY <1>5, <2>2, <2>3 DEF OnPluginHardware
<1> QED
    BY <1>3, <1>4, <1>5

\* What follows a PLUGIN_HARDWARE, calls of users and the removal.
LEMMA CallsKeepIInv ==
    ASSUME IInv, (\E d \in Devices : AfterAttach(d)) \/ Call \/ QueryRemove
    PROVE  IInv'
<1> USE DEF table, plug, net, notices, control
<1>1. Same
    BY DEF AfterAttach, Call, QueryRemove, Same
<1>2. AttemptsTyped /\ OthersTyped
    BY DEF IInv, Typed
<1>3. ASSUME NEW d \in Devices, AfterAttach(d)
      PROVE  IInv'
    <2>1. UNCHANGED <<queue, removing, removal, events>>
        BY <1>3 DEF AfterAttach
    <2>2. \E t \in TailStates : /\ tail' = [tail EXCEPT ![d] = t]
                                /\ d \in sessions /\ port[d] = 0 => t # "none"
        BY <1>3, StateTypes DEF AfterAttach, AtEnd
    <2>3. OthersTyped'
        BY <1>2, <2>1, <2>2 DEF OthersTyped
    <2>4. AttemptsTyped'
        BY <1>2, <1>3, Stopping, Adding, AttemptsKept DEF AfterAttach
    <2>5. \A e \in sessions : port[e] = 0 /\ tail[e] # "none" => tail'[e] # "none"
        BY <1>2, <2>2 DEF OthersTyped
    <2> QED
        BY <1>1, <2>3, <2>4, <2>5, SameKeepsIInv
<1>4. CASE Call
    <2>1. AttemptsTyped'
        BY <1>2, <1>4, Stopping, AttemptsKept DEF Call
    <2>2. events' \in 0 .. MaxEvents
        BY <1>2, <1>4, LimitsAssumption DEF Call, OthersTyped
    <2>3. queue' \in Seq(Requests)
        <3>1. \A r \in Requests : Append(queue, r) \in Seq(Requests)
            BY <1>2 DEF OthersTyped
        <3>2. Ports \cup {PortAll, PortAllCloseOnly} \subseteq -2 .. NPorts
            BY PortsAssumption DEF Ports, PortAll, PortAllCloseOnly
        <3>3. UNCHANGED queue \/ \E r \in Requests : queue' = Append(queue, r)
            BY <1>4, <3>2, RequestTypes, NamesAssumption DEF Call
        <3> QED
            BY <1>2, <3>1, <3>3 DEF OthersTyped
    <2>4. OthersTyped'
        BY <1>2, <1>4, <2>2, <2>3 DEF Call, OthersTyped
    <2>5. UNCHANGED tail
        BY <1>4 DEF Call
    <2> QED
        BY <1>1, <2>1, <2>4, <2>5, SameKeepsIInv
<1>5. CASE QueryRemove
    <2>0. UNCHANGED tail
        BY <1>5 DEF QueryRemove
    <2>1. AttemptsTyped'
        BY <1>2, <1>5, Stopping, AttemptsKept DEF QueryRemove
    <2>2. queue' \in Seq(Requests)
        <3>1. PortAll \in -2 .. NPorts
            BY PortsAssumption DEF PortAll
        <3>2. PICK r \in Requests : r = Plugout(PortAll, FALSE)
            BY <3>1, RequestTypes
        <3>3. UNCHANGED queue \/ queue' = Append(queue, r)
            BY <1>5, <3>2 DEF QueryRemove
        <3> QED
            BY <1>2, <3>3 DEF OthersTyped
    <2>3. OthersTyped'
        BY <1>2, <1>5, <2>2 DEF QueryRemove, OthersTyped
    <2> QED
        BY <1>1, <2>0, <2>1, <2>3, SameKeepsIInv
<1> QED
    BY <1>3, <1>4, <1>5

\* A work item ends, and closes a connection nobody uses.
LEMMA CleanupKeepsIInv ==
    ASSUME IInv, NEW d \in Devices, Cleanup(d)
    PROVE  IInv'
<1> USE DEF table, plug, notices
<1>1. /\ sessions' = sessions \ {d} /\ lost' = lost \ {d}
      /\ tail' = [tail EXCEPT ![d] = "none"]
      /\ UNCHANGED <<devices, port, hub, unplugged, abandoned, noticed, noticing, unheard,
                      queue, attach, detach, sweep, background, control>>
    BY DEF Cleanup
<1>2. OthersTyped'
    BY <1>1, StateTypes DEF control, IInv, Typed, OthersTyped
<1>3. Typed'
    BY <1>1, <1>2 DEF background, IInv, Typed, DevicesTyped, WorkTyped, AttemptsTyped
<1>4. Agree' /\ OneWorker' /\ Attaching' /\ Detaching' /\ Tabled' /\ Plugged' /\ Flagged'
    BY <1>1 DEF IInv, Core, Agree, OneWorker, Attaching, AttachStage, Detaching, DetachStage,
                Tabled, Plugged, Flagged
<1>5. Owned'
    BY <1>1 DEF IInv, Typed, OthersTyped, Core, Owned, Held, NoticeNamesPort
<1> QED
    BY <1>3, <1>4, <1>5 DEF IInv, Core

-----------------------------------------------------------------------------
(* Attaching.                                                              *)

\* What an attach at one of these stages may rely on.
LEMMA AtWork ==
    ASSUME IInv, attach.at \notin {"idle", "giveup"}
    PROVE  /\ attach.dev \in Devices /\ AttachStage(attach.dev)
           /\ detach = NoDetach /\ sweep = NoSweep
           /\ attach.dev \notin unplugged /\ attach.by \in {User, Once} \cup Attempts
BY DEF IInv, Typed, WorkTyped, AttachTypes, Core, OneWorker, Attaching, AttachStage

\* The attach goes on to another stage.
LEMMA NextStage ==
    ASSUME WorkTyped, NEW at \in {"import", "create", "claim", "plugin", "receive", "giveup"},
           attach' = [attach EXCEPT !.at = at]
    PROVE  /\ attach' \in AttachTypes
           /\ attach'.at = at /\ attach'.dev = attach.dev /\ attach'.by = attach.by
BY DEF WorkTyped, AttachTypes

\* The attach is answered.
LEMMA Finishing ==
    ASSUME AttemptsTyped, OthersTyped, attach.dev \in Devices, NEW st \in Status, FinishAttach(st),
           UNCHANGED <<listed, stopped, retries, queue, control>>
    PROVE  /\ attach' = NoAttach
           /\ AttemptsTyped' /\ OthersTyped'
           /\ \A e \in Devices \ {attach.dev} : tail'[e] = tail[e]
           /\ attach.dev \in sessions /\ port[attach.dev] = 0 => tail'[attach.dev] # "none"
<1> DEFINE t == IF attach.by = User THEN st ELSE AtEnd(attach.dev)
<1>1. t \in TailStates /\ (attach.dev \in sessions /\ port[attach.dev] = 0 => t # "none")
    BY StateTypes DEF AtEnd, Status
<1>2. tail' = [tail EXCEPT ![attach.dev] = t]
    BY DEF FinishAttach
<1> HIDE DEF t
<1>3. /\ tail' \in [Devices -> TailStates] /\ tail'[attach.dev] = t
      /\ \A e \in Devices \ {attach.dev} : tail'[e] = tail[e]
      /\ OthersTyped'
    BY <1>1, <1>2 DEF OthersTyped, control
<1>4. AttemptsTyped' /\ attach' = NoAttach
    BY StateTypes DEF FinishAttach, AttemptsTyped
<1> QED
    BY <1>1, <1>3, <1>4

LEMMA HeadOfQueue ==
    ASSUME OthersTyped, queue # <<>>
    PROVE  /\ Head(queue) \in Requests /\ Tail(queue) \in Seq(Requests)
           /\ Head(queue).op = "plugin" =>
                Head(queue).loc \in Locations /\ Head(queue).by \in {User, Once} \cup Attempts
           /\ Head(queue).op = "plugout" =>
                Head(queue).port \in -2 .. NPorts /\ Head(queue).reattach \in BOOLEAN
<1>1. Head(queue) \in Requests /\ Tail(queue) \in Seq(Requests)
    BY DEF OthersTyped
<1> QED
    BY <1>1 DEF Requests

LEMMA StartAttachKeepsIInv ==
    ASSUME IInv, StartAttach
    PROVE  IInv'
<1> USE DEF table, plug, net, notices, control
<1>1. attach = NoAttach /\ detach = NoDetach /\ sweep = NoSweep /\ queue # <<>>
    BY DEF StartAttach, QueueIdle
<1>2. Typed
    BY DEF IInv
<1>3. OthersTyped'
    <2>1. Tail(queue) \in Seq(Requests)
        BY <1>1, <1>2, HeadOfQueue DEF Typed
    <2> QED
        BY <1>2, <2>1 DEF StartAttach, Typed, OthersTyped
<1>4. CASE UNCHANGED attach
    <2>1. Same /\ UNCHANGED tail
        BY <1>4 DEF StartAttach, Same
    <2>2. AttemptsTyped'
        BY <1>2, <1>4, StateTypes DEF StartAttach, Typed, AttemptsTyped
    <2> QED
        BY <1>3, <2>1, <2>2, SameKeepsIInv
<1>5. ASSUME NEW d \in Devices, Unused(d), UNCHANGED attempt,
             attach' = [at |-> "connect", dev |-> d, by |-> Head(queue).by]
      PROVE  IInv'
    <2>1. UNCHANGED <<devices, port, hub, unplugged, abandoned, sessions, lost, noticed, noticing,
                      unheard, detach, sweep, tail, listed, stopped, retries>>
        BY DEF StartAttach
    <2>2. port[d] = 0 /\ hub[d] = 0
        BY <1>5 DEF Unused
    <2>3. d \notin sessions /\ d \notin unplugged
        BY <1>1, <1>5, <2>2, Idle DEF Unused, IInv, Core, Flagged, Owned, Held
    <2>4. Typed'
        <3>1. Head(queue).by \in {User, Once} \cup Attempts
            BY <1>1, <1>2, HeadOfQueue DEF StartAttach, Typed
        <3>2. attach' \in AttachTypes
            BY <1>5, <3>1 DEF AttachTypes
        <3> QED
            BY <1>2, <1>3, <1>5, <2>1, <3>2
               DEF Typed, DevicesTyped, WorkTyped, AttemptsTyped
    <2>5. Agree'
        BY <2>1 DEF IInv, Agree
    <2>6. attach'.at = "connect" /\ attach'.dev = d
        BY <1>5
    <2>7. OneWorker'
        BY <1>1, <2>1, <2>6, Idle DEF OneWorker
    <2>8. Attaching' /\ Detaching'
        BY <1>1, <2>1, <2>2, <2>3, <2>6, Idle DEF Attaching, AttachStage, Detaching
    <2>9. Tabled' /\ Plugged' /\ Flagged' /\ Owned'
        BY <1>1, <2>1, <2>6, Idle
           DEF IInv, Typed, DevicesTyped, Core, Tabled, Plugged, Flagged, Owned, Held, NoticeNamesPort
    <2> QED
        BY <2>4, <2>5, <2>7, <2>8, <2>9 DEF IInv, Core
<1> QED
    BY <1>4, <1>5 DEF StartAttach

\* An attach that is answered with nothing taken, or with all.
LEMMA AnsweredKeepsIInv ==
    ASSUME IInv, attach.at \in {"connect", "import", "create", "receive"},
           NEW st \in Status, FinishAttach(st),
           UNCHANGED <<devices, port, hub, unplugged, abandoned, sessions, lost, noticed, noticing, unheard,
                       queue, detach, sweep, listed, stopped, retries, control>>
    PROVE  IInv'
<1> DEFINE d == attach.dev
<1>1. d \in Devices /\ AttachStage(d) /\ detach = NoDetach /\ sweep = NoSweep /\ d \notin unplugged
    BY AtWork
<1>2. /\ attach' = NoAttach /\ AttemptsTyped' /\ OthersTyped'
      /\ \A e \in Devices \ {d} : tail'[e] = tail[e]
      /\ d \in sessions /\ port[d] = 0 => tail'[d] # "none"
    BY <1>1, Finishing DEF IInv, Typed
<1>3. Typed'
    BY <1>2, IdleTypes DEF IInv, Typed, DevicesTyped, WorkTyped
<1>4. Agree'
    BY DEF IInv, Agree
<1>5. OneWorker' /\ Attaching' /\ Detaching'
    BY <1>1, <1>2, Idle DEF OneWorker, Attaching, Detaching
<1>6. Tabled' /\ Plugged' /\ Flagged'
    BY <1>1, <1>2, Idle DEF AttachStage, IInv, Core, Tabled, Plugged, Flagged
<1>7. Owned'
    BY <1>1, <1>2, Idle DEF AttachStage, IInv, Typed, DevicesTyped, Core, Owned, Held, NoticeNamesPort
<1> QED
    BY <1>3, <1>4, <1>5, <1>6, <1>7 DEF IInv, Core
\* A stage that changes neither ports nor sessions.
LEMMA ConnectKeepsIInv ==
    ASSUME IInv, Connect
    PROVE  IInv'
<1> USE DEF table, plug, net, notices, control
<1>1. attach.at = "connect"
    BY DEF Connect
<1>2. UNCHANGED <<devices, port, hub, unplugged, abandoned, sessions, lost, noticed, noticing, unheard,
                  queue, detach, sweep, listed, stopped, retries, control>>
    BY DEF Connect
<1>3. ASSUME NEW st \in Status, FinishAttach(st)
      PROVE  IInv'
    BY <1>1, <1>2, <1>3, AnsweredKeepsIInv
<1>4. CASE attach' = [attach EXCEPT !.at = "import"] /\ UNCHANGED <<attempt, tail>>
    <2>1. attach' \in AttachTypes /\ attach'.at = "import" /\ attach'.dev = attach.dev
        BY <1>4, NextStage DEF IInv, Typed
    <2>2. attach.dev \in Devices /\ AttachStage(attach.dev) /\ detach = NoDetach /\ sweep = NoSweep
        BY <1>1, AtWork
    <2>3. Typed'
        BY <1>2, <1>4, <2>1 DEF IInv, Typed, DevicesTyped, WorkTyped, AttemptsTyped, OthersTyped
    <2>4. Agree' /\ OneWorker' /\ Attaching' /\ Detaching'
        BY <1>1, <1>2, <2>1, <2>2, Idle
           DEF IInv, Agree, OneWorker, Attaching, AttachStage, Detaching
    <2>5. Tabled' /\ Plugged' /\ Flagged' /\ Owned'
        BY <1>1, <1>2, <1>4, <2>1, <2>2
           DEF IInv, Core, Tabled, Plugged, Flagged, Owned, Held, NoticeNamesPort
    <2> QED
        BY <2>3, <2>4, <2>5 DEF IInv, Core
<1> QED
    BY <1>3, <1>4, StateTypes DEF Connect

LEMMA ImportKeepsIInv ==
    ASSUME IInv, Import
    PROVE  IInv'
<1> USE DEF table, plug, net, notices, control
<1> DEFINE d == attach.dev
<1>1. attach.at = "import"
    BY DEF Import
<1>2. UNCHANGED <<devices, port, hub, unplugged, abandoned, lost, noticed, noticing, unheard,
                  queue, detach, sweep, listed, stopped, retries, control>>
    BY DEF Import
<1>3. ASSUME NEW st \in Status, FinishAttach(st), UNCHANGED sessions
      PROVE  IInv'
    BY <1>1, <1>2, <1>3, AnsweredKeepsIInv
<1>4. CASE /\ attach' = [attach EXCEPT !.at = "create"] /\ UNCHANGED <<attempt, tail>>
           /\ sessions' = sessions \cup {d}
    <2>1. attach' \in AttachTypes /\ attach'.at = "create" /\ attach'.dev = d
        BY <1>4, NextStage DEF IInv, Typed
    <2>2. d \in Devices /\ AttachStage(d) /\ detach = NoDetach /\ sweep = NoSweep
        BY <1>1, AtWork
    <2>3. Typed'
        BY <1>2, <1>4, <2>1, <2>2 DEF IInv, Typed, DevicesTyped, WorkTyped, AttemptsTyped, OthersTyped
    <2>4. Agree' /\ OneWorker' /\ Attaching' /\ Detaching'
        BY <1>1, <1>2, <2>1, <2>2, Idle
           DEF IInv, Agree, OneWorker, Attaching, AttachStage, Detaching
    <2>5. Tabled' /\ Plugged' /\ Flagged' /\ Owned'
        BY <1>1, <1>2, <1>4, <2>1, <2>2
           DEF IInv, Core, Tabled, Plugged, Flagged, Owned, Held, NoticeNamesPort
    <2> QED
        BY <2>3, <2>4, <2>5 DEF IInv, Core
<1> QED
    BY <1>3, <1>4, StateTypes DEF Import

LEMMA CreateKeepsIInv ==
    ASSUME IInv, Create
    PROVE  IInv'
<1> USE DEF table, plug, net, notices, control
<1> DEFINE d == attach.dev
<1>1. attach.at = "create"
    BY DEF Create
<1>2. UNCHANGED <<devices, port, hub, unplugged, abandoned, sessions, lost, noticed, noticing,
                  unheard, queue, detach, sweep, listed, stopped, retries, control>>
    BY DEF Create
<1>3. ASSUME NEW st \in Status, FinishAttach(st)
      PROVE  IInv'
    BY <1>1, <1>2, <1>3, AnsweredKeepsIInv
<1>4. CASE attach' = [attach EXCEPT !.at = "claim"] /\ UNCHANGED <<attempt, tail>>
    <2>1. attach' \in AttachTypes /\ attach'.at = "claim" /\ attach'.dev = d
        BY <1>4, NextStage DEF IInv, Typed
    <2>2. d \in Devices /\ AttachStage(d) /\ detach = NoDetach /\ sweep = NoSweep
        BY <1>1, AtWork
    <2>3. Typed'
        BY <1>2, <1>4, <2>1 DEF IInv, Typed, DevicesTyped, WorkTyped, AttemptsTyped, OthersTyped
    <2>4. Agree' /\ OneWorker' /\ Attaching' /\ Detaching'
        BY <1>1, <1>2, <2>1, <2>2, Idle
           DEF IInv, Agree, OneWorker, Attaching, AttachStage, Detaching
    <2>5. Tabled' /\ Plugged' /\ Flagged' /\ Owned'
        BY <1>1, <1>2, <1>4, <2>1, <2>2
           DEF IInv, Core, Tabled, Plugged, Flagged, Owned, Held, NoticeNamesPort
    <2> QED
        BY <2>3, <2>4, <2>5 DEF IInv, Core
<1> QED
    BY <1>3, <1>4, StateTypes DEF Create

\* The attach has failed: detach is called for its device.
LEMMA GivingUpKeepsIInv ==
    ASSUME IInv, attach.at \in {"claim", "plugin", "receive"},
           NEW plugged \in BOOLEAN, GiveUp(plugged), attach.at = "receive" => plugged = TRUE,
           UNCHANGED <<devices, port, hub, unplugged, abandoned, sessions, lost, noticed, noticing, unheard,
                       queue, sweep, tail, background, control>>
    PROVE  IInv'
<1> DEFINE d == attach.dev
<1>1. d \in Devices /\ AttachStage(d) /\ detach = NoDetach /\ sweep = NoSweep /\ d \notin unplugged
    BY AtWork
<1>2. attach' \in AttachTypes /\ attach'.at = "giveup" /\ attach'.dev = d
    BY NextStage DEF GiveUp, IInv, Typed
<1>3. /\ detach' = [at |-> "flag", dev |-> d, plugout |-> plugged, reattach |-> FALSE]
      /\ detach' \in DetachTypes
    BY <1>1 DEF GiveUp, DetachTypes
<1>4. /\ detach'.at = "flag" /\ detach'.dev = d /\ detach'.plugout = plugged
      /\ detach'.reattach = FALSE
    BY <1>3
<1>5. Typed'
    BY <1>2, <1>3 DEF background, control, IInv, Typed, DevicesTyped, WorkTyped, AttemptsTyped, OthersTyped
<1>6. Agree' /\ OneWorker' /\ Attaching'
    BY <1>1, <1>2, <1>4, Idle DEF IInv, Agree, OneWorker, Attaching, AttachStage
<1>7. Detaching'
    BY <1>1, <1>2, <1>4 DEF AttachStage, Detaching, DetachStage
<1>8. Tabled' /\ Plugged' /\ Flagged' /\ Owned'
    BY <1>1, <1>2, <1>4, Idle
       DEF IInv, Typed, DevicesTyped, Core, Tabled, Plugged, Flagged, Owned, Held, NoticeNamesPort
<1> QED
    BY <1>5, <1>6, <1>7, <1>8 DEF IInv, Core

LEMMA ClaimPortKeepsIInv ==
    ASSUME IInv, ClaimPort
    PROVE  IInv'
<1> USE DEF table, plug, net, notices
<1> DEFINE d == attach.dev
           free == {p \in PortRange[LocationOf(d)] : devices[p] = NoDevice}
<1>1. attach.at = "claim"
    BY DEF ClaimPort
<1>2. d \in Devices /\ AttachStage(d) /\ detach = NoDetach /\ sweep = NoSweep
    BY <1>1, AtWork
<1>3. CASE free = {}
    <2>1. GiveUp(FALSE)
        BY <1>3 DEF ClaimPort
    <2>2. UNCHANGED <<devices, port, hub, unplugged, abandoned, sessions, lost, noticed, noticing, unheard,
                      queue, sweep, tail, background, control>>
        BY <1>3 DEF ClaimPort
    <2> QED
        BY <1>1, <2>1, <2>2, GivingUpKeepsIInv
<1>4. CASE free # {}
    <2>1. free \in SUBSET Ports
        BY <1>2, RequestTypes, PortsAssumption
    <2>2. PICK p \in free : p = Lowest(free)
        BY <1>4, <2>1, LowestIn
    <2>3. devices' = [devices EXCEPT ![p] = d] /\ port' = [port EXCEPT ![d] = p]
        BY <1>4, <2>2 DEF ClaimPort
    <2>4. attach' = [attach EXCEPT !.at = "plugin"]
        BY <1>4 DEF ClaimPort
    <2>5. UNCHANGED <<hub, unplugged, abandoned, sessions, lost, noticed, noticing, unheard,
                      detach, queue, sweep, tail, background, control>>
        BY <1>4 DEF ClaimPort
    <2>6. attach' \in AttachTypes /\ attach'.at = "plugin" /\ attach'.dev = d
        BY <2>4, NextStage DEF IInv, Typed
    <2>7. p \in Ports /\ devices[p] = NoDevice /\ p \in 1 .. NPorts
        BY <2>1, <2>2 DEF Ports
    <2> HIDE DEF free
    <2>8. Typed'
        BY <1>2, <2>3, <2>5, <2>6, <2>7
           DEF background, control, IInv, Typed, DevicesTyped, WorkTyped, AttemptsTyped, OthersTyped
    <2>9. /\ devices'[p] = d /\ port'[d] = p
          /\ \A q \in Ports \ {p} : devices'[q] = devices[q]
          /\ \A e \in Devices \ {d} : port'[e] = port[e]
        BY <1>2, <2>3, <2>7 DEF IInv, Typed, DevicesTyped
    <2>10. port[d] = 0 /\ hub[d] = 0 /\ 0 \notin Ports /\ p # 0
        BY <1>1, <1>2, <2>7, PortsAssumption DEF AttachStage, Ports
    <2>11. Agree'
        <3> SUFFICES ASSUME NEW e \in Devices, NEW q \in Ports
                     PROVE  port'[e] = q <=> devices'[q] = e
            BY DEF Agree
        <3>1. (port[e] = q <=> devices[q] = e) /\ (port[e] = p <=> devices[p] = e)
            BY <2>7 DEF IInv, Agree
        <3>2. devices[p] # e
            BY <2>7, Idle
        <3>3. CASE e = d
            BY <1>2, <2>7, <2>9, <2>10, <3>1, <3>2, <3>3
        <3>4. CASE e # d
            BY <1>2, <2>7, <2>9, <2>10, <3>1, <3>2, <3>4
        <3> QED
            BY <3>3, <3>4
    <2>12. OneWorker' /\ Attaching' /\ Detaching'
        BY <1>1, <1>2, <2>5, <2>6, <2>9, <2>10, Idle
           DEF OneWorker, Attaching, AttachStage, Detaching
    <2>13. Tabled' /\ Plugged' /\ Flagged' /\ Owned'
        BY <1>2, <2>5, <2>6, <2>9, <2>10
           DEF IInv, Typed, DevicesTyped, Core, Tabled, Plugged, Flagged, Owned, Held, NoticeNamesPort
    <2> QED
        BY <2>8, <2>11, <2>12, <2>13 DEF IInv, Core
<1> QED
    BY <1>3, <1>4
LEMMA PlugInKeepsIInv ==
    ASSUME IInv, PlugIn
    PROVE  IInv'
<1> USE DEF table, plug, net, notices
<1> DEFINE d == attach.dev
<1>1. attach.at = "plugin"
    BY DEF PlugIn
<1>2. d \in Devices /\ AttachStage(d) /\ detach = NoDetach /\ sweep = NoSweep
    BY <1>1, AtWork
<1>3. UNCHANGED <<devices, port, unplugged, abandoned, sessions, lost, noticed, noticing, unheard,
                  queue, sweep, tail, background, control>>
    BY DEF PlugIn
<1>4. CASE GiveUp(FALSE) /\ UNCHANGED hub
    BY <1>1, <1>3, <1>4, GivingUpKeepsIInv
<1>5. CASE /\ hub' = [hub EXCEPT ![d] = port[d]]
           /\ attach' = [attach EXCEPT !.at = "receive"] /\ UNCHANGED detach
    <2>1. attach' \in AttachTypes /\ attach'.at = "receive" /\ attach'.dev = d
        BY <1>5, NextStage DEF IInv, Typed
    <2>2. /\ hub'[d] = port[d] /\ port[d] # 0
          /\ \A e \in Devices \ {d} : hub'[e] = hub[e]
        BY <1>1, <1>2, <1>5 DEF AttachStage, IInv, Typed, DevicesTyped
    <2>3. Typed'
        BY <1>2, <1>3, <1>5, <2>1
           DEF background, control, IInv, Typed, DevicesTyped, WorkTyped, AttemptsTyped, OthersTyped
    <2>4. Agree' /\ OneWorker' /\ Attaching' /\ Detaching'
        BY <1>1, <1>2, <1>3, <1>5, <2>1, <2>2, Idle
           DEF IInv, Agree, OneWorker, Attaching, AttachStage, Detaching
    <2>5. Tabled' /\ Plugged' /\ Flagged' /\ Owned'
        BY <1>2, <1>3, <1>5, <2>1, <2>2
           DEF IInv, Typed, DevicesTyped, Core, Tabled, Plugged, Flagged, Owned, Held, NoticeNamesPort
    <2> QED
        BY <2>3, <2>4, <2>5 DEF IInv, Core
<1> QED
    BY <1>4, <1>5 DEF PlugIn

LEMMA StartReceiveKeepsIInv ==
    ASSUME IInv, StartReceive
    PROVE  IInv'
<1> USE DEF table, plug, net, notices
<1>1. attach.at = "receive"
    BY DEF StartReceive
<1>2. UNCHANGED <<devices, port, hub, unplugged, abandoned, sessions, lost, noticed, noticing, unheard,
                  queue, sweep, listed, stopped, retries, control>>
    BY DEF StartReceive
<1>3. CASE FinishAttach("ok") /\ UNCHANGED detach
    BY <1>1, <1>2, <1>3, AnsweredKeepsIInv, StateTypes
<1>4. CASE GiveUp(TRUE) /\ UNCHANGED <<attempt, tail>>
    BY <1>1, <1>2, <1>4, GivingUpKeepsIInv DEF background
<1> QED
    BY <1>3, <1>4 DEF StartReceive

LEMMA GaveUpKeepsIInv ==
    ASSUME IInv, GaveUp
    PROVE  IInv'
<1> USE DEF table, net
<1> DEFINE d == attach.dev
<1>1. /\ attach.at = "giveup" /\ detach = NoDetach /\ sweep = NoSweep /\ d \in Devices
      /\ port[d] = 0 /\ d \notin sessions
    BY Idle DEF GaveUp, IInv, Core, OneWorker, Attaching, AttachStage
<1>2. UNCHANGED <<devices, port, hub, abandoned, sessions, lost, noticing,
                  queue, detach, sweep, listed, stopped, retries, control>>
    BY DEF GaveUp
<1>3. /\ attach' = NoAttach /\ AttemptsTyped' /\ OthersTyped'
      /\ \A e \in Devices \ {d} : tail'[e] = tail[e]
    BY <1>1, <1>2, Finishing, StateTypes DEF GaveUp, IInv, Typed
<1>4. /\ unplugged' \subseteq unplugged /\ unplugged \subseteq unplugged' \cup {d}
      /\ noticed' \subseteq noticed
      /\ \A n \in noticed : n[1] # d => n \in noticed'
      /\ unheard' \subseteq noticed'
      /\ hub[d] = 0 => d \notin unplugged'
      /\ hub[d] # 0 => unplugged' = unplugged
    BY DEF GaveUp, DeleteDevice, IInv, Typed, DevicesTyped
<1>5. \A n \in noticing : n[1] # d
    BY <1>1 DEF IInv, Core, Owned, NoticeNamesPort
<1>6. Typed'
    BY <1>2, <1>3, <1>4, <1>5, IdleTypes DEF IInv, Typed, DevicesTyped, WorkTyped
<1>7. Agree' /\ OneWorker' /\ Attaching' /\ Detaching'
    BY <1>1, <1>2, <1>3, Idle DEF IInv, Agree, OneWorker, Attaching, Detaching
<1>8. Tabled' /\ Owned'
    BY <1>1, <1>2, <1>3, <1>4, Idle
       DEF IInv, Typed, DevicesTyped, Core, Tabled, Owned, Held, NoticeNamesPort
<1>9. Plugged'
    BY <1>1, <1>2, <1>4, Idle DEF IInv, Core, Plugged
<1>10. Flagged'
    BY <1>1, <1>2, <1>3, <1>4, Idle DEF IInv, Core, Flagged
<1> QED
    BY <1>6, <1>7, <1>8, <1>9, <1>10 DEF IInv, Core

-----------------------------------------------------------------------------
(* Detaching.                                                              *)

\* plugout_hardware and detach_all_devices find a device by its port.
LEMMA Found ==
    ASSUME IInv, NEW p, GetDevice(p) # NoDevice
    PROVE  GetDevice(p) \in Devices /\ port[GetDevice(p)] # 0
<1>1. p \in Ports /\ GetDevice(p) = devices[p]
    BY DEF GetDevice
<1>2. devices[p] \in Devices /\ p # 0
    BY <1>1, PortsAssumption DEF IInv, Typed, DevicesTyped, Ports
<1> QED
    BY <1>1, <1>2 DEF IInv, Agree

LEMMA BeginningKeepsIInv ==
    ASSUME IInv, attach = NoAttach, detach = NoDetach,
           NEW d \in Devices, port[d] # 0, NEW plugout \in BOOLEAN, NEW again \in BOOLEAN,
           BeginDetach(d, plugout, again),
           sweep' \in [ports : SUBSET Ports, plugout : BOOLEAN], queue' \in Seq(Requests),
           UNCHANGED <<devices, port, hub, unplugged, abandoned, sessions, lost, noticed, noticing, unheard,
                       attach, tail, background, control>>
    PROVE  IInv'
<1>1. /\ detach' \in DetachTypes
      /\ detach'.at = "flag" /\ detach'.dev = d
    BY DEF BeginDetach, DetachTypes
<1>2. attach.at = "idle" /\ attach.dev = NoDevice /\ d # NoDevice
    BY Idle
<1>3. Typed'
    BY <1>1 DEF background, control, IInv, Typed, DevicesTyped, WorkTyped, AttemptsTyped, OthersTyped
<1>4. Agree' /\ OneWorker' /\ Attaching'
    BY <1>1, <1>2 DEF IInv, Agree, OneWorker, Attaching
<1>5. Detaching'
    BY <1>1, <1>2 DEF IInv, Core, Tabled, Detaching, DetachStage
<1>6. Tabled' /\ Plugged' /\ Flagged' /\ Owned'
    BY <1>1, <1>2, Idle
       DEF IInv, Typed, DevicesTyped, Core, Tabled, Plugged, Flagged, Owned, Held, NoticeNamesPort
<1> QED
    BY <1>3, <1>4, <1>5, <1>6 DEF IInv, Core
\* A step that leaves everything but the queue and the sweep alone.
LEMMA SweepingKeepsIInv ==
    ASSUME IInv, attach = NoAttach,
           sweep' \in [ports : SUBSET Ports, plugout : BOOLEAN], queue' \in Seq(Requests),
           UNCHANGED <<devices, port, hub, unplugged, abandoned, sessions, lost, noticed, noticing, unheard,
                       attach, detach, tail, background, control>>
    PROVE  IInv'
<1>1. Typed'
    BY DEF background, control, IInv, Typed, DevicesTyped, WorkTyped, AttemptsTyped, OthersTyped
<1>2. Agree' /\ OneWorker' /\ Attaching' /\ Detaching'
    BY Idle DEF IInv, Core, Agree, OneWorker, Attaching, Detaching, DetachStage
<1>3. Tabled' /\ Plugged' /\ Flagged' /\ Owned'
    BY DEF IInv, Core, Tabled, Plugged, Flagged, Owned, Held, NoticeNamesPort
<1> QED
    BY <1>1, <1>2, <1>3 DEF IInv, Core

LEMMA PlugoutHardwareKeepsIInv ==
    ASSUME IInv, PlugoutHardware
    PROVE  IInv'
<1> USE DEF table, plug, net, notices
<1> DEFINE r == Head(queue)
<1>1. /\ attach = NoAttach /\ detach = NoDetach /\ sweep = NoSweep
      /\ queue # <<>> /\ r.op = "plugout" /\ queue' = Tail(queue)
    BY DEF PlugoutHardware, QueueIdle
<1>2. UNCHANGED <<devices, port, hub, unplugged, abandoned, sessions, lost, noticed, noticing, unheard,
                  attach, tail, background, control>>
    BY DEF PlugoutHardware
<1>3. queue' \in Seq(Requests) /\ r.port \in -2 .. NPorts /\ r.reattach \in BOOLEAN
    BY <1>1, HeadOfQueue DEF IInv, Typed
<1>4. CASE r.port <= 0
    <2>1. UNCHANGED detach /\ sweep' = [ports |-> Ports, plugout |-> r.port # PortAllCloseOnly]
        <3>1. ~(r.port > 0)
            BY <1>3, <1>4
        <3> QED
            BY <3>1, Zenon DEF PlugoutHardware
    <2> QED
        BY <1>1, <1>2, <1>3, <2>1, SweepingKeepsIInv
<1>5. CASE r.port > 0
    <2>0. ~(r.port <= 0)
        BY <1>3, <1>5
    <2>1. sweep' = NoSweep
        BY <1>1, <2>0, Zenon DEF PlugoutHardware
    <2>2. CASE GetDevice(r.port) = NoDevice
        <3>1. UNCHANGED detach
            BY <2>0, <2>2, Zenon DEF PlugoutHardware
        <3> QED
            BY <1>1, <1>2, <1>3, <2>1, <3>1, IdleTypes, SweepingKeepsIInv
    <2>3. CASE GetDevice(r.port) # NoDevice
        <3>1. BeginDetach(GetDevice(r.port), TRUE, r.reattach)
            BY <2>0, <2>3, Zenon DEF PlugoutHardware
        <3>2. GetDevice(r.port) \in Devices /\ port[GetDevice(r.port)] # 0
            BY <2>3, Found
        <3>3. sweep' \in [ports : SUBSET Ports, plugout : BOOLEAN]
            BY <2>1, IdleTypes
        <3> QED
            BY <1>1, <1>2, <1>3, <3>1, <3>2, <3>3, BeginningKeepsIInv
    <2> QED
        BY <2>2, <2>3
<1> QED
    BY <1>3, <1>4, <1>5

LEMMA DetachAllDevicesKeepsIInv ==
    ASSUME IInv, DetachAllDevices
    PROVE  IInv'
<1> USE DEF table, plug, net, notices
<1> DEFINE p == Lowest(sweep.ports)
<1>1. sweep.ports # {} /\ detach = NoDetach
    BY DEF DetachAllDevices
<1>2. attach = NoAttach
    BY <1>1, Idle DEF IInv, Core, OneWorker
<1>3. UNCHANGED <<devices, port, hub, unplugged, abandoned, sessions, lost, noticed, noticing, unheard,
                  queue, attach, tail, background, control>>
    BY DEF DetachAllDevices
<1>4. queue' \in Seq(Requests) /\ sweep.plugout \in BOOLEAN
    BY <1>3 DEF IInv, Typed, OthersTyped, WorkTyped
<1>5. sweep' \in [ports : SUBSET Ports, plugout : BOOLEAN]
    <2>1. sweep' = NoSweep \/ sweep' = [sweep EXCEPT !.ports = @ \ {p}]
        BY DEF DetachAllDevices
    <2>2. sweep \in [ports : SUBSET Ports, plugout : BOOLEAN]
        BY DEF IInv, Typed, WorkTyped
    <2> HIDE DEF p
    <2>3. [sweep EXCEPT !.ports = @ \ {p}] = [ports |-> sweep.ports \ {p}, plugout |-> sweep.plugout]
        BY <2>2
    <2>4. sweep.ports \ {p} \in SUBSET Ports
        BY <2>2
    <2> QED
        BY <1>4, <2>1, <2>3, <2>4, IdleTypes
<1>6. CASE GetDevice(p) = NoDevice
    <2>1. UNCHANGED detach
        BY <1>6 DEF DetachAllDevices
    <2> QED
        BY <1>2, <1>3, <1>4, <1>5, <2>1, SweepingKeepsIInv
<1>7. CASE GetDevice(p) # NoDevice
    <2>1. BeginDetach(GetDevice(p), sweep.plugout, FALSE)
        BY <1>7 DEF DetachAllDevices
    <2>2. GetDevice(p) \in Devices /\ port[GetDevice(p)] # 0
        BY <1>7, Found
    <2> QED
        BY <1>1, <1>2, <1>3, <1>4, <1>5, <2>1, <2>2, BeginningKeepsIInv
<1> QED
    BY <1>6, <1>7

\* What a step of detach may rely on.
LEMMA AtDetach ==
    ASSUME IInv, detach.at # "idle"
    PROVE  /\ detach.dev \in Devices /\ DetachStage(detach.dev)
           /\ attach.at # "idle" => attach.at = "giveup" /\ attach.dev = detach.dev
                                      /\ ~detach.reattach
           /\ attach.at = "idle" => attach = NoAttach /\ attach.dev # detach.dev
BY Idle DEF IInv, Core, OneWorker, Detaching

LEMMA NextStageOfDetach ==
    ASSUME WorkTyped, NEW at \in {"close", "reclaim", "plugout", "start", "add"},
           detach' = [detach EXCEPT !.at = at]
    PROVE  /\ detach' \in DetachTypes
           /\ detach'.at = at /\ detach'.dev = detach.dev
           /\ detach'.plugout = detach.plugout /\ detach'.reattach = detach.reattach
BY DEF WorkTyped, DetachTypes

LEMMA SetUnpluggedKeepsIInv ==
    ASSUME IInv, SetUnplugged
    PROVE  IInv'
<1> USE DEF table, net, notices
<1> DEFINE d == detach.dev
<1>1. detach.at = "flag" /\ unplugged' = unplugged \cup {d}
    BY DEF SetUnplugged
<1>2. UNCHANGED <<devices, port, hub, abandoned, sessions, lost, noticed, noticing, unheard,
                  queue, attach, sweep, tail, background, control>>
    BY DEF SetUnplugged
<1>3. /\ d \in Devices /\ DetachStage(d)
      /\ attach.at # "idle" => attach.at = "giveup" /\ attach.dev = d /\ ~detach.reattach
      /\ attach.at = "idle" => attach = NoAttach /\ attach.dev # d
    BY <1>1, AtDetach
<1>4. Agree'
    BY <1>2 DEF IInv, Agree
<1>5. CASE d \in unplugged
    <2>1. detach' = NoDetach /\ unplugged' = unplugged
        BY <1>1, <1>5 DEF SetUnplugged
    <2>2. attach.at = "idle" /\ port[d] # 0
        BY <1>1, <1>3, <1>5 DEF DetachStage
    <2>3. Typed'
        BY <1>2, <2>1, IdleTypes
           DEF background, control, IInv, Typed, DevicesTyped, WorkTyped, AttemptsTyped, OthersTyped
    <2>4. OneWorker' /\ Attaching' /\ Detaching'
        BY <1>2, <1>3, <2>1, <2>2, Idle DEF OneWorker, Attaching, Detaching
    <2>5. Tabled' /\ Flagged' /\ Owned'
        BY <1>2, <1>3, <2>1, <2>2, Idle
           DEF IInv, Typed, DevicesTyped, Core, Tabled, Flagged, Owned, Held, NoticeNamesPort
    <2>6. Plugged'
        BY <1>1, <1>2, <1>3, <2>1, <2>2, Idle DEF DetachStage, IInv, Core, Plugged, Tabled
    <2> QED
        BY <1>4, <2>3, <2>4, <2>5, <2>6 DEF IInv, Core
<1>6. CASE d \notin unplugged
    <2>1. detach' = [detach EXCEPT !.at = "close"]
        BY <1>6 DEF SetUnplugged
    <2>2. /\ detach' \in DetachTypes /\ detach'.at = "close" /\ detach'.dev = d
          /\ detach'.plugout = detach.plugout /\ detach'.reattach = detach.reattach
        BY <2>1, NextStageOfDetach DEF IInv, Typed
    <2>3. Typed'
        BY <1>1, <1>2, <1>3, <2>2
           DEF background, control, IInv, Typed, DevicesTyped, WorkTyped, AttemptsTyped, OthersTyped
    <2>4. OneWorker' /\ Attaching' /\ Detaching'
        BY <1>1, <1>2, <1>3, <2>2
           DEF IInv, Core, OneWorker, Attaching, AttachStage, Detaching, DetachStage
    <2>5. Tabled' /\ Plugged' /\ Flagged' /\ Owned'
        BY <1>1, <1>2, <1>3, <2>2
           DEF DetachStage, IInv, Typed, DevicesTyped, Core, Tabled, Plugged, Flagged, Owned, Held,
               NoticeNamesPort
    <2> QED
        BY <1>4, <2>3, <2>4, <2>5 DEF IInv, Core
<1> QED
    BY <1>5, <1>6

LEMMA StopReceiveKeepsIInv ==
    ASSUME IInv, StopReceive
    PROVE  IInv'
<1> USE DEF table, plug, notices
<1> DEFINE d == detach.dev
<1>1. /\ detach.at = "close" /\ \A n \in noticing : n[1] # d
      /\ sessions' = sessions \ {d} /\ lost' = lost \ {d}
    BY DEF StopReceive
<1>2. UNCHANGED <<devices, port, hub, unplugged, abandoned, noticed, noticing, unheard,
                  queue, attach, sweep, tail, background, control>>
    BY DEF StopReceive
<1>3. /\ d \in Devices /\ DetachStage(d)
      /\ attach.at # "idle" => attach.at = "giveup" /\ attach.dev = d /\ ~detach.reattach
      /\ attach.at = "idle" => attach = NoAttach /\ attach.dev # d
    BY <1>1, AtDetach
<1>4. /\ detach' \in DetachTypes /\ detach'.at = "reclaim" /\ detach'.dev = d
      /\ detach'.plugout = detach.plugout /\ detach'.reattach = detach.reattach
    BY NextStageOfDetach DEF StopReceive, IInv, Typed
<1>5. Typed'
    BY <1>1, <1>2, <1>4
       DEF background, control, IInv, Typed, DevicesTyped, WorkTyped, AttemptsTyped, OthersTyped
<1>6. Agree' /\ OneWorker' /\ Attaching'
    BY <1>1, <1>2, <1>3, <1>4 DEF IInv, Core, Agree, OneWorker, Attaching, AttachStage
<1>7. Detaching'
    BY <1>1, <1>2, <1>3, <1>4 DEF IInv, Core, Tabled, Detaching, DetachStage
<1>8. Tabled' /\ Plugged' /\ Flagged' /\ Owned'
    BY <1>1, <1>2, <1>4
       DEF IInv, Core, Tabled, Plugged, Flagged, Owned, Held, NoticeNamesPort
<1> QED
    BY <1>5, <1>6, <1>7, <1>8 DEF IInv, Core
LEMMA ReclaimPortKeepsIInv ==
    ASSUME IInv, ReclaimPort
    PROVE  IInv'
<1> USE DEF plug, net, notices
<1> DEFINE d == detach.dev
<1>1. detach.at = "reclaim"
    BY DEF ReclaimPort
<1>2. UNCHANGED <<hub, unplugged, abandoned, sessions, lost, noticed, noticing, unheard,
                  queue, attach, sweep, tail, background, control>>
    BY DEF ReclaimPort
<1>3. /\ d \in Devices /\ DetachStage(d)
      /\ attach.at # "idle" => attach.at = "giveup" /\ attach.dev = d /\ ~detach.reattach
      /\ attach.at = "idle" => attach = NoAttach /\ attach.dev # d
    BY <1>1, AtDetach
<1>4. /\ detach' \in DetachTypes /\ detach'.at = "plugout" /\ detach'.dev = d
      /\ detach'.plugout = detach.plugout /\ detach'.reattach = detach.reattach
    BY NextStageOfDetach DEF ReclaimPort, IInv, Typed
<1>5. /\ port' \in [Devices -> 0 .. NPorts] /\ port'[d] = 0
      /\ \A e \in Devices \ {d} : port'[e] = port[e]
      /\ devices' \in [Ports -> Devices \cup {NoDevice}]
      /\ Agree'
    <2>1. port \in [Devices -> 0 .. NPorts] /\ devices \in [Ports -> Devices \cup {NoDevice}]
        BY DEF IInv, Typed, DevicesTyped
    <2>2. CASE port[d] = 0
        <3>1. UNCHANGED <<devices, port>>
            BY <2>2 DEF ReclaimPort, table
        <3> QED
            BY <1>3, <2>1, <2>2, <3>1 DEF IInv, Agree
    <2>3. CASE port[d] # 0
        <3>1. devices' = [devices EXCEPT ![port[d]] = NoDevice] /\ port' = [port EXCEPT ![d] = 0]
            BY <2>3 DEF ReclaimPort
        <3>2. port[d] \in Ports /\ 0 \in 0 .. NPorts /\ 0 \notin Ports
            BY <1>3, <2>1, <2>3, PortsAssumption DEF Ports
        <3>3. /\ port' \in [Devices -> 0 .. NPorts] /\ port'[d] = 0
              /\ \A e \in Devices \ {d} : port'[e] = port[e]
              /\ devices' \in [Ports -> Devices \cup {NoDevice}]
              /\ devices'[port[d]] = NoDevice
              /\ \A q \in Ports \ {port[d]} : devices'[q] = devices[q]
            BY <1>3, <2>1, <3>1, <3>2
        <3>4. ASSUME NEW e \in Devices, NEW q \in Ports
              PROVE  port'[e] = q <=> devices'[q] = e
            <4>1. (port[e] = q <=> devices[q] = e) /\ (port[d] = q <=> devices[q] = d) /\ q # 0
                BY <1>3, <3>2 DEF IInv, Agree
            <4>2. CASE e = d
                BY <1>3, <3>3, <4>1, <4>2, Idle
            <4>3. CASE e # d
                BY <1>3, <3>3, <4>1, <4>3, Idle
            <4> QED
                BY <4>2, <4>3
        <3> QED
            BY <3>3, <3>4 DEF Agree
    <2> QED
        BY <2>2, <2>3
<1>6. Typed'
    BY <1>2, <1>4, <1>5
       DEF background, control, IInv, Typed, DevicesTyped, WorkTyped, AttemptsTyped, OthersTyped
<1>7. OneWorker' /\ Attaching'
    BY <1>1, <1>2, <1>3, <1>4, <1>5 DEF IInv, Core, OneWorker, Attaching, AttachStage
<1>8. Detaching'
    BY <1>1, <1>2, <1>3, <1>4, <1>5 DEF Detaching, DetachStage
<1>9. Tabled' /\ Plugged' /\ Flagged'
    BY <1>1, <1>2, <1>3, <1>4, <1>5 DEF DetachStage, IInv, Typed, DevicesTyped, Core, Tabled, Plugged, Flagged
<1>10. Owned'
    <2>1. \A n \in noticing : n[1] \in Devices \ {d}
        BY <1>1, <1>3 DEF DetachStage, IInv, Typed, DevicesTyped
    <2> QED
        BY <1>1, <1>2, <1>3, <1>4, <1>5, <2>1
           DEF DetachStage, IInv, Typed, DevicesTyped, Core, Owned, Held, NoticeNamesPort
<1> QED
    BY <1>5, <1>6, <1>7, <1>8, <1>9, <1>10 DEF IInv, Core

LEMMA PlugOutKeepsIInv ==
    ASSUME IInv, PlugOut
    PROVE  IInv'
<1> USE DEF table, net
<1> DEFINE d == detach.dev
<1>1. detach.at = "plugout"
    BY DEF PlugOut
<1>2. UNCHANGED <<devices, port, sessions, lost, noticing, queue, attach, sweep, tail,
                  background, control>>
    BY DEF PlugOut
<1>3. /\ d \in Devices /\ DetachStage(d)
      /\ attach.at # "idle" => attach.at = "giveup" /\ attach.dev = d /\ ~detach.reattach
      /\ attach.at = "idle" => attach = NoAttach /\ attach.dev # d
    BY <1>1, AtDetach
<1>4. port[d] = 0 /\ d \notin sessions /\ d \in unplugged
    BY <1>1, <1>3 DEF DetachStage
<1>5. \A n \in noticing : n[1] # d
    BY <1>4 DEF IInv, Core, Owned, NoticeNamesPort
\* UDE has given it up, or it is left.
<1>6. /\ hub' \in [Devices -> 0 .. NPorts]
      /\ \A e \in Devices \ {d} : hub'[e] = hub[e]
      /\ abandoned \subseteq abandoned' /\ abandoned' \subseteq abandoned \cup {d}
      /\ unplugged' \subseteq unplugged /\ unplugged \subseteq unplugged' \cup {d}
      /\ noticed' \subseteq noticed /\ \A n \in noticed : n[1] # d => n \in noticed'
      /\ unheard' \subseteq noticed'
      /\ hub'[d] # 0 => d \in abandoned' /\ d \in unplugged'
      /\ attach.at = "idle" /\ d \in unplugged' => hub'[d] # 0
    <2>1. hub \in [Devices -> 0 .. NPorts] /\ 0 \in 0 .. NPorts /\ unheard \subseteq noticed
        BY PortsAssumption DEF IInv, Typed, DevicesTyped
    <2>2. attach.at = "idle" => hub[d] # 0
        BY <1>1, <1>3 DEF DetachStage
    <2>3. CASE /\ detach.plugout /\ hub' = [hub EXCEPT ![d] = 0]
               /\ DeleteDevice(d) /\ UNCHANGED abandoned
        <3>1. hub' \in [Devices -> 0 .. NPorts] /\ hub'[d] = 0
              /\ \A e \in Devices \ {d} : hub'[e] = hub[e]
            BY <1>3, <2>1, <2>3
        <3>2. /\ unplugged' = unplugged \ {d} /\ noticed' = {n \in noticed : n[1] # d}
              /\ unheard' = {n \in unheard : n[1] # d}
            BY <2>3 DEF DeleteDevice
        <3> QED
            BY <2>1, <2>3, <3>1, <3>2
    <2>4. CASE abandoned' = abandoned \cup {d} /\ UNCHANGED <<hub, unplugged, noticed, unheard>>
        BY <1>4, <2>1, <2>2, <2>4
    <2>5. CASE /\ ~detach.plugout /\ attach # NoAttach
               /\ UNCHANGED <<abandoned, hub, unplugged, noticed, unheard>>
        <3>1. attach.at # "idle" /\ hub[d] = 0
            BY <1>3, <2>5 DEF DetachStage
        <3> QED
            BY <2>1, <2>5, <3>1
    <2> QED
        BY <2>3, <2>4, <2>5 DEF PlugOut
<1>7. \/ /\ detach' = NoDetach /\ ~detach.reattach
      \/ /\ detach' \in DetachTypes /\ detach'.at = "start" /\ detach'.dev = d
         /\ attach.at = "idle"
    <2>1. CASE detach.reattach
        BY <1>3, <2>1, NextStageOfDetach DEF PlugOut, IInv, Typed
    <2>2. CASE ~detach.reattach
        BY <2>2 DEF PlugOut
    <2> QED
        BY <2>1, <2>2
<1>8. Typed'
    <2>1. detach' \in DetachTypes
        BY <1>7, IdleTypes
    <2>2. abandoned' \subseteq Devices /\ unplugged' \subseteq Devices
          /\ noticed' \subseteq Devices \X Noticers /\ noticing \subseteq noticed'
          /\ unheard' \subseteq noticed'
        BY <1>3, <1>5, <1>6 DEF IInv, Typed, DevicesTyped
    <2> QED
        BY <1>2, <1>6, <2>1, <2>2
           DEF background, control, IInv, Typed, DevicesTyped, WorkTyped, AttemptsTyped, OthersTyped
<1>9. Agree'
    BY <1>2 DEF IInv, Agree
<1>10. OneWorker' /\ Attaching'
    BY <1>2, <1>3, <1>4, <1>7, Idle DEF IInv, Core, OneWorker, Attaching, AttachStage
<1>11. Detaching'
    BY <1>2, <1>4, <1>6, <1>7, Idle DEF Detaching, DetachStage
<1>12. Tabled'
    BY <1>2, <1>4, <1>6 DEF IInv, Core, Tabled
<1>13. Plugged'
    BY <1>2, <1>3, <1>6, <1>7, Idle DEF IInv, Core, Plugged
<1>14. Flagged'
    BY <1>2, <1>3, <1>6, <1>7, Idle DEF IInv, Typed, DevicesTyped, Core, Flagged
<1>15. Owned'
    BY <1>2, <1>3, <1>4, <1>6, <1>7, Idle
       DEF IInv, Typed, DevicesTyped, Core, Owned, Held, NoticeNamesPort
<1> QED
    BY <1>8, <1>9, <1>10, <1>11, <1>12, <1>13, <1>14, <1>15 DEF IInv, Core
LEMMA ReattachKeepsIInv ==
    ASSUME IInv, Reattach
    PROVE  IInv'
<1> USE DEF table, plug, net, notices
<1> DEFINE d == detach.dev
<1>1. /\ detach.at \in {"start", "add"}
      /\ UNCHANGED <<devices, port, hub, unplugged, abandoned, sessions, lost, noticed, noticing, unheard,
                      queue, attach, sweep, tail, control>>
    BY DEF Reattach
<1>2. d \in Devices /\ DetachStage(d) /\ attach = NoAttach /\ attach.at = "idle"
    BY <1>1, AtDetach DEF DetachStage
<1>3. \/ detach' = NoDetach
      \/ /\ detach' \in DetachTypes /\ detach'.at = "add" /\ detach'.dev = d
    BY NextStageOfDetach DEF Reattach, IInv, Typed
<1>4. AttemptsTyped'
    BY Adding, AttemptsKept DEF Reattach, IInv, Typed
<1>5. Typed'
    <2>1. detach' \in DetachTypes
        BY <1>3, IdleTypes
    <2> QED
        BY <1>1, <1>4, <2>1 DEF control, IInv, Typed, DevicesTyped, WorkTyped, OthersTyped
<1>6. Agree' /\ OneWorker' /\ Attaching'
    BY <1>1, <1>2, <1>3, Idle DEF IInv, Agree, OneWorker, Attaching
<1>7. Detaching'
    BY <1>1, <1>2, <1>3, Idle DEF Detaching, DetachStage
<1>8. Tabled' /\ Plugged' /\ Flagged' /\ Owned'
    BY <1>1, <1>2, <1>3, Idle
       DEF DetachStage, IInv, Typed, DevicesTyped, Core, Tabled, Plugged, Flagged, Owned,
           Held, NoticeNamesPort
<1> QED
    BY <1>5, <1>6, <1>7, <1>8 DEF IInv, Core

-----------------------------------------------------------------------------
(* A lost connection.                                                      *)

LEMMA LoseKeepsIInv ==
    ASSUME IInv, NEW d \in Devices, Lose(d)
    PROVE  IInv'
<1> USE DEF table, plug, notices
<1>1. /\ d \in sessions /\ lost' = lost \cup {d}
      /\ UNCHANGED <<devices, port, hub, unplugged, abandoned, sessions, noticed, noticing, unheard,
                      queue, attach, detach, sweep, tail, background, removing, removal>>
    BY DEF Lose
<1>2. events' \in 0 .. MaxEvents
    BY LimitsAssumption DEF Lose, IInv, Typed, OthersTyped
<1>3. Typed'
    BY <1>1, <1>2 DEF background, IInv, Typed, DevicesTyped, WorkTyped, AttemptsTyped, OthersTyped
<1>4. Agree' /\ Core'
    BY <1>1 DEF IInv, Agree, Core, OneWorker, Attaching, AttachStage, Detaching, DetachStage,
                Tabled, Plugged, Flagged, Owned, Held, NoticeNamesPort
<1> QED
    BY <1>3, <1>4 DEF IInv

\* Whoever finds the flag unset finds the port in use, and detach has not got
\* past the wait for its users.
LEMMA NoticeKeepsIInv ==
    ASSUME IInv, NEW d \in Devices, NEW who \in Noticers, Notice(d, who)
    PROVE  IInv'
<1> USE DEF table, plug, net
<1>1. /\ hub[d] # 0 /\ d \notin unplugged
      /\ noticed' = noticed \cup {<<d, who>>} /\ noticing' = noticing \cup {<<d, who>>}
      /\ UNCHANGED <<devices, port, hub, unplugged, abandoned, sessions, lost, unheard,
                      queue, attach, detach, sweep, tail, background, control>>
    BY DEF Notice
<1>2. port[d] # 0
    BY <1>1 DEF IInv, Core, Plugged
<1>3. detach.at = "reclaim" => detach.dev # d
    BY <1>1 DEF IInv, Core, Detaching, DetachStage
<1>4. Typed'
    BY <1>1 DEF background, control, IInv, Typed, DevicesTyped, WorkTyped, AttemptsTyped, OthersTyped
<1>5. Agree' /\ OneWorker' /\ Attaching' /\ Tabled' /\ Plugged' /\ Flagged'
    BY <1>1 DEF IInv, Core, Agree, OneWorker, Attaching, AttachStage, Tabled, Plugged, Flagged
<1>6. Detaching'
    BY <1>1, <1>3 DEF IInv, Core, Detaching, DetachStage
<1>7. Owned'
    BY <1>1, <1>2 DEF IInv, Core, Owned, Held, NoticeNamesPort
<1> QED
    BY <1>4, <1>5, <1>6, <1>7 DEF IInv, Core

LEMMA AsyncDetachKeepsIInv ==
    ASSUME IInv, NEW d \in Devices, NEW who \in Noticers, AsyncDetachAndDelete(d, who)
    PROVE  IInv'
<1> USE DEF table, plug, net
<1>1. /\ <<d, who>> \in noticing /\ noticing' = noticing \ {<<d, who>>}
      /\ \/ queue' = Append(queue, Plugout(port[d], TRUE)) /\ UNCHANGED unheard
         \/ unheard' = unheard \cup {<<d, who>>} /\ UNCHANGED queue
      /\ UNCHANGED <<devices, port, hub, unplugged, abandoned, sessions, lost, noticed,
                      attach, detach, sweep, tail, background, control>>
    BY DEF AsyncDetachAndDelete
<1>2. queue' \in Seq(Requests)
    <2>1. port[d] \in -2 .. NPorts
        BY PortsAssumption DEF IInv, Typed, DevicesTyped
    <2>2. PICK r \in Requests : r = Plugout(port[d], TRUE)
        BY <2>1, RequestTypes
    <2>3. queue' = Append(queue, r) \/ UNCHANGED queue
        BY <1>1, <2>2, Zenon
    <2> QED
        BY <2>3 DEF IInv, Typed, OthersTyped
<1>3. Typed'
    <2>1. unheard' \subseteq noticed
        BY <1>1 DEF IInv, Typed, DevicesTyped
    <2> QED
        BY <1>1, <1>2, <2>1
           DEF background, control, IInv, Typed, DevicesTyped, WorkTyped, AttemptsTyped, OthersTyped
<1>4. Agree' /\ Core'
    BY <1>1 DEF IInv, Agree, Core, OneWorker, Attaching, AttachStage, Detaching, DetachStage,
                Tabled, Plugged, Flagged, Owned, Held, NoticeNamesPort
<1> QED
    BY <1>3, <1>4 DEF IInv

-----------------------------------------------------------------------------
LEMMA NextIInv == IInv /\ [Next]_vars => IInv'
<1> SUFFICES ASSUME IInv, [Next]_vars PROVE IInv'
    OBVIOUS
<1>1. CASE UNCHANGED vars
    <2>1. Same /\ UNCHANGED <<queue, tail, background, control>>
        BY <1>1 DEF vars, table, plug, net, notices, Same
    <2>2. AttemptsTyped' /\ OthersTyped'
        BY <2>1, AttemptsKept DEF control, IInv, Typed, OthersTyped
    <2> QED
        BY <2>1, <2>2, SameKeepsIInv
<1>2. CASE WorkAttach
    BY <1>2, StartAttachKeepsIInv, ConnectKeepsIInv, ImportKeepsIInv, CreateKeepsIInv,
       ClaimPortKeepsIInv, PlugInKeepsIInv, StartReceiveKeepsIInv, GaveUpKeepsIInv DEF WorkAttach
<1>3. CASE WorkDetach
    BY <1>3, PlugoutHardwareKeepsIInv, DetachAllDevicesKeepsIInv, SetUnpluggedKeepsIInv,
       StopReceiveKeepsIInv, ReclaimPortKeepsIInv, PlugOutKeepsIInv, ReattachKeepsIInv DEF WorkDetach
<1>4. ASSUME NEW d \in Devices, AfterAttach(d) \/ Cleanup(d) \/ Lose(d)
      PROVE  IInv'
    BY <1>4, CallsKeepIInv, CleanupKeepsIInv, LoseKeepsIInv
<1>5. ASSUME NEW d \in Devices, NEW who \in Noticers, Notice(d, who) \/ AsyncDetachAndDelete(d, who)
      PROVE  IInv'
    BY <1>5, NoticeKeepsIInv, AsyncDetachKeepsIInv
<1>6. ASSUME NEW r \in Attempts, AttachTimer(r) \/ CancelQueued(r) \/ OnPluginHardware(r)
      PROVE  IInv'
    BY <1>6, TimersKeepIInv
<1>7. CASE Call \/ QueryRemove
    BY <1>7, CallsKeepIInv
<1> QED
    BY <1>1, <1>2, <1>3, <1>4, <1>5, <1>6, <1>7 DEF Next

LEMMA Invariance == Spec => []IInv
BY InitIInv, NextIInv, PTL DEF Spec

\* In every reachable state the variables have their types; in particular a port
\* that claim_roothub_port gave out exists, and a request names a port or is one
\* of the two that name all.
THEOREM TypeCorrect == Spec => []TypeOK
<1>1. IInv => TypeOK
    BY TypedOK DEF IInv
<1> QED
    BY <1>1, Invariance, PTL

\* The array of devices and the ports of devices agree, and a port is not given to
\* a second device while UDE has the first one on it (claim_roothub_port,
\* reclaim_roothub_port, device::detach).
THEOREM PortsAlwaysAgree == Spec => []PortsAgree
<1>1. IInv => PortsAgree
    BY DEF IInv, Agree, Core, Plugged, PortsAgree
<1> QED
    BY <1>1, Invariance, PTL

\* Who notices a lost connection names the device's own port, never 0, which would
\* detach every device (async_detach_and_delete, plugout_hardware).
THEOREM NoticesNamePorts == Spec => []NoticeNamesPort
<1>1. IInv => NoticeNamesPort
    BY DEF IInv, Core, Owned
<1> QED
    BY <1>1, Invariance, PTL

\* A session with the server always has somebody who closes it: a device with a
\* port, the attach under way, or the work item of one that has failed; a detach
\* closes it before it reclaims the port (plugin_hardware, workitem_cleanup,
\* device::detach).
THEOREM SessionsAlwaysOwned == Spec => []SessionsOwned
<1>1. IInv => SessionsOwned
    BY DEF IInv, Core, Owned, Held, SessionsOwned
<1> QED
    BY <1>1, Invariance, PTL

-----------------------------------------------------------------------------
(* The controller gives devices the life of DeviceLife.  What IInv does not *)
(* say is that a device with a port has its session: it was connected       *)
(* before, and only the detach that is about to reclaim the port closes it. *)

Wired ==
    /\ attach.at \in {"create", "claim", "plugin", "receive"} => attach.dev \in sessions
    /\ detach.at \in {"flag", "close"} => detach.dev \in sessions
    /\ \A d \in Devices : port[d] # 0 =>
        d \in sessions \/ (detach.at = "reclaim" /\ detach.dev = d)

\* Whoever is done with attaching a device is not attaching it any more; who
\* only has to close its connection has no port.
Ended == \A d \in Devices :
    /\ tail[d] # "none" => attach.dev # d
    /\ tail[d] = "cleanup" => port[d] = 0

LEMMA InitEnded == Init => Ended
BY DEF Init, Ended

\* No device gets a port or an attach.
LEMMA SameKeepsEnded ==
    ASSUME Ended, UNCHANGED tail, attach'.dev = attach.dev \/ attach'.dev \notin Devices,
           \A d \in Devices : port[d] = 0 => port'[d] = 0
    PROVE  Ended'
BY DEF Ended

LEMMA FinishingKeepsEnded ==
    ASSUME Ended, OthersTyped, NEW st \in Status, FinishAttach(st), UNCHANGED port
    PROVE  Ended'
<1> DEFINE d == attach.dev
           t == IF attach.by = User THEN st ELSE AtEnd(d)
<1>1. t = "cleanup" => port[d] = 0
    BY DEF AtEnd, Status
<1>2. tail' = [tail EXCEPT ![d] = t] /\ attach' = NoAttach
    BY DEF FinishAttach
<1> HIDE DEF d, t
<1>3. \A e \in Devices : tail'[e] = IF e = d THEN t ELSE tail[e]
    BY <1>2 DEF OthersTyped
<1> QED
    BY <1>1, <1>2, <1>3, Idle DEF Ended

LEMMA NextEnded == IInv /\ Ended /\ [Next]_vars => Ended'
<1> SUFFICES ASSUME IInv, Ended, [Next]_vars PROVE Ended'
    OBVIOUS
<1> USE DEF table, plug, net
<1>1. WorkTyped /\ OthersTyped /\ DevicesTyped
    BY DEF IInv, Typed
<1>2. ASSUME NEW at \in {"import", "create", "claim", "plugin", "receive", "giveup"},
             attach' = [attach EXCEPT !.at = at], UNCHANGED <<tail, port>>
      PROVE  Ended'
    BY <1>1, <1>2, NextStage, SameKeepsEnded
<1>3. CASE StartAttach
    <2>1. CASE UNCHANGED attach
        BY <1>3, <2>1, SameKeepsEnded DEF StartAttach
    <2>2. ASSUME NEW d \in Devices, Unused(d), attach'.dev = d
          PROVE  Ended'
        BY <1>3, <2>2 DEF StartAttach, Unused, Ended
    <2> QED
        BY <1>3, <2>1, <2>2 DEF StartAttach
<1>4. CASE Connect \/ Import \/ Create \/ StartReceive \/ GaveUp
    <2>1. UNCHANGED port
        BY <1>4 DEF Connect, Import, Create, StartReceive, GaveUp
    <2>2. CASE \E st \in Status : FinishAttach(st)
        BY <1>1, <2>1, <2>2, FinishingKeepsEnded
    <2>3. CASE \A st \in Status : ~FinishAttach(st)
        BY <1>2, <1>4, <2>1, <2>3, StateTypes
           DEF Connect, Import, Create, StartReceive, GiveUp, GaveUp
    <2> QED
        BY <2>2, <2>3
<1>5. CASE PlugIn
    BY <1>2, <1>5 DEF PlugIn, GiveUp
<1>6. CASE ClaimPort
    <2>1. attach.at = "claim" /\ UNCHANGED tail
        BY <1>6 DEF ClaimPort
    <2>2. attach.dev \in Devices
        BY <2>1, AtWork
    <2>3. attach'.dev = attach.dev /\ \A d \in Devices \ {attach.dev} : port'[d] = port[d]
        <3>1. CASE GiveUp(FALSE) /\ UNCHANGED port
            BY <1>1, <3>1, NextStage DEF GiveUp
        <3>2. ASSUME NEW p, port' = [port EXCEPT ![attach.dev] = p],
                     attach' = [attach EXCEPT !.at = "plugin"]
              PROVE  /\ attach'.dev = attach.dev
                     /\ \A d \in Devices \ {attach.dev} : port'[d] = port[d]
            BY <1>1, <3>2, NextStage DEF DevicesTyped
        <3> QED
            BY <1>6, <3>1, <3>2, Zenon DEF ClaimPort
    <2>4. tail[attach.dev] = "none"
        BY <2>2 DEF Ended
    <2> QED
        BY <2>1, <2>3, <2>4 DEF Ended
<1>7. CASE WorkDetach
    <2>1. UNCHANGED <<tail, attach>>
        BY <1>7 DEF WorkDetach, PlugoutHardware, DetachAllDevices, SetUnplugged, StopReceive,
                    ReclaimPort, PlugOut, Reattach
    <2>2. \A d \in Devices : port[d] = 0 => port'[d] = 0
        <3>1. CASE ReclaimPort
            BY <1>1, <3>1 DEF ReclaimPort, DevicesTyped
        <3>2. CASE UNCHANGED port
            BY <3>2
        <3> QED
            BY <1>7, <3>1, <3>2
               DEF WorkDetach, PlugoutHardware, DetachAllDevices, SetUnplugged, StopReceive,
                   PlugOut, Reattach
    <2> QED
        BY <2>1, <2>2, SameKeepsEnded
<1>8. ASSUME NEW d \in Devices, AfterAttach(d) \/ Cleanup(d)
      PROVE  Ended'
    <2>1. UNCHANGED <<port, attach>> /\ tail[d] # "none"
        BY <1>8 DEF AfterAttach, Cleanup, Status
    <2>2. \E t : tail' = [tail EXCEPT ![d] = t] /\ (t = "cleanup" => port[d] = 0)
        BY <1>8 DEF AfterAttach, Cleanup, AtEnd
    <2> QED
        BY <1>1, <2>1, <2>2 DEF OthersTyped, Ended
<1>9. CASE \/ UNCHANGED vars
           \/ \E d \in Devices : Lose(d)
           \/ \E d \in Devices, who \in Noticers : Notice(d, who) \/ AsyncDetachAndDelete(d, who)
           \/ \E r \in Attempts : AttachTimer(r) \/ CancelQueued(r) \/ OnPluginHardware(r)
           \/ Call \/ QueryRemove
    <2>1. UNCHANGED <<tail, attach, port>>
        BY <1>9 DEF vars, Lose, Notice, AsyncDetachAndDelete, AttachTimer, CancelQueued,
                    OnPluginHardware, Call, QueryRemove
    <2> QED
        BY <2>1, SameKeepsEnded
<1> QED
    BY <1>3, <1>4, <1>5, <1>6, <1>7, <1>8, <1>9 DEF Next, WorkAttach

LEMMA InitWired == Init => Wired
BY Idle DEF Init, Wired

\* Steps that neither connect nor disconnect, and move no device.
LEMMA SameKeepsWired ==
    ASSUME Wired, UNCHANGED <<port, sessions, detach>>,
           UNCHANGED attach \/ attach'.at \notin {"create", "claim", "plugin", "receive"}
    PROVE  Wired'
BY DEF Wired

LEMMA AttachKeepsWired ==
    ASSUME IInv, Wired, WorkAttach
    PROVE  Wired'
<1> USE DEF table, plug, net
<1>1. WorkTyped /\ DevicesTyped
    BY DEF IInv, Typed
<1>2. ASSUME NEW st, FinishAttach(st)
      PROVE  attach'.at \notin {"create", "claim", "plugin", "receive"}
    BY <1>2, Idle DEF FinishAttach
<1>3. CASE StartAttach
    BY <1>3, SameKeepsWired DEF StartAttach
<1>4. CASE Connect
    <2>1. attach'.at \notin {"create", "claim", "plugin", "receive"}
        BY <1>1, <1>2, <1>4, NextStage DEF Connect
    <2> QED
        BY <1>4, <2>1, SameKeepsWired DEF Connect
<1>5. CASE Import
    <2>1. UNCHANGED <<port, detach>>
        BY <1>5 DEF Import
    <2>2. CASE sessions' = sessions \cup {attach.dev} /\ attach' = [attach EXCEPT !.at = "create"]
        <3>1. attach'.dev = attach.dev
            BY <1>1, <2>2, NextStage
        <3> QED
            BY <2>1, <2>2, <3>1 DEF Wired
    <2>3. ASSUME NEW st, FinishAttach(st), UNCHANGED sessions
          PROVE  Wired'
        BY <1>2, <2>1, <2>3, SameKeepsWired
    <2> QED
        BY <1>5, <2>2, <2>3 DEF Import
<1>6. ASSUME attach.at \in {"claim", "plugin", "receive"}, NEW plugged, GiveUp(plugged),
             UNCHANGED <<port, sessions>>
      PROVE  Wired'
    <2>1. attach'.at = "giveup"
        BY <1>1, <1>6, NextStage DEF GiveUp
    <2>2. detach'.at = "flag" /\ detach'.dev = attach.dev /\ attach.dev \in sessions
        BY <1>6 DEF GiveUp, Wired
    <2>3. detach = NoDetach
        BY <1>6, AtWork
    <2> QED
        BY <1>6, <2>1, <2>2, <2>3, Idle DEF Wired
<1>7. CASE ClaimPort
    <2> DEFINE free == {p \in PortRange[LocationOf(attach.dev)] : devices[p] = NoDevice}
    <2>1. attach.at = "claim" /\ UNCHANGED sessions
        BY <1>7 DEF ClaimPort
    <2>2. CASE port' = [port EXCEPT ![attach.dev] = Lowest(free)]
               /\ attach' = [attach EXCEPT !.at = "plugin"] /\ UNCHANGED detach
        <3>1. attach'.at = "plugin" /\ attach'.dev = attach.dev /\ attach.dev \in sessions
            BY <1>1, <2>1, <2>2, NextStage DEF Wired
        <3>2. \A d \in Devices \ {attach.dev} : port'[d] = port[d]
            BY <1>1, <2>2 DEF DevicesTyped
        <3> HIDE DEF free
        <3> QED
            BY <2>1, <2>2, <3>1, <3>2 DEF Wired
    <2>3. CASE GiveUp(FALSE) /\ UNCHANGED table
        BY <1>6, <2>1, <2>3
    <2> QED
        BY <1>7, <2>2, <2>3 DEF ClaimPort
<1>8. CASE PlugIn
    <2>1. attach.at = "plugin" /\ UNCHANGED <<port, sessions>>
        BY <1>8 DEF PlugIn
    <2>2. CASE attach' = [attach EXCEPT !.at = "receive"] /\ UNCHANGED detach
        BY <1>1, <2>1, <2>2, NextStage DEF Wired
    <2>3. CASE GiveUp(FALSE)
        BY <1>6, <2>1, <2>3
    <2> QED
        BY <1>8, <2>2, <2>3 DEF PlugIn
<1>9. CASE StartReceive
    <2>1. attach.at = "receive" /\ UNCHANGED <<port, sessions>>
        BY <1>9 DEF StartReceive
    <2>2. CASE FinishAttach("ok") /\ UNCHANGED detach
        BY <1>2, <2>1, <2>2, SameKeepsWired
    <2>3. CASE GiveUp(TRUE)
        BY <1>6, <2>1, <2>3
    <2> QED
        BY <1>9, <2>2, <2>3 DEF StartReceive
<1>10. CASE GaveUp
    BY <1>2, <1>10, SameKeepsWired DEF GaveUp
<1>11. CASE Create
    <2>1. attach.at = "create" /\ UNCHANGED <<port, sessions, detach>>
        BY <1>11 DEF Create
    <2>2. CASE attach' = [attach EXCEPT !.at = "claim"]
        BY <1>1, <2>1, <2>2, NextStage DEF Wired
    <2>3. ASSUME NEW st, FinishAttach(st)
          PROVE  Wired'
        BY <1>2, <2>1, <2>3, SameKeepsWired
    <2> QED
        BY <1>11, <2>2, <2>3 DEF Create
<1> QED
    BY <1>3, <1>4, <1>5, <1>7, <1>8, <1>9, <1>10, <1>11 DEF WorkAttach

LEMMA DetachKeepsWired ==
    ASSUME IInv, Wired, WorkDetach
    PROVE  Wired'
<1> USE DEF table, plug, net
<1>1. WorkTyped /\ DevicesTyped
    BY DEF IInv, Typed
<1>2. ASSUME detach = NoDetach, NEW p, GetDevice(p) # NoDevice, NEW plugout, NEW again,
             BeginDetach(GetDevice(p), plugout, again), UNCHANGED <<port, sessions, attach>>
      PROVE  Wired'
    <2>1. GetDevice(p) \in sessions
        BY <1>2, Found, Idle DEF Wired
    <2>2. detach'.at = "flag" /\ detach'.dev = GetDevice(p)
        BY <1>2 DEF BeginDetach
    <2> QED
        BY <1>2, <2>1, <2>2, Idle DEF Wired
<1>3. CASE PlugoutHardware
    BY <1>2, <1>3, SameKeepsWired DEF PlugoutHardware, QueueIdle
<1>4. CASE DetachAllDevices
    BY <1>2, <1>4, SameKeepsWired DEF DetachAllDevices
<1>5. CASE SetUnplugged
    <2>1. detach.at = "flag" /\ UNCHANGED <<port, sessions, attach>>
        BY <1>5 DEF SetUnplugged
    <2>2. detach' = NoDetach \/ (detach'.at = "close" /\ detach'.dev = detach.dev)
        BY <1>1, <1>5, NextStageOfDetach DEF SetUnplugged
    <2> QED
        BY <2>1, <2>2, Idle DEF Wired
<1>6. CASE StopReceive
    <2>1. /\ detach.at = "close" /\ UNCHANGED <<port, attach>>
          /\ sessions' = sessions \ {detach.dev}
        BY <1>6 DEF StopReceive
    <2>2. detach'.at = "reclaim" /\ detach'.dev = detach.dev
        BY <1>1, <1>6, NextStageOfDetach DEF StopReceive
    <2>3. attach.at \notin {"create", "claim", "plugin", "receive"}
        BY <2>1, AtDetach, Idle
    <2> QED
        BY <2>1, <2>2, <2>3 DEF Wired
<1>7. CASE ReclaimPort
    <2>1. detach.at = "reclaim" /\ UNCHANGED <<sessions, attach>>
        BY <1>7 DEF ReclaimPort
    <2>2. detach'.at = "plugout"
        BY <1>1, <1>7, NextStageOfDetach DEF ReclaimPort
    <2>3. port'[detach.dev] = 0 /\ \A d \in Devices \ {detach.dev} : port'[d] = port[d]
        BY <1>1, <1>7, <2>1, AtDetach DEF ReclaimPort, DevicesTyped
    <2> QED
        BY <2>1, <2>2, <2>3 DEF Wired
<1>8. CASE PlugOut
    <2>1. detach.at = "plugout" /\ UNCHANGED <<port, sessions, attach>>
        BY <1>8 DEF PlugOut
    <2>2. detach'.at \in {"start", "idle"}
        BY <1>1, <1>8, NextStageOfDetach, Idle DEF PlugOut
    <2> QED
        BY <2>1, <2>2 DEF Wired
<1>9. CASE Reattach
    <2>1. detach.at \in {"start", "add"} /\ UNCHANGED <<port, sessions, attach>>
        BY <1>9 DEF Reattach
    <2>2. detach'.at \in {"add", "idle"}
        BY <1>1, <1>9, NextStageOfDetach, Idle DEF Reattach
    <2> QED
        BY <2>1, <2>2 DEF Wired
<1> QED
    BY <1>3, <1>4, <1>5, <1>6, <1>7, <1>8, <1>9 DEF WorkDetach

\* What runs beside the default queue, but for the end of a work item.
Beside ==
    \/ \E d \in Devices : AfterAttach(d) \/ Lose(d)
    \/ \E d \in Devices, who \in Noticers : Notice(d, who) \/ AsyncDetachAndDelete(d, who)
    \/ \E r \in Attempts : AttachTimer(r) \/ CancelQueued(r) \/ OnPluginHardware(r)
    \/ Call \/ QueryRemove

LEMMA BesideMovesNothing ==
    ASSUME Beside
    PROVE  UNCHANGED <<devices, port, hub, unplugged, sessions, attach, detach>>
BY DEF Beside, AfterAttach, Lose, Notice, AsyncDetachAndDelete, AttachTimer, CancelQueued,
       OnPluginHardware, Call, QueryRemove, table, plug, net

\* What a work item closes was in nobody's hands.
LEMMA AtCleanup ==
    ASSUME IInv, Ended, NEW d \in Devices, Cleanup(d)
    PROVE  /\ port[d] = 0 /\ attach.dev # d
           /\ detach.at \in {"flag", "close"} => detach.dev # d
           /\ d \in sessions => hub[d] = 0 /\ d \notin unplugged
<1>1. port[d] = 0 /\ attach.dev # d
    BY DEF Cleanup, Ended
<1>2. detach.at \in {"flag", "close"} => detach.dev # d
    BY <1>1, AtDetach DEF DetachStage
<1> QED
    BY <1>1, <1>2 DEF IInv, Core, Owned, Held

LEMMA CleanupKeepsWired ==
    ASSUME IInv, Ended, Wired, NEW d \in Devices, Cleanup(d)
    PROVE  Wired'
<1>1. /\ sessions' = sessions \ {d}
      /\ UNCHANGED <<port, attach, detach>>
    BY DEF Cleanup, table
<1> QED
    BY <1>1, AtCleanup DEF Wired

LEMMA NextWired == IInv /\ Ended /\ Wired /\ [Next]_vars => Wired'
<1> SUFFICES ASSUME IInv, Ended, Wired, [Next]_vars PROVE Wired'
    OBVIOUS
<1>1. CASE UNCHANGED vars
    BY <1>1, SameKeepsWired DEF vars, table, net
<1>2. CASE Beside
    BY <1>2, BesideMovesNothing, SameKeepsWired
<1> QED
    BY <1>1, <1>2, AttachKeepsWired, DetachKeepsWired, CleanupKeepsWired DEF Next, Beside

\* Nobody who has no port is in the array.
LEMMA PortlessByPort ==
    ASSUME IInv, NEW d \in Devices, port[d] = 0
    PROVE  Life!Portless(d)
BY PortsAssumption DEF IInv, Agree, Ports, Life!Portless

LEMMA InitIsLife == Init => Life!Init
BY DEF Init, Life!Init

LEMMA ImportIsLife ==
    ASSUME IInv, Import
    PROVE  Life!Connect(attach.dev) \/ UNCHANGED Life!vars
<1> USE DEF table, plug, net
<1>1. attach.at = "import" /\ UNCHANGED <<devices, hub, unplugged>>
    BY DEF Import
<1>2. /\ attach.dev \in Devices /\ attach.dev \notin sessions \cup unplugged
      /\ port[attach.dev] = 0 /\ hub[attach.dev] = 0
    BY <1>1, AtWork DEF AttachStage
<1>3. sessions' = sessions \cup {attach.dev} \/ sessions' = sessions
    BY DEF Import
<1> QED
    BY <1>1, <1>2, <1>3, PortlessByPort DEF Life!Connect, Life!vars

LEMMA ClaimIsLife ==
    ASSUME IInv, Wired, ClaimPort
    PROVE  (\E p \in Ports : Life!Occupy(attach.dev, p)) \/ UNCHANGED Life!vars
<1> DEFINE free == {p \in PortRange[LocationOf(attach.dev)] : devices[p] = NoDevice}
<1> USE DEF table, plug, net
<1>1. attach.at = "claim" /\ UNCHANGED <<hub, unplugged, sessions>>
    BY DEF ClaimPort
<1>2. /\ attach.dev \in Devices /\ attach.dev \notin unplugged
      /\ port[attach.dev] = 0 /\ attach.dev \in sessions
    BY <1>1, AtWork DEF AttachStage, Wired
<1>3. CASE free # {} /\ devices' = [devices EXCEPT ![Lowest(free)] = attach.dev]
    <2>1. LocationOf(attach.dev) \in Locations
        BY <1>2 DEF Devices, LocationOf
    <2>2. free \in SUBSET Ports
        BY <2>1, PortsAssumption
    <2>3. Lowest(free) \in free
        BY <1>3, <2>2, LowestIn
    <2>4. Lowest(free) \in Ports /\ devices[Lowest(free)] = NoDevice
        BY <2>2, <2>3
    <2> HIDE DEF free
    <2>5. Life!Occupy(attach.dev, Lowest(free))
        BY <1>1, <1>2, <1>3, <2>4, PortlessByPort DEF Life!Occupy
    <2> QED
        BY <2>4, <2>5
<1>4. CASE UNCHANGED table
    BY <1>1, <1>4 DEF Life!vars
<1> QED
    BY <1>3, <1>4 DEF ClaimPort

LEMMA PlugInIsLife ==
    ASSUME IInv, Wired, PlugIn
    PROVE  (\E p \in Ports : Life!Plug(attach.dev, p)) \/ UNCHANGED Life!vars
<1> USE DEF table, net
<1>1. attach.at = "plugin" /\ UNCHANGED <<devices, unplugged, sessions>>
    BY DEF PlugIn
<1>2. /\ attach.dev \in Devices /\ attach.dev \notin unplugged /\ attach.dev \in sessions
      /\ port[attach.dev] # 0 /\ hub[attach.dev] = 0
    BY <1>1, AtWork DEF AttachStage, Wired
<1>3. port[attach.dev] \in Ports
    BY <1>2, PortsAssumption DEF IInv, Typed, DevicesTyped, Ports
<1>4. devices[port[attach.dev]] = attach.dev
    BY <1>2, <1>3 DEF IInv, Agree
<1>5. CASE UNCHANGED hub
    BY <1>1, <1>5 DEF Life!vars
<1>6. CASE /\ \A e \in Devices : hub[e] # port[attach.dev]
           /\ hub' = [hub EXCEPT ![attach.dev] = port[attach.dev]]
    BY <1>1, <1>2, <1>3, <1>4, <1>6 DEF Life!Plug
<1> QED
    BY <1>5, <1>6 DEF PlugIn

LEMMA GaveUpIsLife ==
    ASSUME IInv, GaveUp
    PROVE  Life!Delete(attach.dev) \/ UNCHANGED Life!vars
<1> USE DEF table, net
<1>1. attach.at = "giveup" /\ detach.at = "idle" /\ UNCHANGED <<devices, hub, sessions>>
    BY Idle DEF GaveUp
<1>2. attach.dev \in Devices /\ port[attach.dev] = 0 /\ attach.dev \notin sessions
    BY <1>1 DEF IInv, Core, OneWorker, Attaching, AttachStage
<1>3. CASE attach.dev \in unplugged /\ hub[attach.dev] = 0 /\ unplugged' = unplugged \ {attach.dev}
    <2>1. hub' = [hub EXCEPT ![attach.dev] = 0]
        BY <1>1, <1>2, <1>3 DEF IInv, Typed, DevicesTyped
    <2> QED
        BY <1>1, <1>2, <1>3, <2>1, PortlessByPort DEF Life!Delete
<1>4. CASE unplugged' = unplugged
    BY <1>1, <1>4 DEF Life!vars
<1> QED
    BY <1>3, <1>4 DEF GaveUp, DeleteDevice

LEMMA SetUnpluggedIsLife ==
    ASSUME IInv, Wired, SetUnplugged
    PROVE  Life!Leave(detach.dev) \/ UNCHANGED Life!vars
<1>1. detach.dev \in sessions
    BY DEF SetUnplugged, Wired
<1>2. CASE detach.dev \in unplugged
    BY <1>2 DEF SetUnplugged, table, net, Life!vars
<1>3. CASE detach.dev \notin unplugged
    BY <1>1, <1>3 DEF SetUnplugged, table, net, Life!Leave
<1> QED
    BY <1>2, <1>3

LEMMA StopReceiveIsLife ==
    ASSUME IInv, Wired, StopReceive
    PROVE  Life!Disconnect(detach.dev)
<1>1. detach.dev \in sessions /\ detach.dev \in unplugged
    BY AtDetach DEF StopReceive, Wired, DetachStage
<1> QED
    BY <1>1 DEF StopReceive, table, plug, Life!Disconnect

LEMMA ReclaimIsLife ==
    ASSUME IInv, ReclaimPort
    PROVE  (\E p \in Ports : Life!Vacate(detach.dev, p)) \/ UNCHANGED Life!vars
<1> USE DEF table, plug, net
<1>1. detach.at = "reclaim" /\ UNCHANGED <<hub, unplugged, sessions>>
    BY DEF ReclaimPort
<1>2. detach.dev \in Devices /\ detach.dev \in unplugged \ sessions
    BY <1>1, AtDetach DEF DetachStage
<1>3. CASE port[detach.dev] = 0
    BY <1>1, <1>3 DEF ReclaimPort, Life!vars
<1>4. CASE port[detach.dev] # 0
    <2>1. port[detach.dev] \in Ports
        BY <1>2, <1>4, PortsAssumption DEF IInv, Typed, DevicesTyped, Ports
    <2>2. devices[port[detach.dev]] = detach.dev
        BY <1>2, <2>1 DEF IInv, Agree
    <2>3. devices' = [devices EXCEPT ![port[detach.dev]] = NoDevice]
        BY <1>4 DEF ReclaimPort
    <2> QED
        BY <1>1, <1>2, <2>1, <2>2, <2>3 DEF Life!Vacate
<1> QED
    BY <1>3, <1>4

LEMMA PlugOutIsLife ==
    ASSUME IInv, PlugOut
    PROVE  Life!Delete(detach.dev) \/ UNCHANGED Life!vars
<1> USE DEF table, net
<1>1. detach.at = "plugout" /\ UNCHANGED <<devices, sessions>>
    BY DEF PlugOut
<1>2. /\ detach.dev \in Devices /\ detach.dev \in unplugged \ sessions
      /\ port[detach.dev] = 0
    BY <1>1, AtDetach DEF DetachStage
<1>3. \/ hub' = [hub EXCEPT ![detach.dev] = 0] /\ unplugged' = unplugged \ {detach.dev}
      \/ UNCHANGED <<hub, unplugged>>
    BY DEF PlugOut, DeleteDevice
<1> QED
    BY <1>1, <1>2, <1>3, PortlessByPort DEF Life!Delete, Life!vars

LEMMA CleanupIsLife ==
    ASSUME IInv, Ended, NEW d \in Devices, Cleanup(d)
    PROVE  Life!Drop(d) \/ UNCHANGED Life!vars
<1>1. sessions' = sessions \ {d} /\ UNCHANGED <<devices, hub, unplugged>>
    BY DEF Cleanup, table, plug
<1>2. CASE d \in sessions
    BY <1>1, <1>2, AtCleanup, PortlessByPort DEF Life!Drop
<1>3. CASE d \notin sessions
    BY <1>1, <1>3 DEF Life!vars
<1> QED
    BY <1>2, <1>3

LEMMA StepIsLife == IInv /\ Ended /\ Wired /\ [Next]_vars => [Life!Next]_(Life!vars)
<1> SUFFICES ASSUME IInv, Ended, Wired, [Next]_vars
             PROVE  Life!Next \/ UNCHANGED Life!vars
    OBVIOUS
<1> USE DEF table, plug, net
<1>1. CASE UNCHANGED vars \/ Beside
    BY <1>1, BesideMovesNothing DEF vars, Life!vars
<1>2. CASE WorkAttach
    <2>1. CASE StartAttach \/ Connect \/ Create \/ StartReceive
        BY <2>1 DEF StartAttach, Connect, Create, StartReceive, Life!vars
    <2>2. CASE Import \/ ClaimPort \/ PlugIn
        <3>1. attach.dev \in Devices
            BY <2>2, AtWork DEF Import, ClaimPort, PlugIn
        <3> QED
            BY <2>2, <3>1, ImportIsLife, ClaimIsLife, PlugInIsLife DEF Life!Next
    <2>3. CASE GaveUp
        <3>1. attach.dev \in Devices
            BY <2>3 DEF GaveUp, IInv, Core, OneWorker
        <3> QED
            BY <2>3, <3>1, GaveUpIsLife DEF Life!Next
    <2> QED
        BY <1>2, <2>1, <2>2, <2>3 DEF WorkAttach
<1>3. CASE WorkDetach
    <2>1. CASE PlugoutHardware \/ DetachAllDevices \/ Reattach
        BY <2>1 DEF PlugoutHardware, DetachAllDevices, Reattach, Life!vars
    <2>2. CASE SetUnplugged \/ StopReceive \/ ReclaimPort \/ PlugOut
        <3>1. detach.dev \in Devices
            BY <2>2, AtDetach DEF SetUnplugged, StopReceive, ReclaimPort, PlugOut
        <3> QED
            BY <2>2, <3>1, SetUnpluggedIsLife, StopReceiveIsLife, ReclaimIsLife, PlugOutIsLife
               DEF Life!Next
    <2> QED
        BY <1>3, <2>1, <2>2 DEF WorkDetach
<1>4. ASSUME NEW d \in Devices, Cleanup(d)
      PROVE  Life!Next \/ UNCHANGED Life!vars
    BY <1>4, CleanupIsLife DEF Life!Next
<1> QED
    BY <1>1, <1>2, <1>3, <1>4 DEF Next, Beside

\* The controller gives every device the life of DeviceLife, whoever attaches and
\* detaches it, wherever attaching fails and whatever is noticed beside it: it
\* gets a port after its connection and gives it back after its connection, is
\* detached once, and a connection no device took over is dropped by its work item
\* (plugin_hardware, workitem_cleanup, device::detach).
THEOREM LivesImplemented == Spec => LivesKept
<1>1. Spec => Life!Init
    BY InitIsLife DEF Spec
<1>2. Spec => []Ended
    BY InitEnded, Invariance, NextEnded, PTL DEF Spec
<1>3. Spec => []Wired
    BY <1>2, InitWired, Invariance, NextWired, PTL DEF Spec
<1> QED
    BY <1>1, <1>2, <1>3, Invariance, StepIsLife, PTL DEF Spec, LivesKept, Life!Spec

-----------------------------------------------------------------------------
(* Attach requests: each is in one place at a time.                         *)

LEMMA InitSentOnce == Init => SentOnce
<1> SUFFICES ASSUME Init PROVE SentOnce
    OBVIOUS
<1>1. attach.by = User /\ User \notin Attempts
    BY Idle, NamesAssumption DEF Init
<1>2. CASE queue = <<>>
    BY <1>1, <1>2 DEF SentOnce, QueuedFor
<1>3. ASSUME NEW r \in Attempts, queue = <<Plugin(LocationOf(r), r)>>,
             attempt = [a \in Attempts |-> IF a = r THEN "sent" ELSE "none"]
      PROVE  SentOnce
    <2>1. \A i \in DOMAIN queue : i = 1 /\ queue[i].by = r
        BY <1>3 DEF Plugin
    <2> QED
        BY <1>1, <1>3, <2>1 DEF SentOnce, QueuedFor
<1> QED
    BY <1>2, <1>3 DEF Init

\* Steps that leave the queue alone, and may answer the request it works on.
LEMMA SameQueue ==
    ASSUME SentOnce, UNCHANGED queue, attach'.by = attach.by \/ attach'.by \notin Attempts,
           \A r \in Attempts : attempt[r] = "sent" /\ attempt'[r] # "sent"
                => attach.by = r /\ attach'.by # r
    PROVE  SentOnce'
BY DEF SentOnce, QueuedFor

\* A request is appended: no attach request, or one that was nowhere.
LEMMA Appended ==
    ASSUME SentOnce, AttemptsTyped, OthersTyped, NEW q \in Requests, queue' = Append(queue, q),
           UNCHANGED attach,
           \/ (q.op = "plugin" => q.by \notin Attempts) /\ UNCHANGED attempt
           \/ \E r \in Attempts : /\ q.by = r /\ attempt[r] # "sent"
                                  /\ attempt' = [attempt EXCEPT ![r] = "sent"]
    PROVE  SentOnce'
<1>1. /\ DOMAIN queue' = DOMAIN queue \cup {Len(queue) + 1}
      /\ \A i \in DOMAIN queue : queue'[i] = queue[i]
      /\ queue'[Len(queue) + 1] = q /\ Len(queue) + 1 \notin DOMAIN queue
    BY DEF OthersTyped
<1>2. \A r \in Attempts : attempt[r] = "sent" => attempt'[r] = "sent"
    BY DEF AttemptsTyped
<1>3. \A r \in Attempts : q.op = "plugin" /\ q.by = r => attempt[r] # "sent" /\ attempt'[r] = "sent"
    BY DEF AttemptsTyped
<1> QED
    BY <1>1, <1>2, <1>3 DEF SentOnce, QueuedFor

\* Where what stands at j is found before the request at i is taken out.
Before(i, j) == IF j < i THEN j ELSE j + 1
WithoutNth(i) ==
    /\ i \in DOMAIN queue /\ DOMAIN queue' = 1 .. Len(queue) - 1
    /\ \A j \in DOMAIN queue' : queue'[j] = queue[Before(i, j)]

LEMMA BeforeIsOther ==
    ASSUME OthersTyped, NEW i, WithoutNth(i), NEW j \in DOMAIN queue'
    PROVE  /\ Before(i, j) \in DOMAIN queue /\ Before(i, j) # i
           /\ \A k \in DOMAIN queue' : Before(i, k) = Before(i, j) => j = k
<1>1. /\ DOMAIN queue = 1 .. Len(queue) /\ Len(queue) \in Nat
      /\ DOMAIN queue' = 1 .. Len(queue) - 1 /\ i \in 1 .. Len(queue)
    BY DEF OthersTyped, WithoutNth
<1>2. \A n \in Nat : \A m \in 1 .. n : \A k, l \in 1 .. n - 1 :
        /\ Before(m, k) \in 1 .. n /\ Before(m, k) # m
        /\ Before(m, l) = Before(m, k) => k = l
    BY DEF Before
<1> QED
    BY <1>1, <1>2

LEMMA TailIsWithout ==
    ASSUME OthersTyped, queue # <<>>, queue' = Tail(queue)
    PROVE  WithoutNth(1) /\ queue[1] = Head(queue) /\ Head(queue) \in Requests
<1>1. /\ queue \in Seq(Requests) /\ Len(queue) \in Nat \ {0} /\ DOMAIN queue = 1 .. Len(queue)
    BY DEF OthersTyped
<1>2. /\ Head(queue) \in Requests
      /\ Tail(queue) \in Seq(Requests) /\ Len(Tail(queue)) = Len(queue) - 1
      /\ \A j \in 1 .. Len(Tail(queue)) : Tail(queue)[j] = queue[j + 1]
    BY <1>1, HeadTailProperties
<1>3. \A j \in 1 .. Len(queue) - 1 : Before(1, j) = j + 1
    BY <1>1 DEF Before
<1>4. DOMAIN queue' = 1 .. Len(queue) - 1
    BY <1>2
<1> QED
    BY <1>1, <1>2, <1>3, <1>4 DEF WithoutNth

\* SubSeq around a place leaves the rest in order.
LEMMA Cutting ==
    ASSUME NEW S, NEW q \in Seq(S), NEW i \in 1 .. Len(q), NEW c,
           c = SubSeq(q, 1, i - 1) \o SubSeq(q, i + 1, Len(q))
    PROVE  /\ DOMAIN c = 1 .. Len(q) - 1
           /\ \A j \in 1 .. Len(q) - 1 : c[j] = IF j < i THEN q[j] ELSE q[j + 1]
<1> DEFINE a == SubSeq(q, 1, i - 1)
           b == SubSeq(q, i + 1, Len(q))
           n == Len(q)
<1>1. /\ n \in Nat /\ i \in Nat /\ 1 <= i /\ i <= n
      /\ \A j \in 1 .. n : q[j] \in S
    OBVIOUS
<1>2. a \in Seq(S) /\ Len(a) = i - 1 /\ \A j \in 1 .. i - 1 : a[j] = q[j]
    BY <1>1, SubSeqProperties
<1>3. b \in Seq(S) /\ Len(b) = n - i /\ \A j \in 1 .. n - i : b[j] = q[i + j]
    <2>1. /\ b \in Seq(S) /\ Len(b) = IF i + 1 <= n THEN n - (i + 1) + 1 ELSE 0
          /\ \A j \in 1 .. n - (i + 1) + 1 : b[j] = q[(i + 1) + j - 1]
        BY <1>1, SubSeqProperties
    <2> HIDE DEF a, b, n
    <2>2. n - (i + 1) + 1 = n - i /\ \A j \in 1 .. n - i : (i + 1) + j - 1 = i + j
        BY <1>1
    <2>3. Len(b) = n - i
        BY <1>1, <2>1
    <2> QED
        BY <2>1, <2>2, <2>3
<1>4. c = a \o b
    OBVIOUS
<1> HIDE DEF a, b, n
<1>5. /\ c \in Seq(S) /\ Len(c) = n - 1
      /\ \A j \in 1 .. n - 1 : c[j] = IF j <= i - 1 THEN a[j] ELSE b[j - (i - 1)]
    <2>1. /\ a \o b \in Seq(S) /\ Len(a \o b) = Len(a) + Len(b)
          /\ \A j \in 1 .. Len(a) + Len(b) :
                (a \o b)[j] = IF j <= Len(a) THEN a[j] ELSE b[j - Len(a)]
        BY <1>2, <1>3, ConcatProperties
    <2>2. Len(a) + Len(b) = n - 1 /\ Len(a) = i - 1
        BY <1>1, <1>2, <1>3
    <2> QED
        BY <1>4, <2>1, <2>2
<1>6. ASSUME NEW j \in 1 .. n - 1
      PROVE  c[j] = IF j < i THEN q[j] ELSE q[j + 1]
    <2>1. CASE j < i
        <3>1. j \in 1 .. i - 1 /\ j <= i - 1
            BY <1>1, <2>1
        <3> QED
            BY <1>2, <1>5, <2>1, <3>1
    <2>2. CASE ~(j < i)
        <3>1. j - (i - 1) \in 1 .. n - i /\ i + (j - (i - 1)) = j + 1 /\ ~(j <= i - 1)
            BY <1>1, <2>2
        <3> QED
            BY <1>3, <1>5, <2>2, <3>1
    <2> QED
        BY <2>1, <2>2
<1>7. DOMAIN c = 1 .. n - 1
    BY <1>5
<1> QED
    BY <1>6, <1>7 DEF n

LEMMA CutIsWithout ==
    ASSUME OthersTyped, NEW i \in 1 .. Len(queue),
           queue' = SubSeq(queue, 1, i - 1) \o SubSeq(queue, i + 1, Len(queue))
    PROVE  WithoutNth(i)
<1>1. queue \in Seq(Requests) /\ i \in DOMAIN queue
    BY DEF OthersTyped
<1>2. /\ DOMAIN queue' = 1 .. Len(queue) - 1
      /\ \A j \in 1 .. Len(queue) - 1 : queue'[j] = IF j < i THEN queue[j] ELSE queue[j + 1]
    BY <1>1, Cutting
<1> QED
    BY <1>1, <1>2, Zenon DEF WithoutNth, Before

\* A request is taken out: one that is no attach request, one that is answered, or
\* one the queue works on from now on.
LEMMA TakenOut ==
    ASSUME SentOnce, AttemptsTyped, OthersTyped, NEW i, WithoutNth(i),
           \/ UNCHANGED <<attach, attempt>>
           \/ /\ UNCHANGED attach
              /\ \E r \in Attempts, st \in Status :
                    QueuedFor(i, r) /\ attempt' = [attempt EXCEPT ![r] = st]
           \/ /\ UNCHANGED attempt /\ attach.by \notin Attempts
              /\ queue[i].op = "plugin" /\ attach'.by = queue[i].by
    PROVE  SentOnce'
<1>1. i \in DOMAIN queue
    BY DEF WithoutNth
<1>2. ASSUME NEW j \in DOMAIN queue', NEW r \in Attempts, QueuedFor(j, r)'
      PROVE  /\ QueuedFor(Before(i, j), r) /\ Before(i, j) \in DOMAIN queue
             /\ ~QueuedFor(i, r) /\ attempt[r] = "sent" /\ attach.by # r
             /\ \A k \in DOMAIN queue' : QueuedFor(k, r)' => j = k
    <2>1. \A k \in DOMAIN queue' : QueuedFor(k, r)' => QueuedFor(Before(i, k), r)
        BY DEF WithoutNth, QueuedFor
    <2> QED
        BY <1>1, <1>2, <2>1, BeforeIsOther DEF SentOnce
<1>3. CASE UNCHANGED <<attach, attempt>>
    BY <1>2, <1>3 DEF SentOnce
<1>4. ASSUME UNCHANGED attach, NEW r \in Attempts, NEW st \in Status,
             QueuedFor(i, r), attempt' = [attempt EXCEPT ![r] = st]
      PROVE  SentOnce'
    <2>1. attach.by # r /\ \A a \in Attempts \ {r} : attempt'[a] = attempt[a]
        BY <1>1, <1>4 DEF SentOnce, AttemptsTyped
    <2> QED
        BY <1>2, <1>4, <2>1 DEF SentOnce
<1>5. CASE /\ UNCHANGED attempt /\ attach.by \notin Attempts
           /\ queue[i].op = "plugin" /\ attach'.by = queue[i].by
    <2>1. \A r \in Attempts : attach'.by = r => QueuedFor(i, r)
        BY <1>5 DEF QueuedFor
    <2> QED
        BY <1>1, <1>2, <1>5, <2>1 DEF SentOnce
<1> QED
    BY <1>3, <1>4, <1>5

\* What the steps do to attach requests that were sent.
LEMMA OthersNeverSent ==
    /\ User \notin Attempts /\ Once \notin Attempts /\ NoAttach.by = User
    /\ "none" # "sent" /\ "timer" # "sent" /\ "sent" \notin Status
BY Idle, NamesAssumption DEF Status

LEMMA AddingSendsNone ==
    ASSUME AttemptsTyped, NEW l, AddAttempt(l)
    PROVE  \A r \in Attempts : attempt[r] = "sent" => attempt'[r] = "sent"
BY DEF AddAttempt, AttemptsOf, AttemptsTyped, background

LEMMA FinishingAnswers ==
    ASSUME IInv, NEW st, FinishAttach(st)
    PROVE  /\ attach'.by \notin Attempts /\ attach'.at = "idle"
           /\ \A r \in Attempts : attempt'[r] # attempt[r] => attach.by = r
BY OthersNeverSent, Idle DEF FinishAttach, IInv, Typed, AttemptsTyped

LEMMA AttachKeepsSentOnce ==
    ASSUME IInv, SentOnce, WorkAttach
    PROVE  SentOnce'
<1>1. AttemptsTyped /\ OthersTyped /\ WorkTyped
    BY DEF IInv, Typed
<1>2. CASE StartAttach
    <2> DEFINE q == Head(queue)
    <2>1. /\ queue # <<>> /\ queue' = Tail(queue) /\ q.op = "plugin"
          /\ attach = NoAttach
        BY <1>2 DEF StartAttach, QueueIdle
    <2>2. WithoutNth(1) /\ queue[1] = q /\ attach.by \notin Attempts
        BY <1>1, <2>1, TailIsWithout, OthersNeverSent
    <2>3. CASE UNCHANGED attempt /\ attach'.by = q.by
        BY <1>1, <2>1, <2>2, <2>3, TakenOut
    <2>4. CASE UNCHANGED attach /\ q.by \in Attempts /\ attempt' = [attempt EXCEPT ![q.by] = "failed"]
        <3>1. QueuedFor(1, q.by) /\ "failed" \in Status
            BY <2>1, <2>2, StateTypes DEF QueuedFor
        <3> QED
            BY <1>1, <2>2, <2>4, <3>1, TakenOut
    <2>5. CASE UNCHANGED <<attach, attempt>>
        BY <1>1, <2>2, <2>5, TakenOut
    <2> QED
        BY <1>2, <2>3, <2>4, <2>5 DEF StartAttach
<1>3. ASSUME NEW st, FinishAttach(st), UNCHANGED queue
      PROVE  SentOnce'
    BY <1>3, FinishingAnswers, SameQueue
<1>4. ASSUME UNCHANGED <<queue, attempt>>,
             NEW at \in {"import", "create", "claim", "plugin", "receive", "giveup"},
             attach' = [attach EXCEPT !.at = at]
      PROVE  SentOnce'
    BY <1>1, <1>4, NextStage, SameQueue
<1>5. CASE Connect \/ Import \/ Create \/ StartReceive \/ GaveUp
    BY <1>3, <1>4, <1>5 DEF Connect, Import, Create, StartReceive, GaveUp, GiveUp
<1>6. CASE ClaimPort \/ PlugIn
    BY <1>4, <1>6 DEF ClaimPort, PlugIn, GiveUp, background
<1> QED
    BY <1>2, <1>5, <1>6 DEF WorkAttach

LEMMA DetachKeepsSentOnce ==
    ASSUME IInv, SentOnce, WorkDetach
    PROVE  SentOnce'
<1>1. AttemptsTyped /\ OthersTyped
    BY DEF IInv, Typed
<1>2. CASE PlugoutHardware
    <2>1. WithoutNth(1)
        BY <1>1, <1>2, TailIsWithout DEF PlugoutHardware
    <2>2. UNCHANGED <<attach, attempt>>
        BY <1>2 DEF PlugoutHardware, background
    <2> QED
        BY <1>1, <2>1, <2>2, TakenOut
<1>3. CASE Reattach
    BY <1>1, <1>3, AddingSendsNone, SameQueue DEF Reattach, background
<1>4. CASE DetachAllDevices \/ SetUnplugged \/ StopReceive \/ ReclaimPort \/ PlugOut
    BY <1>4, SameQueue
       DEF DetachAllDevices, SetUnplugged, StopReceive, ReclaimPort, PlugOut, background
<1> QED
    BY <1>2, <1>3, <1>4 DEF WorkDetach

LEMMA BesideKeepsSentOnce ==
    ASSUME IInv, SentOnce, Beside \/ \E d \in Devices : Cleanup(d)
    PROVE  SentOnce'
<1>1. AttemptsTyped /\ OthersTyped /\ DevicesTyped
    BY DEF IInv, Typed
<1>2. ASSUME NEW d \in Devices, AfterAttach(d) \/ Cleanup(d) \/ Lose(d)
      PROVE  SentOnce'
    <2>1. UNCHANGED <<queue, attach>>
        BY <1>2 DEF AfterAttach, Cleanup, Lose
    <2>2. \A r \in Attempts : attempt[r] = "sent" => attempt'[r] = "sent"
        BY <1>1, <1>2, AddingSendsNone DEF AfterAttach, Cleanup, Lose, StopAttempts, background
    <2> QED
        BY <2>1, <2>2, SameQueue
<1>3. ASSUME NEW d \in Devices, NEW who \in Noticers,
             Notice(d, who) \/ AsyncDetachAndDelete(d, who)
      PROVE  SentOnce'
    <2>1. UNCHANGED <<attach, attempt>>
        BY <1>3 DEF Notice, AsyncDetachAndDelete, background
    <2>2. CASE UNCHANGED queue
        BY <2>1, <2>2, SameQueue
    <2>3. CASE queue' = Append(queue, Plugout(port[d], TRUE))
        <3>1. port[d] \in -2 .. NPorts
            BY <1>1, PortsAssumption DEF DevicesTyped
        <3>2. Plugout(port[d], TRUE) \in Requests /\ Plugout(port[d], TRUE).op # "plugin"
            BY <3>1, RequestTypes DEF Plugout
        <3> QED
            BY <1>1, <2>1, <2>3, <3>2, Appended
    <2> QED
        BY <1>3, <2>2, <2>3 DEF Notice, AsyncDetachAndDelete
<1>4. ASSUME NEW r \in Attempts, AttachTimer(r) \/ CancelQueued(r) \/ OnPluginHardware(r)
      PROVE  SentOnce'
    <2>1. UNCHANGED attach
        BY <1>4 DEF AttachTimer, CancelQueued, OnPluginHardware
    <2>2. ASSUME UNCHANGED queue, attempt[r] # "sent",
                 \A a \in Attempts \ {r} : attempt'[a] = attempt[a]
          PROVE  SentOnce'
        BY <2>1, <2>2, SameQueue
    <2>3. CASE AttachTimer(r)
        <3>1. attempt[r] # "sent"
            BY <2>3, OthersNeverSent DEF AttachTimer
        <3>2. CASE DeleteAttempt(r) /\ UNCHANGED queue
            BY <1>1, <2>2, <3>1, <3>2 DEF DeleteAttempt, AttemptsTyped
        <3>3. CASE /\ attempt' = [attempt EXCEPT ![r] = "sent"]
                   /\ queue' = Append(queue, Plugin(LocationOf(r), r))
            <4>1. Plugin(LocationOf(r), r) \in Requests /\ Plugin(LocationOf(r), r).by = r
                BY RequestTypes DEF Plugin
            <4> QED
                BY <1>1, <2>1, <3>1, <3>3, <4>1, Appended
        <3> QED
            BY <2>3, <3>2, <3>3 DEF AttachTimer
    <2>4. CASE CancelQueued(r)
        <3>1. PICK i \in 1 .. Len(queue) :
                /\ queue[i] = Plugin(LocationOf(r), r)
                /\ queue' = SubSeq(queue, 1, i - 1) \o SubSeq(queue, i + 1, Len(queue))
            BY <2>4 DEF CancelQueued
        <3>2. WithoutNth(i)
            BY <1>1, <3>1, CutIsWithout, Zenon
        <3>3. QueuedFor(i, r)
            BY <3>1 DEF QueuedFor, Plugin
        <3>4. attempt' = [attempt EXCEPT ![r] = "final"] /\ "final" \in Status
            BY <2>4, StateTypes DEF CancelQueued
        <3> QED
            BY <1>1, <2>1, <3>2, <3>3, <3>4, TakenOut
    <2>5. CASE OnPluginHardware(r)
        <3>1. attempt[r] # "sent" /\ UNCHANGED queue
            BY <2>5, OthersNeverSent DEF OnPluginHardware
        <3> QED
            BY <1>1, <2>2, <2>5, <3>1 DEF OnPluginHardware, DeleteAttempt, AttemptsTyped
    <2> QED
        BY <1>4, <2>3, <2>4, <2>5
<1>5. CASE Call \/ QueryRemove
    <2>1. UNCHANGED <<attach, attempt>>
        BY <1>5 DEF Call, QueryRemove, StopAttempts, background
    <2>2. CASE UNCHANGED queue
        BY <2>1, <2>2, SameQueue
    <2>3. ASSUME NEW q \in Requests, queue' = Append(queue, q), q.op = "plugin" => q.by \notin Attempts
          PROVE  SentOnce'
        BY <1>1, <2>1, <2>3, Appended
    <2>4. ASSUME NEW l \in Locations, NEW by \in Callers, queue' = Append(queue, Plugin(l, by))
          PROVE  SentOnce'
        <3>1. Plugin(l, by) \in Requests /\ Plugin(l, by).by \notin Attempts
            BY RequestTypes, OthersNeverSent, NamesAssumption DEF Plugin
        <3> QED
            BY <2>3, <2>4, <3>1
    <2>5. ASSUME NEW p \in Ports \cup {PortAll, PortAllCloseOnly}, queue' = Append(queue, Plugout(p, FALSE))
          PROVE  SentOnce'
        <3>1. p \in -2 .. NPorts
            BY PortsAssumption DEF Ports, PortAll, PortAllCloseOnly
        <3>2. Plugout(p, FALSE) \in Requests /\ Plugout(p, FALSE).op # "plugin"
            BY <3>1, RequestTypes DEF Plugout
        <3> QED
            BY <2>3, <2>5, <3>2
    <2> QED
        BY <1>5, <2>2, <2>4, <2>5 DEF Call, QueryRemove
<1> QED
    BY <1>2, <1>3, <1>4, <1>5 DEF Beside

LEMMA NextSentOnce == IInv /\ SentOnce /\ [Next]_vars => SentOnce'
<1>1. ASSUME SentOnce, UNCHANGED vars PROVE SentOnce'
    BY <1>1, SameQueue DEF vars, background
<1> QED
    BY <1>1, AttachKeepsSentOnce, DetachKeepsSentOnce, BesideKeepsSentOnce DEF Next, Beside

\* An attach request is in one place at a time: it waits in the queue once or is
\* being worked on, and its timer and its completion routine are not under way
\* then (on_attach_timer, on_plugin_hardware, vhci_query_remove).
THEOREM AttemptsSentOnce == Spec => []SentOnce
BY InitSentOnce, NextSentOnce, Invariance, PTL DEF Spec

-----------------------------------------------------------------------------
(* The end of the controller.                                               *)

\* What does not exist any more when the controller is closed.
LEMMA NothingLeft ==
    ASSUME IInv, SentOnce, Closed
    PROVE  /\ removing /\ detach = NoDetach /\ sessions = {} /\ lost = {} /\ noticing = {}
           /\ \A p : GetDevice(p) = NoDevice
           /\ \A r \in Attempts : attempt[r] \notin Status \cup {"timer", "sent"}
           /\ \A r \in Attempts : attach.by # r /\ \A i \in DOMAIN queue : ~QueuedFor(i, r)
<1>1. \A d \in Devices : port[d] = 0
    BY Idle DEF IInv, Typed, DevicesTyped, Agree, Closed, Bare, Ports
<1>2. noticing = {}
    BY <1>1 DEF IInv, Typed, DevicesTyped, Core, Owned, NoticeNamesPort
<1>3. \A r \in Attempts : attempt[r] \notin Status \cup {"timer", "sent"}
    BY DEF Closed, Bare, Status
<1>4. \A r \in Attempts : attach.by # r /\ \A i \in DOMAIN queue : ~QueuedFor(i, r)
    BY <1>3 DEF SentOnce
<1>5. \A p : GetDevice(p) = NoDevice
    BY DEF GetDevice, Closed, Bare
<1> QED
    BY <1>2, <1>3, <1>4, <1>5 DEF Closed, Bare, IInv, Typed, DevicesTyped

LEMMA ClosedAgain ==
    ASSUME Closed, UNCHANGED <<devices, sessions, attempt, detach>>, removing',
           attach'.at \in {"idle", "connect"},
           \A d \in Devices : tail'[d] # "add"
    PROVE  Closed'
BY DEF Closed, Bare

LEMMA StaysClosed == IInv /\ SentOnce /\ [Next]_vars => (Closed => Closed')
<1> SUFFICES ASSUME IInv, SentOnce, [Next]_vars, Closed PROVE Closed'
    OBVIOUS
<1> USE NothingLeft
<1>1. OthersTyped /\ attach.at \in {"idle", "connect"} /\ \A d \in Devices : tail[d] # "add"
    BY DEF Closed, IInv, Typed
<1>2. CASE UNCHANGED vars
    BY <1>1, <1>2, ClosedAgain DEF vars, table, net, control, background
<1>3. CASE StartAttach
    <2>1. /\ queue # <<>> /\ Head(queue).op = "plugin"
          /\ UNCHANGED <<devices, sessions, detach, removing, tail>>
        BY <1>3 DEF StartAttach, table, net, control
    <2>2. queue[1] = Head(queue) /\ 1 \in DOMAIN queue
        BY <1>1, <1>3, <2>1, TailIsWithout DEF StartAttach, WithoutNth
    <2>3. Head(queue).by \notin Attempts
        BY <2>1, <2>2 DEF QueuedFor
    <2>4. UNCHANGED attempt /\ attach'.at \in {"idle", "connect"}
        BY <1>1, <1>3, <2>3 DEF StartAttach
    <2> QED
        BY <1>1, <2>1, <2>4, ClosedAgain
<1>4. CASE Connect
    <2>1. FinishAttach("final") /\ UNCHANGED <<devices, sessions, detach, removing>>
        BY <1>4 DEF Connect, table, net, control
    <2>2. attach'.at = "idle" /\ UNCHANGED attempt
        BY <2>1, Idle DEF FinishAttach
    <2>3. \A d \in Devices : tail'[d] # "add"
        BY <1>1, <2>1 DEF FinishAttach, AtEnd, OthersTyped
    <2> QED
        BY <2>1, <2>2, <2>3, ClosedAgain
<1>5. ~(Import \/ Create \/ ClaimPort \/ PlugIn \/ StartReceive \/ GaveUp)
    BY <1>1 DEF Import, Create, ClaimPort, PlugIn, StartReceive, GaveUp
<1>6. CASE PlugoutHardware \/ DetachAllDevices
    <2>1. UNCHANGED <<devices, sessions, attempt, detach, removing, attach, tail>>
        BY <1>6 DEF PlugoutHardware, DetachAllDevices, table, net, control, background
    <2> QED
        BY <1>1, <2>1, ClosedAgain
<1>7. ~(SetUnplugged \/ StopReceive \/ ReclaimPort \/ PlugOut \/ Reattach)
    BY Idle DEF SetUnplugged, StopReceive, ReclaimPort, PlugOut, Reattach
<1>8. ASSUME NEW d \in Devices, AfterAttach(d) \/ Cleanup(d)
      PROVE  Closed'
    <2>1. UNCHANGED <<devices, sessions, attempt, detach, removing, attach>>
        BY <1>1, <1>8 DEF AfterAttach, Cleanup, StopAttempts, table, net, control, background
    <2>2. \E t \in {"none", "start", "cleanup"} : tail' = [tail EXCEPT ![d] = t]
        BY <1>1, <1>8 DEF AfterAttach, Cleanup, AtEnd, MayStart
    <2> QED
        BY <1>1, <2>1, <2>2, ClosedAgain DEF OthersTyped
<1>9. ASSUME NEW d \in Devices, NEW who \in Noticers
      PROVE  ~(Lose(d) \/ Notice(d, who) \/ AsyncDetachAndDelete(d, who))
    BY DEF Lose, Notice, AsyncDetachAndDelete
<1>10. ASSUME NEW r \in Attempts
       PROVE  ~(AttachTimer(r) \/ CancelQueued(r) \/ OnPluginHardware(r))
    <2>1. ~CancelQueued(r)
        <3>1. \A i \in 1 .. Len(queue) : i \in DOMAIN queue
            BY <1>1 DEF OthersTyped
        <3>2. ASSUME NEW i \in 1 .. Len(queue), queue[i] = Plugin(LocationOf(r), r)
              PROVE  FALSE
            <4>1. QueuedFor(i, r)
                BY <3>2 DEF QueuedFor, Plugin
            <4> QED
                BY <3>1, <4>1
        <3> QED
            BY <3>2, Zenon DEF CancelQueued
    <2> QED
        BY <2>1 DEF AttachTimer, OnPluginHardware
<1>11. CASE Call \/ QueryRemove
    <2>1. UNCHANGED <<devices, sessions, attempt, detach, attach, tail>> /\ removing'
        BY <1>11 DEF Call, QueryRemove, StopAttempts, table, net, background
    <2> QED
        BY <1>1, <2>1, ClosedAgain
<1>12. CASE \E d \in Devices : Lose(d)
    BY <1>12 DEF Lose
<1> QED
    BY <1>2, <1>3, <1>4, <1>5, <1>6, <1>7, <1>8, <1>9, <1>10, <1>11, <1>12 DEF Next, WorkAttach, WorkDetach

\* The safety half of RemovalFinal: a controller that is being removed and has
\* nothing left cannot be opened again, whoever calls and whatever was under way
\* (vhci_query_remove, complete, on_attach_timer, on_plugin_hardware).
THEOREM RemovalStaysFinal == Spec => ClosedForGood
<1>1. Spec => []SentOnce
    BY AttemptsSentOnce
<1> QED
    BY <1>1, Invariance, StaysClosed, PTL DEF Spec, ClosedForGood
=============================================================================
