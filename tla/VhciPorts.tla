----------------------------- MODULE VhciPorts -----------------------------
(***************************************************************************)
(* The virtual host controller: root hub ports, attaching and detaching,   *)
(* background attach attempts and the removal of the controller.           *)
(*                                                                         *)
(* The default queue hands out one ioctl at a time and waits until it is   *)
(* completed, so attach and detach exclude each other.  Beside it run the  *)
(* receivers and sends of plugged devices, which notice that a connection  *)
(* is lost; timers of attach attempts; what complete() does after it has   *)
(* completed its request, up to closing a connection that no device took;  *)
(* the parallel queue; and the removal.                                    *)
(***************************************************************************)
EXTENDS Integers, Sequences, FiniteSets

CONSTANTS
    Locations,      \* location hashes of remote devices (no collisions)
    Handles,        \* how many devices of one location may exist at a time
    Tries,          \* how many attach requests of one location may exist
    NPorts,         \* vhci_ctx.devices_cnt
    PortRange,      \* get_port_range: the ports a location's speed fits
    MaxAttempts,    \* reattach_max_attempts
    ReattachLimit,  \* 4*devices_cnt
    MaxEvents,      \* bound: calls of users, and connections lost
    User,           \* requests of users: PLUGIN_HARDWARE,
    Once,           \* and PLUGIN_HARDWARE_ONCE, which is what attempts send, too
    Callers,        \* those of the two that users make
    NoDevice        \* WDF_NO_HANDLE

Ports == 1 .. NPorts
PortAll == -1
PortAllCloseOnly == -2

Devices == Locations \X Handles     \* a device, with the work item before it
Attempts == Locations \X Tries      \* a WDFREQUEST that repeats attaching
LocationOf(x) == x[1]

(* What can_reattach tells apart; "final": cancelled, or hopeless. *)
Status == {"ok", "busy", "failed", "final"}
Noticers == {"receiver", "send"}

ASSUME PortsAssumption ==
    /\ NPorts \in Nat \ {0}
    /\ PortRange \in [Locations -> SUBSET Ports]
ASSUME LimitsAssumption ==
    MaxAttempts \in Nat /\ ReattachLimit \in Nat /\ MaxEvents \in Nat
ASSUME NamesAssumption ==
    /\ Callers \subseteq {User, Once} /\ User # Once
    /\ {User, Once} \cap Attempts = {} /\ NoDevice \notin Devices

VARIABLES
    devices,    \* vhci_ctx.devices: who has a port
    port,       \* device_ctx.port, 0 for none
    unplugged,  \* devices with device_ctx.unplugged
    hub,        \* the port UDE has a device on, 0 for none
    abandoned,  \* devices left plugged in UDE: closed only, or a failure of UDE
    sessions,   \* devices the remote server has imported, socket open
    lost,       \* those whose connection the server has closed
    noticed,    \* who found that out,
    noticing,   \* and is between get_flag(unplugged) and WdfRequestSend
    unheard,    \* those whose request could not be made or sent
    queue,      \* the default queue
    attach,     \* the PLUGIN ioctl it works on
    detach,     \* the call of device::detach under way
    sweep,      \* detach_all_devices: ports to visit, and how
    tail,       \* complete() after WdfRequestComplete
    attempt,    \* where an attach request is, or how it was answered
    listed,     \* vhci_ctx.reattach_req
    stopped,    \* attach requests given to WdfRequestCancelSentRequest
    retries,    \* attach_ctx.retry_cnt
    removing,   \* vhci_ctx.removing
    removal,    \* how far vhci_query_remove is
    events      \* calls and losses so far

table == <<devices, port>>
plug == <<unplugged, hub, abandoned>>
net == <<sessions, lost>>
notices == <<noticed, noticing, unheard>>
background == <<attempt, listed, stopped, retries>>
control == <<removing, removal, events>>
vars == <<table, plug, net, notices, queue, attach, detach, sweep, tail,
          background, control>>

Plugin(l, by) == [op |-> "plugin", loc |-> l, by |-> by]
Plugout(p, again) == [op |-> "plugout", port |-> p, reattach |-> again]

NoAttach == [at |-> "idle", dev |-> NoDevice, by |-> User]
NoDetach == [at |-> "idle", dev |-> NoDevice, plugout |-> FALSE, reattach |-> FALSE]
NoSweep == [ports |-> {}, plugout |-> FALSE]

(* WDF delivers the next request when the driver has completed this one. *)
QueueIdle == attach = NoAttach /\ detach = NoDetach /\ sweep = NoSweep

(* A device object, or a work item that creates one, does not exist. *)
Unused(d) == /\ port[d] = 0 /\ hub[d] = 0
             /\ attach.dev # d /\ detach.dev # d /\ tail[d] = "none"

HasDevice(l) == \E p \in Ports : devices[p] # NoDevice /\ LocationOf(devices[p]) = l

AttemptsOf(l) == {r \in Attempts : LocationOf(r) = l}

Lowest(S) == CHOOSE p \in S : \A q \in S : p <= q

Init ==
    /\ devices = [p \in Ports |-> NoDevice]
    /\ port = [d \in Devices |-> 0]
    /\ hub = [d \in Devices |-> 0]
    /\ unplugged = {} /\ abandoned = {} /\ sessions = {} /\ lost = {}
    /\ noticed = {} /\ noticing = {} /\ unheard = {} /\ stopped = {}
    /\ attach = NoAttach /\ detach = NoDetach /\ sweep = NoSweep
    /\ tail = [d \in Devices |-> "none"]
    /\ retries = [r \in Attempts |-> 0]
    /\ removing = FALSE /\ removal = "none" /\ events = 0
    /\ \/ /\ queue = <<>> /\ listed = {}    \* plugin_persistent_devices
          /\ attempt = [r \in Attempts |-> "none"]
       \/ \E r \in Attempts :
            /\ queue = <<Plugin(LocationOf(r), r)>> /\ listed = {r}
            /\ attempt = [a \in Attempts |-> IF a = r THEN "sent" ELSE "none"]

-----------------------------------------------------------------------------
(* Background attempts. *)

CanReattach(l, st) ==
    st = "failed" \/ (st = "busy" /\ ~HasDevice(l))

(* stop_attach_attempts: off the list, and cancelled wherever they are. *)
StopAttempts(R) ==
    /\ listed' = listed \ R
    /\ stopped' = stopped \cup (listed \cap R)
    /\ UNCHANGED <<attempt, retries>>

(* WdfObjectDelete, with cleanup_attach_request. *)
DeleteAttempt(r) ==
    /\ attempt' = [attempt EXCEPT ![r] = "none"]
    /\ retries' = [retries EXCEPT ![r] = 0]
    /\ listed' = listed \ {r}
    /\ stopped' = stopped \ {r}

MayStart == ~removing /\ Cardinality(listed) < ReattachLimit

(* create_attach_request and the first, long delay (while Tries last). *)
AddAttempt(l) ==
    \/ \E r \in AttemptsOf(l) :
        /\ attempt[r] = "none"
        /\ attempt' = [attempt EXCEPT ![r] = "timer"]
        /\ retries' = [retries EXCEPT ![r] = 1]
        /\ listed' = listed \cup {r}
        /\ UNCHANGED stopped
    \/ (\A r \in AttemptsOf(l) : attempt[r] # "none") /\ UNCHANGED background

(* on_attach_timer *)
AttachTimer(r) ==
    /\ attempt[r] = "timer"
    /\ IF removing \/ r \in stopped
       THEN DeleteAttempt(r) /\ UNCHANGED queue
       ELSE /\ attempt' = [attempt EXCEPT ![r] = "sent"]
            /\ queue' = Append(queue, Plugin(LocationOf(r), r))
            /\ UNCHANGED <<listed, stopped, retries>>
    /\ UNCHANGED <<table, plug, net, notices, attach, detach, sweep, tail, control>>

(* The framework takes a cancelled request out of the queue. *)
CancelQueued(r) ==
    /\ r \in stopped
    /\ \E i \in 1 .. Len(queue) :
        /\ queue[i] = Plugin(LocationOf(r), r)
        /\ queue' = SubSeq(queue, 1, i - 1) \o SubSeq(queue, i + 1, Len(queue))
    /\ attempt' = [attempt EXCEPT ![r] = "final"]
    /\ UNCHANGED <<table, plug, net, notices, attach, detach, sweep, tail,
                   listed, stopped, retries, control>>

(* on_plugin_hardware *)
OnPluginHardware(r) ==
    /\ attempt[r] \in Status
    /\ IF /\ attempt[r] # "ok"
          /\ retries[r] < MaxAttempts
          /\ CanReattach(LocationOf(r), attempt[r])
          /\ ~removing
       THEN /\ attempt' = [attempt EXCEPT ![r] = "timer"]
            /\ retries' = [retries EXCEPT ![r] = @ + 1]
            /\ UNCHANGED <<listed, stopped>>
       ELSE DeleteAttempt(r)
    /\ UNCHANGED <<table, plug, net, notices, queue, attach, detach, sweep, tail, control>>

-----------------------------------------------------------------------------
(* Attaching: complete() and what it calls. *)

(* device_control takes the next PLUGIN; plugin_hardware makes a work item, *)
(* or fails when it can allocate none (Handles are used up).                *)
StartAttach ==
    LET r == Head(queue)
        free == {d \in Devices : Unused(d) /\ LocationOf(d) = r.loc}
    IN
    /\ QueueIdle /\ queue # <<>> /\ r.op = "plugin"
    /\ queue' = Tail(queue)
    /\ \/ \E d \in free : attach' = [at |-> "connect", dev |-> d, by |-> r.by]
                           /\ UNCHANGED attempt
       \/ /\ free = {} /\ UNCHANGED attach
          /\ attempt' = IF r.by \in Attempts THEN [attempt EXCEPT ![r.by] = "failed"]
                        ELSE attempt
    /\ UNCHANGED <<table, plug, net, notices, detach, sweep, tail,
                   listed, stopped, retries, control>>

(* A connection that no device has taken over goes with the work item. *)
AtEnd(d) == IF d \in sessions /\ port[d] = 0 THEN "cleanup" ELSE "none"

(* WdfRequestComplete; the rest of complete() runs beside the next ioctl. *)
FinishAttach(st) ==
    /\ attach' = NoAttach
    /\ attempt' = IF attach.by \in Attempts
                  THEN [attempt EXCEPT ![attach.by] = st] ELSE attempt
    /\ tail' = [tail EXCEPT ![attach.dev] = IF attach.by = User THEN st ELSE AtEnd(attach.dev)]

\* Mutant of Connect: a removal that has begun is not heeded.
ConnectHeedless ==
    /\ attach.at = "connect"
    /\ \/ attach' = [attach EXCEPT !.at = "import"] /\ UNCHANGED <<attempt, tail>>
       \/ \E st \in {"failed", "final"} : FinishAttach(st)
    /\ UNCHANGED <<table, plug, net, notices, queue, detach, sweep,
                   listed, stopped, retries, control>>

(* complete(), with the connection made, refused or cancelled. *)
Connect ==
    /\ attach.at = "connect"
    /\ \/ /\ ~removing
          /\ attach' = [attach EXCEPT !.at = "import"]
          /\ UNCHANGED <<attempt, tail>>
       \/ \E st \in {"failed", "final"} : ~removing /\ FinishAttach(st)
       \/ removing /\ FinishAttach("final")
    /\ UNCHANGED <<table, plug, net, notices, queue, detach, sweep,
                   listed, stopped, retries, control>>

(* OP_REQ_IMPORT: the server exports a device to one client at a time. *)
Import ==
    LET d == attach.dev IN
    /\ attach.at = "import"
    /\ \/ /\ \A e \in sessions \ lost : LocationOf(e) # LocationOf(d)
          /\ sessions' = sessions \cup {d}
          /\ attach' = [attach EXCEPT !.at = "create"]
          /\ UNCHANGED <<attempt, tail>>
       \/ \E st \in {"busy", "failed", "final"} :
            FinishAttach(st) /\ UNCHANGED sessions
    /\ UNCHANGED <<table, plug, lost, notices, queue, detach, sweep,
                   listed, stopped, retries, control>>

(* The server has imported the device; its answer may be lost or of another *)
(* device, and device::create may fail, with the socket left open.          *)
Create ==
    /\ attach.at = "create"
    /\ \/ attach' = [attach EXCEPT !.at = "claim"] /\ UNCHANGED <<attempt, tail>>
       \/ \E st \in {"failed", "final"} : FinishAttach(st)
    /\ UNCHANGED <<table, plug, net, notices, queue, detach, sweep,
                   listed, stopped, retries, control>>

(* The device object is gone, and its context with it. *)
DeleteDevice(d) ==
    /\ unplugged' = unplugged \ {d}
    /\ noticed' = {n \in noticed : n[1] # d}
    /\ unheard' = {n \in unheard : n[1] # d}

(* plugin failed: device::detach, then WdfObjectDelete if it is not plugged. *)
GiveUp(plugged) ==
    /\ attach' = [attach EXCEPT !.at = "giveup"]
    /\ detach' = [at |-> "flag", dev |-> attach.dev,
                  plugout |-> plugged, reattach |-> FALSE]

(* claim_roothub_port, under devices_lock *)
ClaimPort ==
    LET d == attach.dev
        free == {p \in PortRange[LocationOf(d)] : devices[p] = NoDevice}
    IN
    /\ attach.at = "claim"
    /\ \/ /\ free # {}
          /\ devices' = [devices EXCEPT ![Lowest(free)] = d]
          /\ port' = [port EXCEPT ![d] = Lowest(free)]
          /\ attach' = [attach EXCEPT !.at = "plugin"]
          /\ UNCHANGED detach
       \/ free = {} /\ GiveUp(FALSE) /\ UNCHANGED table
    /\ UNCHANGED <<plug, net, notices, queue, sweep, tail, background, control>>

(* UdecxUsbDevicePlugIn, which fails on a port that is in use. *)
PlugIn ==
    LET d == attach.dev IN
    /\ attach.at = "plugin"
    /\ \/ /\ \A e \in Devices : hub[e] # port[d]
          /\ hub' = [hub EXCEPT ![d] = port[d]]
          /\ attach' = [attach EXCEPT !.at = "receive"]
          /\ UNCHANGED detach
       \/ GiveUp(FALSE) /\ UNCHANGED hub
    /\ UNCHANGED <<table, unplugged, abandoned, net, notices, queue, sweep, tail,
                   background, control>>

\* Mutant of StartReceive: UDE keeps the device when receiving does not start.
StartReceiveUnplugged ==
    /\ attach.at = "receive"
    /\ \/ FinishAttach("ok") /\ UNCHANGED detach
       \/ GiveUp(FALSE) /\ UNCHANGED <<attempt, tail>>
    /\ UNCHANGED <<table, plug, net, notices, queue, sweep, listed, stopped, retries, control>>

(* start_receive_data *)
StartReceive ==
    /\ attach.at = "receive"
    /\ \/ FinishAttach("ok") /\ UNCHANGED detach
       \/ GiveUp(TRUE) /\ UNCHANGED <<attempt, tail>>
    /\ UNCHANGED <<table, plug, net, notices, queue, sweep, listed, stopped, retries, control>>

GaveUp ==
    /\ attach.at = "giveup" /\ detach = NoDetach
    /\ FinishAttach("failed")
    /\ IF hub[attach.dev] = 0 THEN DeleteDevice(attach.dev)
       ELSE UNCHANGED <<unplugged, noticed, unheard>>
    /\ UNCHANGED <<table, hub, abandoned, net, noticing, queue, detach, sweep,
                   listed, stopped, retries, control>>

(* complete() of PLUGIN_HARDWARE after WdfRequestComplete. *)
AfterAttach(d) ==
    LET l == LocationOf(d) IN
    /\ \/ /\ tail[d] = "ok"
          /\ StopAttempts(AttemptsOf(l))
          /\ tail' = [tail EXCEPT ![d] = AtEnd(d)]
       \/ /\ tail[d] \in Status \ {"ok"}
          /\ IF CanReattach(l, tail[d])
             THEN /\ StopAttempts(AttemptsOf(l))
                  /\ tail' = [tail EXCEPT ![d] = "start"]
             ELSE tail' = [tail EXCEPT ![d] = AtEnd(d)] /\ UNCHANGED background
       \/ /\ tail[d] = "start"
          /\ tail' = [tail EXCEPT ![d] = IF MayStart THEN "add" ELSE AtEnd(d)]
          /\ UNCHANGED background
       \/ /\ tail[d] = "add"
          /\ AddAttempt(l)
          /\ tail' = [tail EXCEPT ![d] = AtEnd(d)]
    /\ UNCHANGED <<table, plug, net, notices, queue, attach, detach, sweep, control>>

(* workitem_cleanup, of a connection that no device took over *)
Cleanup(d) ==
    /\ tail[d] = "cleanup"
    /\ sessions' = sessions \ {d}
    /\ lost' = lost \ {d}
    /\ tail' = [tail EXCEPT ![d] = "none"]
    /\ UNCHANGED <<table, plug, notices, queue, attach, detach, sweep, background, control>>

-----------------------------------------------------------------------------
(* Detaching: plugout_hardware, detach_all_devices and device::detach. *)

BeginDetach(d, plugout, again) ==
    detach' = [at |-> "flag", dev |-> d, plugout |-> plugout, reattach |-> again]

\* Mutant of GetDevice: the port is taken as the index into the array.
GetDeviceAtIndex(p) == IF p + 1 \in Ports THEN devices[p + 1] ELSE NoDevice

GetDevice(p) == IF p \in Ports THEN devices[p] ELSE NoDevice

PlugoutHardware ==
    LET r == Head(queue) IN
    /\ QueueIdle /\ queue # <<>> /\ r.op = "plugout"
    /\ queue' = Tail(queue)
    /\ \/ /\ r.port <= 0
          /\ sweep' = [ports |-> Ports, plugout |-> r.port # PortAllCloseOnly]
          /\ UNCHANGED detach
       \/ /\ r.port > 0 /\ UNCHANGED sweep
          /\ IF GetDevice(r.port) # NoDevice
             THEN BeginDetach(GetDevice(r.port), TRUE, r.reattach)
             ELSE UNCHANGED detach  \* STATUS_DEVICE_NOT_CONNECTED
    /\ UNCHANGED <<table, plug, net, notices, attach, tail, background, control>>

DetachAllDevices ==
    /\ sweep.ports # {} /\ detach = NoDetach
    /\ LET p == Lowest(sweep.ports) IN
        /\ IF GetDevice(p) = NoDevice THEN UNCHANGED detach
           ELSE BeginDetach(GetDevice(p), sweep.plugout, FALSE)
        /\ sweep' = IF sweep.ports = {p} THEN NoSweep
                    ELSE [sweep EXCEPT !.ports = @ \ {p}]
    /\ UNCHANGED <<table, plug, net, notices, queue, attach, tail, background, control>>

(* set_flag(dev.unplugged) *)
SetUnplugged ==
    /\ detach.at = "flag"
    /\ unplugged' = unplugged \cup {detach.dev}
    /\ detach' = IF detach.dev \in unplugged THEN NoDetach
                 ELSE [detach EXCEPT !.at = "close"]
    /\ UNCHANGED <<table, hub, abandoned, net, notices, queue, attach, sweep, tail,
                   background, control>>

\* Mutants of StopReceive: nobody is waited for; the socket stays open.
StopReceiveAtOnce ==
    /\ detach.at = "close"
    /\ sessions' = sessions \ {detach.dev}
    /\ lost' = lost \ {detach.dev}
    /\ detach' = [detach EXCEPT !.at = "reclaim"]
    /\ UNCHANGED <<table, plug, notices, queue, attach, sweep, tail, background, control>>

StopReceiveOpen ==
    /\ detach.at = "close"
    /\ \A n \in noticing : n[1] # detach.dev
    /\ detach' = [detach EXCEPT !.at = "reclaim"]
    /\ UNCHANGED <<table, plug, net, notices, queue, attach, sweep, tail, background, control>>

(* stop_receive_data: close the socket and wait for its users. *)
StopReceive ==
    /\ detach.at = "close"
    /\ \A n \in noticing : n[1] # detach.dev
    /\ sessions' = sessions \ {detach.dev}
    /\ lost' = lost \ {detach.dev}
    /\ detach' = [detach EXCEPT !.at = "reclaim"]
    /\ UNCHANGED <<table, plug, notices, queue, attach, sweep, tail, background, control>>

(* reclaim_roothub_port, under devices_lock *)
ReclaimPort ==
    LET d == detach.dev IN
    /\ detach.at = "reclaim"
    /\ IF port[d] = 0 THEN UNCHANGED table
       ELSE /\ devices' = [devices EXCEPT ![port[d]] = NoDevice]
            /\ port' = [port EXCEPT ![d] = 0]
    /\ detach' = [detach EXCEPT !.at = "plugout"]
    /\ UNCHANGED <<plug, net, notices, queue, attach, sweep, tail, background, control>>

(* UdecxUsbDevicePlugOutAndDelete, if it is asked for; it may fail. *)
PlugOut ==
    LET d == detach.dev IN
    /\ detach.at = "plugout"
    /\ \/ /\ detach.plugout /\ hub' = [hub EXCEPT ![d] = 0]
          /\ DeleteDevice(d) /\ UNCHANGED abandoned
       \/ /\ detach.plugout /\ abandoned' = abandoned \cup {d}
          /\ UNCHANGED <<hub, unplugged, noticed, unheard>>
       \/ /\ ~detach.plugout /\ UNCHANGED <<hub, unplugged, noticed, unheard>>
          /\ abandoned' = IF attach = NoAttach THEN abandoned \cup {d} ELSE abandoned
    /\ detach' = IF detach.reattach THEN [detach EXCEPT !.at = "start"] ELSE NoDetach
    /\ UNCHANGED <<table, net, noticing, queue, attach, sweep, tail, background, control>>

(* start_attach_attempts after a detach *)
Reattach ==
    /\ \/ /\ detach.at = "start"
          /\ detach' = IF MayStart THEN [detach EXCEPT !.at = "add"] ELSE NoDetach
          /\ UNCHANGED background
       \/ /\ detach.at = "add"
          /\ AddAttempt(LocationOf(detach.dev))
          /\ detach' = NoDetach
    /\ UNCHANGED <<table, plug, net, notices, queue, attach, sweep, tail, control>>

-----------------------------------------------------------------------------
(* A lost connection: the receiver, and a send that fails, each notice it.  *)

Lose(d) ==
    /\ events < MaxEvents /\ events' = events + 1
    /\ d \in sessions \ lost
    /\ lost' = lost \cup {d}
    /\ UNCHANGED <<table, plug, sessions, notices, queue, attach, detach, sweep, tail,
                   background, removing, removal>>

(* get_flag(dev.unplugged) is false; receivers start when attaching is done. *)
Notice(d, who) ==
    /\ who = "receiver" => attach.dev # d
    /\ d \in lost /\ hub[d] # 0 /\ d \notin unplugged
    /\ <<d, who>> \notin noticed
    /\ noticed' = noticed \cup {<<d, who>>}
    /\ noticing' = noticing \cup {<<d, who>>}
    /\ UNCHANGED <<table, plug, net, unheard, queue, attach, detach, sweep, tail,
                   background, control>>

(* async_detach_and_delete: the request names the port; it may be in vain. *)
AsyncDetachAndDelete(d, who) ==
    /\ <<d, who>> \in noticing
    /\ noticing' = noticing \ {<<d, who>>}
    /\ \/ queue' = Append(queue, Plugout(port[d], TRUE)) /\ UNCHANGED unheard
       \/ unheard' = unheard \cup {<<d, who>>} /\ UNCHANGED queue
    /\ UNCHANGED <<table, plug, net, noticed, attach, detach, sweep, tail,
                   background, control>>

-----------------------------------------------------------------------------
(* Users, and the removal of the controller. *)

Call ==
    /\ events < MaxEvents /\ events' = events + 1
    /\ \/ /\ \/ \E l \in Locations, by \in Callers :
                    queue' = Append(queue, Plugin(l, by))
             \/ \E p \in Ports \cup {PortAll, PortAllCloseOnly} :
                    queue' = Append(queue, Plugout(p, FALSE))
          /\ UNCHANGED background
       \/ /\ \/ \E l \in Locations : StopAttempts(AttemptsOf(l))
             \/ StopAttempts(Attempts)
          /\ UNCHANGED queue
    /\ UNCHANGED <<table, plug, net, notices, attach, detach, sweep, tail,
                   removing, removal>>

(* vhci_query_remove; what it does to readers is left out. *)
QueryRemove ==
    /\ \/ /\ removal = "none" /\ removing' = TRUE /\ removal' = "flagged"
          /\ UNCHANGED <<queue, background>>
       \/ /\ removal = "flagged" /\ removal' = "stopped"
          /\ StopAttempts(Attempts)
          /\ UNCHANGED <<queue, removing>>
       \/ /\ removal = "stopped" /\ removal' = "sent"
          /\ queue' = Append(queue, Plugout(PortAll, FALSE))
          /\ UNCHANGED <<background, removing>>
       \/ /\ removal = "stopped" /\ removal' = "unsent"    \* no memory
          /\ UNCHANGED <<queue, background, removing>>
    /\ UNCHANGED <<table, plug, net, notices, attach, detach, sweep, tail, events>>

-----------------------------------------------------------------------------

WorkAttach == \/ StartAttach \/ Connect \/ Import \/ Create \/ ClaimPort \/ PlugIn
              \/ StartReceive \/ GaveUp
WorkDetach == \/ PlugoutHardware \/ DetachAllDevices \/ SetUnplugged
              \/ StopReceive \/ ReclaimPort \/ PlugOut \/ Reattach

Next ==
    \/ WorkAttach \/ WorkDetach
    \/ \E d \in Devices : AfterAttach(d) \/ Cleanup(d) \/ Lose(d)
    \/ \E d \in Devices, who \in Noticers : Notice(d, who) \/ AsyncDetachAndDelete(d, who)
    \/ \E r \in Attempts : AttachTimer(r) \/ CancelQueued(r) \/ OnPluginHardware(r)
    \/ Call \/ QueryRemove

(* The queue's handlers and work items run and their network calls time out; *)
(* receivers run; timers fire; a removal that has begun goes on.             *)
Fairness ==
    /\ WF_vars(WorkAttach) /\ WF_vars(WorkDetach)
    /\ \A d \in Devices : /\ WF_vars(AfterAttach(d) \/ Cleanup(d))
                          /\ WF_vars(Notice(d, "receiver"))
                          /\ WF_vars(\E who \in Noticers : AsyncDetachAndDelete(d, who))
    /\ \A r \in Attempts : WF_vars(AttachTimer(r) \/ CancelQueued(r) \/ OnPluginHardware(r))
    /\ WF_vars(removal # "none" /\ QueryRemove)

Spec == Init /\ [][Next]_vars

FairSpec == Spec /\ Fairness
=============================================================================
