---------------------------- MODULE AttachedView ----------------------------
(***************************************************************************)
(* What the user interface believes is attached, against what the driver  *)
(* has: the events the host controller publishes while it attaches and     *)
(* detaches (drivers/ude), the thread that reads them, the interface that  *)
(* handles them, and the heartbeat thread that tells the server            *)
(* (wusbip.cpp, mgmt.cpp).                                                 *)
(*                                                                         *)
(* How the driver attaches and detaches is VhciPorts'; here a step ends    *)
(* where an event is published or the list of imported devices changes.    *)
(***************************************************************************)
EXTENDS Naturals, Sequences, FiniteSetsExt

CONSTANTS
    Hosts, Busids,
    Devices,    \* the devices there are, pairs of host and busid
    Ports,      \* vhci_ctx::devices_cnt
    PerPort,    \* events a subscriber may leave unread, per port: 4
    MaxWork,    \* bound: requests that attach or detach
    MaxPosted   \* bound: events the reading thread is ahead of the interface

ASSUME PlacesAssumption == Devices \subseteq Hosts \X Busids /\ IsFiniteSet(Devices)
ASSUME PortsAssumption ==
    /\ {Ports, PerPort, MaxPosted} \subseteq Nat \ {0}
    /\ MaxWork \in Nat

HostOf(d) == d[1]
BusidOf(d) == d[2]

VARIABLES
    \* the driver
    ports,     \* how many ports each device has (vhci_ctx::devices)
    work,      \* the request the default queue has delivered
    closing,   \* failed attempts whose work item is about to be deleted
    reader,    \* the client's read: "off", "first" (asked, no subscriber yet),
               \* "asked" (in the default queue), "waiting" (in vhci_ctx::reads)
    events,    \* fileobject_ctx::events
    \* the client
    posted,    \* its events in the queue of the user interface
    gui,       \* an answer of the driver that the user interface has in hand
    host,      \* m_mgmt_cfg.host
    view,      \* m_mgmt_attached
    beat,      \* the heartbeat thread
    \* history and bound
    stale,     \* devices the client may go on to claim: see Removed and Dropped
    works

driver == <<ports, work, closing>>
stream == <<reader, events>>
client == <<gui, host, view, beat>>
vars   == <<driver, stream, posted, client, stale, works>>

\* The events a subscriber may leave unread (process_event).
Cap == PerPort * Ports

\* The devices that have a port, and the ports that are taken.
hub == {d \in Devices : ports[d] > 0}
Taken(p) == MapThenSumSet(LAMBDA d : p[d], Devices)

States == {"connecting", "connected", "plugged", "disconnected", "unplugging", "unplugged"}
Event(s, d) == [state |-> s, dev |-> d]
Events == [state : States, dev : Devices]

Free == [at |-> "free", dev |-> {}, out |-> FALSE]
At(step, d, out) == [at |-> step, dev |-> {d}, out |-> out]

Calm == [step |-> "calm", list |-> {}, dev |-> {}]
Resting == [asked |-> {}, list |-> {}]

OneDevice == {{}} \cup {{d} : d \in Devices}

TypeOK ==
    /\ ports \in [Devices -> Nat]
    /\ work \in [at : {"free", "connect", "import", "plugin", "shut", "close", "reclaim",
                       "out", "outed"},
                 dev : OneDevice, out : BOOLEAN]
    /\ work.at = "free" <=> work.dev = {}
    /\ closing \in [Devices -> Nat]
    /\ reader \in {"off", "first", "asked", "waiting"}
    /\ events \in Seq(Events) /\ Len(events) <= Cap
    /\ posted \in Seq(Events) /\ Len(posted) <= MaxPosted
    /\ gui \in [step : {"calm", "note", "set"}, list : SUBSET Devices, dev : OneDevice]
    /\ host \in Hosts
    /\ view \subseteq Busids
    /\ beat \in [asked : SUBSET Hosts, list : SUBSET Devices]
    /\ stale \subseteq Devices
    /\ works \in 0 .. MaxWork

Init ==
    /\ ports \in {p \in [Devices -> 0 .. Ports] : Taken(p) <= Ports}
    /\ work = Free /\ closing = [d \in Devices |-> 0]
    /\ reader = "off" /\ events = <<>> /\ posted = <<>>
    /\ gui = Calm /\ view = {} /\ host \in Hosts
    /\ beat = Resting
    /\ stale = {} /\ works = 0

-----------------------------------------------------------------------------
(* The events of the host controller.                                      *)

About(q, d) == \E i \in DOMAIN q : q[i].dev = d

\* Mutant of Kept: a full list keeps what it has.
KeptOldest(q) == IF Len(q) > Cap THEN SubSeq(q, 1, Cap) ELSE q

\* process_event: a full list loses its first event.
Kept(q) == IF Len(q) > Cap THEN Tail(q) ELSE q

\* The event that goes was the only one about its device.
Dropped(q) == IF Len(q) > Cap /\ ~About(Tail(q), Head(q).dev) THEN {Head(q).dev} ELSE {}

\* device_state_changed: nobody is subscribed; a read waits; or the event is kept
\* until the next one.
Publish(s, d) ==
    LET e == Event(s, d)
        q == Append(events, e)
    IN  \/ /\ reader \in {"off", "first"}
           /\ UNCHANGED <<stream, posted, stale>>
        \/ /\ reader = "waiting"
           /\ reader' = "asked"
           /\ posted' = Append(posted, e)
           /\ UNCHANGED <<events, stale>>
        \/ /\ reader = "asked"
           /\ events' = Kept(q)
           /\ stale' = stale \cup Dropped(q)
           /\ UNCHANGED <<reader, posted>>

\* Mutant of DeviceRead: the read waits without a look at the list.
DeviceReadBlind ==
    /\ work = Free /\ reader \in {"first", "asked"}
    /\ Len(posted) < MaxPosted
    /\ reader' = "waiting"
    /\ UNCHANGED <<driver, events, posted, client, stale, works>>

\* device_read: the default queue is sequential, so a read waits behind a request
\* that attaches.  The thread of read_loop posts the event and reads again.
DeviceRead ==
    /\ work = Free /\ reader \in {"first", "asked"}
    /\ Len(posted) < MaxPosted
    /\ IF events = <<>>
       THEN reader' = "waiting" /\ UNCHANGED <<events, posted>>
       ELSE /\ posted' = Append(posted, Head(events))
            /\ events' = Tail(events)
            /\ reader' = "asked"
    /\ UNCHANGED <<driver, client, stale, works>>

-----------------------------------------------------------------------------
(* Attaching and detaching.                                                *)

Request ==
    /\ work = Free /\ works < MaxWork
    /\ works' = works + 1

\* plugin_hardware: anybody's, the driver's own attempts among them.
Attach(d) ==
    /\ Request
    /\ work' = At("connect", d, FALSE)
    /\ Publish("connecting", d)
    /\ UNCHANGED <<ports, closing, client>>

Working(step, d) == work.at = step /\ work.dev = {d}

\* connected: published before the import.
Connected(d) ==
    /\ Working("connect", d)
    /\ work' = At("import", d, FALSE)
    /\ Publish("connected", d)
    /\ UNCHANGED <<ports, closing, client, works>>

\* No address answers, or the import is refused, or no device can be created: the
\* request is completed, and the work item deleted.
AttemptFails(d) ==
    /\ Working("connect", d) \/ Working("import", d)
    /\ work' = Free
    /\ closing' = [closing EXCEPT ![d] = @ + 1]
    /\ UNCHANGED <<ports, stream, posted, client, stale, works>>

\* workitem_cleanup: beside the next request.
Cleanup(d) ==
    /\ closing[d] > 0
    /\ closing' = [closing EXCEPT ![d] = @ - 1]
    /\ Publish("disconnected", d)
    /\ UNCHANGED <<ports, work, client, works>>

\* claim_roothub_port.  The server refuses a device that is imported, but it may have
\* ended a session that the driver still has: then the device gets a second port.
ClaimPort(d) ==
    /\ Working("import", d)
    /\ Taken(ports) < Ports
    /\ ports' = [ports EXCEPT ![d] = @ + 1]
    /\ work' = At("plugin", d, FALSE)
    /\ stale' = stale \ {d}
    /\ UNCHANGED <<closing, stream, posted, client, works>>

\* All ports are taken, UDE refuses the device, or receiving cannot be started:
\* device::detach, which plugs it out only if it was plugged in.
PluginFails(d) ==
    /\ \/ /\ Working("import", d) /\ Taken(ports) >= Ports
          /\ work' = At("shut", d, FALSE)
       \/ /\ Working("plugin", d)
          /\ \E plugged \in BOOLEAN : work' = At("close", d, plugged)
    /\ UNCHANGED <<ports, closing, stream, posted, client, stale, works>>

Plugged(d) ==
    /\ Working("plugin", d)
    /\ work' = Free
    /\ Publish("plugged", d)
    /\ UNCHANGED <<ports, closing, client, works>>

\* plugout_hardware: by a user, or because the connection was lost; or all are
\* closed without being plugged out (PORT_ALL_CLOSEONLY).
Detach(d, out) ==
    /\ Request
    /\ d \in hub
    /\ work' = At("close", d, out)
    /\ UNCHANGED <<ports, closing, stream, posted, client, stale>>

\* device::detach of a device that got no port: there is nothing to reclaim.
Shut(d) ==
    /\ Working("shut", d)
    /\ work' = Free
    /\ Publish("disconnected", d)
    /\ UNCHANGED <<ports, closing, client, works>>

\* device::detach: the socket is closed.
CloseSocket(d) ==
    /\ Working("close", d)
    /\ work' = At("reclaim", d, work.out)
    /\ Publish("disconnected", d)
    /\ UNCHANGED <<ports, closing, client, works>>

\* Nobody will tell the client: the heartbeat thread has a list with the device,
\* the client has not subscribed, or it has read the last event about a device
\* that is not plugged out.
Removed(d) ==
    IF \/ d \in beat.list
       \/ reader = "first"
       \/ ~work.out /\ ~About(events, d) /\ ~About(posted, d)
    THEN {d} ELSE {}

\* reclaim_roothub_port
Reclaim(d) ==
    /\ Working("reclaim", d)
    /\ ports' = [ports EXCEPT ![d] = @ - 1]
    /\ work' = IF work.out THEN At("out", d, TRUE) ELSE Free
    /\ stale' = stale \cup (IF ports[d] = 1 THEN Removed(d) ELSE {})
    /\ UNCHANGED <<closing, stream, posted, client, works>>

\* plugout_and_delete
Unplugging(d) ==
    /\ Working("out", d)
    /\ work' = At("outed", d, TRUE)
    /\ Publish("unplugging", d)
    /\ UNCHANGED <<ports, closing, client, works>>

Unplugged(d) ==
    /\ Working("outed", d)
    /\ work' = Free
    /\ Publish("unplugged", d)
    /\ UNCHANGED <<ports, closing, client, works>>

\* UDE does not plug the device out.
PlugOutFails(d) ==
    /\ Working("outed", d)
    /\ work' = Free
    /\ UNCHANGED <<ports, closing, stream, posted, client, stale, works>>

-----------------------------------------------------------------------------
(* The user interface: its thread does one thing at a time.                *)

Set(d, attached) ==
    view' = IF HostOf(d) # host THEN view
            ELSE IF attached THEN view \cup {BusidOf(d)} ELSE view \ {BusidOf(d)}

\* The list of imported devices, or none if the driver cannot be asked.
Answers == {hub, {}}

\* What the client makes use of in a list: the devices of its server.
Own == {d \in Devices : HostOf(d) = host}

\* on_device_state, mgmt_note_state
Note ==
    /\ gui = Calm /\ posted # <<>>
    /\ LET e == Head(posted)
       IN  /\ e.state # "disconnected"
           /\ Set(e.dev, e.state \in {"connected", "plugged"})
    /\ posted' = Tail(posted)
    /\ UNCHANGED <<driver, stream, gui, host, beat, stale, works>>

\* "disconnected" may be a failed attempt at a device that is attached: the driver
\* is asked (mgmt_sync_attached), and then its answer is noted.
AskNote ==
    /\ gui = Calm /\ posted # <<>>
    /\ Head(posted).state = "disconnected"
    /\ LET d == Head(posted).dev
       IN  \E list \in Answers : gui' = [step |-> "note", list |-> list \cap {d}, dev |-> {d}]
    /\ posted' = Tail(posted)
    /\ UNCHANGED <<driver, stream, host, view, beat, stale, works>>

NoteAnswer ==
    /\ gui.step = "note"
    /\ \E d \in gui.dev : Set(d, d \in gui.list)
    /\ gui' = Calm
    /\ UNCHANGED <<driver, stream, posted, host, beat, stale, works>>

\* on_reload asks for all devices, attach for the one it is about.
Look ==
    /\ gui = Calm /\ reader # "off"
    /\ \E about \in {Own} \cup {{d} : d \in Own} :
        gui' = [step |-> "set", list |-> hub \cap about, dev |-> {}]
    /\ UNCHANGED <<driver, stream, posted, host, view, beat, stale, works>>

Listed(list, h) == {BusidOf(d) : d \in {x \in list : HostOf(x) = h}}

NoteList ==
    /\ gui.step = "set"
    /\ view' = view \cup Listed(gui.list, host)
    /\ gui' = Calm
    /\ UNCHANGED <<driver, stream, posted, host, beat, stale, works>>

\* mgmt_capture_settings: another server.
SwitchHost(h) ==
    /\ gui = Calm /\ reader # "off" /\ h # host
    /\ host' = h
    /\ view' = {}
    /\ UNCHANGED <<driver, stream, posted, gui, beat, stale, works>>

-----------------------------------------------------------------------------
(* The heartbeat thread (mgmt_loop).                                       *)

Ask(list) ==
    /\ beat = Resting /\ reader # "off"
    /\ beat' = [asked |-> {host}, list |-> list \cap Own]
    /\ UNCHANGED <<driver, stream, posted, gui, host, view, stale, works>>

\* Mutant of Synced: the heartbeat does not look at the driver.
NotSynced(h) == view

\* mgmt_sync_attached: it only adds, and only for the server that is configured.
Synced(h) == IF h = host THEN view \cup Listed(beat.list, h) ELSE view

\* What is sent is m_mgmt_attached after that.
Sync ==
    /\ \E h \in beat.asked : view' = Synced(h)
    /\ beat' = Resting
    /\ UNCHANGED <<driver, stream, posted, gui, host, stale, works>>

-----------------------------------------------------------------------------
(* The process.                                                            *)

\* The thread that reads is the first to run.
Start ==
    /\ reader = "off"
    /\ reader' = "first"
    /\ UNCHANGED <<driver, events, posted, client, stale, works>>

\* It exits or is killed: its handle is closed (file_cleanup).
Exit ==
    /\ reader # "off"
    /\ reader' = "off" /\ events' = <<>> /\ posted' = <<>>
    /\ gui' = Calm /\ view' = {} /\ UNCHANGED host
    /\ beat' = Resting
    /\ stale' = {}
    /\ UNCHANGED <<driver, works>>

-----------------------------------------------------------------------------
Driver(d) ==
    \/ Connected(d) \/ AttemptFails(d) \/ Cleanup(d) \/ ClaimPort(d) \/ PluginFails(d)
    \/ Plugged(d) \/ Shut(d) \/ CloseSocket(d) \/ Reclaim(d)
    \/ Unplugging(d) \/ Unplugged(d) \/ PlugOutFails(d)

Handle == Note \/ AskNote
Answered == NoteAnswer \/ NoteList

Heartbeat == (\E list \in Answers : Ask(list)) \/ Sync

Next ==
    \/ \E d \in Devices :
        Driver(d) \/ Attach(d) \/ \E out \in BOOLEAN : Detach(d, out)
    \/ DeviceRead
    \/ Handle \/ Answered \/ Look \/ \E h \in Hosts : SwitchHost(h)
    \/ Heartbeat
    \/ Start \/ Exit

Spec == Init /\ [][Next]_vars

\* Requests end and the framework delivers reads; the threads of the client run,
\* and the interface takes its events in their order with the user's commands; the
\* driver answers the heartbeat thread again and again.
Fairness ==
    /\ WF_vars(\E d \in Devices : Driver(d))
    /\ \A d \in Devices : WF_vars(Cleanup(d))
    /\ WF_vars(DeviceRead)
    /\ SF_vars(Handle) /\ WF_vars(Answered)
    /\ WF_vars(Sync)
    /\ SF_vars(Ask(hub))

FairSpec == Spec /\ Fairness
=============================================================================
