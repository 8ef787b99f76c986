---------------------------- MODULE ShareControl ----------------------------
(***************************************************************************)
(* Which devices the server exports: the administrator's share, unshare,   *)
(* kick, hide and unhide (server/web.py), the start and the stop of the    *)
(* container (server/entrypoint.sh, fnos entrypoint), and what the host    *)
(* does to its own devices.                                                *)
(*                                                                         *)
(* Every request is a thread of web.py.  A step is one call of usbip, one  *)
(* section under STATE_LOCK, or the checks before COMMAND_LOCK is taken.   *)
(* Any call of usbip may fail, and one that web.py gives up after its ten  *)
(* seconds may have done its work; any file may be unreadable, any write   *)
(* may fail.                                                               *)
(***************************************************************************)
EXTENDS Naturals, FiniteSets

CONSTANTS
    Busids,        \* places on the USB bus
    Nics,          \* those with a USB network adapter
    Uplink,        \* the adapter that carries the default route
    Jobs,          \* threads of web.py
    NoJob,         \* COMMAND_LOCK is free
    Settings,      \* the settings to look at, records of [netdev, unbind, restore]
    MaxRequests,   \* bound: requests in a behaviour
    MaxStarts,     \* bound: restarts of the container
    MaxHost        \* bound: events on the host

ASSUME PlacesAssumption == IsFiniteSet(Busids) /\ Nics \subseteq Busids
ASSUME JobsAssumption == NoJob \notin Jobs
ASSUME SettingsAssumption ==
    Settings \subseteq [netdev : BOOLEAN, unbind : BOOLEAN, restore : BOOLEAN]
ASSUME LimitsAssumption == MaxRequests \in Nat /\ MaxStarts \in Nat /\ MaxHost \in Nat

VARIABLES
    \* the host
    onBus,      \* devices that are plugged in
    bound,      \* devices of the driver usbip-host
    \* files of the server
    managed,    \* managed-busids
    hidden,     \* the hide flag in device-metadata.json
    \* web.py
    command,    \* who has COMMAND_LOCK
    job,        \* the requests under way
    \* entrypoint.sh
    setting,    \* USBIP_ALLOW_NETDEV, USBIP_UNBIND_ON_EXIT, USBIP_RESTORE_SHARED
    phase,      \* "boot", "undo", "up", "stop", "down"
    todo,       \* what the loop of the phase has still to bind or unbind
    half,       \* the device it is dealing with
    roundBound, \* ROUND_BOUND
    routeBefore,
    \* history
    byHand,     \* bound by hand
    mishap,     \* exports a failure or a kill has parted from their records
    lapsed,     \* refused by the start under way, or pulled out during it
    listed,     \* what it has to bind
    requests, starts, hostEvents

host   == <<onBus, bound>>
files  == <<managed, hidden>>
web    == <<command, job>>
entry  == <<setting, phase, todo, half, roundBound, routeBefore>>
ghosts == <<byHand, mishap, lapsed, listed>>
counts == <<requests, starts, hostEvents>>
vars   == <<host, files, web, entry, ghosts, counts>>

Operations == {"share", "unshare", "kick", "hide", "unhide"}
Steps == {"check", "stop", "act", "bound", "unbound", "rebind", "rebound", "flag"}
Idle == [op |-> "none", dev |-> "none", step |-> "idle"]
JobStates == {Idle} \cup [op : Operations, dev : Busids, step : Steps]

TypeOK ==
    /\ onBus \subseteq Busids /\ bound \subseteq onBus
    /\ managed \subseteq Busids /\ hidden \subseteq Busids
    /\ command \in Jobs \cup {NoJob}
    /\ job \in [Jobs -> JobStates]
    /\ phase \in {"boot", "undo", "up", "stop", "down"}
    /\ todo \subseteq Busids /\ half \subseteq Busids /\ roundBound \subseteq Busids
    /\ routeBefore \in BOOLEAN
    /\ setting \in Settings
    /\ byHand \subseteq bound /\ mishap \subseteq bound
    /\ lapsed \subseteq Busids /\ listed \subseteq Busids
    /\ requests \in Nat /\ starts \in Nat /\ hostEvents \in Nat

\* default_route_present
RouteIn(plugged, taken) == Uplink \in plugged /\ Uplink \notin taken
Route == RouteIn(onBus, bound)

\* device_network_interfaces: net/ exists while the host's own driver has it; an
\* adapter that cannot be read, or has not come up yet, is taken for none.
VisibleNic(b, readable) == b \in Nics /\ b \notin bound /\ readable

NetdevRefused(b, readable) == VisibleNic(b, readable) /\ ~setting.netdev

Init ==
    /\ onBus \in SUBSET Busids
    /\ bound = {}
    /\ managed = {} /\ hidden = {}
    /\ command = NoJob
    /\ job = [j \in Jobs |-> Idle]
    /\ setting \in Settings
    /\ phase = "down"
    /\ todo = {} /\ half = {} /\ roundBound = {} /\ routeBefore = FALSE
    /\ byHand = {} /\ mishap = {} /\ lapsed = {} /\ listed = {}
    /\ requests = 0 /\ starts = 0 /\ hostEvents = 0

-----------------------------------------------------------------------------
(* Requests.                                                               *)

At(j, step) == phase = "up" /\ job[j].step = step
Goto(j, step) == job' = [job EXCEPT ![j].step = step]
Done(j) == job' = [job EXCEPT ![j] = Idle]

Ask(j, op, b) ==
    /\ phase = "up"
    /\ job[j] = Idle
    /\ requests < MaxRequests
    /\ requests' = requests + 1
    /\ job' = [job EXCEPT ![j] = [op |-> op, dev |-> b, step |-> "check"]]
    /\ UNCHANGED <<host, files, command, entry, ghosts, starts, hostEvents>>

\* What mutate_device, kick_device and set_device_hidden look at before they
\* take COMMAND_LOCK; the list of devices and the flags may be out of date when
\* they act.
Passes(op, b, readable) ==
    /\ b \in onBus
    /\ op = "share" => b \notin hidden /\ ~NetdevRefused(b, readable)
    /\ op = "kick" => b \in bound /\ ~NetdevRefused(b, readable)

NextOfCheck(op, b, readable) ==
    IF ~Passes(op, b, readable) THEN "idle"
    ELSE IF op = "hide" THEN (IF b \in bound THEN "stop" ELSE "flag")
    ELSE IF op = "unhide" THEN "flag"
    ELSE "act"

Check(j) ==
    /\ At(j, "check")
    /\ \E readable \in BOOLEAN :
        LET next == NextOfCheck(job[j].op, job[j].dev, readable)
        IN  IF next = "idle" THEN Done(j) ELSE Goto(j, next)
    /\ UNCHANGED <<host, files, command, entry, ghosts, counts>>

\* Mutant of Locked: an operation does not wait for COMMAND_LOCK.
NotLocked(j) == command' = j

\* with COMMAND_LOCK:
Locked(j) == command = NoJob /\ command' = j

Unlocked == command' = NoJob

\* Mutant of CheckStop: set_device_hidden holds COMMAND_LOCK around mutate_device.
StopUnderLock(j) ==
    /\ At(j, "stop")
    /\ Locked(j)
    /\ Goto(j, "act")
    /\ UNCHANGED <<host, files, entry, ghosts, counts>>

\* set_device_hidden calls mutate_device(busid, "unshare"), which looks again.
CheckStop(j) ==
    /\ At(j, "stop")
    /\ IF Passes("unshare", job[j].dev, TRUE) THEN Goto(j, "act") ELSE Done(j)
    /\ UNCHANGED <<host, files, command, entry, ghosts, counts>>

\* usbip bind: the device becomes an export.
Binds(b) ==
    /\ b \in onBus
    /\ bound' = bound \cup {b}
    /\ lapsed' = lapsed \ {b}

\* usbip unbind; an import of the device ends with it.
Unbinds(b) ==
    /\ bound' = bound \ {b}
    /\ byHand' = byHand \ {b} /\ mishap' = mishap \ {b}

\* read_managed: a file that cannot be read is taken for empty.
Recalled == {managed, {}}

\* What the file loses with it.
Wiped(b) == bound \cap ((managed \ {b}) \ managed')

\* remember_managed, whose write may raise OSError.
Records(b) ==
    \/ /\ \E old \in Recalled : managed' = old \cup {b}
       /\ mishap' = (mishap \cup Wiped(b)) \ {b}
    \/ UNCHANGED managed /\ mishap' = mishap \cup (({b} \cap bound) \ managed)

\* forget_managed
Forgets(b) == \E old \in Recalled : managed' = old \ {b}

\* mutate_device, "share": is_shared, else usbip bind.
ActShare(j) ==
    /\ At(j, "act") /\ job[j].op = "share"
    /\ Locked(j)
    /\ \/ job[j].dev \in bound /\ UNCHANGED <<bound, lapsed>>
       \/ job[j].dev \notin bound /\ Binds(job[j].dev)
    /\ Goto(j, "bound")
    /\ UNCHANGED <<onBus, files, entry, byHand, mishap, listed, counts>>

\* usbip bind fails, or is given up: nothing is recorded.
ShareFails(j) ==
    /\ At(j, "act") /\ job[j].op = "share"
    /\ command = NoJob
    /\ job[j].dev \notin bound
    /\ \/ UNCHANGED <<bound, lapsed, mishap>>
       \/ Binds(job[j].dev) /\ mishap' = mishap \cup ({job[j].dev} \ managed)
    /\ Done(j)
    /\ UNCHANGED <<onBus, files, command, entry, byHand, listed, counts>>

\* remember_managed, and the lock is released.
Remember(j) ==
    /\ At(j, "bound")
    /\ Records(job[j].dev)
    /\ Unlocked
    /\ Done(j)
    /\ UNCHANGED <<host, hidden, entry, byHand, lapsed, listed, counts>>

\* mutate_device, "unshare": is_shared, and usbip unbind.
ActUnshare(j) ==
    /\ At(j, "act") /\ job[j].op \in {"unshare", "hide"}
    /\ Locked(j)
    /\ Unbinds(job[j].dev)
    /\ Goto(j, "unbound")
    /\ UNCHANGED <<onBus, files, entry, lapsed, listed, counts>>

\* usbip unbind fails, or is given up; a hide gives up, too.
UnbindFails(j) ==
    /\ At(j, "act") /\ job[j].op \in {"unshare", "hide", "kick"}
    /\ command = NoJob
    /\ job[j].op # "kick" => job[j].dev \in bound
    /\ UNCHANGED <<bound, byHand, mishap>> \/ Unbinds(job[j].dev)
    /\ Done(j)
    /\ UNCHANGED <<onBus, files, command, entry, lapsed, listed, counts>>

\* forget_managed, the waiters are told, the lock is released; a hide goes on.
Forget(j) ==
    /\ At(j, "unbound")
    /\ Forgets(job[j].dev)
    /\ mishap' = mishap \cup Wiped(job[j].dev)
    /\ Unlocked
    /\ IF job[j].op = "hide" THEN Goto(j, "flag") ELSE Done(j)
    /\ UNCHANGED <<host, hidden, entry, byHand, lapsed, listed, counts>>

\* write_managed raises OSError: that ends the request.
ForgetFails(j) ==
    /\ At(j, "unbound")
    /\ Unlocked
    /\ Done(j)
    /\ UNCHANGED <<host, files, entry, ghosts, counts>>

\* kick_device: usbip unbind.
ActKick(j) ==
    /\ At(j, "act") /\ job[j].op = "kick"
    /\ job[j].dev \in bound
    /\ Locked(j)
    /\ Unbinds(job[j].dev)
    /\ Goto(j, "rebind")
    /\ UNCHANGED <<onBus, files, entry, lapsed, listed, counts>>

\* kick_device: usbip bind, and COMMAND_LOCK is released.
Rebind(j) ==
    /\ At(j, "rebind")
    /\ Binds(job[j].dev)
    /\ Unlocked
    /\ Goto(j, "rebound")
    /\ UNCHANGED <<onBus, files, entry, byHand, mishap, listed, counts>>

\* usbip bind fails, or is given up: forget_managed, still under the lock.
RebindFails(j) ==
    /\ At(j, "rebind")
    /\ Forgets(job[j].dev) \/ UNCHANGED managed
    /\ \/ UNCHANGED <<bound, lapsed>> /\ mishap' = mishap \cup Wiped(job[j].dev)
       \/ Binds(job[j].dev)
          /\ mishap' = mishap \cup Wiped(job[j].dev) \cup ({job[j].dev} \ managed')
    /\ Unlocked
    /\ Done(j)
    /\ UNCHANGED <<onBus, hidden, entry, byHand, listed, counts>>

\* kick_device: remember_managed, after COMMAND_LOCK; then the claims go.
RememberKicked(j) ==
    /\ At(j, "rebound")
    /\ Records(job[j].dev)
    /\ Done(j)
    /\ UNCHANGED <<host, hidden, command, entry, byHand, lapsed, listed, counts>>

\* set_device_hidden: the record is rewritten under STATE_LOCK, or not at all.
Flag(j) ==
    /\ At(j, "flag")
    /\ hidden' \in {hidden, IF job[j].op = "hide" THEN hidden \cup {job[j].dev}
                             ELSE hidden \ {job[j].dev}}
    /\ Done(j)
    /\ UNCHANGED <<host, managed, command, entry, ghosts, counts>>

-----------------------------------------------------------------------------
(* The container.                                                          *)

\* USBIP_BUSIDS is what the operator set, or, when that is empty, the managed
\* devices of the last time (entrypoint-fnos.sh).
Boot(list) ==
    /\ phase = "down"
    /\ starts < MaxStarts
    /\ starts' = starts + 1
    /\ phase' = "boot"
    /\ IF list = {} /\ setting.restore THEN todo' \in Recalled ELSE todo' = list
    /\ listed' = todo'
    /\ roundBound' = {}
    /\ routeBefore' = Route
    /\ UNCHANGED <<host, files, web, setting, half, byHand, mishap, lapsed,
                   requests, hostEvents>>

\* Mutant of Skip: one device that cannot be bound ends the round.
SkipAll(b) == todo' = {}

\* return 0: the next device is tried.
Skip(b) == todo' = todo \ {b}

\* bind_one without an effect: not on the bus, a network adapter, or bind fails.
BindOneSkips(b) ==
    /\ phase = "boot" /\ half = {} /\ b \in todo
    /\ b \notin bound
    /\ Skip(b)
    /\ lapsed' = lapsed \cup {b}
    /\ UNCHANGED <<host, files, web, setting, phase, half, roundBound, routeBefore,
                   byHand, mishap, listed, counts>>

\* bind_one: bound already, or usbip bind now; the check of the adapter need not
\* recognize it.
BindOne(b) ==
    /\ phase = "boot" /\ half = {} /\ b \in todo
    /\ \E readable \in BOOLEAN : ~NetdevRefused(b, readable)
    /\ Binds(b)
    /\ roundBound' = IF b \in bound THEN roundBound ELSE roundBound \cup {b}
    /\ Skip(b)
    /\ half' = {b}
    /\ UNCHANGED <<onBus, files, web, setting, phase, routeBefore, byHand, mishap,
                   listed, counts>>

\* bind_one: remember_managed.  If it fails, set -e ends the container (Killed).
BindOneRecords(b) ==
    /\ phase = "boot" /\ b \in half
    /\ managed' = managed \cup {b}
    /\ mishap' = mishap \ {b}
    /\ half' = {}
    /\ UNCHANGED <<host, hidden, web, setting, phase, todo, roundBound, routeBefore,
                   byHand, lapsed, listed, counts>>

\* Mutant of LostRoute: the route is not compared with the one before.
RouteIgnored == FALSE

LostRoute == routeBefore /\ ~Route

\* Nothing reads the data of the round from here on.
RoundOver == roundBound' = {} /\ routeBefore' = FALSE /\ listed' = {} /\ lapsed' = {}

\* Every device was tried: the servers start, or, if the default route went away,
\* what this round has bound is to be unbound.
EndOfRound ==
    /\ phase = "boot" /\ half = {} /\ todo = {}
    /\ \/ /\ LostRoute
          /\ phase' = "undo" /\ todo' = roundBound
          /\ UNCHANGED <<roundBound, routeBefore, listed, lapsed>>
       \/ /\ ~LostRoute
          /\ phase' = "up" /\ RoundOver
          /\ UNCHANGED todo
    /\ UNCHANGED <<host, files, web, setting, half, byHand, mishap, counts>>

\* usbip unbind ... || true
MayUnbind(b) ==
    Unbinds(b) \/ (UNCHANGED <<bound, byHand>> /\ mishap' = mishap \cup ({b} \cap bound))

UndoUnbinds(b) ==
    /\ phase = "undo" /\ half = {} /\ b \in todo
    /\ MayUnbind(b)
    /\ Skip(b)
    /\ half' = {b}
    /\ UNCHANGED <<onBus, files, web, setting, phase, roundBound, routeBefore, lapsed,
                   listed, counts>>

\* forget_managed of the script, whether or not unbind worked: the file may be
\* unreadable, and the new one may not get in its place.
UndoForgets(b) ==
    /\ phase = "undo" /\ b \in half
    /\ Forgets(b) \/ UNCHANGED managed
    /\ mishap' = mishap \cup Wiped(b)
    /\ half' = {}
    /\ UNCHANGED <<host, hidden, web, setting, phase, todo, roundBound, routeBefore,
                   byHand, lapsed, listed, counts>>

EndOfUndo ==
    /\ phase = "undo" /\ half = {} /\ todo = {}
    /\ phase' = "up"
    /\ RoundOver
    /\ UNCHANGED <<host, files, web, setting, todo, half, byHand, mishap, counts>>

\* Devices bound by a request or by bind_one that are not recorded yet.
Pending ==
    {job[j].dev : j \in {i \in Jobs : job[i].step \in {"bound", "rebound"}}}
        \cup (IF phase = "boot" THEN half ELSE {})
Unrecorded == Pending \cap (bound \ managed)

\* The requests under way end with web.py, a round with the script.
Halted ==
    /\ command' = NoJob
    /\ job' = [j \in Jobs |-> Idle]
    /\ half' = {}
    /\ RoundOver
    /\ UNCHANGED <<onBus, files, setting>>

\* docker stop, or one of the servers has ended: cleanup ends the others and reads
\* what is managed, if it is to unbind it.
Stop ==
    /\ phase = "up"
    /\ Halted
    /\ phase' = "stop"
    /\ \/ /\ setting.unbind
          /\ todo' \in Recalled
          /\ mishap' = mishap \cup Unrecorded \cup (bound \cap (managed \ todo'))
       \/ /\ ~setting.unbind
          /\ todo' = {}
          /\ mishap' = mishap \cup Unrecorded
    /\ UNCHANGED <<bound, byHand, counts>>

StopUnbinds(b) ==
    /\ phase = "stop" /\ b \in todo
    /\ MayUnbind(b)
    /\ Skip(b)
    /\ UNCHANGED <<onBus, files, web, setting, phase, half, roundBound, routeBefore, lapsed,
                   listed, counts>>

StopEnds ==
    /\ phase = "stop" /\ todo = {}
    /\ phase' = "down"
    /\ UNCHANGED <<host, files, web, setting, todo, half, roundBound, routeBefore, ghosts,
                   counts>>

\* The container is killed, or its script fails: what is bound stays bound.
Killed ==
    /\ phase # "down"
    /\ Halted
    /\ phase' = "down" /\ todo' = {}
    /\ mishap' = mishap \cup Unrecorded
    /\ UNCHANGED <<bound, byHand, counts>>

-----------------------------------------------------------------------------
(* The host.                                                               *)

HostEvent ==
    /\ hostEvents < MaxHost
    /\ hostEvents' = hostEvents + 1
    /\ UNCHANGED <<files, web, entry, listed, requests, starts>>

Plug(b) ==
    /\ b \notin onBus /\ HostEvent
    /\ onBus' = onBus \cup {b}
    /\ UNCHANGED <<bound, byHand, mishap, lapsed>>

Unplug(b) ==
    /\ b \in onBus /\ HostEvent
    /\ onBus' = onBus \ {b}
    /\ Unbinds(b)
    /\ lapsed' = IF phase = "boot" THEN lapsed \cup {b} ELSE lapsed

\* "usbip bind" by hand, as the refusal of a network adapter suggests.
BindByHand(b) ==
    /\ b \notin bound /\ HostEvent
    /\ Binds(b)
    /\ byHand' = byHand \cup {b}
    /\ UNCHANGED <<onBus, mishap>>

\* The host goes down and comes up with its own drivers; the files survive.
PowerCut ==
    /\ Halted
    /\ phase' = "down" /\ todo' = {}
    /\ hostEvents < MaxHost /\ hostEvents' = hostEvents + 1
    /\ bound' = {} /\ byHand' = {} /\ mishap' = {}
    /\ UNCHANGED <<requests, starts>>

-----------------------------------------------------------------------------
JobStep(j) ==
    \/ Check(j) \/ CheckStop(j)
    \/ ActShare(j) \/ ShareFails(j) \/ Remember(j)
    \/ ActUnshare(j) \/ UnbindFails(j) \/ Forget(j) \/ ForgetFails(j)
    \/ ActKick(j) \/ Rebind(j) \/ RebindFails(j) \/ RememberKicked(j)
    \/ Flag(j)

Next ==
    \/ \E j \in Jobs : JobStep(j) \/ \E op \in Operations, b \in Busids : Ask(j, op, b)
    \/ \E list \in SUBSET Busids : Boot(list)
    \/ \E b \in Busids :
        \/ BindOneSkips(b) \/ BindOne(b) \/ BindOneRecords(b)
        \/ UndoUnbinds(b) \/ UndoForgets(b) \/ StopUnbinds(b)
        \/ Plug(b) \/ Unplug(b) \/ BindByHand(b)
    \/ EndOfRound \/ EndOfUndo \/ Stop \/ StopEnds \/ Killed \/ PowerCut

Spec == Init /\ [][Next]_vars

\* The threads of requests run, and usbip returns.
FairSpec == Spec /\ \A j \in Jobs : WF_vars(JobStep(j))
=============================================================================
