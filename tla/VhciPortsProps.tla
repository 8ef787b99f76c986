--------------------------- MODULE VhciPortsProps ---------------------------
(* What the host controller promises about ports, sessions and removal. *)
EXTENDS VhciPorts

(* Every variable of the controller has its type; in particular a port that  *)
(* claim_roothub_port gave out exists.                                       *)
TypeOK ==
    /\ devices \in [Ports -> Devices \cup {NoDevice}]
    /\ port \in [Devices -> 0 .. NPorts]
    /\ hub \in [Devices -> 0 .. NPorts]
    /\ unplugged \subseteq Devices /\ abandoned \subseteq Devices
    /\ sessions \subseteq Devices /\ lost \subseteq sessions
    /\ noticing \subseteq noticed /\ noticed \subseteq Devices \X Noticers
    /\ unheard \subseteq noticed
    /\ \A i \in 1 .. Len(queue) :
        queue[i] \in [op : {"plugin"}, loc : Locations, by : {User, Once} \cup Attempts]
                     \cup [op : {"plugout"}, port : -2 .. NPorts, reattach : BOOLEAN]
    /\ attach \in [at : {"idle", "connect", "import", "create", "claim", "plugin",
                          "receive", "giveup"},
                   dev : Devices \cup {NoDevice}, by : {User, Once} \cup Attempts]
    /\ detach \in [at : {"idle", "flag", "close", "reclaim", "plugout", "start", "add"},
                   dev : Devices \cup {NoDevice}, plugout : BOOLEAN, reattach : BOOLEAN]
    /\ sweep \in [ports : SUBSET Ports, plugout : BOOLEAN]
    /\ tail \in [Devices -> Status \cup {"none", "start", "add", "cleanup"}]
    /\ attempt \in [Attempts -> Status \cup {"none", "timer", "sent"}]
    /\ listed \subseteq Attempts /\ stopped \subseteq Attempts
    /\ retries \in [Attempts -> 0 .. MaxAttempts + 1]
    /\ removing \in BOOLEAN /\ removal \in {"none", "flagged", "stopped", "sent", "unsent"}
    /\ events \in 0 .. MaxEvents

(* The array of devices and the port of a device say the same, and a device  *)
(* that UDE has plugged has this very port, unless its detach is under way   *)
(* or it was left plugged: so a port is never given to a second device while *)
(* UDE still has the first one on it.                                        *)
PortsAgree ==
    /\ \A d \in Devices, p \in Ports : port[d] = p <=> devices[p] = d
    /\ \A d \in Devices : hub[d] # 0 =>
        hub[d] = port[d] \/ detach.dev = d \/ d \in abandoned

(* A request to detach a device names its port.  Port 0 would detach every   *)
(* device (plugout_hardware); who noticed a lost connection reads            *)
(* device_ctx.port after it has looked at the flag, without a lock, and      *)
(* relies on detach to wait for it before the port is reclaimed.             *)
NoticeNamesPort == \A n \in noticing : port[n[1]] # 0

(* The server's session of a device has an owner: a device with a port, the  *)
(* attach under way, or a work item that is done with its request and is yet *)
(* to be deleted, and closes it then.  So detach closes the socket before it *)
(* reclaims the port, an attach that fails never forgets one, and a location *)
(* that is busy with the driver's own session is free again after a while.   *)
SessionsOwned == \A d \in sessions : port[d] # 0 \/ attach.dev = d \/ tail[d] # "none"

(* The controller gives every device the life of DeviceLife, whoever attaches *)
(* and detaches it and however far an attach got: it is connected before it   *)
(* gets a port and plugged on this port only; it is detached once, and gives  *)
(* back connection, port and plug in this order, so neither the server nor    *)
(* UDE ever sees a port given to the next device too early; and a connection  *)
(* that no device took over is dropped by its work item alone                 *)
(* (plugin_hardware, workitem_cleanup, device::detach, claim_roothub_port,    *)
(* reclaim_roothub_port).                                                     *)
Life == INSTANCE DeviceLife WITH
    connected <- sessions, slot <- devices, plugged <- hub, leaving <- unplugged
LivesKept == Life!Spec

(* Once the controller is being removed, it ends up for good with no device  *)
(* on a port, no session, and no attach request, also those that were being  *)
(* attached, retried or scheduled while the flag was set; unless the request *)
(* to detach all of them cannot be made.                                     *)
Bare == /\ \A p \in Ports : devices[p] = NoDevice
        /\ sessions = {}
        /\ \A r \in Attempts : attempt[r] = "none"
RemovalFinal == removing ~> []Bare \/ removal = "unsent"

(* What RemovalFinal ends in: nothing is left, nobody is past the look at the *)
(* flag in connect or in start_attach_attempts, and no detach is under way.   *)
Closed ==
    /\ removing /\ Bare
    /\ attach.at \in {"idle", "connect"} /\ detach = NoDetach
    /\ \A d \in Devices : tail[d] # "add"

(* It cannot be opened again: neither by users, whose requests and stops go   *)
(* on to arrive, nor by a request, a timer, a notice or a completion that was *)
(* under way when the flag was set (vhci_query_remove, complete, on_attach_timer). *)
ClosedForGood == [][Closed => Closed']_vars

(* An attach request waits in the queue, or is the one the queue works on, at *)
(* most once, and only after its timer and before its completion.            *)
QueuedFor(i, r) == queue[i].op = "plugin" /\ queue[i].by = r
SentOnce ==
    /\ \A r \in Attempts, i \in DOMAIN queue :
        QueuedFor(i, r) => /\ attempt[r] = "sent" /\ attach.by # r
                           /\ \A j \in DOMAIN queue : QueuedFor(j, r) => i = j
    /\ \A r \in Attempts : attach.by = r => attempt[r] = "sent"

(* A device whose connection is lost is detached in the end, on any port,    *)
(* unless its receiver cannot make the request.                              *)
LostGoesAway ==
    \A d \in Devices : d \in lost ~> d \notin lost \/ <<d, "receiver">> \in unheard

(* device.cpp says that detach, when it is needed outside of the queue, is   *)
(* to be had by an asynchronous call about the same device: so a detach that *)
(* reattaches, which only the driver asks for, is of a device that lost its  *)
(* connection.                                                               *)
ReattachesTheLost ==
    [][detach'.at = "flag" /\ detach'.reattach => detach'.dev \in lost]_vars
=============================================================================
