# usbip-share in TLA+

TLA+ modules, TLC configurations and TLAPS proofs for usbip-share: a Linux server
that shares USB devices over USB/IP (`src/server`), and a Windows client with its
own user interface and kernel driver (`src/client/src`, a fork of usbip-win2).

Run a model with `tlc -config <cfg> <module>`, a proof with `tlapm <module>.tla`.
`PROJECT.json` lists the runs, the lines each definition models, the hazards found
in the code, the findings and the theorems.

## 1. The system

| Part | Source | State it keeps | Operations | What is hard |
|---|---|---|---|---|
| Waiting lists and wakeups | `server/web.py` 1435-1817 | `queue.json`, `queue-notify.json`, the memo `_QUEUE_NOTIFIED` | join, leave, clear, notify, forget, cleanup | ordering, one-shot mailboxes, a memo that outlives what it is about |
| Heartbeats and records | `web.py` 1173-1427 | `clients.json` | heartbeat, goodbye, expiry | claims that lag behind the sessions, lost replies |
| Watchdog | `web.py` 1820-1870, 3128-3300 | miss counters | sweep: release, cleanup | grace against expiry, stale snapshot, check-then-act |
| Sharing | `web.py` 2074-2391 | `managed-busids`, hidden devices | share, unshare, kick, hide | several locks, a failing bind |
| Login and access | `web.py` 129-650 | guard of the login, grants | log in, grant, revoke | arithmetic of windows, cached decisions |
| Metadata | `web.py` 779-1100 | `metadata.json` | look up, save, migrate keys | several keys for one device |
| Gateway | `server/gateway.py` | `SessionRegistry`, `AccessGate` | open, import, close, authorize | a session recorded after it was closed |
| Entrypoint | `server/entrypoint.sh` | what it bound in this round | start, supervise, roll back | partial failure |
| User interface | `wusbip/mgmt.cpp`, `wusbip.cpp` | wishes, `m_mgmt_attached` | heartbeat thread, reading thread, attach, detach, leave, close | three threads, each with its own view of the server or the driver |
| Host controller | `drivers/ude/vhci*.cpp` | ports, readers of events and their bounded lists | plugin, plugout, list, read | ports against detaching devices; events that are late, dropped, or about a failed attempt |
| Virtual device | `drivers/ude/device.cpp` | `unplugged`, endpoints | create, detach, reattach | detach from three sides |
| Transfer requests | `drivers/ude/request_list.cpp`, `device_ioctl.cpp`, `wsk_receive*.cpp` | flags of `request_ctx`, two lists, a DPC | submit, send completion, answer, cancellation, completion | any order of these on several processors |
| Send queue | `device_ioctl.cpp` 126-193 | an SLIST and a flag | push, claim, flush, release | a hand-off without a lock |
| Persistent devices | `drivers/ude/persistent.cpp` | requests with timers | start, retry, stop | stop against a pending timer |

How they interact: the user interface sends a heartbeat (HTTP POST) with the
devices it has attached and those it wishes for; the server records the claims,
keeps the lines, and returns the wakeups of this client in the reply. USB/IP
itself goes through the gateway, which publishes its sessions in a file the server
reads. The watchdog releases the devices of clients that fell silent. The user
interface asks the driver to attach and detach; the driver talks to the gateway
over its own socket, and publishes an event at every step. From these events the
user interface keeps its own list of attached devices, which the next heartbeat
claims.

What makes each part correct: a line is fair (nobody overtakes), a device that is
free is offered to somebody who waits, nobody is told to attach a device somebody
uses, and nobody's session is cut without cause; a transfer request goes back
exactly once, as decided first, not while its memory is used, and a cancelled one
goes back eventually; commands reach the socket once, in order; what a client
reports as attached is attached.

## 2. The modules

### Waiting for a device: `WaitLine`, `WaitQueue`, `WaitQueueProps`

`WaitLine` holds the operators on one line (`queue_append`, `queue_remove`,
`queue_clear`, the bound `MAX_QUEUE_PER_BUSID`). `WaitQueue` is the server with
its clients. State and code:

- `registered`, `claims`, `line`, `mail`, `notified`: `clients.json`, the claims
  of its records, `queue.json`, `queue-notify.json`, `_QUEUE_NOTIFIED`;
- `sessions`: what the gateway sees (`read_observed_sessions`), following the
  attached devices when the constant `Gateway` is TRUE;
- `attached`, `wishes`, `request`, `reply` and the like: the user interface, its
  heartbeat thread, and the exchange that is under way;
- each handler of `web.py` that touches lines, mailboxes or the memo, and each
  pass of the watchdog, is one action that does the whole of it: `HandleHeartbeat`
  (`update_client`) claims, joins, wakes, leaves the lines of `dequeueBusids` and
  empties the mailbox; `HandleGoodbye`, `WatchdogRelease` and `Sweep` clean up;
  the administrator shares, unshares, kicks, puts a client into a line
  (`AdminEnqueue`), takes one out (`AdminDequeue`) and clears a line.

`Env` names the parts of the environment a run lets happen: `admin` (the
administrator's calls), `crash` (power cuts), `quit` (goodbyes), `background`
(attaching saved devices), `restart` (of the server), `loss` (of an exchange),
`brief` (a use that starts and ends between two heartbeats), `dequeue` (heartbeats
that leave a line by `dequeueBusids`, which the protocol has and this client does
not send). Who may quit or lose power is bounded by `Mortal`. Without `brief` a
device is kept until a heartbeat has claimed it (`Lasting`), also by a client that
quits or loses power: a holder that vanishes earlier leaves the memo of the waiter
it beat, and section 5 says what follows.

What the model simplifies. A handler is one step, while the server is threaded and
takes `STATE_LOCK` per helper; the finer interleavings with the sweep and with
shares are `Watchdog`'s and `ShareControl`'s. Every client has its own address.
The watchdog acts only on clients that are off: when exactly is `Watchdog`'s. A
sweep handles one overdue client. The mailbox's cap of 32 is never reached. A
heartbeat does not ask to join and to leave the same line. The administrator's and
the watchdog's calls of `usbip` succeed (they may fail in `ShareControl` and
`Watchdog`), and so do reads and writes of the files. `USBIP_UNBIND_ON_EXIT` has
its default, false.

### Silent clients: `Watchdog`, `WatchdogProps`

`WaitQueue` says who is woken when a device comes free; `Watchdog` says when a
device comes free because its holder is silent. It has time: one tick is ten
seconds, the watchdog's interval and the client's heartbeat. State and code:

- `record`: `clients.json`, the claims of each client and the age of `lastSeen`;
  `misses`: `_WATCHDOG_MISSED_RUNS`; `waiting`: who stands in which line;
- `shared`, `session`: what is bound to `usbip-host` and who imports it, as the
  gateway reports it (`force_release_allowed` reads both);
- `mode`, `wants`, `quiet`: the client, which may fall silent, come back, or say
  goodbye;
- `beat`: a heartbeat under way. `WriteRecord` is the part of `update_client` up
  to `write_client`, `FinishBeat` the lines it joins and leaves afterwards;
- `bye`: a goodbye under way. It is a heartbeat up to the counter, so it writes a
  record (`WriteBye`), resets the counter (`CountBye`), and only then has client,
  claims and lines forgotten (`HandleBye`);
- `sweep`: the pass of the watchdog with its snapshot of the records. It takes the
  clients one by one and counts misses. No lock spans what it does to an overdue
  client, so heartbeats fit in between: it decides (`SweepDecides`), removes the
  record, resets the counter, clears the lines (`SweepRemoves`, `SweepResets`,
  `SweepCleansUp`), looks at each device (`force_release_allowed`), and kicks it:
  unbind, bind, and the claims (`KickUnbinds`, `KickBinds`, `KickTidies`). At its
  end it drops the waiters that its snapshot does not have.

A kick may fail before or at either call of `usbip` (`KickFails`): up to the first
call that leaves the session as it is, at the second it leaves the device unshared
(a call that is given up and has worked all the same is `ShareControl`'s). The
sweep logs it and does not come back (`SweepGivesUp`); the administrator may share
such a device again (`Share`).

`Poll` is any reader of the registry (the page, `build_status`): it deletes the
records older than `CLIENT_TTL_SECONDS`. A tick waits for the steps that take less
than ten seconds. Reads and writes of the files succeed.

### What is exported: `ShareControl`, `ShareControlProps`

Every request of the administrator is a thread of `web.py` (`Jobs`); a step is one
call of `usbip`, one section under `STATE_LOCK`, or the checks made before
`COMMAND_LOCK` is taken. State and code:

- `onBus`, `bound`: the devices of the host and those `usbip-host` has;
- `managed`, `hidden`: `managed-busids` and the hide flag of the metadata;
- `command`, `job`: `COMMAND_LOCK` and the requests under way (`mutate_device`,
  `kick_device`, `set_device_hidden`);
- `setting`, `phase`, `todo`, `half`, `roundBound`, `routeBefore`:
  `entrypoint.sh`. It restores what was shared, one device at a time, in two
  steps, `usbip bind` and `remember_managed` (`Boot`, `BindOne`, `BindOneRecords`,
  `BindOneSkips`); compares the default route with the one before (`EndOfRound`);
  rolls the round back, again in two steps for each device (phase "undo":
  `UndoUnbinds`, `UndoForgets`, `EndOfUndo`); and unbinds at a stop what the file
  lists, if it is to (phase "stop": `Stop`, `StopUnbinds`, `StopEnds`);
- `byHand`, `mishap`, `lapsed`, `listed` are history, for the properties. `mishap`
  has the exports that a failed call, an unreadable file, a failed write or a kill
  has parted from their records.

What may go wrong. A call of `usbip` may fail; one that `web.py` gives up after
its ten seconds may have done its work all the same (`ShareFails`, `UnbindFails`,
`RebindFails`), and `|| true` hides a failure from the script (`MayUnbind`).
`managed-busids` may be unreadable, which `read_managed` takes for empty
(`Recalled`), and a write may fail. An adapter that is not up yet, or cannot be
read, is not recognized as one (`VisibleNic`). The container may be killed between
any two steps (`Killed`); the host may lose power and come up with its own drivers
(`PowerCut`). It also plugs devices in, pulls them out, and may bind one by hand.

What the model simplifies. `list_devices` and the look at the adapter before the
lock are one step (`Check`). The metadata's file is written or it is not; its
contents other than the hide flag are left out. `unshare` tells the waiters, and a
kick drops claims and wakes, in `WaitQueue`.

### Sessions of the gateway: `GatewaySessions`, `GatewaySessionsProps`

Each relayed connection has a thread per direction and the thread that ends it
(`bridge`). `up` is how far the thread from the client has got with the sniffed
import (`relay_client_usbip`: it records, then forwards), `down` the other
direction, `bridge` the state of the connection, `listed` the registry and its
file. The kernel's import (`importer`), `usbipd`, which may keep its end open for
ever (`served`), and the client, which may close or vanish without a packet, are
the environment. What the gateway is and is not told by a connection that is
refused by the gate is left out: it reaches neither thread.

### Access by address: `GrantTable`, `AccessTable`, `AccessTableProps`

`GrantTable` says what the administrator and the clients rely on: a request to
authorize, renew or revoke is carried out at once on the table as it is by then,
or it fails and changes nothing. `AccessTable` is how the two programs do it:
`file` is the table of grants with the stamp `stat()` gives it; `op` and `lock`
are the request threads of `web.py` and `_ACCESS_LOCK` (`authorize`, `renew`,
`revoke` read the table strictly in one step and replace it in another, and either
may fail, which ends the request); `cache` and `relay` are `AccessGate`, whose
threads share one cache without a lock: they note the stat fields, read and parse,
replace the entries, and decide, each a step. A start of `web.py` empties the
table or, if it cannot write, leaves the old one, or none (`WebStarts`). One tick
is `ACCESS_RELOAD_INTERVAL_SECONDS`. A stamp may come back after another version,
so `stat()` may not see a change. `calm` is history: how long the file has said
the same of an address. Left out: `stat()` failing for another reason than that
there is no file, a server without a password (it removes the table), and that a
grant ends while an operation on it is under way: a tick waits for the threads.

### Transfer requests: `RequestContract`, `RequestList`, `RequestListProps`

`RequestContract` says what a driver promises for a request: it takes it, decides
an outcome once, uses its memory, and gives it back when the outcome is decided
and nobody uses the memory. `RequestList` is the driver's way to do it:

- the flags of `request_ctx` are sets of requests (`listed`: in
  `device_ctx.requests`; `cancelable`; `sendPending`: `send_completion_pending`;
  `responding`: `response_in_progress`; `terminal`), with `seqnum` and `status`;
- `completions`, `rings`, `dpcQueued`, `dpc`: the completion queue, threads on
  their way to `WdfDpcEnqueue`, the DPC queued, and what it does on a processor;
- `held`, `asked`, `due`: the framework's side (requests given to the driver,
  cancellation asked for, `EvtRequestCancel` about to run);
- `wsk`, `wire`: `WskSend` calls under way and commands the server may answer.

A step is one section under `requests_lock`, or one call into the framework or
return from it. `on_send_complete` is four actions, one per outcome (`SendFailed`,
`SentAfterAnswer`, `SentMarkCancelable`, `SentCancelled`). Two defensive branches
are left out because `AssertionsHold` shows that they are not reached (a seqnum
that does not match, a request that is not in the list).

What the model simplifies. A command counts as given to `WskSend`, and as
answerable, when it is submitted: the server of the model can answer earlier than
a real one, never later. The server answers a command once or never, and a send
that failed may have delivered its command. Commands that unlink have no effect on
the state of the driver. There is one receiver, as in the code (a thread or a
socket callback). The seqnum does not wrap (`MaxSeq`). Running out of memory for a
request's context (`init_request_ctx` fails) is left out: such a request never
reaches the lists.

### Send queue: `SendChannel`, `SendQueue`

`SendChannel` is a FIFO: push at the end, transmit from the front. `SendQueue` is
`send` and `send_pending`: each interlocked operation, the look at the SLIST and
each `WskSend` is a step of a thread. `pendingSends` is the SLIST with the command
pushed last in front, `batch` a thread's local list, `Taken` the reversal of what
was flushed. A completion that calls `send` from within `WskSend` behaves like
another thread, because it leaves the loop it interrupts alone.

### Host controller: `DeviceLife`, `VhciPorts`, `VhciPortsProps`

`DeviceLife` is what a device may go through: it is connected, gets a port that
nobody has, is plugged there, is told to leave once, and gives back connection,
port and plug in this order; or its connection is dropped before any device used
it (`Drop`). A device that was left plugged begins no new life. It knows nothing
of requests, attempts, work items or failures. `VhciPorts` is the part of the
driver that attaches and detaches devices, with the attempts in the background
(`persistent.cpp`) and the removal of the controller. State and code:

- `devices` is `vhci_ctx.devices`, the array of ports, `port` the field of each
  device; `unplugged` is the flag; `hub` is where UDE has plugged a device;
- `sessions` and `lost`: what the remote server has imported, and those of them
  whose connection it has closed; `noticed` and `noticing`: who found that out
  (receiver or send), and is between its look at `unplugged` and the request it
  sends; `unheard`: whose request could not be made or sent, which nobody repeats
  (`async_detach_and_delete` returns);
- `queue` is the default queue, sequential in WDF: the next request is delivered
  when the driver has completed the present one, and a PLUGIN stays pending while
  its work item runs. So `attach`, `detach` and `sweep` (where `plugin_hardware`,
  `device::detach` and `detach_all_devices` are) exclude each other, except that a
  failed attach detaches its own device;
- `tail` is what `complete()` does after `WdfRequestComplete`: it runs beside the
  next request. Its last part is the end of the work item (`Cleanup`, the code's
  `workitem_cleanup`): it closes a connection that no device has taken over,
  because the answer to the import was lost or the device could not be created
  (`Create`);
- `attempt`, `listed`, `stopped` and `retries`: the requests of background
  attempts, from timer to queue to completion routine, the collection
  `reattach_req`, `WdfRequestCancelSentRequest`, and the retries so far;
- `removing` and `removal`: the flag, and how far `vhci_query_remove` is. It may
  not be able to make its request to detach all devices (`"unsent"`).

Beside the queue run the receivers and failed sends, timers and completion
routines of attempts, the calls of the parallel queue that stop attempts (in
`Call`), and `QueryRemove`.

A user may attach with retries (`User`, the code's PLUGIN_HARDWARE) or without
(`Once`, PLUGIN_HARDWARE_ONCE); the latter is what an attempt in the background
sends as well. `Callers` says which of the two users make.

What the model simplifies. Looking the host up and trying its addresses are one
step (`Connect`). Sockets are in the model once they have an imported session.
What `device::create` has made before it fails is gone at once. A receiver ends
within the minute that `detach` waits for it. `on_plugin_hardware` and the loop of
`stop_attach_attempts` are one step each. Location hashes do not collide. Memory
may run out for a work item (when the handles of the model are used up), for an
attempt (likewise), for a device, and for the requests of asynchronous detaches
and of the removal; an attempt once made can be sent. The status `final` stands
for a cancelled request and for errors that `can_reattach` calls hopeless. A
device that was only closed, or that UDE failed to plug out, stays plugged in UDE
(`abandoned`), as it does in Windows. At the start there may be one persistent
device. Readers of events are `AttachedView`'s.

### What a client says it has: `AttachedView`, `AttachedViewProps`

`VhciPorts` says what is attached; `AttachedView` says what the client believes
is, because that is what its heartbeats claim at the server. A step of the driver
ends where an event is published or the list of imported devices changes, and it
publishes before the change: "connected" before the port is claimed,
"disconnected" before it is reclaimed. State and code:

- `ports`: how many ports a device has, and `hub`, those with one at least, which
  `get_imported_devices` lists; `work` and `closing`: the request the default
  queue has delivered, and the work items of failed attempts, whose deletion
  publishes "disconnected" beside the next request (`workitem_cleanup`);
- `reader`, `events`: the read of the client, which waits behind an attach in the
  default queue, and its list of unread events, which loses its first one when it
  is full (`process_event`);
- `posted`: what the reading thread has handed to the user interface
  (`read_loop`); `gui`: an answer of the driver that the interface has asked for
  and not yet used, for the rescue of a "disconnected" (`mgmt_note_state`), for
  `on_reload`, or for `attach`;
- `host`, `view`: the server in the settings and `m_mgmt_attached`;
- `beat`: the list the heartbeat thread has asked the driver for
  (`mgmt_sync_attached`), which it adds to `view` afterwards.

`stale` is history: devices the code may go on to claim although they are gone,
because nobody will tell it. `Removed` and `Dropped` say when that is: two cases
are in section 5; besides, a client that has got a list before its first read is
not a subscriber yet, and a full list may drop the only event about a device. The
properties leave just these out.

The server refuses to export a device twice, but once it has ended a session that
the driver has not yet noticed to be lost, it does not refuse: so a device that is
attached may be attached again, at a second port, and it is gone when it has lost
the last one (`ClaimPort`, `Reclaim`).

What the model simplifies. A query of the driver's list is one step, and may fail.
What is done with a list concerns the devices of the server in the settings, so
the model keeps only these of an answer (`Own`). Closing a socket succeeds.
Detaching all devices is one request for each. Adding the heartbeat's answer and
taking what is sent from `view` are one step. Memory for an event does not run
out, and the reading thread ends only with the process.

## 3. The runs

| Run | Bounds | What it shows |
|---|---|---|
| `admin` | 2 clients; administrator, power cuts, background attaches, restarts, lost exchanges, brief uses, heartbeats that leave a line | lines and memo agree; only the administrator's removal of a waiter leaves a wakeup for a client that is not in line; no wakeup for a device somebody holds; no session cut without cause |
| `woken` | 2 clients, one of which may quit or lose power, reliable exchanges, no automatic release | the memo suppresses only the wakeup of a client that is being told or whose device is in use; the only waiter of a device that stays free is told so, whoever leaves; who is off for good leaves every line |
| `offered` | violation | with two waiters a free device may never be offered |
| `watchdog` | 2 clients on 2 hosts, 1 device, one client that may fall silent, leave or queue; kicks that fail | a brief outage does not escalate; nobody heard of within the grace period by the time of the decision is removed; nobody else's session is cut; a silent importer's device comes free unless the kick fails; who left is forgotten; a live waiter gets into its line |
| `sharing` | a stick and the adapter of the default route, 2 threads, 2 requests, 2 starts, 1 event of the host, 2 settings; failing calls and files, kills, power cuts | what is exported is in the file, except what a failure or a kill has parted from its record; a start keeps the route, even if it did not recognize the adapter, unless the rollback's unbind fails; it shares the rest; a stop leaves nothing that it could unbind; every request is answered |
| `sessions` | 2 connections, 2 devices | who imports is in the table; who is gone keeps neither device nor entry |
| `access` | 2 addresses, 2 threads of each process, 2 stamps, grants of 3 ticks; failing reads and writes | decisions follow the table; requests take effect at once or not at all, as `GrantTable` has it, so a revoked grant stays revoked |
| `races` | 2 requests with reused handles, 2 commands, DPC on 2 processors | the contract of a request, the assertions of the code, no lost DPC, cancellation ends |
| `view` | 2 ports, one busid on 2 servers, 2 requests, a list of 2 unread events, 1 event ahead | what the client takes for attached is attached or about to be corrected; who keeps a device claims it in the end, who has none does not |
| `handoff` | 3 threads, 4 commands | FIFO order, nothing stranded, everything sent |
| `ports` | 1 location with 2 device handles and 1 attempt, 2 ports, 2 calls or losses, failures before and after the import | ports and UDE agree; every device has the life of `DeviceLife`; a notice of a loss names a port; a removal leaves nothing behind unless it cannot ask; a lost device goes away unless its receiver cannot ask |
| `stale` | the same with 1 port, and users that attach without retries, too | violation: an asynchronous detach cuts the next device on the port |

Why the bounds are enough. Lines of different devices meet only in an exchange of
a client, so one device shows what a line can do; two clients give a holder and a
waiter who change roles. The order of two waiters can only be disturbed by a
third, and a waiter is pushed out only of a line with fewer places than clients:
the theorems about lines (`LinesStayOrdered`, `MemoStaysFirst`, `NobodyOvertakes`)
cover any number of clients and any bound. In `woken` the client that may leave is
`Mortal`'s only one, because a waiter that leaves and comes back may be suppressed
by the memo it left (section 5).

`watchdog` scales the defaults down and keeps their order. The interval and the
heartbeats are one tick (10 s), the safe gap (15 s) is one tick, because nothing
happens between ticks; the threshold is 2 instead of 5, and `KickIdle` 5 ticks
instead of 180 s, so that, as with the defaults, the grace is `KickIdle` and not
its lower limit (3 ticks), counters pass the threshold before it is over, and a
record outlives it by more than a sweep (`CLIENT_TTL_SECONDS` is 7 ticks). Ages
beyond the largest limit are not told apart. One of the clients does everything a
client may do; the other is the one who must not be harmed.

In `sharing`, two threads are what `COMMAND_LOCK` is there for; two requests give
each pair of operations in every interleaving; two starts give a start that finds
what the one before left. Calls that fail, files and kills are not bounded; one
event of the host is a power cut, or what makes a device come, go, or bound by
hand. Three settings of the entrypoint are taken in the two combinations that fnOS
and a listed set of devices use. In `sessions` two connections compete for one
device or use one each. In `access` two stamps are the fewest with which a file
can come back to a stamp that was seen before, which is when `stat()` says
nothing; grants of three ticks outlive the reload interval.

In `view` two ports are what a device can have twice; an attach finds them taken,
or fails beside a device that is attached. The two devices have the same busid, so
an event that is taken for the wrong server would be seen. `PerPort` 1, a list of
two, stands for the 4 of the code (`4*devices_cnt`): one request publishes more
events than that, so the list overflows. `MaxPosted` 1 lets an event wait in the
interface while the next ones wait in the driver. Two requests give attach and
detach, or an attempt at a device that is attached from the start.

Two requests show a reused handle meeting a late answer and the DPC completing one
request while the other is inserted; two processors are needed for the DPC to run
while it is queued again. Three threads give an owner, a thread that pushes while
the owner leaves, and one that claims in between; four commands make a batch of
two while another batch waits. In `ports`, two handles let a device be attached
while its predecessor is left in UDE or still being noticed; one attempt shows
each state of a background attach meeting a call, a loss and the removal, and
`MaxAttempts` 1 ends it after its first retry; two calls or losses, on top of an
attempt at the start and of the removal, allow attach and detach, attach and loss,
two attaches, or a stop between two others. In `ports` users attach with retries
only (`Callers`): without retries an attach does less of the same, and it is what
the attempt in the background does.

`CHECK_DEADLOCK FALSE` appears where the model stops by its bounds: in `handoff`
all commands are sent, in `ports` and `stale` all calls are made, in `sharing` the
requests, starts and events are used up, in `sessions` every connection was used.

Fairness, and why the code justifies it:

- `WaitQueue`: the heartbeat thread beats every 10 s (`mgmt_loop`), the user
  interface handles every reply, the server handles every request, the watchdog
  passes every 10 s, records expire by the listing the page polls. Users,
  administrators and failures are never fair.
- `Watchdog`: `WF_vars(Progress)`: time passes, live clients send, the server's
  threads and the sweep run. A tick waits for the steps that take less than one.
  Whether anybody reads the registry (`Poll`) is left open.
- `ShareControl`: the threads of requests run and `usbip` returns.
- `GatewaySessions`: the gateway's threads run, keepalive ends the socket of a
  dead peer, and the kernel ends the import of a closed socket. `usbipd` need
  never close its end.
- `RequestList`: `WskSend` completes, the framework runs the callbacks that are
  due and the DPCs that are queued, and threads of the driver do not stop. The
  server need not answer.
- `SendQueue`: a thread inside `send_pending` runs on. Nobody needs to push.
- `VhciPorts`: handlers of the queue and work items run, and their network calls
  return because they have timeouts; a work item that has completed its request
  ends; a receiver runs until it sees that the connection is lost, so it notices,
  and who has noticed makes the request or fails to; timers fire and completion
  routines run; a removal that has begun goes on. Users and losses are never fair,
  nor is a send that would notice.

- `AttachedView`: requests end, work items are deleted, and a read is delivered
  when the default queue is free; an answer in hand is used; the heartbeat thread
  goes on. `SF_vars(Handle)`: the interface takes events and the user's commands
  in the order they were posted, so commands cannot keep an event waiting for
  ever. `SF_vars(Ask(hub))`: the heartbeat thread asks every 10 s, and some of its
  questions are answered. Nobody need attach, detach, reload, start or exit.

Symmetry is used only in runs without liveness.

## 4. What is proved

For every value of the constants, checked by TLAPS:

- `WaitQueue_proofs`: about one line, that it has a first element if it is not
  empty (`FirstExists`), and that cutting it yields a line within its bound
  (`CappedIsLine`); about the server, `TypeCorrect`, `LinesStayOrdered`,
  `MemoStaysFirst` (the memo never names anybody but the first waiter of a device
  that no record claims), `MemoStaysHonest` (whom the memo keeps from a second
  wakeup is being told, or the device is in use), `NobodyOvertakes` (no step
  changes the order of two waiters other than the client it is about),
  `WakeupsAreForWaiters` (no step but the administrator's removal of a waiter
  leaves a wakeup for a client that is not in line, if lines have room for every
  client), `WakesForFreeDevices` (whoever is woken is first in line for a device
  nobody holds), `SessionsEndForCauseOnly`. They hold for any finite set of
  clients, any devices, any positive bound of the lines, with or without the
  gateway, and, except `MemoStaysHonest`, any part of the environment. The
  invariant is about lines, memo and mailboxes together: the memo stays right
  because every handler that changes a line ends by keeping or forgetting it, and
  because it writes a name only together with the notice (`NewName`,
  `NamedIsTold`). `MemoStaysHonest` is the safety core of `SoleWaiterWoken`. TLC
  needs each of its conditions: with lost replies, with the administrator, with
  uses shorter than a heartbeat, without the gateway, or for a client that may
  leave, the memo can name somebody whom nobody tells (section 5). Its invariant
  `HonestInv` adds that an importer that is leaving or gone was recorded before,
  so that nobody is named for its devices (`LeaversUnnamed`).
  `WakesForFreeDevices` and `SessionsEndForCauseOnly` are about steps: each
  handler that wakes is shown to ask about the registry and the sessions that it
  leaves behind, not those it found (`NewMail` and the lemmas after it).
- `ShareControl_proofs`: `TypeCorrect`, `ExportsAreRecorded`,
  `RouteSurvivesStart`, `StartSharesTheRest`, `StopLeavesNothing`, for any
  devices, adapters, threads and settings. The invariant says who may be inside a
  section of `COMMAND_LOCK` (`LockHeld`), that a device whose record a request is
  about to delete stays unbound until then, unless somebody binds it by hand
  (`StillFree`), that only a kick has a device unbound for a moment (`OnlyKicks`),
  that no request runs while the container starts or stops (`Resting`), and what
  the script's loops have done so far (`ScriptInv`): it deals with one device at a
  time (`OneAtATime`); what the rollback is about to forget is unbound, or could
  not be unbound (`HalfUndone`); an adapter that took the route is in the round,
  then in what the rollback has still to unbind, and then its unbind has failed
  (`RoundRoute`); each listed device is still to be tried, bound or refused
  (`RoundList`); what a stop has not yet unbound is on its list, or lost its
  record before (`StopList`).
- `GatewaySessions_proofs`: `TypeCorrect` and `WhoImportsIsListed`. The invariant
  says that a thread past the recording of an import is in the table until the
  connection is closed (`Recorded`), and that only such a thread can have imported
  (`Imported`).
- `AccessTable_proofs`: `TypeCorrect`, `RevocationsStick`, `GrantsStay`,
  `VerdictSettles`, and `TableImplemented`: `AccessTable` implements `GrantTable`.
  Whoever has `_ACCESS_LOCK` has read the present table (`SnapFresh`), so what it
  writes differs from it only where the request says so: that makes the write the
  moment at which the request is carried out, the read a stutter, and a failed
  read, a failed write and a renewal that finds no grant failures of `GrantTable`.
  For the gateway's cache, `Verdict` says, for each thread on its way through
  `_refresh`, how old what it carries may be: the unlocked cache can hold an old
  table only while some thread is between reading and replacing, or until the
  reload interval is over.
- `DeviceIoctl_proofs`, about `RequestList`: `TypeCorrect`, `AssertionsNeverFail`,
  `DoorbellHeard`, `NobodyForgotten`, and `Implements`: the driver implements
  `RequestContract`. For any requests, processors and bounds. The inductive
  invariant `IInv` adds what the flags mean: a send is under way exactly for the
  requests with `sendPending` (`Sends`), the receiver has exactly the request with
  `responding` (`Receiving`), seqnums of listed requests differ (`SeqnumsUnique`),
  at most one party may decide about a request (`OneOwner`: the list, the
  receiver, the cancellation, or nobody when it is terminal), and the completion
  queue and the DPC have a request once (`OnceDelivered`). The assertions of the
  code alone are not inductive: they do not say who else may still decide. For the
  refinement each action is a `Take`, `Work`, `Finish` or `Give` of one request,
  or a stutter; the lemma `OneRequest` says what such a step does to the mapped
  variables.
- `DeviceIoctl_proofs`, about `SendQueue`: `NobodyLeavesCommands`, and
  `HandoffImplements`: the hand-off implements `SendChannel`. For any threads and
  commands. The invariant says that one thread at most owns `sending`, and that
  only a thread in the loop of `WskSend` has a batch; the mapped queue is that
  batch followed by the reversed SLIST, so a push is an append and a flush is a
  stutter.
- `Watchdog_proofs`: `TypeCorrect`, `OutagesNeverEscalate`, `OnlySilentRemoved`,
  `OnlyPeersCut`, for any clients, hosts, devices and times. `NoEscalation` is not
  inductive: it does not say how much time has passed since the last sweep, nor
  what a sweep under way has yet to do to a counter. `CountsTime` adds that time
  (`Since`); `Tracks` says that a record the sweep has not come to is as old as in
  its snapshot, unless a heartbeat has taken the misses back; `Rested` that a
  sweep takes no time; `Checked` that the peer found by `force_release_allowed` is
  the silent one; `LeftFirst` that a client says goodbye once. The threshold and
  the interval are constants, so their product is not linear: `LongerIsTold` says
  what the proofs need of it, among others that a counter at its cap speaks of an
  age that the model still tells apart. `OnlySilentRemoved` is about the record at
  the time of its removal, which heartbeats may have written since the decision:
  `Doomed` says that a counter that still stands then speaks of an age beyond the
  grace period. A heartbeat in between has reset the counter or is about to.
- `VhciPorts_proofs`: `TypeCorrect`, `PortsAlwaysAgree`, `NoticesNamePorts`,
  `SessionsAlwaysOwned`, `AttemptsSentOnce` (the request of an attempt is in the
  queue, or being attached, once), `RemovalStaysFinal` (what a removal of the
  controller has left bare no later step fills again, the safety half of
  `RemovalFinal`), and `LivesImplemented`: `VhciPorts` implements `DeviceLife`.
  For any ports, locations, devices and attempts. None of the invariants is
  inductive. `IInv` adds that one worker at most is on a device (`OneWorker`),
  what each step of attaching and detaching has done so far (`Attaching`,
  `Detaching`), that the array of ports and the devices' ports are inverse
  (`Tabled`), where UDE has a device plugged (`Plugged`), what the flag
  `unplugged` rules out (`Flagged`), and who owns a session (`Held`, `Owned`): a
  device on a port, the attach or detach that works on it, or a work item about to
  end. For the refinement that is not enough: `Wired` says that a device keeps its
  session until the detach that is about to reclaim its port has closed it, and
  `Ended` that a work item which is about to close a connection has no device on a
  port. `RemovalStaysFinal` is about `Closed`, which says besides `Bare` that
  nobody is past its look at the flag: requests of users, stops, timers and
  completions that were under way still arrive, and each ends at the flag. It
  needs `AttemptsSentOnce`, for without it a forgotten request of an attempt could
  be left in the queue.
- `AttachedView_proofs`: `TypeCorrect` and `NoGhostsEver`, for any servers,
  devices, ports and bounds. `NoGhosts` is not inductive: it does not say in which
  order events are under way, nor what the answers in hand contain. `Guarded` says
  that of a device that is gone, and about which the driver has nothing more to
  say (`Accounted`), every event that claims it has one behind it that takes it
  back (`Mended`), in the driver's list or in the interface's; that an answer that
  lists it is overtaken by such an event; and that it is claimed only while one is
  under way. `LateMended` says that a device about to lose its port has published
  that already. The lemmas on queues show that reading, posting, taking and
  dropping the first event of a full list keep `Mended`. `Quiet` is about the time
  before the client subscribes.

Assumed: the named assumptions of the modules, which TLC evaluates in every run.

Only model-checked: every liveness property (`SoleWaiterWoken`,
`DepartedLeaveTheLine`, `SilentReleased`, `GoneForgotten`, `WaiterInLine`,
`RequestsAnswered`, `GoneLetGo`, `GoneDelisted`, `CancelledGoesBack`,
`EverythingSent`, `RemovalFinal`, `LostGoesAway`, `HeldIsClaimed`,
`GoneIsNotClaimed`), because liveness under fairness is outside the prover. Only
proved, with no run: that nobody overtakes, that lines keep their order and their
bound, that a revoked grant comes back only when it is authorized again and that a
grant leaves the table only for a cause (`RevocationsStick` and `GrantsStay`,
which `TableKept` covers), that an attempt is sent once and a removal stays final
(`AttemptsSentOnce`, `RemovalStaysFinal`), that a session is owned
(`SessionsAlwaysOwned`, which `LivesKept` covers), the type invariants, and the
branch of `WaitQueue` without a gateway.

## 5. Findings

With a run that shows them:

1. A heartbeat that gives up a device wakes nobody, and a waiter moves to the end
   before the server asks whether it is first (`web.py:1331`): with two waiters
   the free device may never be offered. Run `offered`.
2. An asynchronous detach is about a port, not about a device (`device.cpp:711`):
   the receiver and a failed send may both ask for it, and when an attach is
   queued between the two, the second one detaches the new, healthy device and
   schedules its reattachment. The comment at `device.cpp:722` presents the
   asynchronous call as the way to detach the same device from elsewhere. Run
   `stale`.

Differences met while modelling, without a run of their own. In the waiting lists:

- `queue_append` moves a waiter that repeats its wish to the end of the line
  (`web.py:1532`), while `README.md:148` and `server/README.md:345` promise that
  repeating keeps the order.
- The wakeup is removed from the mailbox before it is delivered (`web.py:1339`)
  and never repeated: one lost reply loses it.
- When the administrator takes a waiter out of a line (`web.py:3057`), the notice
  in its mailbox stays, so its next heartbeat may still tell it to attach; and the
  waiter behind it is not woken, even if the device is free.
- A heartbeat that is handled after the goodbye of its client puts the client back
  into the line and into the memo. The goodbye is sent before the heartbeat thread
  is stopped (`wusbip.cpp:1983-1986`). If the client is back and joins again
  before the watchdog has passed, the memo says it was woken, and it is not.
- The same memo stays when the woken waiter loses the race for the device to a
  client that vanishes before its first heartbeat: nobody ever claimed the device,
  so nothing clears the memo. `Lasting` leaves that out.
- It stays as well when the administrator kicks the device between the import of
  the faster client and its first heartbeat: `kick_device` drops the claims, of
  which there is none yet, and not the memo (`MemoHonest` with `"admin"`).

In the watchdog:

- With `KICK_IDLE_SECONDS` below 50 a reader of the registry deletes the record of
  a silent client after `CLIENT_TTL_SECONDS` (at least 45), before the grace
  period is over (`web.py:3154`), and nothing releases its device afterwards.
- A client that claims a device during a sweep loses the claim when the sweep
  removes the record it saw at its beginning (`web.py:3187`).
- Nothing is locked between the decision about an overdue client (`web.py:3208`)
  and the removal of its record (`web.py:3249`): a heartbeat handled in between is
  recorded, answered, and forgotten, and its devices are evaluated for release. A
  heartbeat writes the record (`web.py:1271`) and resets the counter afterwards
  (`web.py:1284`), in another section: a sweep that decides between the two
  removes the record just written. The comment at `web.py:1281` calls that
  lockstep. `RemovesOnlySilent` leaves out just these two windows.
- Two silent clients whose records both claim a device keep it:
  `force_release_allowed` refuses for each because of the other.
- The record is removed before the kick, and a kick that fails
  (`web.py:2351-2370`) is not tried again: with its first call the silent holder
  keeps the device, with its second the device stays unshared. `SilentReleased`
  names the case.

In sharing:

- `kick_device` records the device after it has released `COMMAND_LOCK`
  (`web.py:2372`), so an unshare that was handled in between leaves a record of a
  device that is not exported, and the next start exports it.
- A share that has passed its check exports a device that is hidden meanwhile
  (`web.py:2165`, `2250`).
- `read_managed` takes a file it cannot read for an empty one (`web.py:1106`), so
  the next `remember_managed` drops all others; the table of grants is read
  strictly for that reason (`web.py:425`).
- An adapter that is not up yet is not recognized (`web.py:703-710`). A start that
  exports it gives the route back, but a share by the administrator does not look
  at the route.
- The rollback of a start is in memory (`ROUND_BOUND`): a container killed between
  the bind of the adapter and the rollback leaves the host without its route, and
  the next start takes that for the state before it (`entrypoint.sh:177-180`).
- A rollback or a stop whose unbind fails (`entrypoint.sh:190`, `222`) leaves the
  device exported; the rollback has deleted its record as well, so a later stop
  does not try again (`mishap`).

In the table of grants:

- A start that cannot write the table logs it and goes on (`web.py:536`): the
  grants of the old table stay valid, although the comment promises that a change
  of the password drops every old authorization at once (`web.py:509-512`); and if
  there was no table the gateway lets everybody in (`gateway.py:264`).

In the gateway:

- A session that is recorded after its connection was closed stays in the table
  (`gateway.py:488`); `GoneDelisted` leaves that case out.
- `_refresh` notes the stat fields before it has replaced the entries
  (`gateway.py:217`): another thread then takes the old entries for fresh. The
  reload interval ends that (`SettledVerdict`).

In what a client says it has:

- The heartbeat thread may add a device from a list it was given before the device
  was removed, after the interface has handled the last event about it; nothing
  takes it out again. The comment (`mgmt.cpp:2047-2053`) says that clearing is the
  business of the events. `Removed` names the case.
- "disconnected" is published before the port is reclaimed (`device.cpp:766`,
  `769`). When no "unplugged" follows (a detach that only closes, or a device UDE
  never had), the interface asks the driver in between, is told that the device is
  there, and claims it for good.
- `mgmt_sync_attached` says that a query that fails leaves the model as it is
  (`mgmt.cpp:2063`), but `mgmt_note_state` takes its FALSE for "not attached"
  (`mgmt.cpp:2005`, `2015`): a failed attempt at an attached device then unclaims
  it until the next heartbeat (`HeldIsClaimed`).
- A read that is dispatched while its file is cleaned up may count a subscriber
  after `file_cleanup` has looked (`vhci.cpp:561-572`, `vhci_ioctl.cpp:997-1002`);
  `events_subscribers` then stays too high. It only costs the making of events.

In the driver:

- `NT_VERIFY(WdfDpcEnqueue(...))` (`request_list.cpp:321` and `405`) can fail: a
  running DPC empties the queue while its successor is already queued. No request
  is lost (`DoorbellNotLost` is proved), but a checked build stops.

## 6. The plan

What is modelled is above. What is left, most important first:

1. The pile of stopped attempts whose timers are pending, which the limit of
   attach requests does not count.
2. Pure algorithms: the guard of the login, `get_next_delay`, `next_seqnum` at its
   wrap, the ring buffer, the look-up of metadata by stable and legacy keys.
3. In `WaitQueue`, the cap of 32 entries of a mailbox, which needs as many
   devices.
4. A contract of a whole line, with its offers, that `WaitQueue` implements.

Not modelled: HTML, HTTP parsing, logging, packaging and installation; the parsing
of the `usbip` program's output; the conversion of URBs and descriptors;
`libusbip` and the command line, which send one request and wait for its answer;
the filter driver; vendored code (CLI11, `usb.ids`). They hold no state of their
own or are data conversions that no property here is about.
