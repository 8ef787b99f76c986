------------------------------ MODULE Watchdog ------------------------------
(***************************************************************************)
(* Silent clients: the times in the registry of server/web.py, the counter *)
(* of missed heartbeats, and the watchdog's sweep in its own steps next to *)
(* heartbeats, goodbyes and readers of the registry.                       *)
(*                                                                         *)
(* One tick is ten seconds.  The sweep sleeps Interval ticks between      *)
(* passes; handlers and the steps of a pass take less than a tick.  Who is *)
(* woken when a device comes free is WaitQueue's.                          *)
(***************************************************************************)
EXTENDS Naturals, FiniteSets

CONSTANTS
    Clients, Busids, NoClient,
    Addr,        \* the peer address of each client
    KickIdle,    \* KICK_IDLE_SECONDS
    TtlFloor,    \* the 45 seconds of CLIENT_TTL_SECONDS
    TtlMargin,   \* its 15 seconds
    SafeGap,     \* HEARTBEAT_SAFE_GAP_SECONDS
    Interval,    \* WATCHDOG_INTERVAL_SECONDS
    Threshold,   \* MISSED_RUN_THRESHOLD
    BeatGap,     \* ticks between a live client's heartbeats
    Leavers,     \* bound: the clients that may fall silent or leave
    Waiters      \* bound: the clients that queue

ASSUME ClientsAssumption ==
    NoClient \notin Clients /\ IsFiniteSet(Clients) /\ Leavers \cup Waiters \subseteq Clients
ASSUME TimesAssumption ==
    /\ {KickIdle, TtlFloor, TtlMargin, SafeGap} \subseteq Nat
    /\ {Interval, Threshold, BeatGap} \subseteq Nat \ {0}

VARIABLES
    record,    \* clients.json: the claims of each client and the age of lastSeen
    misses,    \* _WATCHDOG_MISSED_RUNS
    waiting,   \* queue.json: who waits for a device
    shared,    \* devices bound to usbip-host
    session,   \* who imports the device, as the gateway reports it
    mode,      \* "live", "silent" (it may come back), "left" (said goodbye)
    wants,     \* devices a client is queued for
    quiet,     \* ticks since a client's last heartbeat
    beat,      \* the heartbeat of a client that is under way
    bye,       \* its goodbye
    sweep,     \* the watchdog's pass
    timer      \* ticks the watchdog has slept

registry == <<record, misses, waiting>>
kernel   == <<shared, session>>
clients  == <<mode, wants, quiet, beat, bye>>
watchdog == <<sweep, timer>>
vars     == <<registry, kernel, clients, watchdog>>

Larger(m, n) == IF m > n THEN m ELSE n

\* CLIENT_TTL_SECONDS
Ttl == Larger(TtlFloor, KickIdle + TtlMargin)

\* watchdog_release_grace_seconds
Redundancy == SafeGap + Threshold * Interval
Grace == IF KickIdle = 0 THEN 0 ELSE Larger(KickIdle, Redundancy)

\* Ages beyond all limits are not told apart.
Oldest == Larger(Ttl, Larger(KickIdle, Redundancy)) + 1
Older(age) == IF age < Oldest THEN age + 1 ELSE age

NoRecord == [known |-> FALSE, busids |-> {}, age |-> 0]
Seen(B)  == [known |-> TRUE, busids |-> B, age |-> 0]
Known(r) == {c \in Clients : r[c].known}
Records  == {NoRecord} \cup [known : {TRUE}, busids : SUBSET Busids, age : 0..Oldest]

NoBeat   == [step |-> "none", busids |-> {}, line |-> {}]
NoBye    == [step |-> "none", busids |-> {}]
Steps    == {"sleep", "clients", "remove", "reset", "cleanup",
             "release", "kick", "rebind", "tidy", "failed"}
Asleep   == [step |-> "sleep", snap |-> [c \in Clients |-> NoRecord], todo |-> {},
             who |-> NoClient, list |-> {}, dev |-> {}, seen |-> NoClient]

TypeOK ==
    /\ record \in [Clients -> Records]
    /\ misses \in [Clients -> 0..(Threshold + 1)]
    /\ waiting \in [Busids -> SUBSET Clients]
    /\ shared \subseteq Busids
    /\ session \in [Busids -> Clients \cup {NoClient}]
    /\ \A b \in Busids \ shared : session[b] = NoClient
    /\ mode \in [Clients -> {"live", "silent", "left"}]
    /\ wants \in [Clients -> SUBSET Busids]
    /\ quiet \in [Clients -> 0..BeatGap]
    /\ beat \in [Clients -> [step : {"none", "sent", "written"},
                             busids : SUBSET Busids, line : SUBSET Busids]]
    /\ bye \in [Clients -> [step : {"none", "sent", "written", "reset"}, busids : SUBSET Busids]]
    /\ sweep \in [step : Steps, snap : [Clients -> Records], todo : SUBSET Clients,
                  who : Clients \cup {NoClient}, list : SUBSET Busids, dev : SUBSET Busids,
                  seen : Clients \cup {NoClient}]
    /\ timer \in 0..Interval

Init ==
    /\ record = [c \in Clients |-> NoRecord]
    /\ misses = [c \in Clients |-> 0]
    /\ waiting = [b \in Busids |-> {}]
    /\ shared = Busids
    /\ session = [b \in Busids |-> NoClient]
    /\ mode = [c \in Clients |-> "live"]
    /\ wants = [c \in Clients |-> {}]
    /\ quiet = [c \in Clients |-> BeatGap]
    /\ beat = [c \in Clients |-> NoBeat]
    /\ bye = [c \in Clients |-> NoBye]
    /\ sweep = Asleep
    /\ timer = 0

-----------------------------------------------------------------------------
(* The registry.                                                           *)

\* Mutant of Pruned: what is not heard of within the safe gap is deleted.
PrunedEarly(r) == [c \in Clients |-> IF r[c].age > SafeGap THEN NoRecord ELSE r[c]]

\* _read_clients_locked: records older than CLIENT_TTL_SECONDS are deleted.
Pruned(r) == [c \in Clients |-> IF r[c].age > Ttl THEN NoRecord ELSE r[c]]

LeaveLines(w, C) == [b \in Busids |-> w[b] \ C]

\* A page or a client asks for the devices.
Poll ==
    /\ record' = Pruned(record)
    /\ UNCHANGED <<misses, waiting, kernel, clients, watchdog>>

-----------------------------------------------------------------------------
(* Heartbeats and goodbyes.                                                *)

Attached(c) == {b \in Busids : session[b] = c}

\* mgmt_loop of the client: a snapshot of what it has and what it waits for.
Send(c) ==
    /\ mode[c] = "live" /\ beat[c] = NoBeat
    /\ quiet[c] = BeatGap
    /\ beat' = [beat EXCEPT ![c] =
                  [step |-> "sent", busids |-> Attached(c), line |-> wants[c]]]
    /\ quiet' = [quiet EXCEPT ![c] = 0]
    /\ UNCHANGED <<registry, kernel, mode, wants, bye, watchdog>>

\* update_client: the record, under STATE_LOCK.
WriteRecord(c) ==
    /\ beat[c].step = "sent"
    /\ record' = [record EXCEPT ![c] = Seen(beat[c].busids)]
    /\ beat' = [beat EXCEPT ![c].step = "written"]
    /\ UNCHANGED <<misses, waiting, kernel, mode, wants, quiet, bye, watchdog>>

\* Mutant of ResetMisses: the counter is left to the sweep.
KeepMisses(c) == UNCHANGED misses

\* reset_client_missed_run
ResetMisses(c) == misses' = [misses EXCEPT ![c] = 0]

\* Mutant of Lines: only a free device is worth a place in line.
LinesOfFree(c) ==
    [b \in Busids |->
        IF b \in beat[c].line \cap shared /\ session[b] = NoClient THEN waiting[b] \cup {c}
        ELSE IF b \in beat[c].busids THEN waiting[b] \ {c}
        ELSE waiting[b]]

\* A held device needs no waiting; a wish counts while the device is shared.
Lines(c) ==
    [b \in Busids |->
        IF b \in beat[c].line \cap shared THEN waiting[b] \cup {c}
        ELSE IF b \in beat[c].busids THEN waiting[b] \ {c}
        ELSE waiting[b]]

\* update_client: the rest.
FinishBeat(c) ==
    /\ beat[c].step = "written"
    /\ ResetMisses(c)
    /\ waiting' = Lines(c)
    /\ beat' = [beat EXCEPT ![c] = NoBeat]
    /\ UNCHANGED <<record, kernel, mode, wants, quiet, bye, watchdog>>

\* The goodbye is a heartbeat as well: it is recorded, it counts, ...
WriteBye(c) ==
    /\ bye[c].step = "sent"
    /\ record' = [record EXCEPT ![c] = Seen(bye[c].busids)]
    /\ bye' = [bye EXCEPT ![c].step = "written"]
    /\ UNCHANGED <<misses, waiting, kernel, mode, wants, quiet, beat, watchdog>>

CountBye(c) ==
    /\ bye[c].step = "written"
    /\ ResetMisses(c)
    /\ bye' = [bye EXCEPT ![c].step = "reset"]
    /\ UNCHANGED <<record, waiting, kernel, mode, wants, quiet, beat, watchdog>>

\* ... and handle_client_goodbye forgets the client.
HandleBye(c) ==
    /\ bye[c].step = "reset"
    /\ record' = [record EXCEPT ![c] = NoRecord]
    /\ ResetMisses(c)
    /\ waiting' = LeaveLines(waiting, {c})
    /\ bye' = [bye EXCEPT ![c] = NoBye]
    /\ UNCHANGED <<kernel, mode, wants, quiet, beat, watchdog>>

-----------------------------------------------------------------------------
(* The clients.                                                            *)

\* The user of an occupied device asks to be put in line.
Want(c, b) ==
    /\ c \in Waiters /\ mode[c] = "live" /\ session[b] \notin {c, NoClient} /\ b \notin wants[c]
    /\ wants' = [wants EXCEPT ![c] = @ \cup {b}]
    /\ UNCHANGED <<registry, kernel, mode, quiet, beat, bye, watchdog>>

\* usbip attach, relayed by the gateway.
Attach(c, b) ==
    /\ mode[c] = "live" /\ b \in shared /\ session[b] = NoClient
    /\ session' = [session EXCEPT ![b] = c]
    /\ wants' = [wants EXCEPT ![c] = @ \ {b}]
    /\ UNCHANGED <<registry, shared, mode, quiet, beat, bye, watchdog>>

\* The client detaches, or the kernel notices that its peer is gone.
EndSession(b) ==
    /\ session[b] # NoClient
    /\ session' = [session EXCEPT ![b] = NoClient]
    /\ UNCHANGED <<registry, shared, clients, watchdog>>

\* Asleep, cut off or without power: what it has imported stays imported.
FallSilent(c) ==
    /\ c \in Leavers /\ mode[c] = "live"
    /\ mode' = [mode EXCEPT ![c] = "silent"]
    /\ UNCHANGED <<registry, kernel, wants, quiet, beat, bye, watchdog>>

ComeBack(c) ==
    /\ mode[c] = "silent"
    /\ mode' = [mode EXCEPT ![c] = "live"]
    /\ UNCHANGED <<registry, kernel, wants, quiet, beat, bye, watchdog>>

\* "Quit": the goodbye names what was imported, a heartbeat may be under way.
Leave(c) ==
    /\ c \in Leavers /\ mode[c] = "live"
    /\ mode' = [mode EXCEPT ![c] = "left"]
    /\ bye' = [bye EXCEPT ![c] = [step |-> "sent", busids |-> Attached(c)]]
    /\ wants' = [wants EXCEPT ![c] = {}]
    /\ quiet' = [quiet EXCEPT ![c] = 0]
    /\ UNCHANGED <<registry, kernel, beat, watchdog>>

-----------------------------------------------------------------------------
(* The sweep.                                                              *)

\* watchdog_sweep: the records as they are now.
BeginSweep ==
    /\ sweep.step = "sleep" /\ timer = Interval
    /\ sweep' = [Asleep EXCEPT !.step = "clients", !.snap = record, !.todo = Known(record)]
    /\ timer' = 0
    /\ UNCHANGED <<registry, kernel, clients>>

\* Of a record that was looked at, only the id is used again.
Examined(c) == [sweep EXCEPT !.todo = @ \ {c}, !.snap[c] = Seen({})]

\* A fresh heartbeat.
SweepFresh(c) ==
    /\ sweep.step = "clients" /\ c \in sweep.todo
    /\ sweep.snap[c].age <= SafeGap
    /\ ResetMisses(c)
    /\ sweep' = Examined(c)
    /\ UNCHANGED <<record, waiting, kernel, clients, timer>>

Silent(c) ==
    /\ sweep.step = "clients" /\ c \in sweep.todo
    /\ sweep.snap[c].age > SafeGap

\* bump_client_missed_run; counters beyond Threshold + 1 are not told apart.
Bumped(c) == IF misses[c] > Threshold THEN misses[c] ELSE misses[c] + 1

\* Mutant of Due: the age in the snapshot decides alone.
DueByAge(c) == Grace > 0 /\ sweep.snap[c].age >= Grace

\* Both the redundancy window and the operator's grace are over.
Due(c) ==
    /\ Bumped(c) >= Threshold
    /\ Grace > 0 /\ sweep.snap[c].age >= Grace

SweepHolds(c) ==
    /\ Silent(c) /\ ~Due(c)
    /\ misses' = [misses EXCEPT ![c] = Bumped(c)]
    /\ sweep' = Examined(c)
    /\ UNCHANGED <<record, waiting, kernel, clients, timer>>

\* The threshold is hit: the claims of the snapshot are to be released.  No lock
\* is held from here on, so heartbeats are handled between the steps.
SweepDecides(c) ==
    /\ Silent(c) /\ Due(c)
    /\ misses' = [misses EXCEPT ![c] = Bumped(c)]
    /\ sweep' = [Examined(c) EXCEPT !.step = "remove", !.who = c,
                                 !.list = sweep.snap[c].busids]
    /\ UNCHANGED <<record, waiting, kernel, clients, timer>>

\* remove_client_record: whatever the registry says by now.
SweepRemoves ==
    /\ sweep.step = "remove"
    /\ record' = [record EXCEPT ![sweep.who] = NoRecord]
    /\ sweep' = [sweep EXCEPT !.step = "reset"]
    /\ UNCHANGED <<misses, waiting, kernel, clients, timer>>

SweepResets ==
    /\ sweep.step = "reset"
    /\ ResetMisses(sweep.who)
    /\ sweep' = [sweep EXCEPT !.step = "cleanup"]
    /\ UNCHANGED <<record, waiting, kernel, clients, timer>>

\* cleanup_client_queue_and_notify
SweepCleansUp ==
    /\ sweep.step = "cleanup"
    /\ waiting' = LeaveLines(waiting, {sweep.who})
    /\ sweep' = [sweep EXCEPT !.step = "release"]
    /\ UNCHANGED <<record, misses, kernel, clients, timer>>

\* connection_info: the addresses that claim or import a device.
Holders(b, r) ==
    {Addr[c] : c \in {x \in Clients : r[x].known /\ b \in r[x].busids}}
        \cup {Addr[c] : c \in {x \in Clients : session[b] = x}}

\* Mutant of ReleaseAllowed: somebody else's session does not matter.
ReleaseUnchecked(b, r) == b \in shared

\* force_release_allowed
ReleaseAllowed(b, r) ==
    /\ b \in shared
    /\ Holders(b, r) \subseteq {Addr[sweep.who]}

\* seen: who had the session when it was checked.
SweepChecks(b) ==
    /\ sweep.step = "release" /\ b \in sweep.list
    /\ record' = Pruned(record)
    /\ sweep' = IF ReleaseAllowed(b, record')
                THEN [sweep EXCEPT !.list = @ \ {b}, !.step = "kick", !.dev = {b},
                                   !.seen = session[b]]
                ELSE [sweep EXCEPT !.list = @ \ {b}]
    /\ UNCHANGED <<misses, waiting, kernel, clients, timer>>

\* kick_device: usbip unbind ends the import, ...
KickUnbinds(b) ==
    /\ sweep.step = "kick" /\ b \in sweep.dev
    /\ shared' = shared \ {b}
    /\ session' = [session EXCEPT ![b] = NoClient]
    /\ sweep' = [sweep EXCEPT !.step = "rebind"]
    /\ UNCHANGED <<registry, clients, timer>>

\* ... usbip bind offers the device again, ...
KickBinds(b) ==
    /\ sweep.step = "rebind" /\ b \in sweep.dev
    /\ shared' = shared \cup {b}
    /\ sweep' = [sweep EXCEPT !.step = "tidy"]
    /\ UNCHANGED <<registry, session, clients, timer>>

\* ... and remove_busid_from_clients.
KickTidies(b) ==
    /\ sweep.step = "tidy" /\ b \in sweep.dev
    /\ record' = [c \in Clients |-> [record[c] EXCEPT !.busids = @ \ {b}]]
    /\ sweep' = [sweep EXCEPT !.step = "release", !.dev = {}, !.seen = NoClient]
    /\ UNCHANGED <<misses, waiting, kernel, clients, timer>>

\* The device list cannot be read, the device is gone or an adapter, or one of
\* the two usbip calls fails: the first leaves the import as it is, the second
\* leaves the device unshared.  Either way the claims stay.
KickFails ==
    /\ sweep.step \in {"kick", "rebind"}
    /\ sweep' = [sweep EXCEPT !.step = "failed"]
    /\ UNCHANGED <<registry, kernel, clients, timer>>

\* watchdog_sweep logs the failure and never comes back to this device.
SweepGivesUp ==
    /\ sweep.step = "failed"
    /\ sweep' = [sweep EXCEPT !.step = "release", !.dev = {}, !.seen = NoClient]
    /\ UNCHANGED <<registry, kernel, clients, timer>>

\* The next record of the snapshot.
SweepGoesOn ==
    /\ sweep.step = "release" /\ sweep.list = {}
    /\ sweep' = [sweep EXCEPT !.step = "clients", !.who = NoClient]
    /\ UNCHANGED <<registry, kernel, clients, timer>>

\* Mutant of DropStale: the lines keep whoever once queued.
DropNobody(live) == waiting

\* queue_drop_stale_clients
DropStale(live) == LeaveLines(waiting, Clients \ live)

\* prune_stale_missed_runs and queue_drop_stale_clients, with the ids of the
\* snapshot.
EndSweep ==
    /\ sweep.step = "clients" /\ sweep.todo = {}
    /\ misses' = [c \in Clients |-> IF c \in Known(sweep.snap) THEN misses[c] ELSE 0]
    /\ waiting' = DropStale(Known(sweep.snap))
    /\ sweep' = Asleep
    /\ UNCHANGED <<record, kernel, clients, timer>>

-----------------------------------------------------------------------------
(* The administrator.                                                      *)

\* mutate_device: share, for a device that a failed kick has left unshared.
Share(b) ==
    /\ b \notin shared /\ sweep.step # "rebind"
    /\ shared' = shared \cup {b}
    /\ UNCHANGED <<registry, session, clients, watchdog>>

-----------------------------------------------------------------------------
(* Time.                                                                   *)

\* Ten seconds pass.  A live client's next heartbeat, the handlers and the
\* steps of the sweep do not wait that long.
Tick ==
    /\ \A c \in Clients :
        /\ mode[c] = "live" => quiet[c] < BeatGap
        /\ beat[c] = NoBeat /\ bye[c] = NoBye
    /\ sweep.step = "sleep" /\ timer < Interval
    /\ timer' = timer + 1
    /\ record' = [c \in Clients |-> IF record[c].known
                                    THEN [record[c] EXCEPT !.age = Older(@)] ELSE NoRecord]
    /\ quiet' = [c \in Clients |-> IF mode[c] = "live" THEN quiet[c] + 1 ELSE quiet[c]]
    /\ UNCHANGED <<misses, waiting, kernel, mode, wants, beat, bye, sweep>>

-----------------------------------------------------------------------------
Handler(c) == WriteRecord(c) \/ FinishBeat(c) \/ WriteBye(c) \/ CountBye(c) \/ HandleBye(c)

Sweep ==
    \/ BeginSweep \/ SweepRemoves \/ SweepResets \/ SweepCleansUp
    \/ KickFails \/ SweepGivesUp \/ SweepGoesOn \/ EndSweep
    \/ \E c \in Clients : SweepFresh(c) \/ SweepHolds(c) \/ SweepDecides(c)
    \/ \E b \in Busids : SweepChecks(b) \/ KickUnbinds(b) \/ KickBinds(b) \/ KickTidies(b)

User(c) ==
    \/ FallSilent(c) \/ ComeBack(c) \/ Leave(c)
    \/ \E b \in Busids : Want(c, b) \/ Attach(c, b)

\* What happens by itself.
Progress == Tick \/ Sweep \/ \E c \in Clients : Send(c) \/ Handler(c)

Next ==
    \/ Progress \/ Poll
    \/ \E c \in Clients : User(c)
    \/ \E b \in Busids : EndSession(b) \/ Share(b)

Spec == Init /\ [][Next]_vars

\* Time passes, the threads of the server run, and live clients send.  One
\* fairness condition is enough: a tick waits for everything else, and between
\* two ticks there are finitely many steps of it.
FairSpec == Spec /\ WF_vars(Progress)
=============================================================================
