----------------------------- MODULE WaitQueue ------------------------------
(***************************************************************************)
(* Waiting for an occupied device: the heartbeat, the registry, the        *)
(* waiting lists, the mailboxes and the wakeup memo of server/web.py, and  *)
(* the part of the Windows client (wusbip/mgmt.cpp) that drives them.      *)
(*                                                                         *)
(* One step of the server is one request handler or one watchdog pass.     *)
(* Heartbeats and their replies travel; a client has at most one exchange  *)
(* under way (mgmt_loop is one thread), but its goodbye is sent by the GUI *)
(* thread next to it.  "session" is the kernel's USB/IP import.            *)
(***************************************************************************)
EXTENDS WaitLine

CONSTANTS
    Clients,      \* client ids (clientId)
    Busids,       \* device numbers (busid)
    NoClient,     \* absence of a client
    MaxQueue,     \* MAX_QUEUE_PER_BUSID
    Gateway,      \* gateway.py publishes the sessions it relays
    AutoRelease,  \* the watchdog releases before CLIENT_TTL_SECONDS prunes
    Env,          \* what the environment may do, a subset of EnvEvents
    Mortal        \* bound: the clients that may quit or lose power

EnvEvents ==
    {"admin", "crash", "quit", "loss", "restart", "background", "brief", "dequeue"}

ASSUME ClientsAssumption == NoClient \notin Clients /\ IsFiniteSet(Clients)
ASSUME MaxQueueAssumption == MaxQueue \in Nat \ {0}
ASSUME FlagsAssumption ==
    /\ Gateway \in BOOLEAN /\ AutoRelease \in BOOLEAN
    /\ Env \subseteq EnvEvents /\ Mortal \subseteq Clients

VARIABLES
    \* files of the server
    queue,       \* queue.json: a waiting list per device
    mailbox,     \* queue-notify.json: the pending notice per client and device
    registered,  \* clients.json: which clients have a record
    claims,      \* clients.json: the busids of each record
    \* memory of the server
    notified,    \* _QUEUE_NOTIFIED: who was told to go ahead
    \* the kernel of the server
    shared,      \* devices bound to usbip-host
    session,     \* who imports the device
    \* the clients
    mode,        \* "up", "leaving" (goodbye under way), "off"
    wants,       \* m_mgmt_queued
    net,         \* the heartbeat exchange
    bye          \* the goodbye request under way

server  == <<queue, mailbox, registered, claims, notified>>
kernel  == <<shared, session>>
clients == <<mode, wants, net, bye>>
vars    == <<server, kernel, clients>>

Holders  == Clients \cup {NoClient}
Notices  == {"none", "attach", "dropped"}
Mail     == [Busids -> Notices]
NoMail   == [b \in Busids |-> "none"]
Idle     == [kind |-> "idle"]
Request(held, line, out) ==
    [kind |-> "request", busids |-> held, enqueue |-> line, dequeue |-> out]
Reply(mail)         == [kind |-> "reply", notices |-> mail]
NoBye    == [sent |-> FALSE, busids |-> {}]

\* Bound: no client asks to join and to leave the same line in one heartbeat.
Requests == [kind : {"request"}, busids : SUBSET Busids, enqueue : SUBSET Busids,
             dequeue : SUBSET Busids]
Sensible == {r \in Requests : r.enqueue \cap r.dequeue = {}}

\* The types, and the length of the lists.
TypeOK ==
    /\ queue \in [Busids -> Lines(Clients)]
    /\ \A b \in Busids : Cardinality(queue[b].who) <= MaxQueue
    /\ mailbox \in [Clients -> Mail]
    /\ registered \subseteq Clients
    /\ claims \in [Clients -> SUBSET Busids]
    /\ notified \in [Busids -> Holders]
    /\ shared \subseteq Busids
    /\ session \in [Busids -> Holders]
    /\ mode \in [Clients -> {"up", "leaving", "off"}]
    /\ wants \in [Clients -> SUBSET Busids]
    /\ net \in [Clients -> {Idle} \cup Sensible \cup [kind : {"reply"}, notices : Mail]]
    /\ bye \in [Clients -> [sent : BOOLEAN, busids : SUBSET Busids]]

Init ==
    /\ queue = [b \in Busids |-> EmptyLine]
    /\ mailbox = [c \in Clients |-> NoMail]
    /\ registered = {}
    /\ claims = [c \in Clients |-> {}]
    /\ notified = [b \in Busids |-> NoClient]
    /\ shared = Busids
    /\ session = [b \in Busids |-> NoClient]
    /\ mode = [c \in Clients |-> "up"]
    /\ wants = [c \in Clients |-> {}]
    /\ net = [c \in Clients |-> Idle]
    /\ bye = [c \in Clients |-> NoBye]

-----------------------------------------------------------------------------
(* Helpers of the server's handlers.                                       *)

Attached(c) == {b \in Busids : session[b] = c}

\* Mutant of IsHeld: the sessions the gateway saw are not asked.
IsClaimed(b, r, cl, s) == \E c \in r : b \in cl[c]

\* connection_info(b) is not empty, for a registry r with claims cl and
\* sessions s: a record claims b, or the gateway saw b imported.
IsHeld(b, r, cl, s) ==
    \/ \E c \in r : b \in cl[c]
    \/ Gateway /\ s[b] # NoClient

\* Mutant of Keep: a change of the list leaves the memo alone.
KeepAlways(m, l) == m

\* _queue_notified_keep / _queue_notified_forget: the memo survives a change
\* of the list only while it names the first waiter.
Keep(m, l) == IF IsFirst(l, m) THEN m ELSE NoClient

\* Mutant of ForgetNotified: the memo outlives the occupation.
RememberNotified(m) == m

\* queue_forget_notified: the device is occupied again.
ForgetNotified(m) == NoClient

KeepAll(m, q) == [b \in Busids |-> Keep(m[b], q[b])]

\* The devices of B whose first waiter queue_notify_head_if_free wakes.
Wakes(B, q, m, sh, held) ==
    {b \in (B \cap sh) \ held : \E x \in q[b].who : IsFirst(q[b], x) /\ m[b] # x}

MemoOf(W, q, m) == [b \in Busids |-> IF b \in W THEN First(q[b]) ELSE m[b]]

MailOf(W, q, ml) ==
    [c \in Clients |->
        [b \in Busids |-> IF b \in W /\ IsFirst(q[b], c) THEN "attach" ELSE ml[c][b]]]

\* Mutant of DroppedMail: a cleared list tells nobody.
NoDroppedMail(b, ml) == ml

\* queue_notify_busid_holders
DroppedMail(b, ml) ==
    [c \in Clients |-> IF c \in queue[b].who THEN [ml[c] EXCEPT ![b] = "dropped"] ELSE ml[c]]

\* Mutant of DropStale: the trailing call is forgotten.
KeepStale(q, live) == q

\* queue_drop_stale_clients
DropStale(q, live) == [b \in Busids |-> Leave(q[b], Clients \ live)]

-----------------------------------------------------------------------------
(* The client.                                                             *)

\* mgmt_loop: snapshot what is attached and what is wanted, post both.  The
\* protocol also knows "dequeueBusids", which other clients than this one send.
SendHeartbeat(c) ==
    /\ mode[c] # "off"
    /\ net[c] = Idle
    /\ \E out \in IF "dequeue" \in Env THEN SUBSET (Busids \ wants[c]) ELSE {{}} :
         net' = [net EXCEPT ![c] = Request(Attached(c), wants[c], out)]
    /\ UNCHANGED <<server, kernel, mode, wants, bye>>

\* The exchange fails, before or after the server handled it.
LoseExchange(c) ==
    /\ "loss" \in Env
    /\ net[c] # Idle
    /\ net' = [net EXCEPT ![c] = Idle]
    /\ UNCHANGED <<server, kernel, mode, wants, bye>>

\* mgmt_handle_queue_notices on the GUI thread: "attach" connects (and gives
\* up the wish if that works), "dropped" gives up the wish.
ReceiveReply(c) ==
    /\ net[c].kind = "reply"
    /\ net' = [net EXCEPT ![c] = Idle]
    /\ IF mode[c] = "up"
       THEN LET told == {b \in Busids : net[c].notices[b] = "attach"}
                won  == {b \in told : \/ session[b] = c
                                      \/ b \in shared /\ session[b] = NoClient}
                gone == {b \in Busids : net[c].notices[b] = "dropped"}
            IN /\ session' = [b \in Busids |-> IF b \in won THEN c ELSE session[b]]
               /\ wants' = [wants EXCEPT ![c] = @ \ (won \cup gone)]
       ELSE UNCHANGED <<session, wants>>
    /\ UNCHANGED <<server, shared, mode, bye>>

\* MainFrame::attach(bool) on a device the last listing showed as busy.  The
\* listing may be out of date, so the device may be free by now.
JoinQueue(c, b) ==
    /\ mode[c] = "up"
    /\ session[b] # c
    /\ b \notin wants[c]
    /\ wants' = [wants EXCEPT ![c] = @ \cup {b}]
    /\ UNCHANGED <<server, kernel, mode, net, bye>>

\* MainFrame::attach(bool) on a device believed free; the import succeeds.
Connect(c, b) ==
    /\ mode[c] = "up"
    /\ b \in shared
    /\ session[b] = NoClient
    /\ session' = [session EXCEPT ![b] = c]
    /\ wants' = [wants EXCEPT ![c] = @ \ {b}]
    /\ UNCHANGED <<server, shared, mode, net, bye>>

\* A device marked Auto: attach_persistent_devices or the driver's own retry
\* imports it, and nothing takes the busid out of m_mgmt_queued.
BackgroundAttach(c, b) ==
    /\ "background" \in Env
    /\ mode[c] = "up"
    /\ b \in shared
    /\ session[b] = NoClient
    /\ session' = [session EXCEPT ![b] = c]
    /\ UNCHANGED <<server, shared, clients>>

\* Unless "brief" is possible, a device is kept for at least the one heartbeat
\* that claims it.
Lasting(c, B) == "brief" \in Env \/ B = {} \/ (c \in registered /\ B \subseteq claims[c])

\* on_detach of a device in use.
Detach(c, b) ==
    /\ mode[c] = "up"
    /\ session[b] = c
    /\ Lasting(c, {b})
    /\ session' = [session EXCEPT ![b] = NoClient]
    /\ wants' = [wants EXCEPT ![c] = @ \ {b}]
    /\ UNCHANGED <<server, shared, mode, net, bye>>

\* on_detach / on_detach_all of a device that is only waited for.
LeaveQueue(c, b) ==
    /\ mode[c] = "up"
    /\ session[b] # c
    /\ b \in wants[c]
    /\ wants' = [wants EXCEPT ![c] = @ \ {b}]
    /\ UNCHANGED <<server, kernel, mode, net, bye>>

\* on_close: mgmt_send_goodbye, while the heartbeat thread still runs.
Quit(c) ==
    /\ "quit" \in Env /\ c \in Mortal
    /\ Lasting(c, Attached(c))
    /\ mode[c] = "up"
    /\ mode' = [mode EXCEPT ![c] = "leaving"]
    /\ bye' = [bye EXCEPT ![c] = [sent |-> TRUE, busids |-> Attached(c)]]
    /\ UNCHANGED <<server, kernel, wants, net>>

\* mgmt_stop has joined the heartbeat thread.
Exit(c) ==
    /\ mode[c] = "leaving"
    /\ ~bye[c].sent
    /\ net[c] = Idle
    /\ mode' = [mode EXCEPT ![c] = "off"]
    /\ wants' = [wants EXCEPT ![c] = {}]
    /\ UNCHANGED <<server, kernel, net, bye>>

\* Power cut or kill: no goodbye, and the import stays until TCP notices.
Crash(c) ==
    /\ "crash" \in Env /\ c \in Mortal
    /\ Lasting(c, Attached(c))
    /\ mode[c] # "off"
    /\ mode' = [mode EXCEPT ![c] = "off"]
    /\ wants' = [wants EXCEPT ![c] = {}]
    /\ net' = [net EXCEPT ![c] = Idle]
    /\ bye' = [bye EXCEPT ![c] = NoBye]
    /\ UNCHANGED <<server, kernel>>

Start(c) ==
    /\ mode[c] = "off"
    /\ mode' = [mode EXCEPT ![c] = "up"]
    /\ UNCHANGED <<server, kernel, wants, net, bye>>

\* usbipd reclaims the import of a client that is no longer there.
EndSession(b) ==
    /\ session[b] # NoClient
    /\ mode[session[b]] = "off"
    /\ session' = [session EXCEPT ![b] = NoClient]
    /\ UNCHANGED <<server, shared, clients>>

-----------------------------------------------------------------------------
(* The handlers of the server.                                             *)

\* update_client: record the claims, take the claimed devices out of the
\* client's waits, append it to the lists it asks for, wake it if it is first
\* in line for a free device, take it out of the lists it asks to leave (which
\* wakes nobody), and drain its mailbox into the reply.
HandleHeartbeat(c) ==
    /\ net[c].kind = "request"
    /\ LET held  == net[c].busids
           joins == net[c].enqueue \cap shared
           reg   == registered \cup {c}
           cl    == [claims EXCEPT ![c] = held]
           left  == [b \in Busids |-> IF b \in held THEN Leave(queue[b], {c}) ELSE queue[b]]
           q     == [b \in Busids |-> IF b \in joins
                                      THEN Capped(JoinAtTail(left[b], c), MaxQueue)
                                      ELSE left[b]]
           memo  == [b \in Busids |-> IF b \in held THEN ForgetNotified(notified[b])
                                      ELSE Keep(notified[b], q[b])]
           taken == {b \in Busids : IsHeld(b, reg, cl, session)}
           W     == Wakes({b \in joins : IsFirst(q[b], c)}, q, memo, shared, taken)
           mail  == MailOf(W, q, mailbox)
           told  == MemoOf(W, q, memo)
           out   == net[c].dequeue
       IN /\ registered' = reg
          /\ claims' = cl
          /\ queue' = [b \in Busids |-> IF b \in out THEN Leave(q[b], {c}) ELSE q[b]]
          /\ notified' = [b \in Busids |-> IF b \in out THEN Keep(told[b], queue'[b]) ELSE told[b]]
          /\ mailbox' = [mail EXCEPT ![c] = NoMail]
          /\ net' = [net EXCEPT ![c] = Reply(mail[c])]
    /\ UNCHANGED <<kernel, mode, wants, bye>>

\* update_client with shutdown = true, handle_client_goodbye and
\* cleanup_client_queue_and_notify: forget the client, then wake the lists it
\* left and the devices it claimed.
HandleGoodbye(c) ==
    /\ bye[c].sent
    /\ bye' = [bye EXCEPT ![c] = NoBye]
    /\ LET reg   == registered \ {c}
           cl    == [claims EXCEPT ![c] = {}]
           q     == [b \in Busids |-> Leave(queue[b], {c})]
           memo  == KeepAll(notified, q)
           mail  == [mailbox EXCEPT ![c] = NoMail]
           left  == {b \in Busids : c \in queue[b].who}
           taken == {b \in Busids : IsHeld(b, reg, cl, session)}
           W     == Wakes(left \cup bye[c].busids, q, memo, shared, taken)
       IN /\ registered' = reg
          /\ claims' = cl
          /\ queue' = q
          /\ notified' = MemoOf(W, q, memo)
          /\ mailbox' = MailOf(W, q, mail)
    /\ UNCHANGED <<kernel, mode, wants, net>>

\* mutate_device(b, "share")
Share(b) ==
    /\ "admin" \in Env
    /\ b \notin shared
    /\ shared' = shared \cup {b}
    /\ UNCHANGED <<server, session, clients>>

\* mutate_device(b, "unshare"): unbind, tell the waiters, clear the list.
Unshare(b) ==
    /\ "admin" \in Env
    /\ shared' = shared \ {b}
    /\ session' = [session EXCEPT ![b] = NoClient]
    /\ mailbox' = DroppedMail(b, mailbox)
    /\ queue' = [queue EXCEPT ![b] = EmptyLine]
    /\ notified' = [notified EXCEPT ![b] = NoClient]
    /\ UNCHANGED <<registered, claims, clients>>

\* kick_device: unbind and bind again, drop every claim, wake the first waiter.
Kick(b) ==
    /\ "admin" \in Env
    /\ b \in shared
    /\ session' = [session EXCEPT ![b] = NoClient]
    /\ claims' = [c \in Clients |-> claims[c] \ {b}]
    /\ LET taken == {d \in Busids : IsHeld(d, registered, claims', session')}
           W     == Wakes({b}, queue, notified, shared, taken)
       IN /\ notified' = MemoOf(W, queue, notified)
          /\ mailbox' = MailOf(W, queue, mailbox)
    /\ UNCHANGED <<queue, registered, shared, clients>>

\* do_handle_queue_post: no check that b is shared.
AdminEnqueue(b, c) ==
    /\ "admin" \in Env
    /\ LET q     == [queue EXCEPT ![b] = Capped(JoinAtTail(queue[b], c), MaxQueue)]
           memo  == KeepAll(notified, q)
           taken == {d \in Busids : IsHeld(d, registered, claims, session)}
           W     == IF IsFirst(q[b], c) THEN Wakes({b}, q, memo, shared, taken) ELSE {}
       IN /\ queue' = q
          /\ notified' = MemoOf(W, q, memo)
          /\ mailbox' = MailOf(W, q, mailbox)
    /\ UNCHANGED <<registered, claims, kernel, clients>>

\* do_DELETE of a place in the line: queue_remove and nothing else, so the
\* notice of the client that leaves stays and a new first waiter is not woken.
AdminDequeue(b, c) ==
    /\ "admin" \in Env
    /\ queue' = [queue EXCEPT ![b] = Leave(@, {c})]
    /\ notified' = KeepAll(notified, queue')
    /\ UNCHANGED <<mailbox, registered, claims, kernel, clients>>

\* do_handle_queue_clear
AdminClear(b) ==
    /\ "admin" \in Env
    /\ mailbox' = DroppedMail(b, mailbox)
    /\ queue' = [queue EXCEPT ![b] = EmptyLine]
    /\ notified' = [notified EXCEPT ![b] = NoClient]
    /\ UNCHANGED <<registered, claims, kernel, clients>>

Silent(c) == c \in registered /\ mode[c] = "off"

\* A pass of watchdog_sweep in which no client is overdue: only the trailing
\* queue_drop_stale_clients has an effect.
Sweep ==
    /\ queue' = DropStale(queue, registered)
    /\ notified' = KeepAll(notified, queue')
    /\ UNCHANGED <<mailbox, registered, claims, kernel, clients>>

\* Mutant of ForceReleaseAllowed: the observed session is not asked.
ForceReleaseUnseen(b, c, reg, cl) ==
    b \in shared /\ \A d \in reg : b \notin cl[d]

\* force_release_allowed for a claim of c, with c's record already removed and
\* one address per client: nobody else holds b.
ForceReleaseAllowed(b, c, reg, cl) ==
    /\ b \in shared
    /\ \A d \in reg : b \notin cl[d]
    /\ Gateway => session[b] \in {NoClient, c}

\* A pass of watchdog_sweep in which c is overdue: its record, its waits and
\* its mailbox go, the lists it left are woken, the devices it claimed are
\* kicked where that is allowed, and the stale waiters are dropped.
WatchdogRelease(c) ==
    /\ AutoRelease
    /\ Silent(c)
    /\ LET reg   == registered \ {c}
           cl    == [claims EXCEPT ![c] = {}]
           q     == [b \in Busids |-> Leave(queue[b], {c})]
           memo1 == KeepAll(notified, q)
           mail1 == [mailbox EXCEPT ![c] = NoMail]
           left  == {b \in Busids : c \in queue[b].who}
           taken == {b \in Busids : IsHeld(b, reg, cl, session)}
           W1    == Wakes(left, q, memo1, shared, taken)
           memo2 == MemoOf(W1, q, memo1)
           mail2 == MailOf(W1, q, mail1)
           freed == {b \in claims[c] : ForceReleaseAllowed(b, c, reg, cl)}
           W2    == Wakes(freed, q, memo2, shared, {})
           memo3 == MemoOf(W2, q, memo2)
       IN /\ registered' = reg
          /\ claims' = cl
          /\ session' = [b \in Busids |-> IF b \in freed THEN NoClient ELSE session[b]]
          /\ mailbox' = MailOf(W2, q, mail2)
          /\ queue' = DropStale(q, registered)
          /\ notified' = KeepAll(memo3, queue')
    /\ UNCHANGED <<shared, clients>>

\* read_clients prunes a record older than CLIENT_TTL_SECONDS.
Expire(c) ==
    /\ ~AutoRelease
    /\ Silent(c)
    /\ registered' = registered \ {c}
    /\ claims' = [claims EXCEPT ![c] = {}]
    /\ UNCHANGED <<queue, mailbox, notified, kernel, clients>>

\* One of the server's processes ends, so entrypoint.sh does and the container
\* starts again: the files and the binding stay (USBIP_UNBIND_ON_EXIT is false),
\* the memory of web.py and all that the gateway relays is gone.
Restart ==
    /\ "restart" \in Env
    /\ notified' = [b \in Busids |-> NoClient]
    /\ session' = [b \in Busids |-> NoClient]
    /\ net' = [c \in Clients |-> IF net[c].kind = "request" THEN Idle ELSE net[c]]
    /\ bye' = [c \in Clients |-> NoBye]
    /\ UNCHANGED <<queue, mailbox, registered, claims, shared, mode, wants>>

Next ==
    \/ \E c \in Clients :
        \/ SendHeartbeat(c) \/ LoseExchange(c) \/ ReceiveReply(c)
        \/ Quit(c) \/ Exit(c) \/ Crash(c) \/ Start(c)
        \/ HandleHeartbeat(c) \/ HandleGoodbye(c)
        \/ WatchdogRelease(c) \/ Expire(c)
    \/ \E c \in Clients, b \in Busids :
        \/ JoinQueue(c, b) \/ LeaveQueue(c, b) \/ Connect(c, b)
        \/ BackgroundAttach(c, b) \/ Detach(c, b)
        \/ AdminEnqueue(b, c) \/ AdminDequeue(b, c)
    \/ \E b \in Busids :
        Share(b) \/ Unshare(b) \/ Kick(b) \/ AdminClear(b) \/ EndSession(b)
    \/ Sweep
    \/ Restart

Spec == Init /\ [][Next]_vars

\* mgmt_loop runs every 10 s while the program runs, its replies reach the
\* GUI, the server handles what it receives, the watchdog thread sweeps every
\* 10 s, and the listing that prunes clients.json is polled.
Fairness ==
    /\ \A c \in Clients :
        /\ WF_vars(SendHeartbeat(c))
        /\ WF_vars(ReceiveReply(c))
        /\ WF_vars(HandleHeartbeat(c))
        /\ WF_vars(HandleGoodbye(c))
        /\ WF_vars(WatchdogRelease(c))
        /\ WF_vars(Expire(c))
    /\ WF_vars(Sweep)

FairSpec == Spec /\ Fairness
=============================================================================
