--------------------------- MODULE WaitQueueProps ---------------------------
(***************************************************************************)
(* What WaitQueue promises (first part), and what the documentation and    *)
(* the comments of the repository promise but the code does not do (second *)
(* part, each checked by a run that expects a violation).                  *)
(***************************************************************************)
EXTENDS WaitQueue

Up(c) == mode[c] = "up"

\* c stands in line for b on the server and still wants it.
Waits(c, b) == Up(c) /\ b \in wants[c] /\ c \in queue[b].who

\* b can be imported by anybody and nobody is recorded as using it.
Free(b) == b \in shared /\ session[b] = NoClient /\ ~IsHeld(b, registered, claims, session)

\* A notice "attach" for b is on its way to c.
Woken(c, b) ==
    \/ mailbox[c][b] = "attach"
    \/ net[c].kind = "reply" /\ net[c].notices[b] = "attach"

-----------------------------------------------------------------------------
(* Safety.                                                                 *)

\* The list of a device holds every waiter once, in one order, whatever
\* interleaving of heartbeats, goodbyes, sweeps and admin calls produced it
\* (queue_append, queue_remove, queue_drop_stale_clients).
LinesOrdered == \A b \in Busids : IsLine(queue[b])

\* The wakeup memo can only ever suppress a wakeup of the client that is first
\* in line now, for a device nobody is recorded as using: a memo naming anybody
\* else, or one that outlives the occupation, would silence the device for good
\* (_queue_notified_keep, _queue_notified_forget, queue_forget_notified).
MemoNamesFirst ==
    \A b \in Busids : notified[b] # NoClient =>
        /\ IsFirst(queue[b], notified[b])
        /\ \A c \in registered : b \notin claims[c]

\* c was told to attach and has not heard it yet, and no longer stands in line.
Stranded(c, b) ==
    c \in registered /\ mailbox[c][b] = "attach" /\ c \notin queue[b].who

\* Only the administrator's DELETE strands a wakeup: every other handler that takes
\* a registered client out of a line leaves it no undelivered "attach" for the
\* device, whichever handlers ran before, if the lists have room for every client
\* (goodbye, clear, unshare, watchdog, claim and dequeue in a heartbeat; do_DELETE).
WakeupForWaiter ==
    [][MaxQueue >= Cardinality(Clients) =>
         \A c \in Clients, b \in Busids :
            Stranded(c, b)' /\ ~Stranded(c, b) => AdminDequeue(b, c)]_vars

\* One step moves at most one client: two others keep their relative places
\* ("MUST preserve the FIFO position of every other client", queue_append).
OnlyOneMoves ==
    [][\A b \in Busids : \E m \in Holders :
         \A x, y \in queue'[b].who \ {m} :
            Behind(queue[b], x, y) => Behind(queue'[b], x, y)]_vars

\* A new "attach" notice goes to the first waiter of a shared device that no
\* record claims and, with the gateway's sessions, nobody imports; only a client
\* without a record can be woken and dropped from the line in one watchdog pass
\* (queue_notify_head_if_free in every handler that calls it).
WakesOnlyForFreeDevice ==
    [][\A c \in Clients, b \in Busids :
         Woken(c, b)' /\ ~Woken(c, b) =>
            /\ b \in shared'
            /\ IsFirst(queue'[b], c) \/ c \notin registered'
            /\ \A d \in registered' : b \notin claims'[d]
            /\ Gateway => session'[b] = NoClient]_vars

\* Nobody's import is cut by a heartbeat, a goodbye or anybody's wait: a session
\* ends only by its own client, by the client being off, by the administrator, by
\* a restart of the server, or by a watchdog pass while no other record claims the device.
SessionsEndForCause ==
    [][\A b \in Busids :
         session[b] # NoClient /\ session'[b] # session[b] =>
            \/ Detach(session[b], b)
            \/ mode[session[b]] = "off"
            \/ Unshare(b) \/ Kick(b) \/ Restart
            \/ /\ ~Gateway
               /\ \E c \in Clients :
                     /\ WatchdogRelease(c) /\ b \in claims[c]
                     /\ \A d \in registered \ {c} : b \notin claims[d]]_vars

\* The memo suppresses only the wakeup of a client that is being told or has just
\* imported: while it names a client that stays, the notice is on its way or the
\* device is in use, if replies arrive, every holder stays long enough to be recorded
\* and the administrator does not interfere (_QUEUE_NOTIFIED and its callers; with
\* a memo that outlives the occupation the next wakeup is never sent).
MemoHonest ==
    Gateway /\ Env \cap {"admin", "loss", "brief"} = {} =>
        \A c \in Clients \ Mortal, b \in Busids :
            notified[b] = c => Woken(c, b) \/ session[b] # NoClient

-----------------------------------------------------------------------------
(* Liveness.                                                               *)

\* The only waiter of a device that stays free is told to go ahead, if replies
\* arrive and every holder stayed long enough to be recorded once, whoever else
\* leaves the device by a goodbye or by losing power.
SoleWaiterWoken ==
    \A c \in Clients \ Mortal, b \in Busids :
        (Free(b) /\ Waits(c, b) /\ queue[b].who = {c})
            ~> (Woken(c, b) \/ ~Free(b) \/ ~Waits(c, b) \/ queue[b].who # {c})

\* A client that is off for good does not stay in any line: the watchdog pass
\* or the pruned record takes it out (queue_drop_stale_clients).
DepartedLeaveTheLine ==
    \A c \in Clients, b \in Busids :
        <>[](mode[c] = "off") => []<>(c \notin queue[b].who)

-----------------------------------------------------------------------------
(* Claims of the documentation that the code does not keep.                *)

\* README.md:148-149 "设备空出来时服务端在该 client 心跳响应里下发
\* queueNotifications": a free device with waiters is offered to one of them.
FreeDeviceIsOffered ==
    \A b \in Busids :
        (Free(b) /\ queue[b].who # {} /\ \A c \in queue[b].who : Waits(c, b))
            ~> (\/ \E c \in Clients : Woken(c, b)
                \/ ~Free(b)
                \/ queue[b].who = {}
                \/ \E c \in queue[b].who : ~Waits(c, b))
=============================================================================
