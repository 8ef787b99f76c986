---------------------------- MODULE WatchdogProps ----------------------------
(***************************************************************************)
(* What Watchdog promises.                                                 *)
(***************************************************************************)
EXTENDS Watchdog

\* update_client has written the record of c and not yet reset its counter.
Resetting(c) == "written" \in {beat[c].step, bye[c].step}

\* A brief outage never escalates: whoever has missed k sweeps in a row has been
\* silent for as long as k - 2 sweeps take beyond the safe gap, although
\* heartbeats are recorded, and the counter is reset, between the steps of a
\* sweep ("in lockstep with write_client", update_client).
NoEscalation ==
    \A c \in Clients :
        record[c].known /\ misses[c] > 1 /\ ~Resetting(c)
            => record[c].age > SafeGap + (misses[c] - 2) * Interval

\* The sweep decides by an old snapshot, and still removes nobody who has been
\* heard of within the grace period: at least one miss stands from an earlier
\* sweep, and a heartbeat would have taken it back (watchdog_sweep).  A heartbeat
\* that comes in after the decision comes too late: it has reset the counter, or
\* has written the record and is about to.  With a threshold of one miss the
\* snapshot alone decides.
RemovesOnlySilent ==
    [][SweepRemoves /\ Threshold > 1 =>
          LET c == sweep.who
          IN  record[c].known /\ misses[c] > 0 /\ ~Resetting(c) => record[c].age >= Grace]_vars

\* The watchdog never ends the session of another peer: what it cuts belongs to
\* the address of the silent client, or began after force_release_allowed looked.
CutsOnlyItsPeer ==
    [][\A b \in Busids : KickUnbinds(b) /\ session[b] # NoClient
            => session[b] # sweep.seen \/ Addr[session[b]] = Addr[sweep.who]]_vars

Claims(c, b) == record[c].known /\ b \in record[c].busids

\* A device whose importer stays silent comes free, as far as the importer has
\* reported it between two sweeps and nobody else claims it, before a reader
\* deletes the record that the watchdog needs (CLIENT_TTL_SECONDS,
\* watchdog_sweep), or the one attempt to cut it off fails.  A claim reported
\* during a sweep may be lost with the older record that the sweep removes.
SilentReleased ==
    \A c \in Leavers, b \in Busids :
        (/\ mode[c] = "silent" /\ session[b] = c /\ Claims(c, b)
         /\ sweep.step = "sleep" /\ beat[c] = NoBeat
         /\ \A x \in Clients \ {c} : ~Claims(x, b) /\ b \notin beat[x].busids)
            ~> \/ session[b] # c \/ mode[c] = "live"
               \/ sweep.step = "failed" /\ sweep.who = c /\ b \in sweep.dev

Forgotten(c) == ~record[c].known /\ misses[c] = 0 /\ \A b \in Busids : c \notin waiting[b]

\* Whoever leaves or stays silent leaves nothing behind: no record, no counter, no
\* place in a line, even if a heartbeat was under way when it said goodbye.
GoneForgotten ==
    \A c \in Leavers : <>[](mode[c] # "live") => <>[]Forgotten(c)

\* A live client that wants a device it does not have gets into its line, however
\* often a sweep with an old snapshot drops it (queue_drop_stale_clients) and
\* whenever a kick has the device unbound (update_client), unless a failed kick
\* leaves the device unshared.
WaiterInLine ==
    \A c \in Waiters, b \in Busids :
        (mode[c] = "live" /\ b \in wants[c])
            ~> \/ mode[c] # "live" \/ b \notin wants[c] \/ c \in waiting[b]
               \/ b \notin shared /\ sweep.step # "rebind"
=============================================================================
