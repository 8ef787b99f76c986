-------------------------- MODULE GatewaySessions ---------------------------
(***************************************************************************)
(* The USB/IP connections the gateway relays (server/gateway.py): for each *)
(* one a thread per direction and the thread that ends it, the sniffed     *)
(* import, and the table of sessions that web.py reads to know who has a   *)
(* device.  usbipd and the kernel's import are the environment.            *)
(***************************************************************************)
EXTENDS Naturals, FiniteSets

CONSTANTS Conns, Busids, NoConn

ASSUME ConnsAssumption == NoConn \notin Conns /\ IsFiniteSet(Conns)

VARIABLES
    bridge,    \* "none", "open", "closing" (close_session was called), "closed"
    asks,      \* the device a connection is about
    up,        \* client -> usbipd: "head", "import", "recorded", "flow", "end"
    down,      \* usbipd -> client: "flow", "end"
    client,    \* "on", "gone" (it closed the connection), "dead" (no packet ever)
    listed,    \* SessionRegistry._sessions, and the file
    importer,  \* the kernel's import of each device
    served     \* usbipd keeps its end open

threads == <<bridge, up, down>>
peers   == <<asks, client>>
vars    == <<threads, peers, listed, importer, served>>

TypeOK ==
    /\ bridge \in [Conns -> {"none", "open", "closing", "closed"}]
    /\ asks \in [Conns -> Busids]
    /\ up \in [Conns -> {"head", "import", "recorded", "flow", "end"}]
    /\ down \in [Conns -> {"flow", "end"}]
    /\ client \in [Conns -> {"on", "gone", "dead"}]
    /\ listed \subseteq Conns
    /\ importer \in [Busids -> Conns \cup {NoConn}]
    /\ \A b \in Busids : importer[b] # NoConn => asks[importer[b]] = b
    /\ served \subseteq Conns
    /\ \A c \in listed : up[c] \notin {"head", "import"}

Init ==
    /\ bridge = [c \in Conns |-> "none"]
    /\ asks \in [Conns -> Busids]
    /\ up = [c \in Conns |-> "head"]
    /\ down = [c \in Conns |-> "flow"]
    /\ client = [c \in Conns |-> "on"]
    /\ listed = {}
    /\ importer = [b \in Busids |-> NoConn]
    /\ served = {}

\* The sockets of a connection are usable until bridge() shuts them down.
Usable(c) == bridge[c] \in {"open", "closing"}

Imports(c) == importer[asks[c]] = c

-----------------------------------------------------------------------------
(* The gateway.                                                            *)

\* bridge: connected to usbipd, both threads start.
Open(c) ==
    /\ bridge[c] = "none" /\ client[c] = "on"
    /\ bridge' = [bridge EXCEPT ![c] = "open"]
    /\ served' = served \cup {c}
    /\ UNCHANGED <<up, down, peers, listed, importer>>

\* relay_client_usbip: the head of the stream is an OP_REQ_IMPORT, or it is not.
Sniff(c) ==
    /\ up[c] = "head" /\ Usable(c) /\ client[c] = "on"
    /\ \E seen \in {"import", "flow"} : up' = [up EXCEPT ![c] = seen]
    /\ UNCHANGED <<bridge, down, peers, listed, importer, served>>

\* record_import
RecordImport(c) ==
    /\ up[c] = "import"
    /\ listed' = listed \cup {c}
    /\ up' = [up EXCEPT ![c] = "recorded"]
    /\ UNCHANGED <<bridge, down, peers, importer, served>>

\* usbipd hands a free device over to the kernel; it answers a busy one with an
\* error and closes.
Granted(c) ==
    IF importer[asks[c]] = NoConn
    THEN importer' = [importer EXCEPT ![asks[c]] = c] /\ UNCHANGED served
    ELSE served' = served \ {c} /\ UNCHANGED importer

\* Mutant of Forward: the request is on its way before it is recorded.
ForwardFirst(c) ==
    /\ up[c] \in {"import", "recorded"} /\ Usable(c) /\ c \in served
    /\ up' = [up EXCEPT ![c] = "flow"]
    /\ Granted(c)
    /\ UNCHANGED <<bridge, down, peers, listed>>

\* dst.sendall: the request reaches usbipd.
Forward(c) ==
    /\ up[c] = "recorded" /\ Usable(c) /\ c \in served
    /\ up' = [up EXCEPT ![c] = "flow"]
    /\ Granted(c)
    /\ UNCHANGED <<bridge, down, peers, listed>>

\* src.recv returns nothing (closed, or keepalive gave the peer up), or
\* dst.sendall fails; then dst.shutdown(SHUT_WR).
UpEnds(c) ==
    /\ \/ up[c] \in {"head", "flow"} /\ bridge[c] # "none"
          /\ (client[c] # "on" \/ bridge[c] = "closed")
       \/ up[c] = "recorded" /\ (bridge[c] = "closed" \/ c \notin served)
    /\ up' = [up EXCEPT ![c] = "end"]
    /\ UNCHANGED <<bridge, down, peers, listed, importer, served>>

\* The same in the other direction.
DownEnds(c) ==
    /\ bridge[c] # "none" /\ down[c] = "flow"
    /\ c \notin served \/ bridge[c] = "closed" \/ client[c] = "gone"
    /\ down' = [down EXCEPT ![c] = "end"]
    /\ UNCHANGED <<bridge, up, peers, listed, importer, served>>

\* Mutant of Finished: both directions must have ended.
FinishedBoth(c) == up[c] = "end" /\ down[c] = "end"

\* finished.wait, and the two joins with RELAY_DRAIN_SECONDS, which give up.
Finished(c) == up[c] = "end" \/ down[c] = "end"

\* Mutant of CloseSession: the entry is left to a later cleanup.
CloseQuietly(c) ==
    /\ bridge[c] = "open" /\ Finished(c)
    /\ bridge' = [bridge EXCEPT ![c] = "closing"]
    /\ UNCHANGED <<up, down, peers, listed, importer, served>>

\* close_session
CloseSession(c) ==
    /\ bridge[c] = "open" /\ Finished(c)
    /\ listed' = listed \ {c}
    /\ bridge' = [bridge EXCEPT ![c] = "closing"]
    /\ UNCHANGED <<up, down, peers, importer, served>>

\* Both sockets are shut down and closed.
Shutdown(c) ==
    /\ bridge[c] = "closing"
    /\ bridge' = [bridge EXCEPT ![c] = "closed"]
    /\ UNCHANGED <<up, down, peers, listed, importer, served>>

\* The gateway is killed and started again by the entrypoint: the kernel closes
\* its sockets, the threads are gone, SessionRegistry starts with an empty file.
Restart ==
    /\ bridge' = [c \in Conns |-> IF bridge[c] = "none" THEN "none" ELSE "closed"]
    /\ up' = [c \in Conns |-> IF bridge[c] = "none" THEN up[c] ELSE "end"]
    /\ down' = [c \in Conns |-> IF bridge[c] = "none" THEN down[c] ELSE "end"]
    /\ listed' = {}
    /\ UNCHANGED <<peers, importer, served>>

-----------------------------------------------------------------------------
(* The clients, usbipd and the kernel.                                     *)

Leaves(c, how) ==
    /\ bridge[c] # "none" /\ client[c] = "on"
    /\ client' = [client EXCEPT ![c] = how]
    /\ UNCHANGED <<threads, asks, listed, importer, served>>

Disconnects(c) == Leaves(c, "gone")
Dies(c)        == Leaves(c, "dead")

\* The import ends: its socket was closed, or a half-closed one sufficed.
KernelEnds(c) ==
    /\ Imports(c) /\ (bridge[c] = "closed" \/ up[c] = "end")
    /\ importer' = [importer EXCEPT ![asks[c]] = NoConn]
    /\ served' = served \ {c}
    /\ UNCHANGED <<threads, peers, listed>>

\* usbipd closes a connection that imports nothing.
Closes(c) ==
    /\ c \in served /\ ~Imports(c)
    /\ served' = served \ {c}
    /\ UNCHANGED <<threads, peers, listed, importer>>

\* usbip unbind, or the device was pulled out.
Unbound(b) ==
    /\ importer[b] # NoConn
    /\ served' = served \ {importer[b]}
    /\ importer' = [importer EXCEPT ![b] = NoConn]
    /\ UNCHANGED <<threads, peers, listed>>

-----------------------------------------------------------------------------
Relays(c) == RecordImport(c) \/ Forward(c) \/ UpEnds(c) \/ CloseSession(c) \/ Shutdown(c)

\* A socket that is closed, not only half-closed, ends the import.
Cuts(c) == bridge[c] = "closed" /\ KernelEnds(c)

Next ==
    \/ \E c \in Conns :
        \/ Open(c) \/ Sniff(c) \/ Relays(c) \/ DownEnds(c)
        \/ Disconnects(c) \/ Dies(c) \/ KernelEnds(c) \/ Closes(c)
    \/ \E b \in Busids : Unbound(b)
    \/ Restart

Spec == Init /\ [][Next]_vars

\* The threads of the gateway run; keepalive ends what comes from a dead peer;
\* the kernel ends the import of a closed socket.  Nothing makes usbipd close its
\* end of a connection (comment in bridge).
FairSpec ==
    /\ Spec
    /\ \A c \in Conns : WF_vars(Relays(c)) /\ WF_vars(Cuts(c))
=============================================================================
