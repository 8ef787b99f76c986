----------------------- MODULE GatewaySessionsProps ------------------------
(***************************************************************************)
(* What web.py may conclude from the table of sessions.                    *)
(***************************************************************************)
EXTENDS GatewaySessions

\* Whoever has a device is in the table, or its connection is being closed:
\* web.py never takes an import that goes on for a free device
\* (relay_client_usbip records before it forwards).
ImportsListed ==
    \A b \in Busids : importer[b] # NoConn =>
        importer[b] \in listed \/ bridge[importer[b]] \in {"closing", "closed"}

\* A client that has gone, or is dead, does not keep its device, although usbipd
\* may never close its end (the ghost sessions of the comment in bridge).
GoneLetGo ==
    \A c \in Conns : (client[c] # "on" /\ Imports(c)) ~> ~Imports(c)

\* Nor does it stay in the table, unless it was recorded after close_session.
GoneDelisted ==
    \A c \in Conns : (client[c] # "on" /\ c \in listed /\ bridge[c] = "open") ~> c \notin listed
=============================================================================
