----------------------- MODULE GatewaySessions_proofs -----------------------
(***************************************************************************)
(* Proofs about GatewaySessions, for any set of connections and devices.   *)
(*                                                                         *)
(* ImportsListed is not inductive: Forward hands a device over without     *)
(* looking at the table.  It relies on record_import, some steps earlier,  *)
(* and on nobody having removed the entry since, unless by close_session:  *)
(* that is Recorded.  Imported is needed when the gateway restarts.        *)
(***************************************************************************)
EXTENDS GatewaySessionsProps, TLAPS

\* What is about to be forwarded is in the table, as long as the bridge is open.
Recorded ==
    \A c \in Conns :
        /\ bridge[c] = "none" => up[c] = "head"
        /\ up[c] = "recorded" /\ bridge[c] = "open" => c \in listed

\* Whoever imports has been connected.
Imported == \A b \in Busids : importer[b] # NoConn => bridge[importer[b]] # "none"

IInv == TypeOK /\ Recorded /\ Imported /\ ImportsListed

-----------------------------------------------------------------------------
LEMMA InitIInv == Init => IInv
BY ConnsAssumption DEF Init, IInv, TypeOK, Recorded, Imported, ImportsListed

\* One step of the thread client -> usbipd.
LEMMA UpKeepsIInv ==
    ASSUME IInv, NEW c \in Conns, Sniff(c) \/ RecordImport(c) \/ Forward(c) \/ UpEnds(c)
    PROVE  IInv'
<1> USE ConnsAssumption DEF peers
<1>1. CASE Sniff(c)
    BY <1>1 DEF Sniff, Usable, IInv, TypeOK, Recorded, Imported, ImportsListed
<1>2. CASE RecordImport(c)
    BY <1>2 DEF RecordImport, IInv, TypeOK, Recorded, Imported, ImportsListed
<1>3. CASE Forward(c)
    <2>1. TypeOK'
        BY <1>3 DEF Forward, Granted, Usable, IInv, TypeOK
    <2>2. Recorded'
        BY <1>3 DEF Forward, IInv, TypeOK, Recorded
    <2>3. c \in listed \/ bridge[c] = "closing"
        BY <1>3 DEF Forward, Usable, IInv, Recorded
    <2>4. Imported'
        BY <1>3 DEF Forward, Granted, Usable, IInv, TypeOK, Imported
    <2>5. ImportsListed'
        BY <1>3, <2>3 DEF Forward, Granted, IInv, TypeOK, ImportsListed
    <2> QED
        BY <2>1, <2>2, <2>4, <2>5 DEF IInv
<1>4. CASE UpEnds(c)
    BY <1>4 DEF UpEnds, IInv, TypeOK, Recorded, Imported, ImportsListed
<1> QED
    BY <1>1, <1>2, <1>3, <1>4

\* One step of bridge().
LEMMA BridgeKeepsIInv ==
    ASSUME IInv, NEW c \in Conns, Open(c) \/ CloseSession(c) \/ Shutdown(c)
    PROVE  IInv'
<1> USE ConnsAssumption DEF peers
<1>1. CASE Open(c)
    <2>1. up[c] = "head"
        BY <1>1 DEF Open, IInv, Recorded
    <2>2. TypeOK' /\ Recorded' /\ Imported'
        BY <1>1, <2>1 DEF Open, IInv, TypeOK, Recorded, Imported
    <2>3. ImportsListed'
        BY <1>1 DEF Open, IInv, TypeOK, Imported, ImportsListed
    <2> QED
        BY <2>2, <2>3 DEF IInv
<1>2. CASE CloseSession(c)
    <2>1. TypeOK' /\ Recorded' /\ Imported'
        BY <1>2 DEF CloseSession, IInv, TypeOK, Recorded, Imported
    <2>2. ImportsListed'
        BY <1>2 DEF CloseSession, IInv, TypeOK, ImportsListed
    <2> QED
        BY <2>1, <2>2 DEF IInv
<1>3. CASE Shutdown(c)
    BY <1>3 DEF Shutdown, IInv, TypeOK, Recorded, Imported, ImportsListed
<1> QED
    BY <1>1, <1>2, <1>3

\* The gateway starts with an empty table, and every connection is closed.
LEMMA RestartKeepsIInv ==
    ASSUME IInv, Restart
    PROVE  IInv'
<1>1. TypeOK' /\ Recorded' /\ Imported'
    BY ConnsAssumption DEF Restart, peers, IInv, TypeOK, Recorded, Imported
<1>2. ImportsListed'
    BY ConnsAssumption DEF Restart, IInv, TypeOK, Imported, ImportsListed
<1> QED
    BY <1>1, <1>2 DEF IInv

\* The other direction, the clients, usbipd and the kernel.
LEMMA OthersKeepIInv ==
    ASSUME IInv, NEW c \in Conns,
           DownEnds(c) \/ Disconnects(c) \/ Dies(c) \/ KernelEnds(c) \/ Closes(c)
    PROVE  IInv'
<1> USE ConnsAssumption DEF peers, threads
<1>1. CASE DownEnds(c)
    BY <1>1 DEF DownEnds, IInv, TypeOK, Recorded, Imported, ImportsListed
<1>2. CASE Disconnects(c) \/ Dies(c)
    BY <1>2 DEF Disconnects, Dies, Leaves, IInv, TypeOK, Recorded, Imported, ImportsListed
<1>3. CASE KernelEnds(c)
    BY <1>3 DEF KernelEnds, Imports, IInv, TypeOK, Recorded, Imported, ImportsListed
<1>4. CASE Closes(c)
    BY <1>4 DEF Closes, IInv, TypeOK, Recorded, Imported, ImportsListed
<1> QED
    BY <1>1, <1>2, <1>3, <1>4

LEMMA UnboundKeepsIInv ==
    ASSUME IInv, NEW b \in Busids, Unbound(b)
    PROVE  IInv'
BY ConnsAssumption DEF Unbound, peers, threads, IInv, TypeOK, Recorded, Imported, ImportsListed

LEMMA NextIInv == IInv /\ [Next]_vars => IInv'
<1> SUFFICES ASSUME IInv, [Next]_vars PROVE IInv'
    OBVIOUS
<1>1. CASE UNCHANGED vars
    BY <1>1 DEF vars, threads, peers, IInv, TypeOK, Recorded, Imported, ImportsListed
<1>2. ASSUME NEW c \in Conns,
             Open(c) \/ Sniff(c) \/ Relays(c) \/ DownEnds(c)
               \/ Disconnects(c) \/ Dies(c) \/ KernelEnds(c) \/ Closes(c)
      PROVE  IInv'
    BY <1>2, UpKeepsIInv, BridgeKeepsIInv, OthersKeepIInv DEF Relays
<1>3. CASE Next
    BY <1>2, <1>3, UnboundKeepsIInv, RestartKeepsIInv DEF Next
<1> QED
    BY <1>1, <1>3

LEMMA Invariance == Spec => []IInv
BY InitIInv, NextIInv, PTL DEF Spec

\* In every reachable state the variables have their types, an import belongs to
\* a connection that asked for the device, and an entry to one that was sniffed.
THEOREM TypeCorrect == Spec => []TypeOK
<1>1. IInv => TypeOK
    BY DEF IInv
<1> QED
    BY <1>1, Invariance, PTL

\* Whoever has a device is in the table of sessions, or its connection is being
\* closed (relay_client_usbip records before it forwards).
THEOREM WhoImportsIsListed == Spec => []ImportsListed
<1>1. IInv => ImportsListed
    BY DEF IInv
<1> QED
    BY <1>1, Invariance, PTL
=============================================================================
