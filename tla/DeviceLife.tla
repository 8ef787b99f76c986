----------------------------- MODULE DeviceLife -----------------------------
(***************************************************************************)
(* The life of a virtual device: it is connected, gets a port nobody has,  *)
(* and is plugged there; it is told to leave once, and then gives back the *)
(* connection, the port and the plug, in this order.  A device that was    *)
(* left plugged has given back everything else, and begins no new life;    *)
(* one that never got a port may just drop its connection.                 *)
(***************************************************************************)
EXTENDS Naturals

CONSTANTS Devices, Ports, NoDevice

VARIABLES
    connected,   \* devices with a session
    slot,        \* the device of each port
    plugged,     \* the port a device is plugged on, 0 for none
    leaving      \* devices that are being detached

vars == <<connected, slot, plugged, leaving>>

Init ==
    /\ connected = {} /\ leaving = {}
    /\ slot = [p \in Ports |-> NoDevice]
    /\ plugged = [d \in Devices |-> 0]

Portless(d) == \A p \in Ports : slot[p] # d

Connect(d) ==
    /\ d \notin connected \cup leaving
    /\ Portless(d) /\ plugged[d] = 0
    /\ connected' = connected \cup {d}
    /\ UNCHANGED <<slot, plugged, leaving>>

Occupy(d, p) ==
    /\ d \in connected \ leaving
    /\ Portless(d) /\ slot[p] = NoDevice
    /\ slot' = [slot EXCEPT ![p] = d]
    /\ UNCHANGED <<connected, plugged, leaving>>

Plug(d, p) ==
    /\ d \in connected \ leaving
    /\ slot[p] = d /\ plugged[d] = 0
    /\ \A e \in Devices : plugged[e] # p
    /\ plugged' = [plugged EXCEPT ![d] = p]
    /\ UNCHANGED <<connected, slot, leaving>>

Leave(d) ==
    /\ d \in connected \ leaving
    /\ leaving' = leaving \cup {d}
    /\ UNCHANGED <<connected, slot, plugged>>

Disconnect(d) ==
    /\ d \in connected \cap leaving
    /\ connected' = connected \ {d}
    /\ UNCHANGED <<slot, plugged, leaving>>

\* Its life ends before it had a port.
Drop(d) ==
    /\ d \in connected \ leaving
    /\ Portless(d) /\ plugged[d] = 0
    /\ connected' = connected \ {d}
    /\ UNCHANGED <<slot, plugged, leaving>>

Vacate(d, p) ==
    /\ d \in leaving \ connected
    /\ slot[p] = d
    /\ slot' = [slot EXCEPT ![p] = NoDevice]
    /\ UNCHANGED <<connected, plugged, leaving>>

\* The device is gone, plugged or not.
Delete(d) ==
    /\ d \in leaving \ connected
    /\ Portless(d)
    /\ plugged' = [plugged EXCEPT ![d] = 0]
    /\ leaving' = leaving \ {d}
    /\ UNCHANGED <<connected, slot>>

Next ==
    \E d \in Devices :
        \/ Connect(d) \/ Leave(d) \/ Disconnect(d) \/ Drop(d) \/ Delete(d)
        \/ \E p \in Ports : Occupy(d, p) \/ Plug(d, p) \/ Vacate(d, p)

Spec == Init /\ [][Next]_vars
=============================================================================
