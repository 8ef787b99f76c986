-------------------------- MODULE AttachedViewProps --------------------------
(***************************************************************************)
(* What the client claims, against what it has.                            *)
(***************************************************************************)
EXTENDS AttachedView

\* Something about the device is under way to the user interface.
Underway(d) ==
    \/ d \in work.dev \/ closing[d] > 0
    \/ About(events, d) \/ About(posted, d)
    \/ gui.step = "set" \/ d \in gui.dev

\* A device the client takes for attached is attached, or the event that corrects
\* it is under way: whatever events of failed attempts do (mgmt_note_state), however
\* long the reads waited behind an attach, and although a list of events that is
\* full loses its first one (process_event).
NoGhosts == \A d \in Devices :
    HostOf(d) = host /\ BusidOf(d) \in view => d \in hub \cup stale \/ Underway(d)

Alive == reader # "off"
\* Whoever keeps a device is in the end reported as its holder, even if it was attached
\* before the client started, if attempts at it failed meanwhile, or if the driver did not
\* answer when it was asked (mgmt_sync_attached).
HeldIsClaimed == \A d \in Devices :
    <>[](Alive /\ host = HostOf(d) /\ d \in hub) => <>[](BusidOf(d) \in view)

\* Whoever has given a device up is in the end no longer reported as its holder: no event
\* stays in the driver while a read waits for one (device_read).
GoneIsNotClaimed == \A d \in Devices :
    <>[](Alive /\ host = HostOf(d) /\ d \notin hub \cup stale) => <>[](BusidOf(d) \notin view)
=============================================================================
