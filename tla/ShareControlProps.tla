-------------------------- MODULE ShareControlProps --------------------------
(***************************************************************************)
(* What ShareControl promises.                                             *)
(***************************************************************************)
EXTENDS ShareControl

\* Whatever the server exports is in its file, once whoever bound it has recorded
\* it, however requests, starts and stops interleave: only what somebody bound by
\* hand, or what a failed call or a kill has parted from its record, is exported
\* without one (mutate_device, kick_device, bind_one).
ExportsRecorded == bound \subseteq managed \cup byHand \cup mishap \cup Pending

\* A start does not take the host off the network, even if it did not recognize the
\* adapter: if the default route was there before and its adapter is still plugged
\* in and not bound by hand, it is there when the servers start, unless usbip could
\* not unbind it again (the rollback in entrypoint.sh).
StartKeepsRoute ==
    [][phase # "up" /\ phase' = "up" /\ routeBefore /\ Uplink \in onBus \ byHand
         => RouteIn(onBus', bound') \/ Uplink \in mishap']_vars

\* One device that cannot be bound does not keep the others from being shared:
\* when a start that kept the route ends, each listed device is exported, or was
\* refused itself, or pulled out (bind_one returns 0).
StartBindsTheRest ==
    [][EndOfRound /\ ~(routeBefore /\ ~Route) => listed \ lapsed \subseteq bound']_vars

\* With USBIP_UNBIND_ON_EXIT, nothing the server has exported and recorded stays
\* exported when a stop ends, unless usbip could not unbind it (cleanup reads the
\* managed devices).
StopTidies == [][StopEnds /\ setting.unbind => bound' \subseteq byHand' \cup mishap']_vars

\* Every request is answered: no operation keeps COMMAND_LOCK, and none waits
\* for a lock it has (COMMAND_LOCK is not re-entrant, and set_device_hidden
\* calls mutate_device).
RequestsAnswered == \A j \in Jobs : (job[j] # Idle) ~> (job[j] = Idle)
=============================================================================
