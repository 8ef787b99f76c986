----------------------------- MODULE SendQueue ------------------------------
(***************************************************************************)
(* The hand-off of commands to the socket of a device without a lock       *)
(* (drivers/ude/device_ioctl.cpp, send and send_pending).  Any number of   *)
(* threads push commands on an SLIST; one of them at a time owns "sending" *)
(* and calls WskSend for everybody.                                        *)
(*                                                                         *)
(* A step is one interlocked operation, one look at the SLIST, or one call *)
(* of WskSend.  A completion that calls send inside WskSend is a thread of *)
(* its own, because it leaves the loop it interrupts alone.                *)
(***************************************************************************)
EXTENDS Naturals, SequencesExt

CONSTANTS
    Threads,
    Commands     \* a wsk_context each: pushed once in a behaviour

VARIABLES
    pendingSends,   \* the SLIST, the command pushed last comes first
    sending,        \* the flag of device_ctx
    at,             \* where a thread is
    batch,          \* its local list, not yet sent
    sent            \* commands given to WskSend

handoff == <<pendingSends, sending, at, batch, sent>>

\* Outside; before the exchange that claims, the flush, a WskSend, the exchange
\* that releases, and the last look at the SLIST.
Places == {"out", "claim", "flush", "send", "release", "look"}

HandoffTypeOK ==
    /\ pendingSends \in Seq(Commands)
    /\ sending \in BOOLEAN
    /\ at \in [Threads -> Places]
    /\ batch \in [Threads -> Seq(Commands)]
    /\ sent \in Seq(Commands)

Pushed ==
    Range(pendingSends) \cup Range(sent) \cup UNION {Range(batch[t]) : t \in Threads}

HandoffInit ==
    /\ pendingSends = <<>>
    /\ sending = FALSE
    /\ at = [t \in Threads |-> "out"]
    /\ batch = [t \in Threads |-> <<>>]
    /\ sent = <<>>

-----------------------------------------------------------------------------
\* send: InterlockedPushEntrySList.
Push(t, c) ==
    /\ at[t] = "out"
    /\ c \notin Pushed
    /\ pendingSends' = <<c>> \o pendingSends
    /\ at' = [at EXCEPT ![t] = "claim"]
    /\ UNCHANGED <<sending, batch, sent>>

\* Mutant of Claim: the winner is not excluded.
ClaimShared(t) ==
    /\ at[t] = "claim"
    /\ sending' = TRUE
    /\ at' = [at EXCEPT ![t] = "flush"]
    /\ UNCHANGED <<pendingSends, batch, sent>>

\* InterlockedExchange(&dev.sending, true): who finds it set leaves.
Claim(t) ==
    /\ at[t] = "claim"
    /\ sending' = TRUE
    /\ at' = [at EXCEPT ![t] = IF sending THEN "out" ELSE "flush"]
    /\ UNCHANGED <<pendingSends, batch, sent>>

\* libdrv::reverse of what InterlockedFlushSList returns.
Taken == Reverse(pendingSends)

Flush(t) ==
    /\ at[t] = "flush"
    /\ batch' = [batch EXCEPT ![t] = Taken]
    /\ pendingSends' = <<>>
    /\ at' = [at EXCEPT ![t] = IF pendingSends = <<>> THEN "release" ELSE "send"]
    /\ UNCHANGED <<sending, sent>>

\* WskSend of the next command of the batch.
Send(t) ==
    /\ at[t] = "send"
    /\ sent' = Append(sent, Head(batch[t]))
    /\ batch' = [batch EXCEPT ![t] = Tail(batch[t])]
    /\ at' = [at EXCEPT ![t] = IF Tail(batch[t]) = <<>> THEN "release" ELSE "send"]
    /\ UNCHANGED <<pendingSends, sending>>

\* Mutant of Release: nobody looks at the SLIST again.
ReleaseAndLeave(t) ==
    /\ at[t] = "release"
    /\ sending' = FALSE
    /\ at' = [at EXCEPT ![t] = "out"]
    /\ UNCHANGED <<pendingSends, batch, sent>>

\* InterlockedExchange(&dev.sending, false).
Release(t) ==
    /\ at[t] = "release"
    /\ sending' = FALSE
    /\ at' = [at EXCEPT ![t] = "look"]
    /\ UNCHANGED <<pendingSends, batch, sent>>

\* Mutant of Look: the owner looks for another owner instead of the SLIST.
LookForOwner(t) ==
    /\ at[t] = "look"
    /\ at' = [at EXCEPT ![t] = IF sending THEN "claim" ELSE "out"]
    /\ UNCHANGED <<pendingSends, sending, batch, sent>>

\* The condition of the loop: with commands on the SLIST, claim again.
Look(t) ==
    /\ at[t] = "look"
    /\ at' = [at EXCEPT ![t] = IF pendingSends = <<>> THEN "out" ELSE "claim"]
    /\ UNCHANGED <<pendingSends, sending, batch, sent>>

-----------------------------------------------------------------------------
SendPending(t) == Claim(t) \/ Flush(t) \/ Send(t) \/ Release(t) \/ Look(t)

HandoffNext == \E t \in Threads : SendPending(t) \/ \E c \in Commands : Push(t, c)

HandoffSpec == HandoffInit /\ [][HandoffNext]_handoff

\* A thread that has entered send_pending runs on.
SendersRunOn == \A t \in Threads : WF_handoff(SendPending(t))

FairHandoffSpec == HandoffSpec /\ SendersRunOn

-----------------------------------------------------------------------------
\* Whenever commands wait on the SLIST, some thread will look there: the owner
\* of "sending", or one that is about to claim or to look again.
NoneStranded ==
    pendingSends # <<>> => sending \/ \E t \in Threads : at[t] \in {"claim", "look"}

\* The commands not yet given to the socket, in the order of their pushes.
Sender == CHOOSE t \in Threads : at[t] = "send"
Waiting ==
    (IF \E t \in Threads : at[t] = "send" THEN batch[Sender] ELSE <<>>) \o Reverse(pendingSends)

Channel == INSTANCE SendChannel WITH queue <- Waiting, wire <- sent

\* Commands reach the socket once each, in the order of the pushes, whichever
\* thread calls WskSend (send, send_pending).
InPushOrder == Channel!Spec

\* Every command that was pushed is given to the socket (send_pending).
EverythingSent == \A c \in Commands : (c \in Range(pendingSends)) ~> (c \in Range(sent))
=============================================================================
