---------------------------- MODULE RequestList -----------------------------
(***************************************************************************)
(* Transfer requests inside the driver (drivers/ude/request_list.cpp and   *)
(* its callers): a request is sent to the server and completed once, when  *)
(* WskSend is done with its buffer and the answer, the cancellation or the *)
(* failure of the send has decided how.                                    *)
(*                                                                         *)
(* A step is one section under requests_lock, one call into the framework, *)
(* or one return of it.  The flags of request_ctx are sets of requests.    *)
(* The seqnum is bounded by MaxSeq, the reuse of refused requests by       *)
(* MaxRings.                                                               *)
(***************************************************************************)
EXTENDS Naturals, Sequences

CONSTANTS
    Requests,     \* WDFREQUEST handles, which the framework reuses
    NoRequest,    \* WDF_NO_HANDLE
    Processors,   \* where the completion DPC can run
    MaxSeq,       \* commands sent in a behaviour
    MaxRings      \* refusals while so many DPCs are still to be queued

ASSUME RequestsAssumption ==
    NoRequest \notin Requests /\ Requests \cap {"idle", "loop"} = {}
ASSUME BoundsAssumption == MaxSeq \in Nat /\ MaxRings \in Nat \ {0}

VARIABLES
    \* the framework
    held,          \* requests given to the driver and not completed
    asked,         \* cancellation was asked for
    due,           \* EvtRequestCancel will be called
    wsk,           \* WskSend calls not completed: request and seqnum
    \* request_ctx
    seqnum,
    listed,        \* in device_ctx.requests
    cancelable,
    sendPending,   \* send_completion_pending
    responding,    \* response_in_progress
    terminal,
    status,        \* completion_status
    \* device_ctx
    lastSeq,       \* seqnum of the last command
    completions,   \* request_completions
    \* threads
    receiver,      \* the request whose answer is being copied
    unlinking,     \* requests in send_cmd_unlink_and_complete
    rings,         \* threads about to call WdfDpcEnqueue
    dpcQueued,     \* the DPC is in the queue of a processor
    dpc,           \* what the DPC does on a processor
    \* the server
    wire           \* commands it can still answer

framework == <<held, asked, due, wsk>>
flags     == <<seqnum, listed, cancelable, sendPending, responding, terminal, status>>
threads   == <<receiver, unlinking>>
delivery  == <<completions, rings>>
dpcs      == <<dpcQueued, dpc>>
vars      == <<framework, flags, lastSeq, threads, delivery, dpcs, wire>>

Outcomes == {"send_error", "cancelled", "answer", "refused"}
Pending  == "pending"

\* A DPC does not run, is in its loop, or completes a request.
DpcStates == {"idle", "loop"} \cup Requests

TypeOK ==
    /\ held \subseteq Requests /\ asked \subseteq Requests /\ due \subseteq Requests
    /\ wsk \subseteq Requests \X (1..MaxSeq)
    /\ seqnum \in [Requests -> 0..MaxSeq]
    /\ listed \subseteq Requests /\ cancelable \subseteq Requests
    /\ sendPending \subseteq Requests /\ responding \subseteq Requests
    /\ terminal \subseteq Requests
    /\ status \in [Requests -> Outcomes \cup {Pending}]
    /\ lastSeq \in 0..MaxSeq
    /\ completions \in Seq(Requests)
    /\ receiver \in Requests \cup {NoRequest}
    /\ unlinking \subseteq Requests
    /\ rings \in Nat
    /\ dpcQueued \in BOOLEAN
    /\ dpc \in [Processors -> DpcStates]
    /\ wire \subseteq 1..MaxSeq

Init ==
    /\ held = {} /\ asked = {} /\ due = {} /\ wsk = {}
    /\ seqnum = [r \in Requests |-> 0]
    /\ listed = {} /\ cancelable = {} /\ sendPending = {} /\ responding = {}
    /\ terminal = {} /\ status = [r \in Requests |-> Pending]
    /\ lastSeq = 0
    /\ completions = <<>>
    /\ receiver = NoRequest /\ unlinking = {}
    /\ rings = 0 /\ dpcQueued = FALSE
    /\ dpc = [p \in Processors |-> "idle"]
    /\ wire = {}

-----------------------------------------------------------------------------
Queued == {completions[i] : i \in DOMAIN completions}

\* Mutant of Ready: a request is completed while WskSend reads its buffer.
ReadyBeforeSent(r) ==
    /\ r \in terminal'
    /\ r \notin cancelable' \cup responding' \cup listed' \cup Queued

\* The condition of add_to_completion_queue_locked.
Ready(r) ==
    /\ r \in terminal'
    /\ r \notin cancelable' \cup sendPending' \cup responding' \cup listed' \cup Queued

\* Mutant of Rings: the queue is looked at after the insertion.
RingsAfterInsertion(r) == IF Append(completions, r) = <<>> THEN rings + 1 ELSE rings

\* The thread that finds the queue empty has to queue the DPC.
Rings(r) == IF completions = <<>> THEN rings + 1 ELSE rings

AddToCompletionQueue(r) ==
    IF Ready(r)
    THEN completions' = Append(completions, r) /\ rings' = Rings(r)
    ELSE UNCHANGED delivery

\* enqueue_for_completion: an earlier terminal status is preserved.
EnqueueForCompletion(r, s) ==
    /\ responding' = responding \ {r}
    /\ terminal' = terminal \cup {r}
    /\ status' = IF r \in terminal THEN status ELSE [status EXCEPT ![r] = s]
    /\ UNCHANGED <<seqnum, listed, cancelable, sendPending>>
    /\ AddToCompletionQueue(r)

-----------------------------------------------------------------------------
\* internal_control, send: the context is reset, the request listed, and the
\* command given to WskSend.
Submit(r) ==
    /\ r \notin held
    /\ lastSeq < MaxSeq
    /\ held' = held \cup {r}
    /\ lastSeq' = lastSeq + 1
    /\ seqnum' = [seqnum EXCEPT ![r] = lastSeq']
    /\ listed' = listed \cup {r}
    /\ sendPending' = sendPending \cup {r}
    /\ cancelable' = cancelable \ {r}
    /\ responding' = responding \ {r}
    /\ terminal' = terminal \ {r}
    /\ status' = [status EXCEPT ![r] = Pending]
    /\ wsk' = wsk \cup {<<r, lastSeq'>>}
    /\ wire' = wire \cup {lastSeq'}
    /\ UNCHANGED <<asked, due, threads, delivery, dpcs>>

\* internal_control and cancel_queued_request: the device is unplugged, the URB
\* is answered or refused on the spot, or the request was cancelled in its queue.
Refuse(r) ==
    /\ r \notin held
    /\ rings < MaxRings
    /\ held' = held \cup {r}
    /\ seqnum' = [seqnum EXCEPT ![r] = 0]
    /\ status' = [status EXCEPT ![r] = "refused"]
    /\ listed' = listed \ {r}
    /\ sendPending' = sendPending \ {r}
    /\ cancelable' = cancelable \ {r}
    /\ responding' = responding \ {r}
    /\ terminal' = terminal \cup {r}
    /\ AddToCompletionQueue(r)
    /\ UNCHANGED <<asked, due, wsk, lastSeq, threads, dpcs, wire>>

\* on_send_complete of a failed send: the answer that already owns the request
\* has precedence.
SendFailed(r, s) ==
    /\ <<r, s>> \in wsk
    /\ wsk' = wsk \ {<<r, s>>}
    /\ sendPending' = sendPending \ {r}
    /\ listed' = listed \ {r}
    /\ IF r \in terminal \cup responding
       THEN UNCHANGED <<terminal, status>>
       ELSE /\ terminal' = terminal \cup {r}
            /\ status' = [status EXCEPT ![r] = "send_error"]
    /\ UNCHANGED <<seqnum, cancelable, responding>>
    /\ AddToCompletionQueue(r)
    /\ UNCHANGED <<held, asked, due, lastSeq, threads, dpcs, wire>>

\* on_send_complete: the answer came first.
SentAfterAnswer(r, s) ==
    /\ <<r, s>> \in wsk
    /\ r \in terminal \cup responding
    /\ wsk' = wsk \ {<<r, s>>}
    /\ sendPending' = sendPending \ {r}
    /\ UNCHANGED <<seqnum, listed, cancelable, responding, terminal, status>>
    /\ AddToCompletionQueue(r)
    /\ UNCHANGED <<held, asked, due, lastSeq, threads, dpcs, wire>>

\* on_send_complete: from now on the framework may cancel the request.
SentMarkCancelable(r, s) ==
    /\ <<r, s>> \in wsk
    /\ r \in listed \ (asked \cup terminal \cup responding)
    /\ wsk' = wsk \ {<<r, s>>}
    /\ sendPending' = sendPending \ {r}
    /\ cancelable' = cancelable \cup {r}
    /\ UNCHANGED <<seqnum, listed, responding, terminal, status>>
    /\ AddToCompletionQueue(r)
    /\ UNCHANGED <<held, asked, due, lastSeq, threads, dpcs, wire>>

\* Mutant of SentCancelled: the result of WdfRequestMarkCancelableEx is ignored.
SentUnheeded(r, s) ==
    /\ <<r, s>> \in wsk
    /\ r \in (listed \cap asked) \ (terminal \cup responding)
    /\ wsk' = wsk \ {<<r, s>>}
    /\ sendPending' = sendPending \ {r}
    /\ cancelable' = cancelable \cup {r}
    /\ UNCHANGED <<seqnum, listed, responding, terminal, status>>
    /\ AddToCompletionQueue(r)
    /\ UNCHANGED <<held, asked, due, lastSeq, threads, dpcs, wire>>

\* on_send_complete: WdfRequestMarkCancelableEx says STATUS_CANCELLED, and
\* send_complete goes on to send_cmd_unlink_and_complete.
SentCancelled(r, s) ==
    /\ <<r, s>> \in wsk
    /\ r \in (listed \cap asked) \ (terminal \cup responding)
    /\ wsk' = wsk \ {<<r, s>>}
    /\ sendPending' = sendPending \ {r}
    /\ listed' = listed \ {r}
    /\ unlinking' = unlinking \cup {r}
    /\ UNCHANGED <<seqnum, cancelable, responding, terminal, status>>
    /\ AddToCompletionQueue(r)
    /\ UNCHANGED <<held, asked, due, lastSeq, receiver, dpcs, wire>>

\* The framework cancels a request of the driver (its sender gave up, or
\* WdfIoQueuePurge); a cancelable one gets its callback.
AskCancel(r) ==
    /\ r \in held \ asked
    /\ asked' = asked \cup {r}
    /\ due' = IF r \in cancelable THEN due \cup {r} ELSE due
    /\ UNCHANGED <<held, wsk, flags, lastSeq, threads, delivery, dpcs, wire>>

\* cancel, up to the end of the locked section.
Cancel(r) ==
    /\ r \in due
    /\ due' = due \ {r}
    /\ listed' = listed \ {r}
    /\ cancelable' = cancelable \ {r}
    /\ unlinking' = unlinking \cup {r}
    /\ UNCHANGED <<held, asked, wsk, seqnum, sendPending, responding, terminal, status,
                   lastSeq, receiver, delivery, dpcs, wire>>

\* The end of send_cmd_unlink_and_complete.
UnlinkAndComplete(r) ==
    /\ r \in unlinking
    /\ unlinking' = unlinking \ {r}
    /\ EnqueueForCompletion(r, "cancelled")
    /\ UNCHANGED <<framework, lastSeq, receiver, dpcs, wire>>

\* Mutants of Unmark: STATUS_CANCELLED is ignored; every failure is assumed.
UnmarkAlways(r) == TRUE
UnmarkNever(r) == FALSE

\* WdfRequestUnmarkCancelable: the callback is not going to run.
Unmark(r) == r \notin due

\* find_sent_request for an answer with seqnum s: the request of that seqnum, if
\* it is still listed, belongs to the answer unless its cancellation is due.
Receive(s) ==
    /\ receiver = NoRequest
    /\ s \in wire
    /\ wire' = wire \ {s}
    /\ LET found == {r \in listed : seqnum[r] = s}
           won   == {r \in found : r \in cancelable => Unmark(r)}
       IN /\ listed' = listed \ found
          /\ cancelable' = cancelable \ found
          /\ responding' = responding \cup won
          /\ receiver' = IF won = {} THEN NoRequest ELSE CHOOSE r \in won : TRUE
    /\ UNCHANGED <<framework, seqnum, sendPending, terminal, status, lastSeq, unlinking,
                   delivery, dpcs>>

\* ret_submit has copied the answer (or failed to), enqueue_for_completion.
Respond ==
    /\ receiver # NoRequest
    /\ receiver' = NoRequest
    /\ EnqueueForCompletion(receiver, "answer")
    /\ UNCHANGED <<framework, lastSeq, unlinking, dpcs, wire>>

-----------------------------------------------------------------------------
\* WdfDpcEnqueue, after the lock was released.
Ring ==
    /\ rings > 0
    /\ rings' = rings - 1
    /\ dpcQueued' = TRUE
    /\ UNCHANGED <<framework, flags, lastSeq, threads, completions, dpc, wire>>

DpcStart(p) ==
    /\ dpcQueued
    /\ dpc[p] = "idle"
    /\ dpcQueued' = FALSE
    /\ dpc' = [dpc EXCEPT ![p] = "loop"]
    /\ UNCHANGED <<framework, flags, lastSeq, threads, delivery, wire>>

\* The locked section of request_completion_dpc.
DpcPop(p) ==
    /\ dpc[p] = "loop"
    /\ IF completions = <<>>
       THEN dpc' = [dpc EXCEPT ![p] = "idle"] /\ UNCHANGED completions
       ELSE dpc' = [dpc EXCEPT ![p] = Head(completions)] /\ completions' = Tail(completions)
    /\ UNCHANGED <<framework, flags, lastSeq, threads, rings, dpcQueued, wire>>

\* complete: the request goes back and may come again.
DpcComplete(p) ==
    /\ dpc[p] \in Requests
    /\ held' = held \ {dpc[p]}
    /\ asked' = asked \ {dpc[p]}
    /\ dpc' = [dpc EXCEPT ![p] = "loop"]
    /\ UNCHANGED <<due, wsk, flags, lastSeq, threads, delivery, dpcQueued, wire>>

-----------------------------------------------------------------------------
SendDone(r, s) ==
    SendFailed(r, s) \/ SentAfterAnswer(r, s) \/ SentMarkCancelable(r, s) \/ SentCancelled(r, s)

Next ==
    \/ \E r \in Requests :
        \/ Submit(r) \/ Refuse(r) \/ AskCancel(r) \/ Cancel(r) \/ UnlinkAndComplete(r)
        \/ \E s \in 1..MaxSeq : SendDone(r, s)
    \/ \E s \in 1..MaxSeq : Receive(s)
    \/ Respond
    \/ Ring
    \/ \E p \in Processors : DpcStart(p) \/ DpcPop(p) \/ DpcComplete(p)

Spec == Init /\ [][Next]_vars

\* WskSend completes, the framework calls what is due and runs queued DPCs, and
\* no thread of the driver stops.  The server need not answer.
Fairness ==
    /\ \A r \in Requests :
        /\ WF_vars(\E s \in 1..MaxSeq : SendDone(r, s))
        /\ WF_vars(Cancel(r))
        /\ WF_vars(UnlinkAndComplete(r))
    /\ WF_vars(Respond)
    /\ WF_vars(Ring)
    /\ WF_vars(\E p \in Processors : DpcStart(p))
    /\ \A p \in Processors : WF_vars(DpcPop(p) \/ DpcComplete(p))

FairSpec == Spec /\ Fairness
=============================================================================
