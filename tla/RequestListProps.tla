-------------------------- MODULE RequestListProps --------------------------
(* What RequestList promises.                                               *)
EXTENDS RequestList

\* Requests the DPC has taken out of the queue and not completed yet.
Popped == {dpc[p] : p \in Processors} \cap Requests

\* The assertions of request_list.cpp (check_request_locked, init_request_ctx,
\* on_send_complete) hold of every request after every locked section, in every
\* order of the send's completion, the answer, the cancellation and the DPC.
AssertionsHold ==
    /\ cancelable \subseteq listed \ sendPending
    /\ responding \cap (listed \cup cancelable) = {}
    /\ terminal \cap (listed \cup cancelable \cup responding) = {}
    /\ Queued \subseteq terminal \ (sendPending \cup responding)
    /\ \A r \in Requests, s \in 1..MaxSeq : <<r, s>> \in wsk =>
            /\ r \in sendPending /\ seqnum[r] = s
            /\ r \in terminal \cup responding \cup listed
    /\ (listed \cup Queued \cup sendPending \cup responding) \subseteq held

\* A request in the completion queue never waits for nothing: the DPC is queued
\* or running, or a thread is about to queue it, although only the thread that
\* finds the queue empty queues the DPC, after it has released the lock.
DoorbellNotLost ==
    completions # <<>> => dpcQueued \/ rings > 0 \/ \E p \in Processors : dpc[p] # "idle"

\* No request is forgotten: whoever loses a race for it knows that somebody else
\* will complete it, and there is such a somebody.
NoneForgotten ==
    held \subseteq listed \cup sendPending \cup responding \cup due \cup unlinking
                   \cup Queued \cup Popped

\* Who uses the memory of a request, and how it is going to be completed.
UsesOf ==
    [r \in Requests |->
        {u \in {"send", "answer"} :
            \/ u = "send" /\ \E s \in 1..MaxSeq : <<r, s>> \in wsk
            \/ u = "answer" /\ receiver = r}]
OutcomeOf == [r \in Requests |-> IF r \in held \cap terminal THEN status[r] ELSE Pending]

Contract == INSTANCE RequestContract WITH
    Undecided <- Pending, uses <- UsesOf, outcome <- OutcomeOf

\* The driver implements the contract of a request: it goes back once, with the
\* outcome that was decided first, after WskSend and the copying of the answer
\* have let go of its buffer (send_complete, ret_submit, request_completion_dpc).
ContractKept == Contract!Spec

\* A request whose cancellation is asked for goes back, even if the server never
\* answers (send_complete, cancel, request_completion_dpc).
CancelledGoesBack == \A r \in Requests : (r \in asked) ~> (r \notin held)
=============================================================================
