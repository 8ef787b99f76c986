------------------------- MODULE DeviceIoctl_proofs -------------------------
(***************************************************************************)
(* Proofs about the two halves of drivers/ude/device_ioctl.cpp.            *)
(*                                                                         *)
(* RequestList: its assertions, and that it implements RequestContract.    *)
(* SendQueue: no command is stranded, and the hand-off implements          *)
(* SendChannel.                                                            *)
(***************************************************************************)
EXTENDS RequestListProps, SendQueue, SequenceTheorems, TLAPS

\* Whatever refers to a request refers to one the driver has.
OnlyHeld ==
    /\ asked \subseteq held /\ due \subseteq asked
    /\ listed \subseteq held /\ sendPending \subseteq held /\ responding \subseteq held
    /\ unlinking \subseteq held /\ Queued \subseteq held /\ Popped \subseteq held

\* A WskSend is under way for exactly the requests that wait for it.
Sends ==
    /\ \A r \in Requests, s \in 1..MaxSeq :
            <<r, s>> \in wsk <=> r \in sendPending /\ seqnum[r] = s
    /\ \A r \in sendPending : seqnum[r] \in 1..MaxSeq

\* The receiver's request is the one whose response is in progress.
Receiving == \A r \in Requests : r \in responding <=> receiver = r

\* Answers find their request by its seqnum.
SeqnumsUnique ==
    /\ \A r \in Requests : seqnum[r] <= lastSeq
    /\ \A r, q \in listed : seqnum[r] = seqnum[q] => r = q

\* Only one party at a time is entitled to decide about a request.
OneOwner ==
    /\ cancelable \subseteq listed \ sendPending
    /\ listed \subseteq sendPending \cup cancelable
    /\ cancelable \cap asked \subseteq due
    /\ responding \cap listed = {}
    /\ due \cap (responding \cup sendPending \cup unlinking) = {}
    /\ unlinking \cap (listed \cup responding \cup sendPending) = {}
    /\ held \cap terminal \cap (listed \cup responding \cup due \cup unlinking) = {}
    /\ sendPending \subseteq listed \cup responding \cup terminal

NoRepeats == \A i, j \in DOMAIN completions : completions[i] = completions[j] => i = j

\* A request is in the hands of the DPC once.
OnceDelivered ==
    /\ Queued \cup Popped \subseteq terminal \ sendPending
    /\ Queued \cap Popped = {}
    /\ NoRepeats
    /\ \A p, q \in Processors : dpc[p] \in Requests /\ dpc[p] = dpc[q] => p = q

\* A request that waits for its completion has an outcome.
Decided == \A r \in held \cap terminal : status[r] \in Outcomes

IInv ==
    /\ TypeOK /\ OnlyHeld /\ Sends /\ Receiving /\ SeqnumsUnique /\ OneOwner
    /\ OnceDelivered /\ Decided /\ DoorbellNotLost /\ NoneForgotten

-----------------------------------------------------------------------------
(* The completion queue.                                                    *)

\* add_to_completion_queue_locked adds a ready request to the end and leaves
\* everything else; who finds the queue empty owes a WdfDpcEnqueue.
LEMMA Added ==
    ASSUME TypeOK, NoRepeats, NEW r \in Requests, AddToCompletionQueue(r)
    PROVE  /\ completions' \in Seq(Requests) /\ rings' \in Nat /\ rings <= rings'
           /\ Queued' = Queued \cup {q \in {r} : Ready(r)}
           /\ NoRepeats'
           /\ completions = <<>> /\ completions' # <<>> => rings' > 0
<1>1. CASE Ready(r)
  <2>1. completions' = Append(completions, r) /\ rings' = Rings(r)
    BY <1>1 DEF AddToCompletionQueue
  <2>2. completions \in Seq(Requests) /\ rings \in Nat
    BY DEF TypeOK
  <2>3. completions' \in Seq(Requests)
    BY <2>1, <2>2
  <2>4. rings' \in Nat /\ rings <= rings' /\ (completions = <<>> => rings' > 0)
    BY <2>1, <2>2 DEF Rings
  <2>5. Queued' = Queued \cup {r}
    BY <2>1, <2>2 DEF Queued
  <2>6. r \notin Queued
    BY <1>1 DEF Ready
  <2>7. NoRepeats'
    BY <2>1, <2>2, <2>6 DEF NoRepeats, Queued
  <2> QED
    BY <1>1, <2>3, <2>4, <2>5, <2>7
<1>2. CASE ~Ready(r)
  BY <1>2 DEF AddToCompletionQueue, delivery, TypeOK, NoRepeats, Queued
<1> QED
  BY <1>1, <1>2

\* request_completion_dpc takes the first request out.
LEMMA Removed ==
    ASSUME TypeOK, NoRepeats, completions # <<>>, completions' = Tail(completions)
    PROVE  /\ completions' \in Seq(Requests) /\ Head(completions) \in Requests
           /\ Queued' = Queued \ {Head(completions)}
           /\ Head(completions) \in Queued
           /\ NoRepeats'
<1>1. completions \in Seq(Requests)
  BY DEF TypeOK
<1>2. /\ completions' \in Seq(Requests) /\ Head(completions) \in Requests
      /\ Head(completions) = completions[1]
      /\ Len(completions) \in Nat \ {0}
      /\ DOMAIN completions = 1..Len(completions)
      /\ DOMAIN completions' = 1..(Len(completions) - 1)
      /\ \A i \in DOMAIN completions' : completions'[i] = completions[i + 1]
  BY <1>1
<1>3. Head(completions) \in Queued
  BY <1>2 DEF Queued
<1>4. NoRepeats'
  BY <1>2 DEF NoRepeats
<1>5. \A i \in DOMAIN completions' : completions'[i] \in Queued /\ completions'[i] # Head(completions)
  BY <1>2 DEF NoRepeats, Queued
<1>6. \A x \in Queued : x # Head(completions) => x \in Queued'
  <2> SUFFICES ASSUME NEW i \in DOMAIN completions, completions[i] # Head(completions)
               PROVE  completions[i] \in Queued'
    BY DEF Queued
  <2>1. i # 1 /\ i - 1 \in DOMAIN completions' /\ (i - 1) + 1 = i
    BY <1>2
  <2>2. completions'[i - 1] = completions[i]
    BY <2>1, <1>2
  <2> QED
    BY <2>1, <2>2 DEF Queued
<1>7. Queued' = Queued \ {Head(completions)}
  BY <1>5, <1>6 DEF Queued
<1> QED
  BY <1>2, <1>3, <1>4, <1>7

\* A new request: its seqnum is new, and nothing refers to it yet.
LEMMA SubmitInv ==
    ASSUME IInv, NEW r \in Requests, Submit(r)
    PROVE  IInv'
<1> USE BoundsAssumption, RequestsAssumption DEF IInv, Submit, threads, delivery, dpcs
<1>1. Queued' = Queued /\ (NoRepeats => NoRepeats')
  BY DEF Queued, NoRepeats
<1>2. Popped' = Popped
  BY DEF Popped
<1>3. TypeOK'
  BY <1>1, <1>2 DEF TypeOK, Outcomes, Pending, DpcStates
<1>4. OnlyHeld'
  BY <1>1, <1>2 DEF TypeOK, OnlyHeld, Sends, OneOwner
<1>5. Sends'
  BY <1>1, <1>2 DEF TypeOK, OnlyHeld, Sends, OneOwner
<1>6. Receiving'
  BY <1>1, <1>2 DEF TypeOK, OnlyHeld, Receiving, OneOwner
<1>7. SeqnumsUnique'
  BY <1>1, <1>2 DEF TypeOK, OnlyHeld, SeqnumsUnique
<1>8. OneOwner'
  BY <1>1, <1>2 DEF TypeOK, OnlyHeld, Sends, Receiving, OneOwner
<1>9. OnceDelivered'
  BY <1>1, <1>2 DEF TypeOK, OnlyHeld, Sends, OneOwner, OnceDelivered
<1>10. Decided'
  BY <1>1, <1>2 DEF TypeOK, OnlyHeld, Sends, OneOwner, OnceDelivered, Decided, Outcomes
<1>11. DoorbellNotLost'
  BY <1>1, <1>2 DEF DoorbellNotLost, TypeOK
<1>12. NoneForgotten'
  BY <1>1, <1>2 DEF TypeOK, OnlyHeld, Sends, OneOwner, OnceDelivered, NoneForgotten
<1> QED
  BY <1>3, <1>4, <1>5, <1>6, <1>7, <1>8, <1>9, <1>10, <1>11, <1>12

\* A refused request goes straight to the completion queue.
LEMMA RefuseInv ==
    ASSUME IInv, NEW r \in Requests, Refuse(r)
    PROVE  IInv'
<1> USE BoundsAssumption, RequestsAssumption DEF IInv, Refuse, threads, dpcs
<1>1. AddToCompletionQueue(r)
  OBVIOUS
<1>2. /\ completions' \in Seq(Requests) /\ rings' \in Nat /\ rings <= rings'
      /\ Queued' = Queued \cup {q \in {r} : Ready(r)}
      /\ NoRepeats'
      /\ completions = <<>> /\ completions' # <<>> => rings' > 0
  BY <1>1, Added DEF OnceDelivered
<1>3. Popped' = Popped
  BY DEF Popped
<1>4. TypeOK'
  BY <1>2, <1>3 DEF TypeOK, Outcomes, Pending, DpcStates, Ready
<1>5. OnlyHeld'
  BY <1>2, <1>3 DEF TypeOK, OnlyHeld, Sends, OneOwner, Ready
<1>6. Sends'
  BY <1>2, <1>3 DEF TypeOK, OnlyHeld, Sends, OneOwner, Ready
<1>7. Receiving'
  BY <1>2, <1>3 DEF TypeOK, OnlyHeld, Receiving, OneOwner, Ready
<1>8. SeqnumsUnique'
  BY <1>2, <1>3 DEF TypeOK, OnlyHeld, SeqnumsUnique, Ready
<1>9. OneOwner'
  BY <1>2, <1>3 DEF TypeOK, OnlyHeld, Sends, Receiving, OneOwner, Ready
<1>10. OnceDelivered'
  BY <1>2, <1>3 DEF TypeOK, OnlyHeld, Sends, OneOwner, OnceDelivered, Ready
<1>11. Decided'
  BY <1>2, <1>3 DEF TypeOK, OnlyHeld, Sends, OneOwner, OnceDelivered, Decided, Outcomes, Ready
<1>12. DoorbellNotLost'
  BY <1>2, <1>3 DEF DoorbellNotLost, TypeOK, Ready
<1>13. NoneForgotten'
  BY <1>2, <1>3 DEF TypeOK, OnlyHeld, Sends, OneOwner, OnceDelivered, NoneForgotten, Ready
<1> QED
  BY <1>4, <1>5, <1>6, <1>7, <1>8, <1>9, <1>10, <1>11, <1>12, <1>13

\* A failed send decides unless the answer has.
LEMMA SendFailedInv ==
    ASSUME IInv, NEW r \in Requests, NEW s \in 1..MaxSeq, SendFailed(r, s)
    PROVE  IInv'
<1> USE BoundsAssumption, RequestsAssumption DEF IInv, SendFailed, threads, dpcs
<1>1. AddToCompletionQueue(r)
  OBVIOUS
<1>2. /\ completions' \in Seq(Requests) /\ rings' \in Nat /\ rings <= rings'
      /\ Queued' = Queued \cup {q \in {r} : Ready(r)}
      /\ NoRepeats'
      /\ completions = <<>> /\ completions' # <<>> => rings' > 0
  BY <1>1, Added DEF OnceDelivered
<1>3. Popped' = Popped
  BY DEF Popped
<1>4. TypeOK'
  BY <1>2, <1>3 DEF TypeOK, Outcomes, Pending, DpcStates, Ready
<1>5. OnlyHeld'
  BY <1>2, <1>3 DEF TypeOK, OnlyHeld, Sends, OneOwner, Ready
<1>6. Sends'
  BY <1>2, <1>3 DEF TypeOK, OnlyHeld, Sends, OneOwner, Ready
<1>7. Receiving'
  BY <1>2, <1>3 DEF TypeOK, OnlyHeld, Receiving, OneOwner, Ready
<1>8. SeqnumsUnique'
  BY <1>2, <1>3 DEF TypeOK, OnlyHeld, SeqnumsUnique, Ready
<1>9. OneOwner'
  BY <1>2, <1>3 DEF TypeOK, OnlyHeld, Sends, Receiving, OneOwner, Ready
<1>10. OnceDelivered'
  BY <1>2, <1>3 DEF TypeOK, OnlyHeld, Sends, OneOwner, OnceDelivered, Ready
<1>11. Decided'
  BY <1>2, <1>3 DEF TypeOK, OnlyHeld, Sends, OneOwner, OnceDelivered, Decided, Outcomes, Ready
<1>12. DoorbellNotLost'
  BY <1>2, <1>3 DEF DoorbellNotLost, TypeOK, Ready
<1>13. NoneForgotten'
  BY <1>2, <1>3 DEF TypeOK, OnlyHeld, Sends, OneOwner, OnceDelivered, NoneForgotten, Ready
<1> QED
  BY <1>4, <1>5, <1>6, <1>7, <1>8, <1>9, <1>10, <1>11, <1>12, <1>13

\* The send was the last thing the request waited for.
LEMMA SentAfterAnswerInv ==
    ASSUME IInv, NEW r \in Requests, NEW s \in 1..MaxSeq, SentAfterAnswer(r, s)
    PROVE  IInv'
<1> USE BoundsAssumption, RequestsAssumption DEF IInv, SentAfterAnswer, threads, dpcs
<1>1. AddToCompletionQueue(r)
  OBVIOUS
<1>2. /\ completions' \in Seq(Requests) /\ rings' \in Nat /\ rings <= rings'
      /\ Queued' = Queued \cup {q \in {r} : Ready(r)}
      /\ NoRepeats'
      /\ completions = <<>> /\ completions' # <<>> => rings' > 0
  BY <1>1, Added DEF OnceDelivered
<1>3. Popped' = Popped
  BY DEF Popped
<1>4. TypeOK'
  BY <1>2, <1>3 DEF TypeOK, Outcomes, Pending, DpcStates, Ready
<1>5. OnlyHeld'
  BY <1>2, <1>3 DEF TypeOK, OnlyHeld, Sends, OneOwner, Ready
<1>6. Sends'
  BY <1>2, <1>3 DEF TypeOK, OnlyHeld, Sends, OneOwner, Ready
<1>7. Receiving'
  BY <1>2, <1>3 DEF TypeOK, OnlyHeld, Receiving, OneOwner, Ready
<1>8. SeqnumsUnique'
  BY <1>2, <1>3 DEF TypeOK, OnlyHeld, SeqnumsUnique, Ready
<1>9. OneOwner'
  BY <1>2, <1>3 DEF TypeOK, OnlyHeld, Sends, Receiving, OneOwner, Ready
<1>10. OnceDelivered'
  BY <1>2, <1>3 DEF TypeOK, OnlyHeld, Sends, OneOwner, OnceDelivered, Ready
<1>11. Decided'
  BY <1>2, <1>3 DEF TypeOK, OnlyHeld, Sends, OneOwner, OnceDelivered, Decided, Outcomes, Ready
<1>12. DoorbellNotLost'
  BY <1>2, <1>3 DEF DoorbellNotLost, TypeOK, Ready
<1>13. NoneForgotten'
  BY <1>2, <1>3 DEF TypeOK, OnlyHeld, Sends, OneOwner, OnceDelivered, NoneForgotten, Ready
<1> QED
  BY <1>4, <1>5, <1>6, <1>7, <1>8, <1>9, <1>10, <1>11, <1>12, <1>13

\* The request waits for its answer or its cancellation.
LEMMA SentMarkCancelableInv ==
    ASSUME IInv, NEW r \in Requests, NEW s \in 1..MaxSeq, SentMarkCancelable(r, s)
    PROVE  IInv'
<1> USE BoundsAssumption, RequestsAssumption DEF IInv, SentMarkCancelable, threads, dpcs
<1>1. AddToCompletionQueue(r)
  OBVIOUS
<1>2. /\ completions' \in Seq(Requests) /\ rings' \in Nat /\ rings <= rings'
      /\ Queued' = Queued \cup {q \in {r} : Ready(r)}
      /\ NoRepeats'
      /\ completions = <<>> /\ completions' # <<>> => rings' > 0
  BY <1>1, Added DEF OnceDelivered
<1>3. Popped' = Popped
  BY DEF Popped
<1>4. TypeOK'
  BY <1>2, <1>3 DEF TypeOK, Outcomes, Pending, DpcStates, Ready
<1>5. OnlyHeld'
  BY <1>2, <1>3 DEF TypeOK, OnlyHeld, Sends, OneOwner, Ready
<1>6. Sends'
  BY <1>2, <1>3 DEF TypeOK, OnlyHeld, Sends, OneOwner, Ready
<1>7. Receiving'
  BY <1>2, <1>3 DEF TypeOK, OnlyHeld, Receiving, OneOwner, Ready
<1>8. SeqnumsUnique'
  BY <1>2, <1>3 DEF TypeOK, OnlyHeld, SeqnumsUnique, Ready
<1>9. OneOwner'
  BY <1>2, <1>3 DEF TypeOK, OnlyHeld, Sends, Receiving, OneOwner, Ready
<1>10. OnceDelivered'
  BY <1>2, <1>3 DEF TypeOK, OnlyHeld, Sends, OneOwner, OnceDelivered, Ready
<1>11. Decided'
  BY <1>2, <1>3 DEF TypeOK, OnlyHeld, Sends, OneOwner, OnceDelivered, Decided, Outcomes, Ready
<1>12. DoorbellNotLost'
  BY <1>2, <1>3 DEF DoorbellNotLost, TypeOK, Ready
<1>13. NoneForgotten'
  BY <1>2, <1>3 DEF TypeOK, OnlyHeld, Sends, OneOwner, OnceDelivered, NoneForgotten, Ready
<1> QED
  BY <1>4, <1>5, <1>6, <1>7, <1>8, <1>9, <1>10, <1>11, <1>12, <1>13

\* send_complete takes the request over.
LEMMA SentCancelledInv ==
    ASSUME IInv, NEW r \in Requests, NEW s \in 1..MaxSeq, SentCancelled(r, s)
    PROVE  IInv'
<1> USE BoundsAssumption, RequestsAssumption DEF IInv, SentCancelled, dpcs
<1>1. AddToCompletionQueue(r)
  OBVIOUS
<1>2. /\ completions' \in Seq(Requests) /\ rings' \in Nat /\ rings <= rings'
      /\ Queued' = Queued \cup {q \in {r} : Ready(r)}
      /\ NoRepeats'
      /\ completions = <<>> /\ completions' # <<>> => rings' > 0
  BY <1>1, Added DEF OnceDelivered
<1>3. Popped' = Popped
  BY DEF Popped
<1>4. TypeOK'
  BY <1>2, <1>3 DEF TypeOK, Outcomes, Pending, DpcStates, Ready
<1>5. OnlyHeld'
  BY <1>2, <1>3 DEF TypeOK, OnlyHeld, Sends, OneOwner, Ready
<1>6. Sends'
  BY <1>2, <1>3 DEF TypeOK, OnlyHeld, Sends, OneOwner, Ready
<1>7. Receiving'
  BY <1>2, <1>3 DEF TypeOK, OnlyHeld, Receiving, OneOwner, Ready
<1>8. SeqnumsUnique'
  BY <1>2, <1>3 DEF TypeOK, OnlyHeld, SeqnumsUnique, Ready
<1>9. OneOwner'
  BY <1>2, <1>3 DEF TypeOK, OnlyHeld, Sends, Receiving, OneOwner, Ready
<1>10. OnceDelivered'
  BY <1>2, <1>3 DEF TypeOK, OnlyHeld, Sends, OneOwner, OnceDelivered, Ready
<1>11. Decided'
  BY <1>2, <1>3 DEF TypeOK, OnlyHeld, Sends, OneOwner, OnceDelivered, Decided, Outcomes, Ready
<1>12. DoorbellNotLost'
  BY <1>2, <1>3 DEF DoorbellNotLost, TypeOK, Ready
<1>13. NoneForgotten'
  BY <1>2, <1>3 DEF TypeOK, OnlyHeld, Sends, OneOwner, OnceDelivered, NoneForgotten, Ready
<1> QED
  BY <1>4, <1>5, <1>6, <1>7, <1>8, <1>9, <1>10, <1>11, <1>12, <1>13

\* The framework owes a callback for a cancelable request.
LEMMA AskCancelInv ==
    ASSUME IInv, NEW r \in Requests, AskCancel(r)
    PROVE  IInv'
<1> USE BoundsAssumption, RequestsAssumption DEF IInv, AskCancel, flags, threads, delivery, dpcs
<1>1. Queued' = Queued /\ (NoRepeats => NoRepeats')
  BY DEF Queued, NoRepeats
<1>2. Popped' = Popped
  BY DEF Popped
<1>3. TypeOK'
  BY <1>1, <1>2 DEF TypeOK, Outcomes, Pending, DpcStates
<1>4. OnlyHeld'
  BY <1>1, <1>2 DEF TypeOK, OnlyHeld, Sends, OneOwner
<1>5. Sends'
  BY <1>1, <1>2 DEF TypeOK, OnlyHeld, Sends, OneOwner
<1>6. Receiving'
  BY <1>1, <1>2 DEF TypeOK, OnlyHeld, Receiving, OneOwner
<1>7. SeqnumsUnique'
  BY <1>1, <1>2 DEF TypeOK, OnlyHeld, SeqnumsUnique
<1>8. OneOwner'
  BY <1>1, <1>2 DEF TypeOK, OnlyHeld, Sends, Receiving, OneOwner
<1>9. OnceDelivered'
  BY <1>1, <1>2 DEF TypeOK, OnlyHeld, Sends, OneOwner, OnceDelivered
<1>10. Decided'
  BY <1>1, <1>2 DEF TypeOK, OnlyHeld, Sends, OneOwner, OnceDelivered, Decided, Outcomes
<1>11. DoorbellNotLost'
  BY <1>1, <1>2 DEF DoorbellNotLost, TypeOK
<1>12. NoneForgotten'
  BY <1>1, <1>2 DEF TypeOK, OnlyHeld, Sends, OneOwner, OnceDelivered, NoneForgotten
<1> QED
  BY <1>3, <1>4, <1>5, <1>6, <1>7, <1>8, <1>9, <1>10, <1>11, <1>12

\* The callback takes the request over.
LEMMA CancelInv ==
    ASSUME IInv, NEW r \in Requests, Cancel(r)
    PROVE  IInv'
<1> USE BoundsAssumption, RequestsAssumption DEF IInv, Cancel, delivery, dpcs
<1>1. Queued' = Queued /\ (NoRepeats => NoRepeats')
  BY DEF Queued, NoRepeats
<1>2. Popped' = Popped
  BY DEF Popped
<1>3. TypeOK'
  BY <1>1, <1>2 DEF TypeOK, Outcomes, Pending, DpcStates
<1>4. OnlyHeld'
  BY <1>1, <1>2 DEF TypeOK, OnlyHeld, Sends, OneOwner
<1>5. Sends'
  BY <1>1, <1>2 DEF TypeOK, OnlyHeld, Sends, OneOwner
<1>6. Receiving'
  BY <1>1, <1>2 DEF TypeOK, OnlyHeld, Receiving, OneOwner
<1>7. SeqnumsUnique'
  BY <1>1, <1>2 DEF TypeOK, OnlyHeld, SeqnumsUnique
<1>8. OneOwner'
  BY <1>1, <1>2 DEF TypeOK, OnlyHeld, Sends, Receiving, OneOwner
<1>9. OnceDelivered'
  BY <1>1, <1>2 DEF TypeOK, OnlyHeld, Sends, OneOwner, OnceDelivered
<1>10. Decided'
  BY <1>1, <1>2 DEF TypeOK, OnlyHeld, Sends, OneOwner, OnceDelivered, Decided, Outcomes
<1>11. DoorbellNotLost'
  BY <1>1, <1>2 DEF DoorbellNotLost, TypeOK
<1>12. NoneForgotten'
  BY <1>1, <1>2 DEF TypeOK, OnlyHeld, Sends, OneOwner, OnceDelivered, NoneForgotten
<1> QED
  BY <1>3, <1>4, <1>5, <1>6, <1>7, <1>8, <1>9, <1>10, <1>11, <1>12

\* Whoever unlinked the request decides.
LEMMA UnlinkAndCompleteInv ==
    ASSUME IInv, NEW r \in Requests, UnlinkAndComplete(r)
    PROVE  IInv'
<1> USE BoundsAssumption, RequestsAssumption DEF IInv, UnlinkAndComplete, framework, dpcs
<1>1. AddToCompletionQueue(r)
  BY DEF EnqueueForCompletion
<1>2. /\ completions' \in Seq(Requests) /\ rings' \in Nat /\ rings <= rings'
      /\ Queued' = Queued \cup {q \in {r} : Ready(r)}
      /\ NoRepeats'
      /\ completions = <<>> /\ completions' # <<>> => rings' > 0
  BY <1>1, Added DEF OnceDelivered
<1>3. Popped' = Popped
  BY DEF Popped
<1>4. TypeOK'
  BY <1>2, <1>3 DEF TypeOK, Outcomes, Pending, DpcStates, Ready, EnqueueForCompletion
<1>5. OnlyHeld'
  BY <1>2, <1>3 DEF TypeOK, OnlyHeld, Sends, OneOwner, Ready, EnqueueForCompletion
<1>6. Sends'
  BY <1>2, <1>3 DEF TypeOK, OnlyHeld, Sends, OneOwner, Ready, EnqueueForCompletion
<1>7. Receiving'
  BY <1>2, <1>3 DEF TypeOK, OnlyHeld, Receiving, OneOwner, Ready, EnqueueForCompletion
<1>8. SeqnumsUnique'
  BY <1>2, <1>3 DEF TypeOK, OnlyHeld, SeqnumsUnique, Ready, EnqueueForCompletion
<1>9. OneOwner'
  BY <1>2, <1>3 DEF TypeOK, OnlyHeld, Sends, Receiving, OneOwner, Ready, EnqueueForCompletion
<1>10. OnceDelivered'
  BY <1>2, <1>3 DEF TypeOK, OnlyHeld, Sends, OneOwner, OnceDelivered, Ready, EnqueueForCompletion
<1>11. Decided'
  BY <1>2, <1>3 DEF TypeOK, OnlyHeld, Sends, OneOwner, OnceDelivered, Decided, Outcomes, Ready, EnqueueForCompletion
<1>12. DoorbellNotLost'
  BY <1>2, <1>3 DEF DoorbellNotLost, TypeOK, Ready, EnqueueForCompletion
<1>13. NoneForgotten'
  BY <1>2, <1>3 DEF TypeOK, OnlyHeld, Sends, OneOwner, OnceDelivered, NoneForgotten, Ready, EnqueueForCompletion
<1> QED
  BY <1>4, <1>5, <1>6, <1>7, <1>8, <1>9, <1>10, <1>11, <1>12, <1>13

\* The end of the response: it decides, the receiver is free again.
LEMMA RespondInv ==
    ASSUME IInv, Respond
    PROVE  IInv'
<1> USE BoundsAssumption, RequestsAssumption DEF IInv, Respond, framework, dpcs
<1>1. receiver \in Requests /\ receiver \in responding
  BY DEF TypeOK, Receiving
<1>2. AddToCompletionQueue(receiver)
  BY DEF EnqueueForCompletion
<1>3. /\ completions' \in Seq(Requests) /\ rings' \in Nat /\ rings <= rings'
      /\ Queued' = Queued \cup {q \in {receiver} : Ready(receiver)}
      /\ NoRepeats'
      /\ completions = <<>> /\ completions' # <<>> => rings' > 0
  BY <1>1, <1>2, Added DEF OnceDelivered
<1>4. Popped' = Popped
  BY DEF Popped
<1>5. TypeOK'
  BY <1>1, <1>3, <1>4 DEF TypeOK, Outcomes, Pending, DpcStates, Ready, EnqueueForCompletion
<1>6. OnlyHeld'
  BY <1>1, <1>3, <1>4 DEF TypeOK, OnlyHeld, Sends, OneOwner, Ready, EnqueueForCompletion
<1>7. Sends'
  BY <1>1, <1>3, <1>4 DEF TypeOK, OnlyHeld, Sends, OneOwner, Ready, EnqueueForCompletion
<1>8. Receiving'
  BY <1>1, <1>3, <1>4 DEF TypeOK, OnlyHeld, Receiving, OneOwner, Ready, EnqueueForCompletion
<1>9. SeqnumsUnique'
  BY <1>1, <1>3, <1>4 DEF TypeOK, OnlyHeld, SeqnumsUnique, Ready, EnqueueForCompletion
<1>10. OneOwner'
  BY <1>1, <1>3, <1>4 DEF TypeOK, OnlyHeld, Sends, Receiving, OneOwner, Ready, EnqueueForCompletion
<1>11. OnceDelivered'
  BY <1>1, <1>3, <1>4 DEF TypeOK, OnlyHeld, Sends, OneOwner, OnceDelivered, Ready, EnqueueForCompletion
<1>12. Decided'
  BY <1>1, <1>3, <1>4 DEF TypeOK, OnlyHeld, Sends, OneOwner, OnceDelivered, Decided, Outcomes, Ready, EnqueueForCompletion
<1>13. DoorbellNotLost'
  BY <1>1, <1>3, <1>4 DEF DoorbellNotLost, TypeOK, Ready, EnqueueForCompletion
<1>14. NoneForgotten'
  BY <1>1, <1>3, <1>4 DEF TypeOK, OnlyHeld, Sends, OneOwner, OnceDelivered, NoneForgotten, Ready, EnqueueForCompletion
<1> QED
  BY <1>5, <1>6, <1>7, <1>8, <1>9, <1>10, <1>11, <1>12, <1>13, <1>14

\* An answer takes at most one request, and none whose callback is due.
LEMMA ReceiveInv ==
    ASSUME IInv, NEW s \in 1..MaxSeq, Receive(s)
    PROVE  IInv'
<1> DEFINE found == {r \in listed : seqnum[r] = s}
           won   == {r \in found : r \in cancelable => Unmark(r)}
<1> USE BoundsAssumption, RequestsAssumption DEF IInv
<1>1. /\ receiver = NoRequest /\ wire' = wire \ {s}
      /\ listed' = listed \ found /\ cancelable' = cancelable \ found
      /\ responding' = responding \cup won
      /\ receiver' = IF won = {} THEN NoRequest ELSE CHOOSE r \in won : TRUE
      /\ UNCHANGED <<held, asked, due, wsk, seqnum, sendPending, terminal, status,
                     lastSeq, unlinking, completions, rings, dpcQueued, dpc>>
  BY DEF Receive, framework, delivery, dpcs
<1>2. /\ found \subseteq listed /\ won \subseteq found /\ listed \subseteq Requests
      /\ \A r, q \in found : r = q
  BY DEF SeqnumsUnique, TypeOK
<1>3. \A r \in found : r \in won <=> (r \in cancelable => r \notin due)
  BY DEF Unmark
<1>4. /\ won # {} => receiver' \in won /\ won = {receiver'}
      /\ won = {} => receiver' = NoRequest
  BY <1>1, <1>2
<1>5. responding = {}
  BY <1>1 DEF Receiving, TypeOK
<1>6. Queued' = Queued /\ Popped' = Popped /\ (NoRepeats => NoRepeats')
  BY <1>1 DEF Queued, Popped, NoRepeats
<1> HIDE DEF found, won
<1>7. TypeOK'
  BY <1>1, <1>2, <1>3, <1>4, <1>5, <1>6 DEF TypeOK, Outcomes, Pending, DpcStates
<1>8. OnlyHeld'
  BY <1>1, <1>2, <1>3, <1>4, <1>5, <1>6 DEF TypeOK, OnlyHeld, Sends, OneOwner
<1>9. Sends'
  BY <1>1, <1>2, <1>3, <1>4, <1>5, <1>6 DEF TypeOK, OnlyHeld, Sends, OneOwner
<1>10. Receiving'
  BY <1>1, <1>2, <1>3, <1>4, <1>5, <1>6 DEF TypeOK, OnlyHeld, Receiving, OneOwner
<1>11. SeqnumsUnique'
  BY <1>1, <1>2, <1>3, <1>4, <1>5, <1>6 DEF TypeOK, OnlyHeld, SeqnumsUnique
<1>12. OneOwner'
  BY <1>1, <1>2, <1>3, <1>4, <1>5, <1>6 DEF TypeOK, OnlyHeld, Sends, Receiving, OneOwner
<1>13. OnceDelivered'
  BY <1>1, <1>2, <1>3, <1>4, <1>5, <1>6 DEF TypeOK, OnlyHeld, Sends, OneOwner, OnceDelivered
<1>14. Decided'
  BY <1>1, <1>2, <1>3, <1>4, <1>5, <1>6 DEF TypeOK, OnlyHeld, Sends, OneOwner, OnceDelivered, Decided, Outcomes
<1>15. DoorbellNotLost'
  BY <1>1, <1>2, <1>3, <1>4, <1>5, <1>6 DEF DoorbellNotLost, TypeOK
<1>16. NoneForgotten'
  BY <1>1, <1>2, <1>3, <1>4, <1>5, <1>6 DEF TypeOK, OnlyHeld, Sends, OneOwner, OnceDelivered, NoneForgotten
<1> QED
  BY <1>7, <1>8, <1>9, <1>10, <1>11, <1>12, <1>13, <1>14, <1>15, <1>16

\* The doorbell rings: a queued DPC stands for the ring.
LEMMA RingInv ==
    ASSUME IInv, Ring
    PROVE  IInv'
<1> USE DEF IInv, Ring, framework, flags, threads
<1>1. Queued' = Queued /\ Popped' = Popped /\ (NoRepeats => NoRepeats')
  BY DEF Queued, Popped, NoRepeats
<1>2. TypeOK'
  BY <1>1 DEF TypeOK, Outcomes, Pending, DpcStates
<1>3. OnlyHeld'
  BY <1>1 DEF TypeOK, OnlyHeld, Sends, OneOwner
<1>4. Sends'
  BY <1>1 DEF TypeOK, OnlyHeld, Sends, OneOwner
<1>5. Receiving'
  BY <1>1 DEF TypeOK, OnlyHeld, Receiving, OneOwner
<1>6. SeqnumsUnique'
  BY <1>1 DEF TypeOK, OnlyHeld, SeqnumsUnique
<1>7. OneOwner'
  BY <1>1 DEF TypeOK, OnlyHeld, Sends, Receiving, OneOwner
<1>8. OnceDelivered'
  BY <1>1 DEF TypeOK, OnlyHeld, Sends, OneOwner, OnceDelivered
<1>9. Decided'
  BY <1>1 DEF TypeOK, OnlyHeld, Sends, OneOwner, OnceDelivered, Decided, Outcomes
<1>10. DoorbellNotLost'
  BY <1>1 DEF DoorbellNotLost, TypeOK
<1>11. NoneForgotten'
  BY <1>1 DEF TypeOK, OnlyHeld, Sends, OneOwner, OnceDelivered, NoneForgotten
<1> QED
  BY <1>2, <1>3, <1>4, <1>5, <1>6, <1>7, <1>8, <1>9, <1>10, <1>11

\* A running DPC stands for the queued one.
LEMMA DpcStartInv ==
    ASSUME IInv, NEW p \in Processors, DpcStart(p)
    PROVE  IInv'
<1> USE RequestsAssumption DEF IInv, DpcStart, framework, flags, threads, delivery
<1>1. Queued' = Queued /\ (NoRepeats => NoRepeats')
  BY DEF Queued, NoRepeats
<1>2. "loop" \in DpcStates /\ dpc' \in [Processors -> DpcStates]
  BY DEF TypeOK, DpcStates
<1>3. dpc'[p] = "loop" /\ \A q \in Processors : q # p => dpc'[q] = dpc[q]
  BY DEF TypeOK
<1>4. Popped' = Popped
  BY <1>3 DEF Popped
<1>5. TypeOK'
  BY <1>1, <1>2, <1>3, <1>4 DEF TypeOK, Outcomes, Pending, DpcStates
<1>6. OnlyHeld'
  BY <1>1, <1>2, <1>3, <1>4 DEF TypeOK, OnlyHeld, Sends, OneOwner
<1>7. Sends'
  BY <1>1, <1>2, <1>3, <1>4 DEF TypeOK, OnlyHeld, Sends, OneOwner
<1>8. Receiving'
  BY <1>1, <1>2, <1>3, <1>4 DEF TypeOK, OnlyHeld, Receiving, OneOwner
<1>9. SeqnumsUnique'
  BY <1>1, <1>2, <1>3, <1>4 DEF TypeOK, OnlyHeld, SeqnumsUnique
<1>10. OneOwner'
  BY <1>1, <1>2, <1>3, <1>4 DEF TypeOK, OnlyHeld, Sends, Receiving, OneOwner
<1>11. OnceDelivered'
  BY <1>1, <1>2, <1>3, <1>4 DEF TypeOK, OnlyHeld, Sends, OneOwner, OnceDelivered
<1>12. Decided'
  BY <1>1, <1>2, <1>3, <1>4 DEF TypeOK, OnlyHeld, Sends, OneOwner, OnceDelivered, Decided, Outcomes
<1>13. DoorbellNotLost'
  BY <1>1, <1>2, <1>3, <1>4 DEF DoorbellNotLost, TypeOK
<1>14. NoneForgotten'
  BY <1>1, <1>2, <1>3, <1>4 DEF TypeOK, OnlyHeld, Sends, OneOwner, OnceDelivered, NoneForgotten
<1> QED
  BY <1>5, <1>6, <1>7, <1>8, <1>9, <1>10, <1>11, <1>12, <1>13, <1>14

\* The first request of the queue passes into the hands of one DPC; a DPC goes
\* idle only when the queue is empty.
LEMMA DpcPopInv ==
    ASSUME IInv, NEW p \in Processors, DpcPop(p)
    PROVE  IInv'
<1> USE RequestsAssumption DEF IInv, DpcPop, framework, flags, threads
<1>1. CASE completions = <<>>
  <2>1. Queued' = Queued /\ (NoRepeats => NoRepeats')
    BY <1>1 DEF Queued, NoRepeats
  <2>2. dpc' \in [Processors -> DpcStates]
    BY <1>1 DEF TypeOK, DpcStates
  <2>3. dpc'[p] = "idle" /\ \A q \in Processors : q # p => dpc'[q] = dpc[q]
    BY <1>1 DEF TypeOK
  <2>4. Popped' = Popped
    BY <2>3 DEF Popped
  <2>5. TypeOK'
    BY <1>1, <2>1, <2>2, <2>3, <2>4 DEF TypeOK, Outcomes, Pending, DpcStates
  <2>6. OnlyHeld'
    BY <1>1, <2>1, <2>2, <2>3, <2>4 DEF TypeOK, OnlyHeld, Sends, OneOwner
  <2>7. Sends'
    BY <1>1, <2>1, <2>2, <2>3, <2>4 DEF TypeOK, OnlyHeld, Sends, OneOwner
  <2>8. Receiving'
    BY <1>1, <2>1, <2>2, <2>3, <2>4 DEF TypeOK, OnlyHeld, Receiving, OneOwner
  <2>9. SeqnumsUnique'
    BY <1>1, <2>1, <2>2, <2>3, <2>4 DEF TypeOK, OnlyHeld, SeqnumsUnique
  <2>10. OneOwner'
    BY <1>1, <2>1, <2>2, <2>3, <2>4 DEF TypeOK, OnlyHeld, Sends, Receiving, OneOwner
  <2>11. OnceDelivered'
    BY <1>1, <2>1, <2>2, <2>3, <2>4 DEF TypeOK, OnlyHeld, Sends, OneOwner, OnceDelivered
  <2>12. Decided'
    BY <1>1, <2>1, <2>2, <2>3, <2>4 DEF TypeOK, OnlyHeld, Sends, OneOwner, OnceDelivered, Decided, Outcomes
  <2>13. DoorbellNotLost'
    BY <1>1, <2>1, <2>2, <2>3, <2>4 DEF DoorbellNotLost, TypeOK
  <2>14. NoneForgotten'
    BY <1>1, <2>1, <2>2, <2>3, <2>4 DEF TypeOK, OnlyHeld, Sends, OneOwner, OnceDelivered, NoneForgotten
  <2> QED
    BY <2>5, <2>6, <2>7, <2>8, <2>9, <2>10, <2>11, <2>12, <2>13, <2>14
<1>2. CASE completions # <<>>
  <2>1. /\ completions' \in Seq(Requests) /\ Head(completions) \in Requests
        /\ Queued' = Queued \ {Head(completions)}
        /\ Head(completions) \in Queued
        /\ NoRepeats'
    BY <1>2, Removed DEF OnceDelivered
  <2>2. dpc' \in [Processors -> DpcStates]
    BY <1>2, <2>1 DEF TypeOK, DpcStates
  <2>3. /\ dpc'[p] = Head(completions) /\ dpc[p] = "loop"
        /\ \A q \in Processors : q # p => dpc'[q] = dpc[q]
    BY <1>2 DEF TypeOK
  <2>4. Popped' = Popped \cup {Head(completions)}
    BY <2>1, <2>3 DEF Popped
  <2>5. \A q \in Processors : dpc[q] \in Requests => dpc[q] \in Popped
    BY DEF Popped
  <2>6. TypeOK'
    BY <1>2, <2>1, <2>2, <2>3, <2>4, <2>5 DEF TypeOK, Outcomes, Pending, DpcStates
  <2>7. OnlyHeld'
    BY <1>2, <2>1, <2>2, <2>3, <2>4, <2>5 DEF TypeOK, OnlyHeld, Sends, OneOwner
  <2>8. Sends'
    BY <1>2, <2>1, <2>2, <2>3, <2>4, <2>5 DEF TypeOK, OnlyHeld, Sends, OneOwner
  <2>9. Receiving'
    BY <1>2, <2>1, <2>2, <2>3, <2>4, <2>5 DEF TypeOK, OnlyHeld, Receiving, OneOwner
  <2>10. SeqnumsUnique'
    BY <1>2, <2>1, <2>2, <2>3, <2>4, <2>5 DEF TypeOK, OnlyHeld, SeqnumsUnique
  <2>11. OneOwner'
    BY <1>2, <2>1, <2>2, <2>3, <2>4, <2>5 DEF TypeOK, OnlyHeld, Sends, Receiving, OneOwner
  <2>12. OnceDelivered'
    BY <1>2, <2>1, <2>2, <2>3, <2>4, <2>5 DEF TypeOK, OnlyHeld, Sends, OneOwner, OnceDelivered
  <2>13. Decided'
    BY <1>2, <2>1, <2>2, <2>3, <2>4, <2>5 DEF TypeOK, OnlyHeld, Sends, OneOwner, OnceDelivered, Decided, Outcomes
  <2>14. DoorbellNotLost'
    BY <1>2, <2>1, <2>2, <2>3, <2>4, <2>5 DEF DoorbellNotLost, TypeOK
  <2>15. NoneForgotten'
    BY <1>2, <2>1, <2>2, <2>3, <2>4, <2>5 DEF TypeOK, OnlyHeld, Sends, OneOwner, OnceDelivered, NoneForgotten
  <2> QED
    BY <2>6, <2>7, <2>8, <2>9, <2>10, <2>11, <2>12, <2>13, <2>14, <2>15
<1> QED
  BY <1>1, <1>2

\* The request goes back: nothing refers to it any more.
LEMMA DpcCompleteInv ==
    ASSUME IInv, NEW p \in Processors, DpcComplete(p)
    PROVE  IInv'
<1> USE RequestsAssumption DEF IInv, DpcComplete, flags, threads, delivery
<1>1. Queued' = Queued /\ (NoRepeats => NoRepeats')
  BY DEF Queued, NoRepeats
<1>2. dpc' \in [Processors -> DpcStates]
  BY DEF TypeOK, DpcStates
<1>3. dpc'[p] = "loop" /\ \A q \in Processors : q # p => dpc'[q] = dpc[q]
  BY DEF TypeOK
<1>4. dpc[p] \in Popped /\ Popped' = Popped \ {dpc[p]}
  BY <1>3 DEF Popped, OnceDelivered
<1>5. dpc[p] \in held \cap terminal /\ dpc[p] \notin Queued \cup sendPending
  BY <1>4 DEF OnlyHeld, OnceDelivered
<1>6. TypeOK'
  BY <1>1, <1>2, <1>3, <1>4, <1>5 DEF TypeOK, Outcomes, Pending, DpcStates
<1>7. OnlyHeld'
  BY <1>1, <1>2, <1>3, <1>4, <1>5 DEF TypeOK, OnlyHeld, Sends, OneOwner
<1>8. Sends'
  BY <1>1, <1>2, <1>3, <1>4, <1>5 DEF TypeOK, OnlyHeld, Sends, OneOwner
<1>9. Receiving'
  BY <1>1, <1>2, <1>3, <1>4, <1>5 DEF TypeOK, OnlyHeld, Receiving, OneOwner
<1>10. SeqnumsUnique'
  BY <1>1, <1>2, <1>3, <1>4, <1>5 DEF TypeOK, OnlyHeld, SeqnumsUnique
<1>11. OneOwner'
  BY <1>1, <1>2, <1>3, <1>4, <1>5 DEF TypeOK, OnlyHeld, Sends, Receiving, OneOwner
<1>12. OnceDelivered'
  BY <1>1, <1>2, <1>3, <1>4, <1>5 DEF TypeOK, OnlyHeld, Sends, OneOwner, OnceDelivered
<1>13. Decided'
  BY <1>1, <1>2, <1>3, <1>4, <1>5 DEF TypeOK, OnlyHeld, Sends, OneOwner, OnceDelivered, Decided, Outcomes
<1>14. DoorbellNotLost'
  BY <1>1, <1>2, <1>3, <1>4, <1>5 DEF DoorbellNotLost, TypeOK
<1>15. NoneForgotten'
  BY <1>1, <1>2, <1>3, <1>4, <1>5 DEF TypeOK, OnlyHeld, Sends, OneOwner, OnceDelivered, NoneForgotten
<1> QED
  BY <1>6, <1>7, <1>8, <1>9, <1>10, <1>11, <1>12, <1>13, <1>14, <1>15

-----------------------------------------------------------------------------
(* The invariant.                                                           *)

LEMMA InitInv == Init => IInv
<1> SUFFICES ASSUME Init PROVE IInv
  OBVIOUS
<1> USE BoundsAssumption, RequestsAssumption DEF Init
<1>1. Queued = {} /\ Popped = {}
  BY DEF Queued, Popped
<1>2. <<>> \in Seq(Requests) /\ 0 \in 0..MaxSeq
  OBVIOUS
<1>3. /\ seqnum \in [Requests -> 0..MaxSeq]
      /\ status \in [Requests -> Outcomes \cup {Pending}]
      /\ dpc \in [Processors -> DpcStates]
  BY <1>2 DEF DpcStates
<1>4. TypeOK
  BY <1>2, <1>3 DEF TypeOK
<1> QED
  BY <1>1, <1>4 DEF IInv, OnlyHeld, Sends, Receiving, SeqnumsUnique, OneOwner,
                    OnceDelivered, NoRepeats, Decided, DoorbellNotLost, NoneForgotten

LEMMA StepInv == IInv /\ [Next]_vars => IInv'
<1> SUFFICES ASSUME IInv, [Next]_vars PROVE IInv'
  OBVIOUS
<1>1. CASE \E r \in Requests :
            Submit(r) \/ Refuse(r) \/ AskCancel(r) \/ Cancel(r) \/ UnlinkAndComplete(r)
  BY <1>1, SubmitInv, RefuseInv, AskCancelInv, CancelInv, UnlinkAndCompleteInv
<1>2. CASE \E r \in Requests, s \in 1..MaxSeq : SendDone(r, s)
  BY <1>2, SendFailedInv, SentAfterAnswerInv, SentMarkCancelableInv, SentCancelledInv
     DEF SendDone
<1>3. CASE \E s \in 1..MaxSeq : Receive(s)
  BY <1>3, ReceiveInv
<1>4. CASE Respond
  BY <1>4, RespondInv
<1>5. CASE Ring
  BY <1>5, RingInv
<1>6. CASE \E p \in Processors : DpcStart(p) \/ DpcPop(p) \/ DpcComplete(p)
  BY <1>6, DpcStartInv, DpcPopInv, DpcCompleteInv
<1>7. CASE UNCHANGED vars
  <2> USE <1>7 DEF vars, framework, flags, threads, delivery, dpcs
  <2>1. Queued' = Queued /\ Popped' = Popped
    BY DEF Queued, Popped
  <2> QED
    BY <2>1 DEF IInv, TypeOK, OnlyHeld, Sends, Receiving, SeqnumsUnique, OneOwner,
                OnceDelivered, NoRepeats, Decided, DoorbellNotLost, NoneForgotten
<1> QED
  BY <1>1, <1>2, <1>3, <1>4, <1>5, <1>6, <1>7 DEF Next

\* Every reachable state satisfies the inductive invariant.
THEOREM Consistent == Spec => []IInv
  BY InitInv, StepInv, PTL DEF Spec

\* The variables have their types.
THEOREM TypeCorrect == Spec => []TypeOK
<1>1. IInv => TypeOK
  BY DEF IInv
<1> QED
  BY <1>1, Consistent, PTL

\* No assertion of request_list.cpp about the flags of a request can fail.
THEOREM AssertionsNeverFail == Spec => []AssertionsHold
<1>1. IInv => AssertionsHold
  BY DEF IInv, AssertionsHold, OnlyHeld, Sends, OneOwner, OnceDelivered, TypeOK
<1> QED
  BY <1>1, Consistent, PTL

\* A request in the completion queue always has a DPC or a thread that cares.
THEOREM DoorbellHeard == Spec => []DoorbellNotLost
<1>1. IInv => DoorbellNotLost
  BY DEF IInv
<1> QED
  BY <1>1, Consistent, PTL

\* Every request of the driver has somebody who will complete it.
THEOREM NobodyForgotten == Spec => []NoneForgotten
<1>1. IInv => NoneForgotten
  BY DEF IInv
<1> QED
  BY <1>1, Consistent, PTL

-----------------------------------------------------------------------------
(* RequestList implements RequestContract.                                  *)

\* The mapped variables by the flags: WskSend uses the buffer of a request while
\* its send is pending, the receiver while its response is in progress.
UsesByFlags ==
    \A q \in Requests :
        /\ UsesOf[q] \subseteq {"send", "answer"}
        /\ "send" \in UsesOf[q] <=> q \in sendPending
        /\ "answer" \in UsesOf[q] <=> q \in responding

OutcomeByFlags ==
    \A q \in Requests :
        /\ OutcomeOf[q] \in Outcomes \cup {Pending}
        /\ OutcomeOf[q] = Pending <=> q \notin held \cap terminal

LEMMA Mapped == IInv => UsesByFlags /\ OutcomeByFlags
<1> SUFFICES ASSUME IInv, NEW q \in Requests
             PROVE  /\ UsesOf[q] \subseteq {"send", "answer"}
                    /\ "send" \in UsesOf[q] <=> q \in sendPending
                    /\ "answer" \in UsesOf[q] <=> q \in responding
                    /\ OutcomeOf[q] \in Outcomes \cup {Pending}
                    /\ OutcomeOf[q] = Pending <=> q \notin held \cap terminal
  BY DEF UsesByFlags, OutcomeByFlags
<1>1. UsesOf[q] = {u \in {"send", "answer"} :
                     \/ u = "send" /\ \E s \in 1..MaxSeq : <<q, s>> \in wsk
                     \/ u = "answer" /\ receiver = q}
  BY DEF UsesOf
<1>2. (\E s \in 1..MaxSeq : <<q, s>> \in wsk) <=> q \in sendPending
  BY DEF IInv, Sends
<1>3. receiver = q <=> q \in responding
  BY DEF IInv, Receiving
<1>4. OutcomeOf[q] = IF q \in held \cap terminal THEN status[q] ELSE Pending
  BY DEF OutcomeOf
<1>5. q \in held \cap terminal => status[q] \in Outcomes
  BY DEF IInv, Decided
<1>6. Pending \notin Outcomes
  BY DEF Pending, Outcomes
<1> QED
  BY <1>1, <1>2, <1>3, <1>4, <1>5, <1>6

LEMMA SameSubset ==
    ASSUME NEW U, NEW S, NEW T, S \subseteq U /\ T \subseteq U, \A u \in U : u \in S <=> u \in T
    PROVE  S = T
  OBVIOUS

\* What a step that concerns one request at most does to the mapped variables.
LEMMA OneRequest ==
    ASSUME UsesByFlags, UsesByFlags', OutcomeByFlags', NEW r \in Requests,
           \A q \in Requests \ {r} :
               /\ q \in sendPending' <=> q \in sendPending
               /\ q \in responding' <=> q \in responding
               /\ q \in held' \cap terminal' <=> q \in held \cap terminal
               /\ status'[q] = status[q]
    PROVE  /\ \E u \in SUBSET Contract!Uses :
                 /\ UsesOf' = [UsesOf EXCEPT ![r] = u]
                 /\ "send" \in u <=> r \in sendPending'
                 /\ "answer" \in u <=> r \in responding'
           /\ \E o \in Outcomes \cup {Pending} :
                 /\ OutcomeOf' = [OutcomeOf EXCEPT ![r] = o]
                 /\ o = Pending <=> r \notin held' \cap terminal'
                 /\ r \in held' \cap terminal' => o = status'[r]
<1>1. ASSUME NEW q \in Requests \ {r}
      PROVE  UsesOf'[q] = UsesOf[q]
  <2>1. UsesOf'[q] \subseteq {"send", "answer"} /\ UsesOf[q] \subseteq {"send", "answer"}
    BY DEF UsesByFlags
  <2>2. /\ "send" \in UsesOf'[q] <=> "send" \in UsesOf[q]
        /\ "answer" \in UsesOf'[q] <=> "answer" \in UsesOf[q]
    BY DEF UsesByFlags
  <2>3. \A u \in {"send", "answer"} : u \in UsesOf'[q] <=> u \in UsesOf[q]
    BY <2>2
  <2> QED
    BY ONLY <2>1, <2>3, SameSubset
<1>2. \A q \in Requests \ {r} : OutcomeOf'[q] = OutcomeOf[q]
  BY DEF OutcomeOf
<1>3. /\ UsesOf' = [q \in Requests |-> UsesOf'[q]] /\ UsesOf = [q \in Requests |-> UsesOf[q]]
      /\ OutcomeOf' = [q \in Requests |-> OutcomeOf'[q]]
      /\ OutcomeOf = [q \in Requests |-> OutcomeOf[q]]
  BY DEF UsesOf, OutcomeOf
<1>4. UsesOf' = [UsesOf EXCEPT ![r] = UsesOf'[r]]
  BY <1>1, <1>3
<1>5. OutcomeOf' = [OutcomeOf EXCEPT ![r] = OutcomeOf'[r]]
  BY <1>2, <1>3
<1>6. r \in held' \cap terminal' => OutcomeOf'[r] = status'[r]
  BY DEF OutcomeOf
<1> QED
  BY <1>4, <1>5, <1>6 DEF UsesByFlags, OutcomeByFlags, Contract!Uses


-----------------------------------------------------------------------------
(* The steps of the contract, by the flags they leave.                      *)

Others(r) ==
    \A q \in Requests \ {r} :
        /\ q \in sendPending' <=> q \in sendPending
        /\ q \in responding' <=> q \in responding
        /\ q \in held' \cap terminal' <=> q \in held \cap terminal
        /\ status'[q] = status[q]

MapsBoth == UsesByFlags /\ OutcomeByFlags /\ UsesByFlags' /\ OutcomeByFlags'

LEMMA IsTake ==
    ASSUME MapsBoth, NEW r \in Requests, Others(r), r \notin held, held' = held \cup {r}
    PROVE  Contract!Take(r)
  BY OneRequest DEF MapsBoth, Others, Contract!Take

LEMMA IsWork ==
    ASSUME MapsBoth, NEW r \in Requests, Others(r), r \in held \ terminal, held' = held
    PROVE  Contract!Work(r)
  BY OneRequest DEF MapsBoth, Others, Contract!Work, OutcomeByFlags

\* Nothing is decided any more: the uses shrink.
LEMMA IsFinish ==
    ASSUME MapsBoth, NEW r \in Requests, Others(r), r \in held \cap terminal, held' = held,
           r \in terminal', status'[r] = status[r],
           r \in sendPending' => r \in sendPending, r \in responding' => r \in responding
    PROVE  Contract!Finish(r)
<1>1. PICK u \in SUBSET Contract!Uses :
          /\ UsesOf' = [UsesOf EXCEPT ![r] = u]
          /\ "send" \in u <=> r \in sendPending'
          /\ "answer" \in u <=> r \in responding'
  BY OneRequest DEF MapsBoth, Others
<1>2. u \in SUBSET UsesOf[r]
  BY <1>1 DEF MapsBoth, UsesByFlags, Contract!Uses
<1>3. OutcomeOf[r] = status[r] /\ OutcomeOf'[r] = status[r]
  BY DEF OutcomeOf
<1>4. OutcomeOf' = OutcomeOf
  BY <1>3 DEF OutcomeOf, Others
<1>5. OutcomeOf[r] # Pending
  BY DEF MapsBoth, OutcomeByFlags
<1> QED
  BY <1>1, <1>2, <1>4, <1>5 DEF Contract!Finish

LEMMA IsGive ==
    ASSUME MapsBoth, NEW r \in Requests, Others(r), r \in held \cap terminal,
           r \notin sendPending \cup responding, held' = held \ {r},
           UNCHANGED <<sendPending, responding>>
    PROVE  Contract!Give(r)
<1>1. UsesOf[r] = {} /\ OutcomeOf[r] # Pending
  BY DEF MapsBoth, UsesByFlags, OutcomeByFlags
<1>2. PICK u \in SUBSET Contract!Uses :
          /\ UsesOf' = [UsesOf EXCEPT ![r] = u]
          /\ "send" \in u <=> r \in sendPending'
          /\ "answer" \in u <=> r \in responding'
  BY OneRequest DEF MapsBoth, Others
<1>3. u = {}
  BY <1>2 DEF Contract!Uses
<1>4. UsesOf' = UsesOf
  BY <1>1, <1>2, <1>3 DEF UsesOf
<1>5. PICK o \in Outcomes \cup {Pending} :
          /\ OutcomeOf' = [OutcomeOf EXCEPT ![r] = o]
          /\ o = Pending <=> r \notin held' \cap terminal'
  BY OneRequest DEF MapsBoth, Others
<1> QED
  BY <1>1, <1>4, <1>5 DEF Contract!Give

LEMMA IsStutter ==
    ASSUME MapsBoth, UNCHANGED <<held, wsk, receiver, terminal, status>>
    PROVE  UNCHANGED Contract!vars
  BY DEF Contract!vars, UsesOf, OutcomeOf

-----------------------------------------------------------------------------
LEMMA ContractInit == Init => Contract!Init
<1> SUFFICES ASSUME Init PROVE Contract!Init
  OBVIOUS
<1>1. NoRequest \notin Requests
  BY RequestsAssumption
<1>2. \A r \in Requests : UsesOf[r] = {} /\ OutcomeOf[r] = Pending
  BY <1>1 DEF Init, UsesOf, OutcomeOf
<1>3. UsesOf = [r \in Requests |-> UsesOf[r]] /\ OutcomeOf = [r \in Requests |-> OutcomeOf[r]]
  BY DEF UsesOf, OutcomeOf
<1> QED
  BY <1>2, <1>3 DEF Init, Contract!Init

\* Every step is a step of the contract, or one it does not see.
LEMMA ContractStep == IInv /\ IInv' /\ [Next]_vars => [Contract!Next]_(Contract!vars)
<1> SUFFICES ASSUME IInv, IInv', [Next]_vars
             PROVE  (\E r \in Requests : Contract!Take(r) \/ Contract!Work(r)
                                           \/ Contract!Finish(r) \/ Contract!Give(r))
                    \/ UNCHANGED Contract!vars
  BY DEF Contract!Next
<1>0. MapsBoth
  <2>1. UsesByFlags /\ OutcomeByFlags
    BY Mapped
  <2>2. IInv' => UsesByFlags' /\ OutcomeByFlags'
    BY Mapped, PTL
  <2> QED
    BY <2>1, <2>2 DEF MapsBoth
<1>1. ASSUME NEW r \in Requests, Submit(r)
      PROVE  Contract!Take(r)
  <2>1. Others(r) /\ r \notin held /\ held' = held \cup {r}
    BY <1>1 DEF Submit, Others, IInv, TypeOK
  <2> QED
    BY <1>0, <2>1, IsTake
<1>2. ASSUME NEW r \in Requests, Refuse(r)
      PROVE  Contract!Take(r)
  <2>1. Others(r) /\ r \notin held /\ held' = held \cup {r}
    BY <1>2 DEF Refuse, Others, IInv, TypeOK
  <2> QED
    BY <1>0, <2>1, IsTake
<1>3. ASSUME NEW r \in Requests, UnlinkAndComplete(r)
      PROVE  Contract!Work(r)
  <2>1. Others(r) /\ r \in held \ terminal /\ held' = held
    BY <1>3 DEF UnlinkAndComplete, EnqueueForCompletion, framework, Others, IInv, TypeOK,
                OnlyHeld, OneOwner
  <2> QED
    BY <1>0, <2>1, IsWork
<1>4. ASSUME NEW r \in Requests, NEW s \in 1..MaxSeq, SendDone(r, s)
      PROVE  Contract!Work(r) \/ Contract!Finish(r)
  <2>1. Others(r) /\ held' = held /\ r \in held
    BY <1>4 DEF SendDone, SendFailed, SentAfterAnswer, SentMarkCancelable, SentCancelled,
                Others, IInv, TypeOK, OnlyHeld, Sends
  <2>2. CASE r \notin terminal
    BY <1>0, <2>1, <2>2, IsWork
  <2>3. CASE r \in terminal
    <3>1. /\ r \in terminal' /\ status'[r] = status[r]
          /\ r \in sendPending' => r \in sendPending
          /\ r \in responding' => r \in responding
      BY <1>4, <2>3 DEF SendDone, SendFailed, SentAfterAnswer, SentMarkCancelable, SentCancelled
    <3> QED
      BY <1>0, <2>1, <2>3, <3>1, IsFinish
  <2> QED
    BY <2>2, <2>3
<1>5. ASSUME NEW s \in 1..MaxSeq, Receive(s)
      PROVE  (\E r \in Requests : Contract!Work(r)) \/ UNCHANGED Contract!vars
  <2> DEFINE found == {r \in listed : seqnum[r] = s}
             won   == {r \in found : r \in cancelable => Unmark(r)}
  <2>1. /\ responding' = responding \cup won
        /\ receiver' = IF won = {} THEN NoRequest ELSE CHOOSE r \in won : TRUE
        /\ UNCHANGED <<held, wsk, sendPending, terminal, status>>
        /\ receiver = NoRequest
    BY <1>5 DEF Receive, framework
  <2>2. won \subseteq listed /\ \A r, q \in won : r = q
    BY DEF IInv, SeqnumsUnique
  <2> HIDE DEF won, found
  <2>3. CASE won = {}
    BY <1>0, <2>1, <2>3, IsStutter
  <2>4. CASE won # {}
    <3>1. PICK r \in won : TRUE
      BY <2>4
    <3>2. won = {r} /\ r \in held \ terminal /\ r \in Requests
      BY <3>1, <2>2 DEF IInv, OnlyHeld, OneOwner, TypeOK
    <3>3. Others(r) /\ held' = held
      BY <2>1, <3>2 DEF Others
    <3> QED
      BY <1>0, <3>2, <3>3, IsWork
  <2> QED
    BY <2>3, <2>4
<1>6. ASSUME Respond
      PROVE  \E r \in Requests : Contract!Work(r)
  <2>1. receiver \in Requests /\ receiver \in responding
    BY <1>6 DEF Respond, IInv, TypeOK, Receiving
  <2>2. Others(receiver) /\ receiver \in held \ terminal /\ held' = held
    BY <1>6, <2>1 DEF Respond, EnqueueForCompletion, framework, Others, IInv, TypeOK,
                      OnlyHeld, OneOwner
  <2> QED
    BY <1>0, <2>1, <2>2, IsWork
<1>7. ASSUME NEW p \in Processors, DpcComplete(p)
      PROVE  \E r \in Requests : Contract!Give(r)
  <2>1. dpc[p] \in Popped /\ dpc[p] \in Requests
    BY <1>7 DEF DpcComplete, Popped
  <2>2. /\ Others(dpc[p]) /\ dpc[p] \in held \cap terminal
        /\ dpc[p] \notin sendPending \cup responding
        /\ held' = held \ {dpc[p]} /\ UNCHANGED <<sendPending, responding>>
    BY <1>7, <2>1 DEF DpcComplete, flags, Others, IInv, OnlyHeld, OnceDelivered, OneOwner
  <2> QED
    BY <1>0, <2>1, <2>2, IsGive
<1>8. CASE \E r \in Requests : AskCancel(r) \/ Cancel(r)
  BY <1>0, <1>8, IsStutter DEF AskCancel, Cancel, flags, threads
<1>9. CASE Ring \/ \E p \in Processors : DpcStart(p) \/ DpcPop(p)
  BY <1>0, <1>9, IsStutter DEF Ring, DpcStart, DpcPop, framework, flags, threads
<1>10. CASE UNCHANGED vars
  BY <1>0, <1>10, IsStutter DEF vars, framework, flags, threads
<1> QED
  BY <1>1, <1>2, <1>3, <1>4, <1>5, <1>6, <1>7, <1>8, <1>9, <1>10 DEF Next

\* The driver keeps the contract of a transfer request: it goes back once, as
\* decided first, and not before WskSend and the receiver let go of its memory.
THEOREM Implements == Spec => ContractKept
<1>1. Init => Contract!Init
  BY ContractInit
<1>2. IInv /\ IInv' /\ [Next]_vars => [Contract!Next]_(Contract!vars)
  BY ContractStep
<1> QED
  BY <1>1, <1>2, Consistent, PTL DEF Spec, ContractKept, Contract!Spec

-----------------------------------------------------------------------------
(* SendQueue.                                                               *)

\* The thread that owns "sending".
Owning == {"flush", "send", "release"}

\* One thread at a time owns "sending", and only the owner has a batch.
OneSender ==
    /\ sending <=> \E t \in Threads : at[t] \in Owning
    /\ \A t, u \in Threads : at[t] \in Owning /\ at[u] \in Owning => t = u
    /\ \A t \in Threads : at[t] = "send" <=> batch[t] # <<>>

HandoffIInv == HandoffTypeOK /\ OneSender /\ NoneStranded

-----------------------------------------------------------------------------
(* Sequences.                                                               *)

LEMMA ReverseType ==
    ASSUME NEW S, NEW s \in Seq(S)
    PROVE  Reverse(s) \in Seq(S) /\ Len(Reverse(s)) = Len(s)
  BY DEF Reverse

LEMMA ReverseEmpty == Reverse(<<>>) = <<>>
  BY DEF Reverse

LEMMA ReverseNotEmpty ==
    ASSUME NEW S, NEW s \in Seq(S), s # <<>>
    PROVE  Reverse(s) # <<>>
<1>1. Len(s) # 0
  OBVIOUS
<1> QED
  BY <1>1, ReverseType

\* A push at the head of the SLIST is an append to the reversed list.
LEMMA ReversePush ==
    ASSUME NEW S, NEW s \in Seq(S), NEW c \in S
    PROVE  Reverse(<<c>> \o s) = Append(Reverse(s), c)
<1> DEFINE r == <<c>> \o s
           n == Len(s)
<1>1. /\ r \in Seq(S) /\ Len(r) = n + 1 /\ n \in Nat
      /\ r[1] = c /\ \A i \in 1..n : r[i + 1] = s[i]
  OBVIOUS
<1>2. /\ Reverse(r) \in Seq(S) /\ Len(Reverse(r)) = n + 1
      /\ \A i \in 1..n + 1 : Reverse(r)[i] = r[(n + 1 - i) + 1]
  BY <1>1, ReverseType DEF Reverse
<1>3. /\ Append(Reverse(s), c) \in Seq(S) /\ Len(Append(Reverse(s), c)) = n + 1
      /\ Append(Reverse(s), c)[n + 1] = c
      /\ \A i \in 1..n : Append(Reverse(s), c)[i] = s[(n - i) + 1]
  BY ReverseType DEF Reverse
<1>4. ASSUME NEW i \in 1..n + 1
      PROVE  Reverse(r)[i] = Append(Reverse(s), c)[i]
  <2>1. CASE i = n + 1
    BY <1>1, <1>2, <1>3, <2>1
  <2>2. CASE i \in 1..n
    <3>1. (n - i) + 1 \in 1..n /\ (n + 1 - i) + 1 = ((n - i) + 1) + 1
      BY <1>1, <2>2
    <3>2. r[((n - i) + 1) + 1] = s[(n - i) + 1]
      BY <1>1, <3>1
    <3>3. Reverse(r)[i] = r[(n + 1 - i) + 1]
      BY <1>2
    <3>4. Append(Reverse(s), c)[i] = s[(n - i) + 1]
      BY <1>3, <2>2
    <3> HIDE DEF r
    <3> QED
      BY <3>1, <3>2, <3>3, <3>4
  <2>3. i = n + 1 \/ i \in 1..n
    BY <1>1
  <2> QED
    BY <2>1, <2>2, <2>3
<1> QED
  BY <1>1, <1>2, <1>3, <1>4, SeqEqual

LEMMA ConcatAppend ==
    ASSUME NEW S, NEW s \in Seq(S), NEW u \in Seq(S), NEW c \in S
    PROVE  s \o Append(u, c) = Append(s \o u, c)
  BY SeqEqual

LEMMA ConcatTail ==
    ASSUME NEW S, NEW s \in Seq(S), NEW u \in Seq(S), s # <<>>
    PROVE  /\ s \o u # <<>>
           /\ Head(s \o u) = Head(s)
           /\ Tail(s \o u) = Tail(s) \o u
<1>1. /\ s \o u \in Seq(S) /\ Len(s \o u) = Len(s) + Len(u)
      /\ Len(s) \in Nat \ {0} /\ Len(u) \in Nat
      /\ Tail(s) \in Seq(S) /\ Len(Tail(s)) = Len(s) - 1
  OBVIOUS
<1>2. s \o u # <<>> /\ Head(s \o u) = Head(s)
  BY <1>1
<1>3. /\ Tail(s \o u) \in Seq(S) /\ Len(Tail(s \o u)) = (Len(s) + Len(u)) - 1
      /\ Tail(s) \o u \in Seq(S) /\ Len(Tail(s) \o u) = (Len(s) - 1) + Len(u)
  BY <1>1, <1>2
<1>4. \A i \in 1..Len(Tail(s \o u)) : Tail(s \o u)[i] = (Tail(s) \o u)[i]
  BY <1>1, <1>2, <1>3
<1> QED
  BY <1>1, <1>3, <1>4, SeqEqual

-----------------------------------------------------------------------------
(* The invariant.                                                           *)

LEMMA HandoffInitInv == HandoffInit => HandoffIInv
<1> SUFFICES ASSUME HandoffInit PROVE HandoffIInv
  OBVIOUS
<1>1. <<>> \in Seq(Commands)
  OBVIOUS
<1>2. at \in [Threads -> Places] /\ batch \in [Threads -> Seq(Commands)]
  BY <1>1 DEF HandoffInit, Places
<1>3. HandoffTypeOK
  BY <1>1, <1>2 DEF HandoffInit, HandoffTypeOK
<1>4. \A t \in Threads : at[t] = "out" /\ batch[t] = <<>>
  BY DEF HandoffInit
<1>5. OneSender
  BY <1>4 DEF HandoffInit, OneSender, Owning
<1>6. NoneStranded
  BY DEF HandoffInit, NoneStranded
<1> QED
  BY <1>3, <1>5, <1>6 DEF HandoffIInv

LEMMA PushInv ==
    ASSUME HandoffIInv, NEW t \in Threads, NEW c \in Commands, Push(t, c)
    PROVE  HandoffIInv'
<1> USE DEF HandoffIInv, Push
<1>1. HandoffTypeOK'
  BY DEF HandoffTypeOK, Places
<1>2. OneSender'
  BY DEF HandoffTypeOK, OneSender, Owning
<1>3. NoneStranded'
  BY DEF HandoffTypeOK, NoneStranded
<1> QED
  BY <1>1, <1>2, <1>3

LEMMA ClaimInv ==
    ASSUME HandoffIInv, NEW t \in Threads, Claim(t)
    PROVE  HandoffIInv'
<1> USE DEF HandoffIInv, Claim
<1>1. HandoffTypeOK'
  BY DEF HandoffTypeOK, Places
<1>2. OneSender'
  BY DEF HandoffTypeOK, OneSender, Owning
<1>3. NoneStranded'
  BY DEF HandoffTypeOK, NoneStranded
<1> QED
  BY <1>1, <1>2, <1>3

LEMMA FlushInv ==
    ASSUME HandoffIInv, NEW t \in Threads, Flush(t)
    PROVE  HandoffIInv'
<1> USE DEF HandoffIInv, Flush
<1>1. Taken \in Seq(Commands) /\ (Taken = <<>> <=> pendingSends = <<>>)
  BY ReverseType, ReverseEmpty, ReverseNotEmpty DEF Taken, HandoffTypeOK
<1>2. HandoffTypeOK'
  BY <1>1 DEF HandoffTypeOK, Places
<1>3. OneSender'
  BY <1>1 DEF HandoffTypeOK, OneSender, Owning
<1>4. NoneStranded'
  BY DEF NoneStranded
<1> QED
  BY <1>2, <1>3, <1>4

LEMMA SendInv ==
    ASSUME HandoffIInv, NEW t \in Threads, Send(t)
    PROVE  HandoffIInv'
<1> USE DEF HandoffIInv, Send
<1>1. batch[t] \in Seq(Commands) /\ batch[t] # <<>>
  BY DEF HandoffTypeOK, OneSender
<1>2. Head(batch[t]) \in Commands /\ Tail(batch[t]) \in Seq(Commands)
  BY <1>1
<1>3. HandoffTypeOK'
  BY <1>2 DEF HandoffTypeOK, Places
<1>4. OneSender'
  BY <1>2 DEF HandoffTypeOK, OneSender, Owning
<1>5. NoneStranded'
  BY <1>2 DEF HandoffTypeOK, NoneStranded
<1> QED
  BY <1>3, <1>4, <1>5

LEMMA ReleaseInv ==
    ASSUME HandoffIInv, NEW t \in Threads, Release(t)
    PROVE  HandoffIInv'
<1> USE DEF HandoffIInv, Release
<1>1. HandoffTypeOK'
  BY DEF HandoffTypeOK, Places
<1>2. OneSender'
  BY DEF HandoffTypeOK, OneSender, Owning
<1>3. NoneStranded'
  BY DEF HandoffTypeOK, NoneStranded
<1> QED
  BY <1>1, <1>2, <1>3

LEMMA LookInv ==
    ASSUME HandoffIInv, NEW t \in Threads, Look(t)
    PROVE  HandoffIInv'
<1> USE DEF HandoffIInv, Look
<1>1. HandoffTypeOK'
  BY DEF HandoffTypeOK, Places
<1>2. OneSender'
  BY DEF HandoffTypeOK, OneSender, Owning
<1>3. NoneStranded'
  BY DEF HandoffTypeOK, NoneStranded
<1> QED
  BY <1>1, <1>2, <1>3

LEMMA HandoffStepInv == HandoffIInv /\ [HandoffNext]_handoff => HandoffIInv'
<1> SUFFICES ASSUME HandoffIInv, [HandoffNext]_handoff PROVE HandoffIInv'
  OBVIOUS
<1>1. CASE \E t \in Threads, c \in Commands : Push(t, c)
  BY <1>1, PushInv
<1>2. CASE \E t \in Threads : SendPending(t)
  BY <1>2, ClaimInv, FlushInv, SendInv, ReleaseInv, LookInv DEF SendPending
<1>3. CASE UNCHANGED handoff
  BY <1>3 DEF handoff, HandoffIInv, HandoffTypeOK, OneSender, NoneStranded
<1> QED
  BY <1>1, <1>2, <1>3 DEF HandoffNext

\* In every reachable state one thread at most owns "sending".
THEOREM HandoffConsistent == HandoffSpec => []HandoffIInv
  BY HandoffInitInv, HandoffStepInv, PTL DEF HandoffSpec

\* Commands on the SLIST are never left without a thread that looks there.
THEOREM NobodyLeavesCommands == HandoffSpec => []NoneStranded
<1>1. HandoffIInv => NoneStranded
  BY DEF HandoffIInv
<1> QED
  BY <1>1, HandoffConsistent, PTL

-----------------------------------------------------------------------------
(* SendQueue implements SendChannel.                                        *)

\* The sequence of waiting commands, with and without a thread that sends.
LEMMA WaitingOf ==
    ASSUME HandoffIInv
    PROVE  /\ \A t \in Threads :
                 at[t] = "send" => Waiting = batch[t] \o Reverse(pendingSends)
           /\ (\A t \in Threads : at[t] # "send") => Waiting = Reverse(pendingSends)
<1>1. ASSUME NEW t \in Threads, at[t] = "send"
      PROVE  Waiting = batch[t] \o Reverse(pendingSends)
  <2>1. \A u \in Threads : at[u] = "send" => u = t
    BY <1>1 DEF HandoffIInv, OneSender, Owning
  <2>2. Sender = t
    BY <1>1, <2>1 DEF Sender
  <2> QED
    BY <1>1, <2>2 DEF Waiting
<1>2. ASSUME \A t \in Threads : at[t] # "send"
      PROVE  Waiting = Reverse(pendingSends)
  <2>1. Waiting = <<>> \o Reverse(pendingSends)
    BY <1>2 DEF Waiting
  <2>2. Reverse(pendingSends) \in Seq(Commands)
    BY ReverseType DEF HandoffIInv, HandoffTypeOK
  <2> QED
    BY <2>1, <2>2, ConcatEmptySeq
<1> QED
  BY <1>1, <1>2

LEMMA ChannelInit == HandoffInit => Channel!Init
<1> SUFFICES ASSUME HandoffInit PROVE Channel!Init
  OBVIOUS
<1>1. Waiting = Reverse(pendingSends)
  BY WaitingOf, HandoffInitInv DEF HandoffInit
<1> QED
  BY <1>1, ReverseEmpty DEF HandoffInit, Channel!Init

LEMMA ChannelStep == HandoffIInv /\ HandoffIInv' /\ [HandoffNext]_handoff => [Channel!Next]_(Channel!vars)
<1> SUFFICES ASSUME HandoffIInv, HandoffIInv', [HandoffNext]_handoff
             PROVE  (\E c \in Commands : Channel!Push(c)) \/ Channel!Transmit
                       \/ UNCHANGED Channel!vars
  BY DEF Channel!Next
<1> DEFINE Of(q, p) == /\ \A t \in Threads : at[t] = "send" => q = batch[t] \o p
                       /\ (\A t \in Threads : at[t] # "send") => q = p
<1>1. Of(Waiting, Reverse(pendingSends))
  BY WaitingOf
<1>2. /\ \A t \in Threads : at'[t] = "send" => Waiting' = batch'[t] \o Reverse(pendingSends')
      /\ (\A t \in Threads : at'[t] # "send") => Waiting' = Reverse(pendingSends')
  <2>1. HandoffIInv' => ( /\ \A t \in Threads :
                               at[t] = "send" => Waiting = batch[t] \o Reverse(pendingSends)
                          /\ (\A t \in Threads : at[t] # "send") => Waiting = Reverse(pendingSends))'
    BY WaitingOf, PTL
  <2> QED
    BY <2>1
<1>3. /\ pendingSends \in Seq(Commands) /\ Reverse(pendingSends) \in Seq(Commands)
      /\ \A t \in Threads : batch[t] \in Seq(Commands)
  BY ReverseType DEF HandoffIInv, HandoffTypeOK
<1>4. ASSUME NEW t \in Threads, NEW c \in Commands, Push(t, c)
      PROVE  Channel!Push(c)
  <2>1. Reverse(pendingSends') = Append(Reverse(pendingSends), c)
    BY <1>3, <1>4, ReversePush DEF Push
  <2>2. \A u \in Threads : at'[u] = "send" <=> at[u] = "send"
    BY <1>4 DEF Push, HandoffIInv, HandoffTypeOK
  <2>3. CASE \E u \in Threads : at[u] = "send"
    <3>1. PICK u \in Threads : at[u] = "send"
      BY <2>3
    <3>2. Waiting' = batch[u] \o Append(Reverse(pendingSends), c)
      BY <1>2, <1>4, <2>1, <2>2, <3>1 DEF Push
    <3>3. Waiting' = Append(batch[u] \o Reverse(pendingSends), c)
      <4>1. /\ batch[u] \in Seq(Commands) /\ Reverse(pendingSends) \in Seq(Commands)
            /\ c \in Commands
        BY <1>3
      <4>2. \A s, p \in Seq(Commands), d \in Commands :
                s \o Append(p, d) = Append(s \o p, d)
        BY ConcatAppend
      <4> QED
        BY <3>2, <4>1, <4>2, Zenon
    <3> QED
      BY <1>1, <1>4, <3>1, <3>3 DEF Push, Channel!Push
  <2>4. CASE \A u \in Threads : at[u] # "send"
    BY <1>1, <1>2, <1>4, <2>1, <2>2, <2>4 DEF Push, Channel!Push
  <2> QED
    BY <2>3, <2>4
<1>5. ASSUME NEW t \in Threads, Flush(t)
      PROVE  UNCHANGED Channel!vars
  <2>1. \A u \in Threads : at[u] # "send"
    BY <1>5 DEF Flush, HandoffIInv, OneSender, Owning
  <2>2. Waiting = Reverse(pendingSends)
    BY <1>1, <2>1
  <2>3. CASE pendingSends = <<>>
    <3>1. \A u \in Threads : at'[u] # "send"
      BY <1>5, <2>1, <2>3 DEF Flush, HandoffIInv, HandoffTypeOK
    <3>2. Waiting' = Reverse(<<>>)
      BY <1>2, <1>5, <3>1 DEF Flush
    <3> QED
      BY <1>5, <2>2, <2>3, <3>2 DEF Flush, Channel!vars
  <2>4. CASE pendingSends # <<>>
    <3>1. at'[t] = "send" /\ batch'[t] = Reverse(pendingSends) /\ pendingSends' = <<>>
      BY <1>5, <2>4 DEF Flush, Taken, HandoffIInv, HandoffTypeOK
    <3>2. Waiting' = Reverse(pendingSends) \o Reverse(<<>>)
      BY <1>2, <3>1
    <3>3. Waiting' = Reverse(pendingSends)
      BY <1>3, <3>2, ReverseEmpty, ConcatEmptySeq
    <3> QED
      BY <1>5, <2>2, <3>3 DEF Flush, Channel!vars
  <2> QED
    BY <2>3, <2>4
<1>6. ASSUME NEW t \in Threads, Send(t)
      PROVE  Channel!Transmit
  <2>1. at[t] = "send" /\ batch[t] # <<>> /\ UNCHANGED pendingSends
    BY <1>6 DEF Send, HandoffIInv, OneSender
  <2>2. Waiting = batch[t] \o Reverse(pendingSends)
    BY <1>1, <2>1
  <2>3. /\ Waiting # <<>> /\ Head(Waiting) = Head(batch[t])
        /\ Tail(Waiting) = Tail(batch[t]) \o Reverse(pendingSends)
    BY <1>3, <2>1, <2>2, ConcatTail
  <2>4. batch'[t] = Tail(batch[t])
    BY <1>6 DEF Send, HandoffIInv, HandoffTypeOK
  <2>5. CASE Tail(batch[t]) # <<>>
    <3>1. at'[t] = "send"
      BY <1>6, <2>5 DEF Send, HandoffIInv, HandoffTypeOK
    <3>2. Waiting' = Tail(batch[t]) \o Reverse(pendingSends)
      BY <1>2, <2>1, <2>4, <3>1
    <3> QED
      BY <1>6, <2>3, <3>2 DEF Send, Channel!Transmit
  <2>6. CASE Tail(batch[t]) = <<>>
    <3>1. \A u \in Threads : at'[u] # "send"
      BY <1>6, <2>6 DEF Send, HandoffIInv, HandoffTypeOK, OneSender, Owning
    <3>2. Waiting' = Reverse(pendingSends)
      BY <1>2, <2>1, <3>1
    <3>3. Tail(Waiting) = Reverse(pendingSends)
      BY <1>3, <2>3, <2>6, ConcatEmptySeq
    <3> QED
      BY <1>6, <2>3, <3>2, <3>3 DEF Send, Channel!Transmit
  <2> QED
    BY <2>5, <2>6
<1>7. ASSUME NEW t \in Threads, Claim(t) \/ Release(t) \/ Look(t)
      PROVE  UNCHANGED Channel!vars
  <2>1. /\ UNCHANGED <<pendingSends, batch, sent>>
        /\ \A u \in Threads : at'[u] = "send" <=> at[u] = "send"
    BY <1>7 DEF Claim, Release, Look, HandoffIInv, HandoffTypeOK
  <2> QED
    BY <1>1, <1>2, <2>1 DEF Channel!vars
<1>8. CASE UNCHANGED handoff
  <2>1. UNCHANGED <<pendingSends, batch, sent, at>>
    BY <1>8 DEF handoff
  <2> QED
    BY <1>1, <1>2, <2>1 DEF Channel!vars
<1> QED
  BY <1>4, <1>5, <1>6, <1>7, <1>8 DEF HandoffNext, SendPending

\* Commands are given to WskSend once each, in the order of their pushes.
THEOREM HandoffImplements == HandoffSpec => InPushOrder
<1>1. HandoffInit => Channel!Init
  BY ChannelInit
<1>2. HandoffIInv /\ HandoffIInv' /\ [HandoffNext]_handoff => [Channel!Next]_(Channel!vars)
  BY ChannelStep
<1> QED
  BY <1>1, <1>2, HandoffConsistent, PTL DEF HandoffSpec, InPushOrder, Channel!Spec
=============================================================================
