------------------------- MODULE ShareControl_proofs -------------------------
(***************************************************************************)
(* Proofs about ShareControl, for any set of places, adapters, threads and *)
(* settings.                                                               *)
(*                                                                         *)
(* ExportsRecorded breaks if forget_managed meets a device that somebody   *)
(* has bound since it was unbound.  COMMAND_LOCK rules that out: LockHeld  *)
(* says who has it, StillFree what it protects; in the rollback of a start *)
(* no request runs, and HalfUndone says what it forgets.  The promises     *)
(* about a start and a stop rest on what their loops have done so far:     *)
(* RoundRoute, RoundList and StopList.                                     *)
(***************************************************************************)
EXTENDS ShareControlProps, TLAPS

LockHeld ==
    \A j \in Jobs : job[j].step \in {"bound", "unbound", "rebind"} => command = j

\* What a request has unbound stays unbound until it is forgotten or bound again.
StillFree ==
    \A j \in Jobs : job[j].step \in {"unbound", "rebind"} => job[j].dev \notin bound \ byHand

OnlyKicks == \A j \in Jobs : job[j].step = "rebind" => job[j].op = "kick"

\* The threads of requests are those of web.py.
Resting == phase # "up" => \A j \in Jobs : job[j] = Idle

\* The script deals with one device at a time.
OneAtATime == \A b, c \in half : b = c

\* The rollback forgets what it has unbound, or could not.
HalfUndone == phase = "undo" => half \cap bound \subseteq byHand \cup mishap

\* If there was a route before the round, the round, or somebody, has taken it; and
\* the rollback gives it back.
RoundRoute ==
    routeBefore /\ Uplink \in bound =>
        /\ phase = "boot" => Uplink \in roundBound \cup byHand
        /\ phase = "undo" => Uplink \in todo \cup byHand \cup mishap

RoundList == phase = "boot" => listed \subseteq todo \cup bound \cup lapsed

StopList == phase = "stop" /\ setting.unbind => bound \subseteq todo \cup byHand \cup mishap

ScriptInv == OneAtATime /\ HalfUndone /\ RoundRoute /\ RoundList /\ StopList

IInv ==
    /\ TypeOK
    /\ LockHeld /\ StillFree /\ OnlyKicks /\ Resting
    /\ ExportsRecorded
    /\ ScriptInv

-----------------------------------------------------------------------------
(* One thread moves.                                                       *)

RealJobs == [op : Operations, dev : Busids, step : Steps]

LEMMA IdleFacts ==
    Idle \in JobStates /\ Idle.step = "idle" /\ Idle.op = "none"
BY DEF Idle, JobStates

\* Only Idle has the step "idle".
LEMMA RealJob ==
    ASSUME TypeOK, NEW j \in Jobs, job[j].step # "idle"
    PROVE  job[j] \in RealJobs
BY DEF TypeOK, JobStates, RealJobs, Idle

\* j goes on to another step of the same request; the others stay where they are.
Moves(j, step) ==
    /\ job' \in [Jobs -> JobStates]
    /\ job'[j].op = job[j].op /\ job'[j].dev = job[j].dev /\ job'[j].step = step
    /\ \A i \in Jobs \ {j} : job'[i] = job[i]

LEMMA GotoMoves ==
    ASSUME TypeOK, NEW j \in Jobs, job[j].step # "idle", NEW step \in Steps, Goto(j, step)
    PROVE  Moves(j, step)
<1>1. job[j] \in RealJobs /\ job \in [Jobs -> JobStates]
    BY RealJob DEF TypeOK
<1>2. job' = [job EXCEPT ![j] = [job[j] EXCEPT !.step = step]]
    BY DEF Goto
<1>3. [job[j] EXCEPT !.step = step] = [op |-> job[j].op, dev |-> job[j].dev, step |-> step]
    BY <1>1 DEF RealJobs
<1>4. [op |-> job[j].op, dev |-> job[j].dev, step |-> step] \in JobStates
    BY <1>1 DEF RealJobs, JobStates
<1> QED
    BY <1>1, <1>2, <1>3, <1>4 DEF Moves

Rests(j) ==
    /\ job' \in [Jobs -> JobStates]
    /\ job'[j] = Idle
    /\ \A i \in Jobs \ {j} : job'[i] = job[i]

LEMMA DoneRests ==
    ASSUME TypeOK, NEW j \in Jobs, Done(j)
    PROVE  Rests(j)
BY IdleFacts DEF Done, TypeOK, Rests

\* While the container serves, what is pending is what its requests have bound.
LEMMA InPending ==
    ASSUME phase = "up", NEW b
    PROVE  b \in Pending <=>
             \E j \in Jobs : job[j].step \in {"bound", "rebound"} /\ job[j].dev = b
BY DEF Pending

LEMMA InPendingPrimed ==
    ASSUME phase' = "up", NEW b
    PROVE  b \in Pending' <=>
             \E j \in Jobs : job'[j].step \in {"bound", "rebound"} /\ job'[j].dev = b
BY DEF Pending

\* A step of a request leaves the data of the script alone.
LEMMA Serving ==
    ASSUME IInv, phase = "up", UNCHANGED entry
    PROVE  ScriptInv'
BY DEF IInv, ScriptInv, OneAtATime, HalfUndone, RoundRoute, RoundList, StopList, entry

-----------------------------------------------------------------------------
LEMMA InitIInv == Init => IInv
<1> SUFFICES ASSUME Init PROVE IInv
    OBVIOUS
<1>1. TypeOK
    BY IdleFacts, SettingsAssumption DEF Init, TypeOK
<1>2. \A j \in Jobs : job[j] = Idle
    BY DEF Init
<1>3. LockHeld /\ StillFree /\ OnlyKicks /\ Resting
    BY <1>2, IdleFacts DEF LockHeld, StillFree, OnlyKicks, Resting
<1>4. ExportsRecorded
    BY DEF Init, ExportsRecorded
<1>5. ScriptInv
    BY DEF Init, ScriptInv, OneAtATime, HalfUndone, RoundRoute, RoundList, StopList
<1> QED
    BY <1>1, <1>3, <1>4, <1>5 DEF IInv

-----------------------------------------------------------------------------
(* Requests: steps that leave the exports and the file alone.              *)

\* What such a step leaves alone.
Quiet ==
    /\ phase = "up"
    /\ hidden' \subseteq Busids
    /\ UNCHANGED <<host, managed, command, entry, ghosts, counts>>

LEMMA QuietMove ==
    ASSUME IInv, Quiet, NEW j \in Jobs, NEW step \in {"stop", "act", "flag"}, Moves(j, step),
           job[j].step \in {"check", "stop"}
    PROVE  IInv'
<1> USE DEF Quiet, host, entry, ghosts, counts
<1>1. TypeOK'
    BY DEF IInv, TypeOK, Moves
<1>2. LockHeld' /\ StillFree' /\ OnlyKicks' /\ Resting'
    BY DEF IInv, LockHeld, StillFree, OnlyKicks, Resting, Moves
<1>3. ExportsRecorded'
    <2>1. \A b : b \in Pending => b \in Pending'
        BY InPending, InPendingPrimed DEF Moves
    <2> QED
        BY <2>1 DEF IInv, ExportsRecorded
<1> QED
    BY <1>1, <1>2, <1>3, Serving DEF IInv

LEMMA QuietRest ==
    ASSUME IInv, Quiet, NEW j \in Jobs, Rests(j),
           job[j].step \in {"check", "stop", "flag"}
    PROVE  IInv'
<1> USE DEF Quiet, host, entry, ghosts, counts
<1>1. TypeOK'
    BY DEF IInv, TypeOK, Rests
<1>2. LockHeld' /\ StillFree' /\ OnlyKicks' /\ Resting'
    BY IdleFacts DEF IInv, LockHeld, StillFree, OnlyKicks, Resting, Rests
<1>3. ExportsRecorded'
    <2>1. \A b : b \in Pending => b \in Pending'
        BY InPending, InPendingPrimed DEF Rests
    <2> QED
        BY <2>1 DEF IInv, ExportsRecorded
<1> QED
    BY <1>1, <1>2, <1>3, Serving DEF IInv

LEMMA AskKeepsIInv ==
    ASSUME IInv, NEW j \in Jobs, NEW op \in Operations, NEW b \in Busids, Ask(j, op, b)
    PROVE  IInv'
<1> DEFINE new == [op |-> op, dev |-> b, step |-> "check"]
<1>1. new \in JobStates /\ new.step = "check"
    BY DEF JobStates, Steps
<1>2. job' = [job EXCEPT ![j] = new] /\ job[j] = Idle
    BY DEF Ask
<1>3. requests' \in Nat
    BY DEF Ask, IInv, TypeOK
<1> HIDE DEF new
<1> USE DEF Ask, host, files, entry, ghosts
<1>4. TypeOK'
    BY <1>1, <1>2, <1>3 DEF IInv, TypeOK
<1>5. LockHeld' /\ StillFree' /\ OnlyKicks' /\ Resting'
    BY <1>1, <1>2, IdleFacts DEF IInv, TypeOK, LockHeld, StillFree, OnlyKicks, Resting
<1>6. ExportsRecorded'
    <2>1. \A d : d \in Pending => d \in Pending'
        BY <1>1, <1>2, IdleFacts, InPending, InPendingPrimed DEF IInv, TypeOK
    <2> QED
        BY <2>1 DEF IInv, ExportsRecorded
<1> QED
    BY <1>4, <1>5, <1>6, Serving DEF IInv

\* The checks, and the flag of a device.
LEMMA ChecksKeepIInv ==
    ASSUME IInv, NEW j \in Jobs, Check(j) \/ CheckStop(j) \/ Flag(j)
    PROVE  IInv'
<1> USE DEF At, files
<1>1. TypeOK /\ requests \in Nat /\ hidden \subseteq Busids
    BY DEF IInv, TypeOK
<1>2. CASE Check(j)
    <2>1. Quiet /\ job[j].step = "check"
        BY <1>1, <1>2 DEF Check, Quiet
    <2>2. PICK readable \in BOOLEAN :
            IF NextOfCheck(job[j].op, job[j].dev, readable) = "idle" THEN Done(j)
            ELSE Goto(j, NextOfCheck(job[j].op, job[j].dev, readable))
        BY <1>2 DEF Check
    <2> DEFINE next == NextOfCheck(job[j].op, job[j].dev, readable)
    <2>3. next \in {"idle", "stop", "flag", "act"}
        BY DEF NextOfCheck
    <2>4. CASE next = "idle"
        BY <1>1, <2>1, <2>2, <2>4, DoneRests, QuietRest
    <2>5. CASE next # "idle"
        <3> HIDE DEF next
        <3>1. next \in {"stop", "act", "flag"} /\ next \in Steps
            BY <2>3, <2>5 DEF Steps
        <3>2. Goto(j, next)
            BY <2>2, <2>5 DEF next
        <3>3. Moves(j, next)
            BY <1>1, <2>1, <3>1, <3>2, GotoMoves
        <3> QED
            BY <2>1, <3>1, <3>3, QuietMove
    <2> QED
        BY <2>4, <2>5
<1>3. CASE CheckStop(j)
    <2>1. Quiet /\ job[j].step = "stop"
        BY <1>1, <1>3 DEF CheckStop, Quiet
    <2>2. CASE Goto(j, "act")
        <3>1. Moves(j, "act")
            BY <1>1, <2>1, <2>2, GotoMoves DEF Steps
        <3> QED
            BY <2>1, <3>1, QuietMove
    <2>3. CASE Done(j)
        BY <1>1, <2>1, <2>3, DoneRests, QuietRest
    <2> QED
        BY <1>3, <2>2, <2>3 DEF CheckStop
<1>4. CASE Flag(j)
    <2>1. job[j].dev \in Busids
        BY <1>1, <1>4, RealJob DEF Flag, RealJobs
    <2>2. Quiet /\ Done(j) /\ job[j].step = "flag"
        BY <1>1, <1>4, <2>1 DEF Flag, Quiet
    <2> QED
        BY <1>1, <2>2, DoneRests, QuietRest
<1> QED
    BY <1>2, <1>3, <1>4

-----------------------------------------------------------------------------
(* Requests: steps under COMMAND_LOCK.                                     *)

Alone(j) == \A i \in Jobs \ {j} : job[i].step \notin {"bound", "unbound", "rebind"}

LEMMA LockExcludes ==
    ASSUME IInv, NEW j \in Jobs, command \in {NoJob, j}
    PROVE  Alone(j)
BY JobsAssumption DEF IInv, LockHeld, Alone

\* What every step of a request that changes exports or the file has in common.
Works(j) ==
    /\ phase = "up"
    /\ job[j] \in RealJobs
    /\ command' \in Jobs \cup {NoJob}
    /\ UNCHANGED <<onBus, hidden, entry, listed, counts>>

\* usbip bind: share, and the second half of a kick.
LEMMA BindingKeepsIInv ==
    ASSUME IInv, NEW j \in Jobs, Works(j), Alone(j),
           NEW step \in {"bound", "rebound"}, Moves(j, step), step = "bound" => command' = j,
           \/ Binds(job[j].dev)
           \/ job[j].dev \in bound /\ UNCHANGED <<bound, lapsed>>,
           UNCHANGED <<managed, byHand, mishap>>
    PROVE  IInv'
<1> USE DEF Works, Alone, entry, counts
<1> DEFINE b == job[j].dev
<1>1. b \in Busids /\ bound' = bound \cup {b} /\ bound' \subseteq onBus
      /\ lapsed' \subseteq lapsed
    BY DEF Binds, RealJobs, IInv, TypeOK
<1> HIDE DEF b
<1>2. TypeOK'
    BY <1>1 DEF IInv, TypeOK, Moves
<1>3. LockHeld' /\ StillFree' /\ OnlyKicks' /\ Resting'
    BY <1>1 DEF IInv, LockHeld, StillFree, OnlyKicks, Resting, Moves
<1>4. ExportsRecorded'
    <2>1. b \in Pending' /\ \A d : d \in Pending => d \in Pending'
        BY InPending, InPendingPrimed DEF Moves, b
    <2> QED
        BY <1>1, <2>1 DEF IInv, ExportsRecorded
<1> QED
    BY <1>2, <1>3, <1>4, Serving DEF IInv

\* usbip unbind: unshare, hide, and the first half of a kick.
LEMMA UnbindingKeepsIInv ==
    ASSUME IInv, NEW j \in Jobs, Works(j), Alone(j), command' = j,
           NEW step \in {"unbound", "rebind"}, Moves(j, step),
           step = "rebind" => job[j].op = "kick", job[j].step = "act", Unbinds(job[j].dev),
           UNCHANGED <<managed, lapsed>>
    PROVE  IInv'
<1> USE DEF Works, Alone, entry, counts, Unbinds
<1>1. TypeOK'
    BY DEF IInv, TypeOK, Moves
<1>2. LockHeld' /\ StillFree' /\ OnlyKicks' /\ Resting'
    BY DEF IInv, LockHeld, StillFree, OnlyKicks, Resting, Moves
<1>3. ExportsRecorded'
    <2>1. \A d : d \in Pending => d \in Pending'
        BY InPending, InPendingPrimed DEF Moves
    <2> QED
        BY <2>1 DEF IInv, ExportsRecorded
<1> QED
    BY <1>1, <1>2, <1>3, Serving DEF IInv

LEMMA RecalledFacts ==
    ASSUME TypeOK, NEW old \in Recalled
    PROVE  old \subseteq Busids
BY DEF Recalled, TypeOK

\* remember_managed.
LEMMA RecordingKeepsIInv ==
    ASSUME IInv, NEW j \in Jobs, Works(j), Rests(j),
           \/ job[j].step = "bound" /\ Alone(j)
           \/ job[j].step = "rebound" /\ UNCHANGED command,
           Records(job[j].dev),
           UNCHANGED <<bound, byHand, lapsed>>
    PROVE  IInv'
<1> USE IdleFacts DEF Works, Alone, entry, counts
<1> DEFINE b == job[j].dev
<1>1. b \in Busids
    BY DEF RealJobs
<1>2. /\ managed' \subseteq Busids /\ mishap' \subseteq bound
      /\ (managed \cup mishap \cup {b}) \cap bound \subseteq managed' \cup mishap'
    BY <1>1, RecalledFacts DEF Records, Wiped, IInv, TypeOK
<1>3. TypeOK'
    BY <1>2 DEF IInv, TypeOK, Rests
<1>4. LockHeld' /\ StillFree' /\ OnlyKicks' /\ Resting'
    BY DEF IInv, LockHeld, StillFree, OnlyKicks, Resting, Rests
<1>5. ExportsRecorded'
    <2>1. \A d : d \in Pending => d \in Pending' \/ d = b
        BY InPending, InPendingPrimed DEF Rests
    <2> HIDE DEF b
    <2> QED
        BY <1>2, <2>1 DEF IInv, ExportsRecorded
<1> QED
    BY <1>3, <1>4, <1>5, Serving DEF IInv

\* forget_managed of unshare and of hide.
LEMMA ForgettingKeepsIInv ==
    ASSUME IInv, NEW j \in Jobs, Works(j), Alone(j),
           Rests(j) \/ (Moves(j, "flag") /\ job[j].op = "hide"),
           job[j].step = "unbound",
           Forgets(job[j].dev), mishap' = mishap \cup Wiped(job[j].dev),
           UNCHANGED <<bound, byHand, lapsed>>
    PROVE  IInv'
<1> USE IdleFacts DEF Works, Alone, entry, counts
<1> DEFINE b == job[j].dev
<1>1. b \notin bound \ byHand
    BY DEF IInv, StillFree
<1>2. /\ managed' \subseteq Busids /\ mishap' \subseteq bound
      /\ (managed \ {b}) \cap bound \subseteq managed' \cup mishap'
      /\ mishap \subseteq mishap'
    BY RecalledFacts DEF Forgets, Wiped, IInv, TypeOK
<1>3. TypeOK'
    BY <1>2 DEF IInv, TypeOK, Rests, Moves
<1>4. LockHeld' /\ StillFree' /\ OnlyKicks' /\ Resting'
    BY DEF IInv, LockHeld, StillFree, OnlyKicks, Resting, Rests, Moves
<1>5. ExportsRecorded'
    <2>1. \A d : d \in Pending => d \in Pending'
        BY InPending, InPendingPrimed DEF Rests, Moves
    <2> HIDE DEF b
    <2> QED
        BY <1>1, <1>2, <2>1 DEF IInv, ExportsRecorded
<1> QED
    BY <1>3, <1>4, <1>5, Serving DEF IInv

\* A request that fails ends: what matters is what its call of usbip, or of the
\* file, has done before.
LEMMA FailingKeepsIInv ==
    ASSUME IInv, NEW j \in Jobs, Works(j), Alone(j), Rests(j),
           job[j].step \in {"act", "unbound", "rebind"},
           bound' \subseteq onBus, byHand' \subseteq bound', mishap' \subseteq bound',
           managed' \subseteq Busids, lapsed' \subseteq Busids,
           bound' \ bound \subseteq managed' \cup mishap',
           bound' \cap (managed \cup byHand \cup mishap)
             \subseteq managed' \cup byHand' \cup mishap'
    PROVE  IInv'
<1> USE IdleFacts DEF Works, Alone, entry, counts
<1>1. TypeOK'
    BY DEF IInv, TypeOK, Rests
<1>2. LockHeld' /\ StillFree' /\ OnlyKicks' /\ Resting'
    BY DEF IInv, LockHeld, StillFree, OnlyKicks, Resting, Rests
<1>3. ExportsRecorded'
    <2>1. \A d : d \in Pending => d \in Pending'
        BY InPending, InPendingPrimed DEF Rests
    <2> QED
        BY <2>1 DEF IInv, ExportsRecorded
<1> QED
    BY <1>1, <1>2, <1>3, Serving DEF IInv

LEMMA FailuresKeepIInv ==
    ASSUME IInv, NEW j \in Jobs,
           ShareFails(j) \/ UnbindFails(j) \/ ForgetFails(j) \/ RebindFails(j)
    PROVE  IInv'
<1> USE DEF At, Unlocked, host, files, ghosts
<1>1. TypeOK
    BY DEF IInv
<1>2. phase = "up" /\ job[j].step \in {"act", "unbound", "rebind"}
    BY DEF ShareFails, UnbindFails, ForgetFails, RebindFails
<1>3. job[j] \in RealJobs /\ job[j].dev \in Busids
    BY <1>1, <1>2, RealJob DEF RealJobs
<1>4. Rests(j)
    BY <1>1, DoneRests DEF ShareFails, UnbindFails, ForgetFails, RebindFails
<1>5. Works(j)
    BY <1>1, <1>2, <1>3
       DEF Works, ShareFails, UnbindFails, ForgetFails, RebindFails, TypeOK, counts, entry
<1>6. Alone(j)
    BY LockExcludes DEF ShareFails, UnbindFails, ForgetFails, RebindFails, IInv, LockHeld
<1> DEFINE Effect ==
        /\ bound' \subseteq onBus /\ byHand' \subseteq bound' /\ mishap' \subseteq bound'
        /\ managed' \subseteq Busids /\ lapsed' \subseteq Busids
        /\ bound' \ bound \subseteq managed' \cup mishap'
        /\ bound' \cap (managed \cup byHand \cup mishap)
             \subseteq managed' \cup byHand' \cup mishap'
<1>7. ASSUME ShareFails(j) PROVE Effect
    BY <1>1, <1>3, <1>7 DEF ShareFails, Binds, TypeOK
<1>8. ASSUME UnbindFails(j) PROVE Effect
    BY <1>1, <1>3, <1>8 DEF UnbindFails, Unbinds, TypeOK
<1>9. ASSUME ForgetFails(j) PROVE Effect
    BY <1>1, <1>3, <1>9 DEF ForgetFails, TypeOK
<1>10. ASSUME RebindFails(j) PROVE Effect
    <2>1. job[j].dev \notin bound \ byHand
        BY <1>10 DEF RebindFails, IInv, StillFree
    <2>2. /\ managed' \subseteq Busids
          /\ managed \cap bound \subseteq managed' \cup Wiped(job[j].dev) \cup byHand
          /\ Wiped(job[j].dev) \subseteq bound
        BY <1>1, <1>10, <2>1, RecalledFacts DEF RebindFails, Forgets, Wiped, TypeOK
    <2> HIDE DEF At, Unlocked, host, files, ghosts
    <2> QED
        BY <1>1, <1>3, <1>10, <2>2 DEF RebindFails, Binds, TypeOK
<1> QED
    BY <1>2, <1>4, <1>5, <1>6, <1>7, <1>8, <1>9, <1>10, FailingKeepsIInv

LEMMA JobStepKeepsIInv ==
    ASSUME IInv, NEW j \in Jobs, JobStep(j)
    PROVE  IInv'
<1> USE DEF At, Locked, Unlocked, Works, host, files, ghosts
<1>1. TypeOK
    BY DEF IInv
<1>2. ASSUME At(j, "act") \/ At(j, "bound") \/ At(j, "unbound") \/ At(j, "rebind")
               \/ At(j, "rebound")
      PROVE  job[j] \in RealJobs /\ job[j].step # "idle"
    BY <1>1, <1>2, RealJob
<1>3. ASSUME At(j, "bound") \/ At(j, "unbound") \/ At(j, "rebind")
      PROVE  Alone(j)
    BY <1>3, LockExcludes DEF IInv, LockHeld
<1>4. ASSUME Locked(j)
      PROVE  Alone(j) /\ command' \in Jobs \cup {NoJob}
    BY <1>4, LockExcludes
<1>5. CASE ActShare(j)
    <2>1. Moves(j, "bound")
        BY <1>1, <1>2, <1>5, GotoMoves DEF ActShare, Steps
    <2> QED
        BY <1>2, <1>4, <1>5, <2>1, BindingKeepsIInv DEF ActShare
<1>6. CASE Rebind(j)
    <2>1. Moves(j, "rebound")
        BY <1>1, <1>2, <1>6, GotoMoves DEF Rebind, Steps
    <2> QED
        BY <1>2, <1>3, <1>6, <2>1, BindingKeepsIInv DEF Rebind
<1>7. CASE ActUnshare(j)
    <2>1. Moves(j, "unbound")
        BY <1>1, <1>2, <1>7, GotoMoves DEF ActUnshare, Steps
    <2> QED
        BY <1>2, <1>4, <1>7, <2>1, UnbindingKeepsIInv DEF ActUnshare
<1>8. CASE ActKick(j)
    <2>1. Moves(j, "rebind")
        BY <1>1, <1>2, <1>8, GotoMoves DEF ActKick, Steps
    <2> QED
        BY <1>2, <1>4, <1>8, <2>1, UnbindingKeepsIInv DEF ActKick
<1>9. CASE Remember(j) \/ RememberKicked(j)
    <2>1. Rests(j)
        BY <1>1, <1>9, DoneRests DEF Remember, RememberKicked
    <2> QED
        BY <1>2, <1>3, <1>9, <2>1, RecordingKeepsIInv, <1>1 DEF Remember, RememberKicked, TypeOK
<1>10. CASE Forget(j)
    <2>1. Rests(j) \/ (Moves(j, "flag") /\ job[j].op = "hide")
        BY <1>1, <1>2, <1>10, DoneRests, GotoMoves DEF Forget, Steps
    <2> QED
        BY <1>2, <1>3, <1>10, <2>1, ForgettingKeepsIInv DEF Forget
<1> QED
    BY <1>5, <1>6, <1>7, <1>8, <1>9, <1>10, ChecksKeepIInv, FailuresKeepIInv DEF JobStep

-----------------------------------------------------------------------------
(* The container.                                                          *)

\* While the container does not serve, no request is under way.
LEMMA NoRequests ==
    ASSUME IInv, phase # "up"
    PROVE  \A j \in Jobs : job[j] = Idle /\ job[j].step = "idle"
BY IdleFacts DEF IInv, Resting

LEMMA NoJobStep ==
    ASSUME IInv, NEW j \in Jobs, JobStep(j)
    PROVE  phase = "up" /\ phase' = "up"
BY DEF JobStep, Check, CheckStop, ActShare, ShareFails, Remember, ActUnshare, UnbindFails,
       Forget, ForgetFails, ActKick, Rebind, RebindFails, RememberKicked, Flag, At, entry

LEMMA PendingInScript ==
    ASSUME \A j \in Jobs : job[j].step = "idle"
    PROVE  Pending = IF phase = "boot" THEN half ELSE {}
BY DEF Pending

LEMMA PendingInScriptPrimed ==
    ASSUME \A j \in Jobs : job'[j].step = "idle"
    PROVE  Pending' = IF phase' = "boot" THEN half' ELSE {}
BY DEF Pending

\* The requests need not be looked at when none is under way, before or after.
LEMMA AtRest ==
    ASSUME UNCHANGED <<job, command>>, \A j \in Jobs : job[j] = Idle
    PROVE  /\ LockHeld' /\ StillFree' /\ OnlyKicks' /\ Resting'
           /\ Pending = (IF phase = "boot" THEN half ELSE {})
           /\ Pending' = (IF phase' = "boot" THEN half' ELSE {})
<1>1. \A j \in Jobs : job[j].step = "idle" /\ job'[j].step = "idle" /\ job'[j] = Idle
    BY IdleFacts
<1>2. LockHeld' /\ StillFree' /\ OnlyKicks' /\ Resting'
    BY <1>1 DEF LockHeld, StillFree, OnlyKicks, Resting
<1> QED
    BY <1>1, <1>2, PendingInScript, PendingInScriptPrimed

LEMMA BootKeepsIInv ==
    ASSUME IInv, NEW list \in SUBSET Busids, Boot(list)
    PROVE  IInv'
<1> USE DEF Boot, host, files, web
<1>1. todo' \subseteq Busids /\ listed' = todo'
    BY RecalledFacts DEF IInv
<1>2. TypeOK'
    <2>1. Route \in BOOLEAN
        BY DEF Route, RouteIn
    <2> QED
        BY <1>1, <2>1 DEF IInv, TypeOK
<1>3. /\ LockHeld' /\ StillFree' /\ OnlyKicks' /\ Resting'
      /\ Pending = {}
    BY NoRequests, AtRest
<1>4. ExportsRecorded'
    BY <1>3 DEF IInv, ExportsRecorded
<1>5. ScriptInv'
    BY <1>1 DEF IInv, ScriptInv, OneAtATime, HalfUndone, RoundRoute, RoundList, StopList,
       Route, RouteIn
<1> QED
    BY <1>2, <1>3, <1>4, <1>5 DEF IInv

LEMMA BindOneKeepsIInv ==
    ASSUME IInv, NEW b \in Busids, BindOneSkips(b) \/ BindOne(b) \/ BindOneRecords(b)
    PROVE  IInv'
<1> USE DEF Skip, host, files, web, counts
<1>1. phase = "boot" /\ UNCHANGED <<job, command, phase, setting, byHand, listed, routeBefore>>
    BY DEF BindOneSkips, BindOne, BindOneRecords
<1>2. LockHeld' /\ StillFree' /\ OnlyKicks' /\ Resting' /\ Pending = half /\ Pending' = half'
    BY <1>1, NoRequests, AtRest
<1>3. CASE BindOneSkips(b)
    <2>1. TypeOK'
        BY <1>3 DEF BindOneSkips, IInv, TypeOK
    <2>2. ExportsRecorded'
        BY <1>2, <1>3 DEF BindOneSkips, IInv, ExportsRecorded
    <2>3. ScriptInv'
        BY <1>1, <1>3 DEF BindOneSkips, IInv, ScriptInv, OneAtATime, HalfUndone, RoundRoute,
           RoundList, StopList
    <2> QED
        BY <1>2, <2>1, <2>2, <2>3 DEF IInv
<1>4. CASE BindOne(b)
    <2>1. TypeOK'
        BY <1>4 DEF BindOne, Binds, IInv, TypeOK
    <2>2. ExportsRecorded'
        BY <1>2, <1>4 DEF BindOne, Binds, IInv, ExportsRecorded
    <2>3. ScriptInv'
        BY <1>1, <1>4 DEF BindOne, Binds, IInv, ScriptInv, OneAtATime, HalfUndone, RoundRoute,
           RoundList, StopList
    <2> QED
        BY <1>2, <2>1, <2>2, <2>3 DEF IInv
<1>5. CASE BindOneRecords(b)
    <2>1. TypeOK'
        BY <1>5 DEF BindOneRecords, IInv, TypeOK
    <2>2. \A c \in half : c = b
        BY <1>5 DEF BindOneRecords, IInv, ScriptInv, OneAtATime
    <2>3. ExportsRecorded'
        BY <1>2, <1>5, <2>2 DEF BindOneRecords, IInv, ExportsRecorded
    <2>4. ScriptInv'
        BY <1>1, <1>5 DEF BindOneRecords, IInv, ScriptInv, OneAtATime, HalfUndone, RoundRoute,
           RoundList, StopList
    <2> QED
        BY <1>2, <2>1, <2>3, <2>4 DEF IInv
<1> QED
    BY <1>3, <1>4, <1>5

LEMMA RoundEndsKeepIInv ==
    ASSUME IInv, EndOfRound \/ EndOfUndo \/ StopEnds
    PROVE  IInv'
<1> USE DEF RoundOver, host, files, web, counts
<1>1. UNCHANGED <<job, command, onBus, bound, managed, byHand, mishap, half>>
    BY DEF EndOfRound, EndOfUndo, StopEnds, ghosts
<1>2. /\ LockHeld' /\ StillFree' /\ OnlyKicks' /\ Resting'
      /\ Pending = (IF phase = "boot" THEN half ELSE {})
    BY <1>1, NoRequests, AtRest DEF EndOfRound, EndOfUndo, StopEnds
<1>3. TypeOK'
    BY DEF EndOfRound, EndOfUndo, StopEnds, ghosts, IInv, TypeOK
<1>4. ExportsRecorded'
    <2>1. Pending = {}
        BY <1>2 DEF EndOfRound, EndOfUndo, StopEnds
    <2> QED
        BY <1>1, <2>1 DEF IInv, ExportsRecorded
<1>5. ScriptInv'
    BY DEF EndOfRound, EndOfUndo, StopEnds, ghosts, IInv, ScriptInv, OneAtATime, HalfUndone,
       RoundRoute, RoundList, StopList
<1> QED
    BY <1>2, <1>3, <1>4, <1>5 DEF IInv

LEMMA UndoKeepsIInv ==
    ASSUME IInv, NEW b \in Busids, UndoUnbinds(b) \/ UndoForgets(b) \/ StopUnbinds(b)
    PROVE  IInv'
<1> USE DEF Skip, host, files, web, counts
<1>1. phase \in {"undo", "stop"} /\ UNCHANGED <<job, command, phase, setting>>
    BY DEF UndoUnbinds, UndoForgets, StopUnbinds
<1>2. LockHeld' /\ StillFree' /\ OnlyKicks' /\ Resting' /\ Pending = {} /\ Pending' = {}
    BY <1>1, NoRequests, AtRest
<1>3. CASE UndoUnbinds(b) \/ StopUnbinds(b)
    <2>1. /\ bound' \subseteq bound /\ byHand' \subseteq byHand
          /\ byHand' \subseteq bound' /\ mishap' \subseteq bound'
          /\ (byHand \cup mishap) \cap bound' \subseteq byHand' \cup mishap'
          /\ b \in bound' => b \in byHand' \cup mishap'
        BY <1>3 DEF UndoUnbinds, StopUnbinds, MayUnbind, Unbinds, IInv, TypeOK
    <2>2. /\ half' \subseteq Busids /\ OneAtATime' /\ half' \subseteq half \cup {b}
          /\ todo' = todo \ {b}
          /\ UNCHANGED <<onBus, managed, hidden, roundBound, routeBefore, lapsed, listed>>
        BY <1>3 DEF UndoUnbinds, StopUnbinds, IInv, TypeOK, ScriptInv, OneAtATime
    <2>3. UNCHANGED <<requests, starts, hostEvents>>
        BY <1>3 DEF UndoUnbinds, StopUnbinds
    <2>4. TypeOK'
        BY <1>1, <2>1, <2>2, <2>3 DEF IInv, TypeOK
    <2>5. ExportsRecorded'
        BY <1>2, <2>1, <2>2 DEF IInv, ExportsRecorded
    <2>6. ScriptInv'
        BY <1>1, <2>1, <2>2 DEF IInv, ScriptInv, HalfUndone, RoundRoute, RoundList, StopList
    <2> QED
        BY <1>2, <2>4, <2>5, <2>6 DEF IInv
<1>4. CASE UndoForgets(b)
    <2>1. /\ managed' \subseteq Busids /\ mishap' \subseteq bound /\ mishap \subseteq mishap'
          /\ (managed \ {b}) \cap bound \subseteq managed' \cup mishap'
        BY <1>4, RecalledFacts DEF UndoForgets, Forgets, Wiped, IInv, TypeOK
    <2>2. b \in bound => b \in byHand \cup mishap
        BY <1>4 DEF UndoForgets, IInv, ScriptInv, HalfUndone
    <2>3. UNCHANGED <<onBus, bound, hidden, todo, roundBound, routeBefore, byHand, lapsed, listed,
                      requests, starts, hostEvents>> /\ half' = {}
        BY <1>4 DEF UndoForgets
    <2>4. TypeOK'
        BY <1>1, <2>1, <2>3 DEF IInv, TypeOK
    <2>5. ExportsRecorded'
        BY <1>2, <2>1, <2>2, <2>3 DEF IInv, ExportsRecorded
    <2>6. ScriptInv'
        BY <1>1, <2>1, <2>3 DEF IInv, ScriptInv, OneAtATime, HalfUndone, RoundRoute, RoundList,
           StopList
    <2> QED
        BY <1>2, <2>4, <2>5, <2>6 DEF IInv
<1> QED
    BY <1>3, <1>4

LEMMA EndKeepsIInv ==
    ASSUME IInv, Stop \/ Killed \/ PowerCut
    PROVE  IInv'
<1> USE DEF Halted, RoundOver, files
<1>1. /\ \A j \in Jobs : job'[j] = Idle /\ job'[j].step = "idle"
      /\ job' \in [Jobs -> JobStates]
    BY IdleFacts DEF Stop, Killed, PowerCut
<1>2. Unrecorded \subseteq bound /\ (Pending \cap bound) \ managed \subseteq Unrecorded
    BY DEF Unrecorded
<1>3. /\ bound' \subseteq bound /\ byHand' \subseteq bound' /\ mishap' \subseteq bound'
      /\ bound' \cap (byHand \cup mishap \cup Unrecorded) \subseteq byHand' \cup mishap'
      /\ todo' \subseteq Busids /\ half' = {} /\ phase' \in {"stop", "down"}
    BY <1>2, RecalledFacts DEF Stop, Killed, PowerCut, IInv, TypeOK
<1>4. TypeOK'
    <2>1. requests' \in Nat /\ starts' \in Nat /\ hostEvents' \in Nat
        BY DEF Stop, Killed, PowerCut, counts, IInv, TypeOK
    <2>2. command' = NoJob /\ UNCHANGED <<onBus, managed, hidden, setting>>
          /\ roundBound' = {} /\ routeBefore' = FALSE /\ lapsed' = {} /\ listed' = {}
        BY DEF Stop, Killed, PowerCut
    <2> QED
        BY <1>1, <1>3, <2>1, <2>2 DEF IInv, TypeOK
<1>5. LockHeld' /\ StillFree' /\ OnlyKicks' /\ Resting'
    BY <1>1 DEF LockHeld, StillFree, OnlyKicks, Resting
<1>6. ExportsRecorded'
    <2>1. UNCHANGED managed
        BY DEF Stop, Killed, PowerCut
    <2> QED
        BY <1>2, <1>3, <2>1 DEF IInv, ExportsRecorded
<1>7. StopList'
    <2>1. CASE Stop
        BY <1>2, <2>1 DEF Stop, IInv, ExportsRecorded, StopList
    <2>2. CASE Killed \/ PowerCut
        BY <2>2 DEF Killed, PowerCut, StopList
    <2> QED
        BY <2>1, <2>2
<1>8. ScriptInv'
    BY <1>3, <1>7 DEF ScriptInv, OneAtATime, HalfUndone, RoundRoute, RoundList
<1> QED
    BY <1>4, <1>5, <1>6, <1>8 DEF IInv

LEMMA PendingStays ==
    ASSUME UNCHANGED <<job, phase, half>>
    PROVE  Pending' = Pending
BY DEF Pending

LEMMA HostKeepsIInv ==
    ASSUME IInv, NEW b \in Busids, Plug(b) \/ Unplug(b) \/ BindByHand(b)
    PROVE  IInv'
<1> USE DEF HostEvent, files, web, entry
<1>1. UNCHANGED <<job, command, phase, setting, todo, half, roundBound, routeBefore, listed,
                  managed, hidden>>
    BY DEF Plug, Unplug, BindByHand
<1>2. Pending' = Pending
    BY <1>1, PendingStays
<1>3. /\ bound' \subseteq onBus' /\ onBus' \subseteq Busids
      /\ byHand' \subseteq bound' /\ mishap' \subseteq bound' /\ lapsed' \subseteq Busids
      /\ bound' \ byHand' \subseteq bound \ byHand
      /\ bound' \cap (byHand \cup mishap) \subseteq byHand' \cup mishap'
      /\ phase = "boot" => bound \cup lapsed \subseteq bound' \cup lapsed'
    BY DEF Plug, Unplug, BindByHand, Unbinds, Binds, IInv, TypeOK
<1>4. TypeOK'
    <2>1. requests' \in Nat /\ starts' \in Nat /\ hostEvents' \in Nat
        BY DEF Plug, Unplug, BindByHand, IInv, TypeOK
    <2> QED
        BY <1>1, <1>3, <2>1 DEF IInv, TypeOK
<1>5. LockHeld' /\ StillFree' /\ OnlyKicks' /\ Resting'
    BY <1>1, <1>3 DEF IInv, LockHeld, StillFree, OnlyKicks, Resting
<1>6. ExportsRecorded'
    BY <1>1, <1>2, <1>3 DEF IInv, ExportsRecorded
<1>7. ScriptInv'
    <2>1. OneAtATime' /\ HalfUndone' /\ RoundRoute'
        BY <1>1, <1>3 DEF IInv, ScriptInv, OneAtATime, HalfUndone, RoundRoute
    <2>2. RoundList' /\ StopList'
        BY <1>1, <1>3 DEF IInv, ScriptInv, RoundList, StopList
    <2> QED
        BY <2>1, <2>2 DEF ScriptInv
<1> QED
    BY <1>4, <1>5, <1>6, <1>7 DEF IInv

-----------------------------------------------------------------------------
LEMMA NextIInv == IInv /\ [Next]_vars => IInv'
<1> SUFFICES ASSUME IInv, [Next]_vars PROVE IInv'
    OBVIOUS
<1>1. CASE UNCHANGED vars
    <2> USE <1>1 DEF vars, host, files, web, entry, ghosts, counts, IInv
    <2>1. TypeOK'
        BY DEF TypeOK
    <2>2. ExportsRecorded'
        BY PendingStays DEF ExportsRecorded
    <2>3. LockHeld' /\ StillFree' /\ OnlyKicks' /\ Resting'
        BY DEF LockHeld, StillFree, OnlyKicks, Resting
    <2>4. ScriptInv'
        BY DEF ScriptInv, OneAtATime, HalfUndone, RoundRoute, RoundList, StopList
    <2> QED
        BY <2>1, <2>2, <2>3, <2>4
<1>2. CASE Next
    BY <1>2, JobStepKeepsIInv, AskKeepsIInv, BootKeepsIInv, BindOneKeepsIInv,
       RoundEndsKeepIInv, UndoKeepsIInv, EndKeepsIInv, HostKeepsIInv DEF Next
<1> QED
    BY <1>1, <1>2

LEMMA Invariance == Spec => []IInv
BY InitIInv, NextIInv, PTL DEF Spec

\* In every reachable state the variables have their types.
THEOREM TypeCorrect == Spec => []TypeOK
<1>1. IInv => TypeOK
    BY DEF IInv
<1> QED
    BY <1>1, Invariance, PTL

\* Whatever is exported is in the file of managed devices, unless somebody bound
\* it by hand, or whoever bound it has not recorded it yet, or a failed call or a
\* kill has parted it from its record (mutate_device, kick_device, bind_one).
THEOREM ExportsAreRecorded == Spec => []ExportsRecorded
<1>1. IInv => ExportsRecorded
    BY DEF IInv
<1> QED
    BY <1>1, Invariance, PTL

\* The script starts to serve at the end of a round or of its rollback only.
LEMMA ServesAfterRound ==
    ASSUME IInv, Next, phase # "up", phase' = "up"
    PROVE  EndOfRound \/ EndOfUndo
<1>1. ~(\E j \in Jobs : JobStep(j) \/ \E op \in Operations, b \in Busids : Ask(j, op, b))
    BY NoJobStep DEF Ask
<1>2. ~(\E list \in SUBSET Busids : Boot(list)) /\ ~Stop /\ ~StopEnds /\ ~Killed /\ ~PowerCut
    BY DEF Boot, Stop, StopEnds, Killed, PowerCut
<1>3. ASSUME NEW b \in Busids,
             \/ BindOneSkips(b) \/ BindOne(b) \/ BindOneRecords(b)
             \/ UndoUnbinds(b) \/ UndoForgets(b) \/ StopUnbinds(b)
             \/ Plug(b) \/ Unplug(b) \/ BindByHand(b)
      PROVE  UNCHANGED phase
    BY <1>3 DEF BindOneSkips, BindOne, BindOneRecords, UndoUnbinds, UndoForgets, StopUnbinds,
       Plug, Unplug, BindByHand, HostEvent, entry
<1> QED
    BY <1>1, <1>2, <1>3 DEF Next

\* A start that had a default route ends with one, as long as its adapter is
\* plugged in, nobody bound it by hand, and usbip could unbind it again (the
\* rollback in entrypoint.sh).
THEOREM RouteSurvivesStart == Spec => StartKeepsRoute
<1> DEFINE Keeps ==
        phase # "up" /\ phase' = "up" /\ routeBefore /\ Uplink \in onBus \ byHand
          => RouteIn(onBus', bound') \/ Uplink \in mishap'
<1>1. ASSUME IInv, Next PROVE Keeps
    <2> SUFFICES ASSUME phase # "up", phase' = "up", routeBefore, Uplink \in onBus \ byHand
                 PROVE  RouteIn(onBus', bound') \/ Uplink \in mishap'
        OBVIOUS
    <2>1. CASE EndOfRound
        BY <2>1 DEF EndOfRound, LostRoute, Route, RouteIn, host
    <2>2. CASE EndOfUndo
        BY <1>1, <2>2 DEF EndOfUndo, IInv, ScriptInv, RoundRoute, RouteIn, host
    <2> QED
        BY <1>1, <2>1, <2>2, ServesAfterRound
<1>2. IInv /\ [Next]_vars => [Keeps]_vars
    BY <1>1
<1> QED
    BY <1>2, Invariance, PTL DEF StartKeepsRoute, Spec

\* A start that keeps the route exports each listed device that was not refused
\* itself, or pulled out (bind_one returns 0).
THEOREM StartSharesTheRest == Spec => StartBindsTheRest
<1> DEFINE Rest ==
        EndOfRound /\ ~(routeBefore /\ ~Route) => listed \ lapsed \subseteq bound'
<1>1. IInv => Rest
    BY DEF IInv, ScriptInv, RoundList, EndOfRound, LostRoute, host
<1> QED
    BY <1>1, Invariance, PTL DEF StartBindsTheRest

\* With USBIP_UNBIND_ON_EXIT, a stop leaves exported only what was bound by hand,
\* what a failure or a kill had parted from its record, and what usbip could not
\* unbind (cleanup in entrypoint.sh).
THEOREM StopLeavesNothing == Spec => StopTidies
<1> DEFINE Leaves == StopEnds /\ setting.unbind => bound' \subseteq byHand' \cup mishap'
<1>1. IInv => Leaves
    BY DEF IInv, ScriptInv, StopList, StopEnds, host, ghosts
<1> QED
    BY <1>1, Invariance, PTL DEF StopTidies
=============================================================================
