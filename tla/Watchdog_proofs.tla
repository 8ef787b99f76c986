-------------------------- MODULE Watchdog_proofs ---------------------------
(***************************************************************************)
(* Proofs about Watchdog: the counter of missed heartbeats agrees with the *)
(* age of the record whichever way heartbeats and the steps of a sweep     *)
(* interleave, so the watchdog removes and cuts off whom it should.        *)
(***************************************************************************)
EXTENDS WatchdogProps, Integers, TLAPS

\* While a sweep runs no time has passed since the watchdog woke up.
Rested == sweep.step # "sleep" => timer = 0

\* A counter that says something about the record: it stands for sweeps that found
\* the record silent.
Counted(c) == record[c].known /\ misses[c] > 0 /\ ~Resetting(c)

\* How long k misses in a row take at least.
Longer(k) == SafeGap + (k - 2) * Interval

\* The time since the sweep that counted the last miss of c.
Since(c) ==
    IF sweep.step = "sleep" THEN timer ELSE IF c \in sweep.todo THEN Interval ELSE 0

\* NoEscalation with the time between two sweeps.
CountsTime ==
    \A c \in Clients :
        Counted(c) /\ misses[c] > 1 => record[c].age > Longer(misses[c]) + Since(c)

\* A record the sweep has not come to is as old as the snapshot says, unless a
\* heartbeat has taken back the misses of the client.
Tracks ==
    \A c \in Clients :
        sweep.step # "sleep" /\ c \in sweep.todo /\ Counted(c)
            => record[c].age = sweep.snap[c].age

\* Whom the sweep has decided to remove is silent, unless heard of since.
Doomed ==
    sweep.step = "remove" =>
        /\ sweep.who \in Clients
        /\ Threshold > 1 /\ Counted(sweep.who) => record[sweep.who].age >= Grace

\* What force_release_allowed found out stands when the kick follows.
Checked ==
    sweep.step = "kick" /\ sweep.seen # NoClient => Addr[sweep.seen] = Addr[sweep.who]

\* Who says goodbye has left, so it says goodbye once.
LeftFirst == \A c \in Clients : bye[c].step # "none" => mode[c] = "left"

IInv == TypeOK /\ Rested /\ CountsTime /\ Tracks /\ Doomed /\ Checked /\ LeftFirst

-----------------------------------------------------------------------------
(* Times.                                                                   *)

LEMMA TimesAreNat ==
    /\ KickIdle \in Nat /\ TtlFloor \in Nat /\ TtlMargin \in Nat /\ SafeGap \in Nat
    /\ Interval \in Nat \ {0} /\ Threshold \in Nat \ {0} /\ BeatGap \in Nat \ {0}
  BY TimesAssumption

LEMMA OldestIsBeyond ==
    /\ Ttl \in Nat /\ Grace \in Nat /\ Redundancy \in Nat /\ Oldest \in Nat \ {0}
    /\ Redundancy = SafeGap + Threshold * Interval /\ Redundancy < Oldest
<1>1. Threshold * Interval \in Nat
  BY TimesAreNat
<1>2. Redundancy \in Nat /\ Redundancy = SafeGap + Threshold * Interval
  BY <1>1, TimesAreNat DEF Redundancy
<1> QED
  BY <1>2, TimesAreNat DEF Ttl, Grace, Oldest, Larger

LEMMA OlderAges ==
    ASSUME NEW a \in 0..Oldest
    PROVE  Older(a) \in 0..Oldest /\ Older(a) >= a /\ (a < Oldest => Older(a) = a + 1)
  BY OldestIsBeyond DEF Older

\* Counters below the cap never speak of times that ages do not tell apart.
LEMMA LongerIsTold ==
    ASSUME NEW k \in 2..(Threshold + 1)
    PROVE  /\ Longer(k) \in Nat
           /\ k = 2 => Longer(k) = SafeGap
           /\ k > 2 => Longer(k) = Longer(k - 1) + Interval
           /\ Longer(k) + Interval < Oldest
<1>1. k \in Nat /\ k - 2 \in Nat /\ Threshold + 1 - k \in Nat
  BY TimesAreNat
<1>2. (k - 2) * Interval \in Nat /\ (Threshold + 1 - k) * Interval \in Nat
  BY <1>1, TimesAreNat
<1>3. (k - 2) * Interval + Interval + (Threshold + 1 - k) * Interval = Threshold * Interval
  BY <1>1, TimesAreNat
<1>4. ((k - 1) - 2) * Interval + Interval = (k - 2) * Interval
  BY <1>1, TimesAreNat
<1>5. k = 2 => (k - 2) * Interval = 0
  BY TimesAreNat
<1>6. Longer(k) = SafeGap + (k - 2) * Interval
  BY DEF Longer
<1>7. Longer(k - 1) = SafeGap + ((k - 1) - 2) * Interval
  BY DEF Longer
<1>8. Threshold * Interval \in Nat /\ ((k - 1) - 2) * Interval \in Int
  BY <1>1, TimesAreNat
<1> QED
  BY <1>2, <1>3, <1>4, <1>5, <1>6, <1>7, <1>8, TimesAreNat, OldestIsBeyond

LEMMA BumpedCounts ==
    ASSUME TypeOK, NEW c \in Clients
    PROVE  /\ misses[c] \in 0..(Threshold + 1) /\ Bumped(c) \in 1..(Threshold + 1)
           /\ Bumped(c) = misses[c] + 1 \/ (Bumped(c) = misses[c] /\ misses[c] > 1)
  BY TimesAreNat DEF TypeOK, Bumped

LEMMA AgesAreNat ==
    ASSUME TypeOK, NEW c \in Clients
    PROVE  /\ record[c] \in Records /\ record[c].age \in 0..Oldest
           /\ sweep.snap[c] \in Records /\ sweep.snap[c].age \in 0..Oldest
           /\ sweep.snap[c].busids \in SUBSET Busids
<1>1. ASSUME NEW r \in Records PROVE r.age \in 0..Oldest /\ r.busids \in SUBSET Busids
  <2>1. CASE r = NoRecord
    BY <2>1, OldestIsBeyond DEF NoRecord
  <2>2. CASE r \in [known : {TRUE}, busids : SUBSET Busids, age : 0..Oldest]
    BY <2>2
  <2> QED
    BY <2>1, <2>2 DEF Records
<1>2. record[c] \in Records /\ sweep.snap[c] \in Records
  BY DEF TypeOK
<1> QED
  BY <1>1, <1>2

-----------------------------------------------------------------------------
(* What most steps do to a counter.                                         *)

\* Nothing that the counter of c is about.
Same(c) ==
    /\ record[c].known /\ record'[c].age = record[c].age
    /\ misses'[c] = misses[c] /\ ~Resetting(c)

\* The counter of c says nothing after the step.
Void(c) == misses'[c] = 0 \/ Resetting(c)' \/ ~record'[c].known

\* A step that leaves the time alone, may finish with a record of the snapshot, and
\* either does not concern a counter or voids it.
LEMMA CountsKept ==
    ASSUME IInv,
           timer' = timer, sweep'.step = "sleep" <=> sweep.step = "sleep",
           sweep'.todo \subseteq sweep.todo,
           \A c \in sweep'.todo : sweep'.snap[c] = sweep.snap[c],
           sweep'.step = "remove" => sweep.step = "remove" /\ sweep'.who = sweep.who,
           \A c \in Clients : Same(c) \/ Void(c)
    PROVE  Rested' /\ CountsTime' /\ Tracks' /\ Doomed'
<1> USE DEF IInv
<1>1. Rested'
  BY DEF Rested
<1>2. ASSUME NEW c \in Clients, Counted(c)', (misses[c] > 1)'
      PROVE  (record[c].age > Longer(misses[c]) + Since(c))'
  <2>1. Same(c) /\ Counted(c) /\ misses[c] > 1
    BY <1>2 DEF Same, Void, Counted
  <2>2. record[c].age > Longer(misses[c]) + Since(c)
    BY <2>1 DEF CountsTime
  <2>3. misses[c] \in 2..(Threshold + 1) /\ record[c].age \in Nat /\ timer \in Nat
    BY <2>1, AgesAreNat, OldestIsBeyond, TimesAreNat DEF TypeOK
  <2>4. Longer(misses[c]) \in Nat
    BY <2>3, LongerIsTold
  <2>5. Longer(misses[c])' = Longer(misses[c])
    BY <2>1 DEF Same, Longer
  <2>6. Since(c)' <= Since(c) /\ Since(c)' \in Nat /\ Since(c) \in Nat
    BY <2>3, TimesAreNat DEF Since
  <2>7. record'[c].age = record[c].age
    BY <2>1 DEF Same
  <2> QED
    BY <2>2, <2>3, <2>4, <2>5, <2>6, <2>7
<1>3. ASSUME NEW c \in Clients, (sweep.step # "sleep" /\ c \in sweep.todo /\ Counted(c))'
      PROVE  (record[c].age = sweep.snap[c].age)'
  <2>1. Same(c) /\ Counted(c) /\ c \in sweep.todo /\ sweep.step # "sleep"
    BY <1>3 DEF Same, Void, Counted
  <2>2. sweep'.snap[c] = sweep.snap[c]
    BY <1>3
  <2> QED
    BY <2>1, <2>2 DEF Tracks, Same
<1>4. Doomed'
  <2> SUFFICES ASSUME sweep'.step = "remove"
               PROVE  /\ sweep.who \in Clients /\ sweep'.who = sweep.who
                      /\ Threshold > 1 /\ Counted(sweep.who)' => record'[sweep.who].age >= Grace
    BY DEF Doomed, Counted, Resetting
  <2>1. sweep.who \in Clients /\ sweep'.who = sweep.who /\ sweep.step = "remove"
    BY DEF Doomed
  <2>2. ASSUME Threshold > 1, Counted(sweep.who)' PROVE record'[sweep.who].age >= Grace
    <3>1. Same(sweep.who)
      BY <2>1, <2>2 DEF Void, Counted
    <3>2. Counted(sweep.who)
      BY <2>2, <3>1 DEF Same, Counted
    <3> QED
      BY <2>1, <2>2, <3>1, <3>2 DEF Doomed, Same
  <2> QED
    BY <2>1, <2>2
<1> QED
  BY <1>1, <1>2, <1>3, <1>4 DEF CountsTime, Tracks

-----------------------------------------------------------------------------
(* The initial states.                                                      *)

LEMMA NoRecordIsRecord == NoRecord \in Records /\ \A B \in SUBSET Busids : Seen(B) \in Records
  BY OldestIsBeyond DEF Records, NoRecord, Seen

\* The type of a sweep.
Sweeps == [step : Steps, snap : [Clients -> Records], todo : SUBSET Clients,
           who : Clients \cup {NoClient}, list : SUBSET Busids, dev : SUBSET Busids,
           seen : Clients \cup {NoClient}]

LEMMA AsleepIsSweep == Asleep \in Sweeps
  BY NoRecordIsRecord DEF Asleep, Sweeps, Steps

LEMMA InitIInv == Init => IInv
<1> SUFFICES ASSUME Init PROVE IInv
  OBVIOUS
<1>1. TypeOK
  BY NoRecordIsRecord, AsleepIsSweep, TimesAreNat DEF Init, TypeOK, Sweeps, NoBeat, NoBye
<1>2. Rested /\ Tracks /\ Doomed /\ Checked
  BY DEF Init, Rested, Tracks, Doomed, Checked, Asleep
<1>3. CountsTime
  BY DEF Init, CountsTime, Counted
<1>4. LeftFirst
  BY DEF Init, LeftFirst, NoBye
<1> QED
  BY <1>1, <1>2, <1>3, <1>4 DEF IInv

-----------------------------------------------------------------------------
(* Readers, heartbeats and goodbyes.                                        *)

LEMMA PrunedRecords ==
    ASSUME TypeOK
    PROVE  /\ Pruned(record) \in [Clients -> Records]
           /\ \A c \in Clients : Pruned(record)[c] = record[c] \/ ~Pruned(record)[c].known
<1>1. ~NoRecord.known
  BY DEF NoRecord
<1> QED
  BY <1>1, NoRecordIsRecord DEF TypeOK, Pruned

LEMMA PollInv == ASSUME IInv, Poll PROVE IInv'
<1> USE DEF IInv, Poll, registry, kernel, clients, watchdog
<1>1. TypeOK'
  BY PrunedRecords DEF TypeOK
<1>2. ASSUME NEW c \in Clients PROVE Same(c) \/ Void(c)
  <2>1. CASE record[c].known /\ ~Resetting(c) /\ Pruned(record)[c] = record[c]
    BY <2>1 DEF Same
  <2>2. CASE Resetting(c)
    BY <2>2 DEF Void, Resetting
  <2>3. CASE ~record'[c].known
    BY <2>3 DEF Void
  <2> QED
    BY <2>1, <2>2, <2>3, PrunedRecords
<1>3. Rested' /\ CountsTime' /\ Tracks' /\ Doomed'
  BY <1>2, CountsKept
<1>4. Checked'
  BY DEF Checked
<1>5. LeftFirst'
  BY DEF LeftFirst
<1> QED
  BY <1>1, <1>3, <1>4, <1>5

\* A step of somebody else, for whom the registry is closed.
LEMMA Unconcerned ==
    ASSUME UNCHANGED <<record, misses>>,
           NEW c \in Clients, Resetting(c) => Resetting(c)'
    PROVE  Same(c) \/ Void(c)
<1>1. CASE record[c].known /\ ~Resetting(c)
  BY <1>1 DEF Same
<1>2. CASE Resetting(c) \/ ~record[c].known
  BY <1>2 DEF Void
<1> QED
  BY <1>1, <1>2

LEMMA SendInv == ASSUME IInv, NEW c \in Clients, Send(c) PROVE IInv'
<1> USE DEF IInv, Send, registry, kernel, watchdog
<1>1. TypeOK'
  <2>1. Attached(c) \in SUBSET Busids /\ wants[c] \in SUBSET Busids
    BY DEF Attached, TypeOK
  <2>2. beat' \in [Clients -> [step : {"none", "sent", "written"},
                              busids : SUBSET Busids, line : SUBSET Busids]]
    BY <2>1 DEF TypeOK
  <2>3. quiet' \in [Clients -> 0..BeatGap]
    BY TimesAreNat DEF TypeOK
  <2> QED
    BY <2>2, <2>3 DEF TypeOK
<1>2. ASSUME NEW d \in Clients PROVE Same(d) \/ Void(d)
  BY Unconcerned DEF TypeOK, Resetting, NoBeat
<1>3. Rested' /\ CountsTime' /\ Tracks' /\ Doomed'
  BY <1>2, CountsKept
<1>4. Checked'
  BY DEF Checked
<1>5. LeftFirst'
  BY DEF LeftFirst
<1> QED
  BY <1>1, <1>3, <1>4, <1>5

LEMMA WriteRecordInv == ASSUME IInv, NEW c \in Clients, WriteRecord(c) PROVE IInv'
<1> USE DEF IInv, WriteRecord, kernel, watchdog
<1>1. TypeOK'
  <2>1. beat[c].busids \in SUBSET Busids
    BY DEF TypeOK
  <2>2. record' \in [Clients -> Records]
    BY <2>1, NoRecordIsRecord DEF TypeOK
  <2>3. beat' \in [Clients -> [step : {"none", "sent", "written"},
                              busids : SUBSET Busids, line : SUBSET Busids]]
    <3> DEFINE Beats == [step : {"none", "sent", "written"},
                         busids : SUBSET Busids, line : SUBSET Busids]
    <3>1. beat \in [Clients -> Beats]
      BY DEF TypeOK
    <3>2. [beat[c] EXCEPT !.step = "written"] \in Beats
      BY <3>1
    <3>3. beat' = [beat EXCEPT ![c] = [beat[c] EXCEPT !.step = "written"]]
      BY <3>1
    <3> HIDE DEF Beats
    <3>4. beat' \in [Clients -> Beats]
      BY <3>1, <3>2, <3>3
    <3> QED
      BY <3>4 DEF Beats
  <2> QED
    BY <2>2, <2>3 DEF TypeOK
<1>2. ASSUME NEW d \in Clients PROVE Same(d) \/ Void(d)
  <2>1. CASE d = c
    BY <2>1 DEF TypeOK, Void, Resetting
  <2>2. CASE d # c
    BY <2>2 DEF TypeOK, Void, Same, Resetting
  <2> QED
    BY <2>1, <2>2
<1>3. Rested' /\ CountsTime' /\ Tracks' /\ Doomed'
  BY <1>2, CountsKept
<1>4. Checked'
  BY DEF Checked
<1>5. LeftFirst'
  BY DEF LeftFirst
<1> QED
  BY <1>1, <1>3, <1>4, <1>5

LEMMA FinishBeatInv == ASSUME IInv, NEW c \in Clients, FinishBeat(c) PROVE IInv'
<1> USE DEF IInv, FinishBeat, ResetMisses, kernel, watchdog
<1>1. TypeOK'
  <2>1. misses' \in [Clients -> 0..(Threshold + 1)]
    BY TimesAreNat DEF TypeOK
  <2>2. waiting' \in [Busids -> SUBSET Clients]
    BY DEF TypeOK, Lines
  <2>3. beat' \in [Clients -> [step : {"none", "sent", "written"},
                              busids : SUBSET Busids, line : SUBSET Busids]]
    BY DEF TypeOK, NoBeat
  <2> QED
    BY <2>1, <2>2, <2>3 DEF TypeOK
<1>2. ASSUME NEW d \in Clients PROVE Same(d) \/ Void(d)
  <2>1. CASE d = c
    BY <2>1 DEF TypeOK, Void
  <2>2. CASE d # c
    BY <2>2 DEF TypeOK, Void, Same, Resetting, NoBeat, NoBye
  <2> QED
    BY <2>1, <2>2
<1>3. Rested' /\ CountsTime' /\ Tracks' /\ Doomed'
  BY <1>2, CountsKept
<1>4. Checked'
  BY DEF Checked
<1>5. LeftFirst'
  BY DEF LeftFirst
<1> QED
  BY <1>1, <1>3, <1>4, <1>5

Byes == [step : {"none", "sent", "written", "reset"}, busids : SUBSET Busids]

LEMMA ByeGoesOn ==
    ASSUME bye \in [Clients -> Byes], NEW c \in Clients, NEW s \in {"written", "reset"}
    PROVE  [bye EXCEPT ![c].step = s] \in [Clients -> Byes]
<1>1. bye[c] \in Byes
  OBVIOUS
<1>2. [bye[c] EXCEPT !.step = s] \in Byes
  BY <1>1 DEF Byes
<1> QED
  BY <1>2

LEMMA WriteByeInv == ASSUME IInv, NEW c \in Clients, WriteBye(c) PROVE IInv'
<1> USE DEF IInv, WriteBye, kernel, watchdog
<1>1. TypeOK'
  <2>1. bye[c].busids \in SUBSET Busids
    BY DEF TypeOK
  <2>2. record' \in [Clients -> Records]
    BY <2>1, NoRecordIsRecord DEF TypeOK
  <2>3. bye' \in [Clients -> Byes]
    BY ByeGoesOn DEF TypeOK, Byes
  <2> QED
    BY <2>2, <2>3 DEF TypeOK, Byes
<1>2. ASSUME NEW d \in Clients PROVE Same(d) \/ Void(d)
  <2>1. CASE d = c
    BY <2>1 DEF TypeOK, Void, Resetting
  <2>2. CASE d # c
    BY <2>2 DEF TypeOK, Void, Same, Resetting, NoBeat, NoBye
  <2> QED
    BY <2>1, <2>2
<1>3. Rested' /\ CountsTime' /\ Tracks' /\ Doomed'
  BY <1>2, CountsKept
<1>4. Checked'
  BY DEF Checked
<1>5. LeftFirst'
  BY DEF LeftFirst, TypeOK
<1> QED
  BY <1>1, <1>3, <1>4, <1>5

LEMMA CountByeInv == ASSUME IInv, NEW c \in Clients, CountBye(c) PROVE IInv'
<1> USE DEF IInv, CountBye, ResetMisses, kernel, watchdog
<1>1. TypeOK'
  <2>1. misses' \in [Clients -> 0..(Threshold + 1)]
    BY TimesAreNat DEF TypeOK
  <2>2. bye' \in [Clients -> Byes]
    BY ByeGoesOn DEF TypeOK, Byes
  <2> QED
    BY <2>1, <2>2 DEF TypeOK, Byes
<1>2. ASSUME NEW d \in Clients PROVE Same(d) \/ Void(d)
  <2>1. CASE d = c
    BY <2>1 DEF TypeOK, Void
  <2>2. CASE d # c
    BY <2>2 DEF TypeOK, Void, Same, Resetting, NoBeat, NoBye
  <2> QED
    BY <2>1, <2>2
<1>3. Rested' /\ CountsTime' /\ Tracks' /\ Doomed'
  BY <1>2, CountsKept
<1>4. Checked'
  BY DEF Checked
<1>5. LeftFirst'
  BY DEF LeftFirst, TypeOK
<1> QED
  BY <1>1, <1>3, <1>4, <1>5

LEMMA HandleByeInv == ASSUME IInv, NEW c \in Clients, HandleBye(c) PROVE IInv'
<1> USE DEF IInv, HandleBye, ResetMisses, kernel, watchdog
<1>1. TypeOK'
  <2>1. misses' \in [Clients -> 0..(Threshold + 1)]
    BY TimesAreNat DEF TypeOK
  <2>2. record' \in [Clients -> Records]
    BY NoRecordIsRecord DEF TypeOK
  <2>3. waiting' \in [Busids -> SUBSET Clients]
    BY DEF TypeOK, LeaveLines
  <2>4. bye' \in [Clients -> [step : {"none", "sent", "written", "reset"},
                             busids : SUBSET Busids]]
    BY DEF TypeOK, NoBye
  <2> QED
    BY <2>1, <2>2, <2>3, <2>4 DEF TypeOK
<1>2. ASSUME NEW d \in Clients PROVE Same(d) \/ Void(d)
  <2>1. CASE d = c
    BY <2>1 DEF TypeOK, Void
  <2>2. CASE d # c
    BY <2>2 DEF TypeOK, Void, Same, Resetting, NoBeat, NoBye
  <2> QED
    BY <2>1, <2>2
<1>3. Rested' /\ CountsTime' /\ Tracks' /\ Doomed'
  BY <1>2, CountsKept
<1>4. Checked'
  BY DEF Checked
<1>5. LeftFirst'
  BY DEF LeftFirst, TypeOK, NoBye
<1> QED
  BY <1>1, <1>3, <1>4, <1>5

-----------------------------------------------------------------------------
(* The clients.                                                            *)

LEMMA WantInv == ASSUME IInv, NEW c \in Clients, NEW b \in Busids, Want(c, b) PROVE IInv'
<1> USE DEF IInv, Want, registry, kernel, watchdog
<1>1. TypeOK'
  BY DEF TypeOK
<1>2. ASSUME NEW d \in Clients PROVE Same(d) \/ Void(d)
  BY Unconcerned DEF Resetting
<1>3. Rested' /\ CountsTime' /\ Tracks' /\ Doomed'
  BY <1>2, CountsKept
<1>4. Checked'
  BY DEF Checked
<1>5. LeftFirst'
  BY DEF LeftFirst
<1> QED
  BY <1>1, <1>3, <1>4, <1>5

LEMMA AttachInv == ASSUME IInv, NEW c \in Clients, NEW b \in Busids, Attach(c, b) PROVE IInv'
<1> USE DEF IInv, Attach, registry, watchdog
<1>1. TypeOK'
  BY DEF TypeOK
<1>2. ASSUME NEW d \in Clients PROVE Same(d) \/ Void(d)
  BY Unconcerned DEF Resetting
<1>3. Rested' /\ CountsTime' /\ Tracks' /\ Doomed'
  BY <1>2, CountsKept
<1>4. Checked'
  BY DEF Checked
<1>5. LeftFirst'
  BY DEF LeftFirst
<1> QED
  BY <1>1, <1>3, <1>4, <1>5

LEMMA EndSessionInv == ASSUME IInv, NEW b \in Busids, EndSession(b) PROVE IInv'
<1> USE DEF IInv, EndSession, registry, clients, watchdog
<1>1. TypeOK'
  BY DEF TypeOK
<1>2. ASSUME NEW d \in Clients PROVE Same(d) \/ Void(d)
  BY Unconcerned DEF Resetting
<1>3. Rested' /\ CountsTime' /\ Tracks' /\ Doomed'
  BY <1>2, CountsKept
<1>4. Checked'
  BY DEF Checked
<1>5. LeftFirst'
  BY DEF LeftFirst
<1> QED
  BY <1>1, <1>3, <1>4, <1>5

LEMMA FallSilentInv == ASSUME IInv, NEW c \in Clients, FallSilent(c) PROVE IInv'
<1> USE DEF IInv, FallSilent, registry, kernel, watchdog
<1>1. TypeOK'
  BY DEF TypeOK
<1>2. ASSUME NEW d \in Clients PROVE Same(d) \/ Void(d)
  BY Unconcerned DEF Resetting
<1>3. Rested' /\ CountsTime' /\ Tracks' /\ Doomed'
  BY <1>2, CountsKept
<1>4. Checked'
  BY DEF Checked
<1>5. LeftFirst'
  BY DEF LeftFirst, TypeOK
<1> QED
  BY <1>1, <1>3, <1>4, <1>5

LEMMA ComeBackInv == ASSUME IInv, NEW c \in Clients, ComeBack(c) PROVE IInv'
<1> USE DEF IInv, ComeBack, registry, kernel, watchdog
<1>1. TypeOK'
  BY DEF TypeOK
<1>2. ASSUME NEW d \in Clients PROVE Same(d) \/ Void(d)
  BY Unconcerned DEF Resetting
<1>3. Rested' /\ CountsTime' /\ Tracks' /\ Doomed'
  BY <1>2, CountsKept
<1>4. Checked'
  BY DEF Checked
<1>5. LeftFirst'
  BY DEF LeftFirst, TypeOK
<1> QED
  BY <1>1, <1>3, <1>4, <1>5

LEMMA LeaveInv == ASSUME IInv, NEW c \in Clients, Leave(c) PROVE IInv'
<1> USE DEF IInv, Leave, registry, kernel, watchdog
<1>1. TypeOK'
  <2>1. Attached(c) \in SUBSET Busids
    BY DEF Attached
  <2>2. bye' \in [Clients -> [step : {"none", "sent", "written", "reset"},
                             busids : SUBSET Busids]]
    BY <2>1 DEF TypeOK
  <2>3. /\ mode' \in [Clients -> {"live", "silent", "left"}]
        /\ wants' \in [Clients -> SUBSET Busids] /\ quiet' \in [Clients -> 0..BeatGap]
    BY TimesAreNat DEF TypeOK
  <2> QED
    BY <2>2, <2>3 DEF TypeOK
<1>2. ASSUME NEW d \in Clients PROVE Same(d) \/ Void(d)
  BY Unconcerned DEF TypeOK, Resetting, LeftFirst
<1>3. Rested' /\ CountsTime' /\ Tracks' /\ Doomed'
  BY <1>2, CountsKept
<1>4. Checked'
  BY DEF Checked
<1>5. LeftFirst'
  BY DEF LeftFirst, TypeOK
<1> QED
  BY <1>1, <1>3, <1>4, <1>5

-----------------------------------------------------------------------------
(* The sweep.                                                              *)

\* The kinds of a sweep's fields, one by one.
LEMMA SweepFields ==
    ASSUME TypeOK
    PROVE  /\ sweep.step \in Steps
           /\ sweep.snap \in [Clients -> Records] /\ sweep.todo \in SUBSET Clients
           /\ sweep.who \in Clients \cup {NoClient} /\ sweep.list \in SUBSET Busids
           /\ sweep.dev \in SUBSET Busids /\ sweep.seen \in Clients \cup {NoClient}
  BY DEF TypeOK

\* Examined takes one record off the list and keeps the others of the snapshot.
LEMMA ExaminedFacts ==
    ASSUME TypeOK, NEW c \in Clients
    PROVE  /\ Examined(c) \in Sweeps
           /\ Examined(c).step = sweep.step /\ Examined(c).todo = sweep.todo \ {c}
           /\ \A d \in Clients \ {c} : Examined(c).snap[d] = sweep.snap[d]
           /\ Examined(c).snap[c] = Seen({})
           /\ Examined(c).who = sweep.who /\ Examined(c).seen = sweep.seen
<1>1. [sweep.snap EXCEPT ![c] = Seen({})] \in [Clients -> Records]
  BY SweepFields, NoRecordIsRecord
<1>2. Examined(c) = [sweep EXCEPT !.todo = sweep.todo \ {c},
                                  !.snap = [sweep.snap EXCEPT ![c] = Seen({})]]
  BY DEF Examined, TypeOK
<1>3. sweep \in Sweeps
  BY DEF TypeOK, Sweeps
<1> DEFINE snap == [sweep.snap EXCEPT ![c] = Seen({})]
           todo == sweep.todo \ {c}
<1>4. todo \in SUBSET Clients /\ snap \in [Clients -> Records]
  BY <1>1, SweepFields
<1>5. /\ snap[c] = Seen({}) /\ \A d \in Clients \ {c} : snap[d] = sweep.snap[d]
  BY SweepFields
<1>6. Examined(c) = [sweep EXCEPT !.todo = todo, !.snap = snap]
  BY <1>2
<1> HIDE DEF snap, todo
<1>7. /\ Examined(c) \in Sweeps
      /\ Examined(c).step = sweep.step /\ Examined(c).todo = todo
      /\ Examined(c).snap = snap
      /\ Examined(c).who = sweep.who /\ Examined(c).seen = sweep.seen
  BY <1>3, <1>4, <1>6 DEF Sweeps
<1> QED
  BY <1>5, <1>7 DEF todo

LEMMA SweepFreshInv == ASSUME IInv, NEW c \in Clients, SweepFresh(c) PROVE IInv'
<1> USE DEF IInv, SweepFresh, ResetMisses, kernel, clients
<1>1. TypeOK'
  <2>1. misses' \in [Clients -> 0..(Threshold + 1)]
    BY TimesAreNat DEF TypeOK
  <2>2. sweep' \in Sweeps
    BY ExaminedFacts
  <2> QED
    BY <2>1, <2>2 DEF TypeOK, Sweeps
<1>2. ASSUME NEW d \in Clients PROVE Same(d) \/ Void(d)
  <2>1. CASE d = c
    BY <2>1 DEF TypeOK, Void
  <2>2. CASE d # c
    BY <2>2 DEF TypeOK, Void, Same, Resetting
  <2> QED
    BY <2>1, <2>2
<1>3. Rested' /\ CountsTime' /\ Tracks' /\ Doomed'
  BY <1>2, CountsKept, ExaminedFacts, SweepFields
<1>4. Checked'
  BY ExaminedFacts DEF Checked
<1>5. LeftFirst'
  BY DEF LeftFirst
<1> QED
  BY <1>1, <1>3, <1>4, <1>5

\* A miss of this sweep is the interval it stands for: the counter still agrees with
\* the age of the record.
LEMMA MissCounts ==
    ASSUME IInv, NEW c \in Clients, Silent(c),
           misses' = [misses EXCEPT ![c] = Bumped(c)],
           UNCHANGED <<record, beat, bye, timer>>,
           sweep'.step # "sleep", sweep'.todo = sweep.todo \ {c},
           \A d \in Clients \ {c} : sweep'.snap[d] = sweep.snap[d]
    PROVE  Rested' /\ CountsTime' /\ Tracks'
<1> USE DEF IInv, Silent
<1>1. Rested'
  BY DEF Rested
<1>2. sweep.step = "clients" /\ c \in sweep.todo /\ sweep.snap[c].age > SafeGap
  OBVIOUS
<1>3. /\ misses'[c] = Bumped(c) /\ \A d \in Clients \ {c} : misses'[d] = misses[d]
      /\ \A d \in Clients : Resetting(d)' <=> Resetting(d)
  BY DEF TypeOK, Resetting
<1>5. ASSUME NEW d \in Clients, Counted(d)', (misses[d] > 1)'
      PROVE  (record[d].age > Longer(misses[d]) + Since(d))'
  <2>1. CASE d # c
    <3>1. Counted(d) /\ misses[d] > 1 /\ Since(d)' = Since(d)
      BY <1>2, <1>3, <1>5, <2>1 DEF Counted, Since
    <3> QED
      BY <1>2, <1>3, <2>1, <3>1 DEF CountsTime, Longer
  <2>2. CASE d = c
    <3>1. Since(c)' = 0 /\ Longer(misses[c])' = Longer(Bumped(c)) /\ record'[c].age = record[c].age
      BY <1>2, <1>3 DEF Since, Longer
    <3>2. Bumped(c) \in 2..(Threshold + 1) /\ misses[c] \in 1..(Threshold + 1)
      BY <1>3, <1>5, <2>2, BumpedCounts, TimesAreNat
    <3>3. Counted(c) /\ Since(c) = Interval
      BY <1>2, <1>3, <1>5, <2>2, <3>2 DEF Counted, Since
    <3>4. record[c].age \in Nat /\ record[c].age > SafeGap
      BY <1>2, <3>3, AgesAreNat, OldestIsBeyond DEF Tracks
    <3>5. CASE Bumped(c) = 2
      BY <3>1, <3>4, <3>5, <2>2, LongerIsTold, <3>2
    <3>6. CASE Bumped(c) > 2
      <4>1. misses[c] \in 2..(Threshold + 1) /\ record[c].age > Longer(misses[c]) + Interval
        BY <3>2, <3>3, <3>6, BumpedCounts DEF CountsTime
      <4>2. CASE Bumped(c) = misses[c]
        BY <4>1, <4>2, <3>1, <3>4, <2>2, LongerIsTold, TimesAreNat
      <4>3. CASE Bumped(c) = misses[c] + 1
        <5>1. Longer(Bumped(c)) = Longer(misses[c]) + Interval
          BY <4>1, <4>3, <3>2, <3>6, LongerIsTold, TimesAreNat
        <5> QED
          BY <4>1, <5>1, <3>1, <3>4, <2>2, LongerIsTold, TimesAreNat
      <4> QED
        BY <4>2, <4>3, BumpedCounts
    <3> QED
      BY <3>2, <3>5, <3>6
  <2> QED
    BY <2>1, <2>2
<1>6. ASSUME NEW d \in Clients, (sweep.step # "sleep" /\ d \in sweep.todo /\ Counted(d))'
      PROVE  (record[d].age = sweep.snap[d].age)'
  BY <1>2, <1>3, <1>6 DEF Tracks, Counted
<1> QED
  BY <1>1, <1>5, <1>6 DEF CountsTime, Tracks

LEMMA SweepHoldsInv == ASSUME IInv, NEW c \in Clients, SweepHolds(c) PROVE IInv'
<1> USE DEF IInv, SweepHolds, kernel, clients
<1>1. TypeOK'
  <2>1. misses' \in [Clients -> 0..(Threshold + 1)]
    BY BumpedCounts DEF TypeOK
  <2>2. sweep' \in Sweeps
    BY ExaminedFacts
  <2> QED
    BY <2>1, <2>2 DEF TypeOK, Sweeps
<1>2. sweep.step = "clients"
  BY DEF Silent
<1>3. Rested' /\ CountsTime' /\ Tracks'
  BY <1>2, MissCounts, ExaminedFacts
<1>4. Doomed' /\ Checked' /\ LeftFirst'
  BY <1>2, ExaminedFacts DEF Doomed, Checked, LeftFirst
<1> QED
  BY <1>1, <1>3, <1>4

LEMMA SweepDecidesInv == ASSUME IInv, NEW c \in Clients, SweepDecides(c) PROVE IInv'
<1> USE DEF IInv, SweepDecides, kernel, clients
<1>1. sweep.snap[c].busids \in SUBSET Busids
  BY AgesAreNat
<1>2. /\ sweep' \in Sweeps /\ sweep'.step = "remove" /\ sweep'.who = c
      /\ sweep'.todo = sweep.todo \ {c}
      /\ \A d \in Clients \ {c} : sweep'.snap[d] = sweep.snap[d]
  <2> DEFINE e == Examined(c)
             B == sweep.snap[c].busids
  <2>1. /\ e \in Sweeps /\ B \in SUBSET Busids /\ e.todo = sweep.todo \ {c}
        /\ \A d \in Clients \ {c} : e.snap[d] = sweep.snap[d]
    BY <1>1, ExaminedFacts
  <2>2. sweep' = [e EXCEPT !.step = "remove", !.who = c, !.list = B]
    OBVIOUS
  <2> HIDE DEF e, B, SweepDecides
  <2> QED
    BY <2>1, <2>2 DEF Sweeps, Steps
<1>3. TypeOK'
  <2>1. misses' \in [Clients -> 0..(Threshold + 1)]
    BY BumpedCounts DEF TypeOK
  <2> QED
    BY <1>2, <2>1 DEF TypeOK, Sweeps
<1>4. Rested' /\ CountsTime' /\ Tracks'
  BY <1>2, MissCounts
<1>5. Doomed'
  <2>1. /\ sweep.step = "clients" /\ c \in sweep.todo /\ sweep.snap[c].age >= Grace
        /\ Bumped(c) >= Threshold
    BY DEF Silent, Due
  <2>2. ASSUME Threshold > 1, Counted(c)' PROVE record'[c].age >= Grace
    <3>1. misses[c] > 0
      BY <2>1, <2>2, BumpedCounts, TimesAreNat
    <3>2. Counted(c)
      BY <2>2, <3>1 DEF Counted, Resetting
    <3> QED
      BY <2>1, <3>2 DEF Tracks
  <2> QED
    BY <1>2, <2>2 DEF Doomed
<1>6. Checked' /\ LeftFirst'
  BY <1>2 DEF Checked, LeftFirst
<1> QED
  BY <1>3, <1>4, <1>5, <1>6

LEMMA SweepRemovesInv == ASSUME IInv, SweepRemoves PROVE IInv'
<1> USE DEF IInv, SweepRemoves, kernel, clients
<1>1. TypeOK'
  <2>1. sweep' \in Sweeps
    BY SweepFields DEF Sweeps, TypeOK, Steps
  <2>2. record' \in [Clients -> Records]
    BY NoRecordIsRecord DEF TypeOK
  <2> QED
    BY <2>1, <2>2 DEF TypeOK, Sweeps
<1>2. ASSUME NEW d \in Clients PROVE Same(d) \/ Void(d)
  <2>1. CASE record'[d] = NoRecord
    BY <2>1 DEF Void, NoRecord
  <2>2. CASE record'[d] = record[d]
    BY <2>2 DEF Void, Same, Resetting
  <2> QED
    BY <2>1, <2>2 DEF TypeOK
<1>3. Rested' /\ CountsTime' /\ Tracks' /\ Doomed'
  BY <1>2, CountsKept, SweepFields DEF TypeOK
<1>4. Checked'
  BY DEF Checked, TypeOK
<1>5. LeftFirst'
  BY DEF LeftFirst
<1> QED
  BY <1>1, <1>3, <1>4, <1>5

LEMMA SweepResetsInv == ASSUME IInv, SweepResets PROVE IInv'
<1> USE DEF IInv, SweepResets, ResetMisses, kernel, clients
<1>1. TypeOK'
  <2>1. sweep' \in Sweeps
    BY SweepFields DEF Sweeps, TypeOK, Steps
  <2>2. misses' \in [Clients -> 0..(Threshold + 1)]
    <3> DEFINE w == sweep.who
    <3>1. misses \in [Clients -> 0..(Threshold + 1)] /\ 0 \in 0..(Threshold + 1)
      BY TimesAreNat DEF TypeOK
    <3>2. misses' = [misses EXCEPT ![w] = 0]
      OBVIOUS
    <3> HIDE DEF w
    <3> QED
      BY <3>1, <3>2
  <2> QED
    BY <2>1, <2>2 DEF TypeOK, Sweeps
<1>2. ASSUME NEW d \in Clients PROVE Same(d) \/ Void(d)
  <2>1. CASE misses'[d] = 0
    BY <2>1 DEF Void
  <2>2. CASE misses'[d] = misses[d]
    BY <2>2 DEF Void, Same, Resetting
  <2> QED
    BY <2>1, <2>2 DEF TypeOK
<1>3. Rested' /\ CountsTime' /\ Tracks' /\ Doomed'
  BY <1>2, CountsKept, SweepFields DEF TypeOK
<1>4. Checked'
  BY DEF Checked, TypeOK
<1>5. LeftFirst'
  BY DEF LeftFirst
<1> QED
  BY <1>1, <1>3, <1>4, <1>5

LEMMA SweepCleansUpInv == ASSUME IInv, SweepCleansUp PROVE IInv'
<1> USE DEF IInv, SweepCleansUp, kernel, clients
<1>1. TypeOK'
  <2>1. sweep' \in Sweeps
    BY SweepFields DEF Sweeps, TypeOK, Steps
  <2>2. waiting' \in [Busids -> SUBSET Clients]
    BY DEF TypeOK, LeaveLines
  <2> QED
    BY <2>1, <2>2 DEF TypeOK, Sweeps
<1>2. ASSUME NEW d \in Clients PROVE Same(d) \/ Void(d)
  BY Unconcerned DEF Resetting
<1>3. Rested' /\ CountsTime' /\ Tracks' /\ Doomed'
  BY <1>2, CountsKept, SweepFields DEF TypeOK
<1>4. Checked'
  BY DEF Checked, TypeOK
<1>5. LeftFirst'
  BY DEF LeftFirst
<1> QED
  BY <1>1, <1>3, <1>4, <1>5

\* force_release_allowed looks at whoever imports the device.
LEMMA HolderIsPeer ==
    ASSUME TypeOK, NEW b \in Busids, session[b] # NoClient, ReleaseAllowed(b, record')
    PROVE  Addr[session[b]] = Addr[sweep.who]
<1>1. session[b] \in Clients
  BY DEF TypeOK
<1>2. Addr[session[b]] \in Holders(b, record')
  BY <1>1 DEF Holders
<1> QED
  BY <1>2 DEF ReleaseAllowed

LEMMA SweepChecksInv == ASSUME IInv, NEW b \in Busids, SweepChecks(b) PROVE IInv'
<1> USE DEF IInv, SweepChecks, kernel, clients
<1>1. TypeOK'
  <2>1. session[b] \in Clients \cup {NoClient}
    BY DEF TypeOK
  <2>2. sweep' \in Sweeps
    BY <2>1, SweepFields DEF Sweeps, TypeOK, Steps
  <2> QED
    BY <2>2, PrunedRecords DEF TypeOK, Sweeps
<1>2. ASSUME NEW d \in Clients PROVE Same(d) \/ Void(d)
  <2>1. CASE record[d].known /\ ~Resetting(d) /\ Pruned(record)[d] = record[d]
    BY <2>1 DEF Same
  <2>2. CASE Resetting(d)
    BY <2>2 DEF Void, Resetting
  <2>3. CASE ~record'[d].known
    BY <2>3 DEF Void
  <2> QED
    BY <2>1, <2>2, <2>3, PrunedRecords
<1>3. Rested' /\ CountsTime' /\ Tracks' /\ Doomed'
  BY <1>2, CountsKept, SweepFields DEF TypeOK
<1>4. Checked'
  <2>1. CASE ReleaseAllowed(b, record')
    BY <2>1, HolderIsPeer DEF Checked, TypeOK
  <2>2. CASE ~ReleaseAllowed(b, record')
    BY <2>2 DEF Checked, TypeOK
  <2> QED
    BY <2>1, <2>2
<1>5. LeftFirst'
  BY DEF LeftFirst
<1> QED
  BY <1>1, <1>3, <1>4, <1>5

LEMMA KickUnbindsInv == ASSUME IInv, NEW b \in Busids, KickUnbinds(b) PROVE IInv'
<1> USE DEF IInv, KickUnbinds, registry, clients
<1>1. TypeOK'
  <2>1. sweep' \in Sweeps
    BY SweepFields DEF Sweeps, TypeOK, Steps
  <2>2. /\ session' \in [Busids -> Clients \cup {NoClient}] /\ shared' \subseteq Busids
        /\ \A x \in Busids \ shared' : session'[x] = NoClient
    BY DEF TypeOK
  <2> QED
    BY <2>1, <2>2 DEF TypeOK, Sweeps
<1>2. ASSUME NEW d \in Clients PROVE Same(d) \/ Void(d)
  BY Unconcerned DEF Resetting
<1>3. Rested' /\ CountsTime' /\ Tracks' /\ Doomed'
  BY <1>2, CountsKept, SweepFields DEF TypeOK
<1>4. Checked'
  BY DEF Checked, TypeOK
<1>5. LeftFirst'
  BY DEF LeftFirst
<1> QED
  BY <1>1, <1>3, <1>4, <1>5

\* remove_busid_from_clients changes claims only.
LEMMA UnclaimedRecords ==
    ASSUME NEW r \in Records, NEW b \in Busids
    PROVE  /\ [r EXCEPT !.busids = @ \ {b}] \in Records
           /\ [r EXCEPT !.busids = @ \ {b}].age = r.age
           /\ [r EXCEPT !.busids = @ \ {b}].known => r.known
<1>1. CASE r = NoRecord
  <2>1. [r EXCEPT !.busids = @ \ {b}] = NoRecord
    BY <1>1 DEF NoRecord
  <2> QED
    BY <1>1, <2>1 DEF Records
<1>2. CASE r \in [known : {TRUE}, busids : SUBSET Busids, age : 0..Oldest]
  <2>1. /\ [r EXCEPT !.busids = @ \ {b}] \in [known : {TRUE}, busids : SUBSET Busids, age : 0..Oldest]
        /\ [r EXCEPT !.busids = @ \ {b}].age = r.age
    BY <1>2
  <2>2. r.known
    BY <1>2
  <2> QED
    BY <2>1, <2>2 DEF Records
<1> QED
  BY <1>1, <1>2 DEF Records

LEMMA KickTidiesInv == ASSUME IInv, NEW b \in Busids, KickTidies(b) PROVE IInv'
<1> USE DEF IInv, KickTidies, kernel, clients
<1>1. TypeOK'
  <2>1. sweep' \in Sweeps
    BY SweepFields DEF Sweeps, TypeOK, Steps
  <2>2. record' \in [Clients -> Records]
    BY UnclaimedRecords DEF TypeOK
  <2> QED
    BY <2>1, <2>2 DEF TypeOK, Sweeps
<1>2. ASSUME NEW d \in Clients PROVE Same(d) \/ Void(d)
  <2>1. record'[d].age = record[d].age /\ (record'[d].known => record[d].known)
    BY UnclaimedRecords DEF TypeOK
  <2>2. CASE record[d].known /\ ~Resetting(d)
    BY <2>1, <2>2 DEF Same
  <2>3. CASE Resetting(d) \/ ~record[d].known
    BY <2>1, <2>3 DEF Void, Resetting
  <2> QED
    BY <2>2, <2>3
<1>3. Rested' /\ CountsTime' /\ Tracks' /\ Doomed'
  BY <1>2, CountsKept, SweepFields DEF TypeOK
<1>4. Checked'
  BY DEF Checked, TypeOK
<1>5. LeftFirst'
  BY DEF LeftFirst
<1> QED
  BY <1>1, <1>3, <1>4, <1>5

LEMMA KickBindsInv == ASSUME IInv, NEW b \in Busids, KickBinds(b) PROVE IInv'
<1> USE DEF IInv, KickBinds, registry, kernel, clients
<1>1. TypeOK'
  <2>1. sweep' \in Sweeps
    BY SweepFields DEF Sweeps, TypeOK, Steps
  <2> QED
    BY <2>1 DEF TypeOK, Sweeps
<1>2. ASSUME NEW d \in Clients PROVE Same(d) \/ Void(d)
  BY Unconcerned DEF Resetting
<1>3. Rested' /\ CountsTime' /\ Tracks' /\ Doomed'
  BY <1>2, CountsKept, SweepFields DEF TypeOK
<1>4. Checked'
  BY DEF Checked, TypeOK
<1>5. LeftFirst'
  BY DEF LeftFirst
<1> QED
  BY <1>1, <1>3, <1>4, <1>5

LEMMA KickFailsInv == ASSUME IInv, KickFails PROVE IInv'
<1> USE DEF IInv, KickFails, registry, kernel, clients
<1>1. TypeOK'
  <2>1. sweep' \in Sweeps
    BY SweepFields DEF Sweeps, TypeOK, Steps
  <2> QED
    BY <2>1 DEF TypeOK, Sweeps
<1>2. ASSUME NEW d \in Clients PROVE Same(d) \/ Void(d)
  BY Unconcerned DEF Resetting
<1>3. Rested' /\ CountsTime' /\ Tracks' /\ Doomed'
  BY <1>2, CountsKept, SweepFields DEF TypeOK
<1>4. Checked'
  BY DEF Checked, TypeOK
<1>5. LeftFirst'
  BY DEF LeftFirst
<1> QED
  BY <1>1, <1>3, <1>4, <1>5

LEMMA SweepGivesUpInv == ASSUME IInv, SweepGivesUp PROVE IInv'
<1> USE DEF IInv, SweepGivesUp, registry, kernel, clients
<1>1. TypeOK'
  <2>1. sweep' \in Sweeps
    BY SweepFields DEF Sweeps, TypeOK, Steps
  <2> QED
    BY <2>1 DEF TypeOK, Sweeps
<1>2. ASSUME NEW d \in Clients PROVE Same(d) \/ Void(d)
  BY Unconcerned DEF Resetting
<1>3. Rested' /\ CountsTime' /\ Tracks' /\ Doomed'
  BY <1>2, CountsKept, SweepFields DEF TypeOK
<1>4. Checked'
  BY DEF Checked, TypeOK
<1>5. LeftFirst'
  BY DEF LeftFirst
<1> QED
  BY <1>1, <1>3, <1>4, <1>5

LEMMA ShareInv == ASSUME IInv, NEW b \in Busids, Share(b) PROVE IInv'
<1> USE DEF IInv, Share, registry, clients, watchdog
<1>1. TypeOK'
  BY DEF TypeOK
<1>2. ASSUME NEW d \in Clients PROVE Same(d) \/ Void(d)
  BY Unconcerned DEF Resetting
<1>3. Rested' /\ CountsTime' /\ Tracks' /\ Doomed'
  BY <1>2, CountsKept
<1>4. Checked'
  BY DEF Checked
<1>5. LeftFirst'
  BY DEF LeftFirst
<1> QED
  BY <1>1, <1>3, <1>4, <1>5

LEMMA SweepGoesOnInv == ASSUME IInv, SweepGoesOn PROVE IInv'
<1> USE DEF IInv, SweepGoesOn, registry, kernel, clients
<1>1. TypeOK'
  <2>1. sweep' \in Sweeps
    BY SweepFields DEF Sweeps, TypeOK, Steps
  <2> QED
    BY <2>1 DEF TypeOK, Sweeps
<1>2. ASSUME NEW d \in Clients PROVE Same(d) \/ Void(d)
  BY Unconcerned DEF Resetting
<1>3. Rested' /\ CountsTime' /\ Tracks' /\ Doomed'
  BY <1>2, CountsKept, SweepFields DEF TypeOK
<1>4. Checked'
  BY DEF Checked, TypeOK
<1>5. LeftFirst'
  BY DEF LeftFirst
<1> QED
  BY <1>1, <1>3, <1>4, <1>5

LEMMA AsleepFields ==
    /\ Asleep.step = "sleep" /\ Asleep.todo = {} /\ Asleep \in Sweeps
  BY AsleepIsSweep DEF Asleep

\* The sweep begins when the interval is over: the time slept is the time that a
\* miss of this sweep adds.
LEMMA BeginSweepInv == ASSUME IInv, BeginSweep PROVE IInv'
<1> USE DEF IInv, BeginSweep, registry, kernel, clients
<1>1. /\ sweep' \in Sweeps /\ sweep'.step = "clients" /\ sweep'.snap = record
      /\ sweep'.todo = Known(record)
  <2>1. record \in [Clients -> Records] /\ Known(record) \in SUBSET Clients
    BY DEF TypeOK, Known
  <2> DEFINE known == Known(record)
  <2>2. sweep' = [Asleep EXCEPT !.step = "clients", !.snap = record, !.todo = known]
    OBVIOUS
  <2> HIDE DEF known, BeginSweep
  <2>3. /\ sweep' \in Sweeps /\ sweep'.step = "clients" /\ sweep'.snap = record
        /\ sweep'.todo = known
    BY <2>1, <2>2, AsleepFields DEF Sweeps, Steps, known
  <2> QED
    BY <2>3 DEF known
<1>2. TypeOK'
  BY <1>1 DEF TypeOK, Sweeps
<1>3. Rested' /\ Doomed' /\ Checked' /\ LeftFirst'
  BY <1>1 DEF Rested, Doomed, Checked, LeftFirst
<1>4. ASSUME NEW d \in Clients, Counted(d)', (misses[d] > 1)'
      PROVE  (record[d].age > Longer(misses[d]) + Since(d))'
  <2>1. Counted(d) /\ misses[d] > 1
    BY <1>4 DEF Counted, Resetting
  <2>2. record[d].age > Longer(misses[d]) + Interval
    BY <2>1 DEF CountsTime, Since
  <2>3. Since(d)' = Interval
    BY <1>1, <2>1 DEF Since, Counted, Known
  <2>4. Longer(misses[d])' = Longer(misses[d])
    BY DEF Longer
  <2> QED
    BY <2>2, <2>3, <2>4
<1>5. ASSUME NEW d \in Clients
      PROVE  (record[d].age = sweep.snap[d].age)'
  BY <1>1
<1> QED
  BY <1>2, <1>3, <1>4, <1>5 DEF CountsTime, Tracks

LEMMA EndSweepInv == ASSUME IInv, EndSweep PROVE IInv'
<1> USE DEF IInv, EndSweep, kernel, clients
<1>1. TypeOK'
  <2>1. misses' \in [Clients -> 0..(Threshold + 1)]
    BY TimesAreNat DEF TypeOK
  <2>2. waiting' \in [Busids -> SUBSET Clients]
    BY DEF TypeOK, DropStale, LeaveLines
  <2> QED
    BY <2>1, <2>2, AsleepFields DEF TypeOK, Sweeps
<1>2. Rested' /\ Doomed' /\ Checked' /\ LeftFirst' /\ Tracks'
  BY AsleepFields DEF Rested, Doomed, Checked, LeftFirst, Tracks
<1>3. timer = 0
  BY DEF Rested
<1>4. ASSUME NEW d \in Clients, Counted(d)', (misses[d] > 1)'
      PROVE  (record[d].age > Longer(misses[d]) + Since(d))'
  <2>1. misses'[d] = misses[d]
    BY <1>4, TimesAreNat DEF TypeOK
  <2>2. Counted(d) /\ misses[d] > 1
    BY <1>4, <2>1 DEF Counted, Resetting
  <2>3. record[d].age > Longer(misses[d]) + 0
    BY <2>2 DEF CountsTime, Since
  <2>4. Since(d)' = 0
    BY <1>3, AsleepFields DEF Since
  <2>5. Longer(misses[d])' = Longer(misses[d])
    BY <2>1 DEF Longer
  <2> QED
    BY <2>3, <2>4, <2>5
<1> QED
  BY <1>1, <1>2, <1>4 DEF CountsTime

-----------------------------------------------------------------------------
(* Time.                                                                   *)

LEMMA AgedRecords ==
    ASSUME NEW r \in Records
    PROVE  /\ (IF r.known THEN [r EXCEPT !.age = Older(@)] ELSE NoRecord) \in Records
           /\ ~NoRecord.known
           /\ r.known => [r EXCEPT !.age = Older(@)].age = Older(r.age)
<1>1. ~NoRecord.known
  BY DEF NoRecord
<1>2. CASE r.known
  <2>1. r \in [known : {TRUE}, busids : SUBSET Busids, age : 0..Oldest]
    BY <1>1, <1>2 DEF Records
  <2>2. Older(r.age) \in 0..Oldest
    BY <2>1, OlderAges
  <2>3. /\ [r EXCEPT !.age = Older(@)] \in [known : {TRUE}, busids : SUBSET Busids, age : 0..Oldest]
        /\ [r EXCEPT !.age = Older(@)].age = Older(r.age)
    BY <2>1, <2>2
  <2> QED
    BY <1>1, <1>2, <2>3 DEF Records
<1>3. CASE ~r.known
  BY <1>1, <1>3, NoRecordIsRecord
<1> QED
  BY <1>2, <1>3

LEMMA TickInv == ASSUME IInv, Tick PROVE IInv'
<1> USE DEF IInv, Tick, kernel
<1>1. TypeOK'
  <2>1. record' \in [Clients -> Records]
    BY AgedRecords DEF TypeOK
  <2>2. quiet' \in [Clients -> 0..BeatGap]
    BY TimesAreNat DEF TypeOK
  <2>3. timer' \in 0..Interval
    BY TimesAreNat DEF TypeOK
  <2> QED
    BY <2>1, <2>2, <2>3 DEF TypeOK
<1>2. Rested' /\ Doomed' /\ Checked' /\ LeftFirst' /\ Tracks'
  BY DEF Rested, Doomed, Checked, LeftFirst, Tracks
<1>3. ASSUME NEW d \in Clients, Counted(d)', (misses[d] > 1)'
      PROVE  (record[d].age > Longer(misses[d]) + Since(d))'
  <2>1. record[d].known /\ record'[d].age = Older(record[d].age)
    <3>1. record[d] \in Records
      BY AgesAreNat
    <3>2. record'[d] = IF record[d].known THEN [record[d] EXCEPT !.age = Older(@)] ELSE NoRecord
      OBVIOUS
    <3>3. record'[d].known
      BY <1>3 DEF Counted
    <3> QED
      BY <3>1, <3>2, <3>3, AgedRecords
  <2>2. Counted(d) /\ misses[d] > 1 /\ misses'[d] = misses[d]
    BY <1>3, <2>1 DEF Counted, Resetting
  <2>3. record[d].age > Longer(misses[d]) + timer
    BY <2>2 DEF CountsTime, Since
  <2>4. Since(d)' = timer + 1 /\ timer + 1 <= Interval /\ timer \in Nat
    BY TimesAreNat DEF Since, TypeOK
  <2>5. misses[d] \in 2..(Threshold + 1) /\ record[d].age \in 0..Oldest
    BY <2>2, AgesAreNat, TimesAreNat DEF TypeOK
  <2>6. Longer(misses[d]) \in Nat /\ Longer(misses[d]) + Interval < Oldest
    BY <2>5, LongerIsTold
  <2>7. Older(record[d].age) > Longer(misses[d]) + (timer + 1)
    BY <2>3, <2>4, <2>5, <2>6, OlderAges, OldestIsBeyond, TimesAreNat
  <2>8. Longer(misses[d])' = Longer(misses[d])
    BY <2>2 DEF Longer
  <2> QED
    BY <2>1, <2>4, <2>7, <2>8
<1> QED
  BY <1>1, <1>2, <1>3 DEF CountsTime

-----------------------------------------------------------------------------
(* The invariant, and what follows from it.                                *)

LEMMA NextIInv == IInv /\ [Next]_vars => IInv'
<1> SUFFICES ASSUME IInv, [Next]_vars PROVE IInv'
  OBVIOUS
<1>1. CASE Poll
  BY <1>1, PollInv
<1>2. ASSUME NEW c \in Clients, Send(c) \/ Handler(c) PROVE IInv'
  BY <1>2, SendInv, WriteRecordInv, FinishBeatInv, WriteByeInv, CountByeInv, HandleByeInv
     DEF Handler
<1>3. ASSUME NEW c \in Clients, User(c) PROVE IInv'
  BY <1>3, FallSilentInv, ComeBackInv, LeaveInv, WantInv, AttachInv DEF User
<1>4. ASSUME NEW b \in Busids, EndSession(b) \/ Share(b) PROVE IInv'
  BY <1>4, EndSessionInv, ShareInv
<1>5. CASE Sweep
  BY <1>5, BeginSweepInv, SweepCleansUpInv, SweepGoesOnInv, EndSweepInv, SweepFreshInv,
     SweepHoldsInv, SweepDecidesInv, SweepRemovesInv, SweepResetsInv, SweepChecksInv,
     KickUnbindsInv, KickBindsInv, KickTidiesInv, KickFailsInv, SweepGivesUpInv DEF Sweep
<1>6. CASE Tick
  BY <1>6, TickInv
<1>7. CASE UNCHANGED vars
  <2>1. UNCHANGED <<record, misses, waiting, shared, session, mode, wants, quiet, beat, bye,
                    sweep, timer>>
    BY <1>7 DEF vars, registry, kernel, clients, watchdog
  <2>2. TypeOK'
    BY <2>1 DEF IInv, TypeOK
  <2>3. Rested' /\ Doomed' /\ Checked' /\ LeftFirst' /\ Tracks'
    BY <2>1 DEF IInv, Rested, Doomed, Checked, LeftFirst, Tracks, Counted, Resetting
  <2>4. CountsTime'
    BY <2>1 DEF IInv, CountsTime, Counted, Resetting, Since, Longer
  <2> QED
    BY <2>2, <2>3, <2>4 DEF IInv
<1> QED
  BY <1>1, <1>2, <1>3, <1>4, <1>5, <1>6, <1>7 DEF Next, Progress

LEMMA Invariance == Spec => []IInv
  BY InitIInv, NextIInv, PTL DEF Spec

\* Registry, kernel, clients and sweep keep their types, whichever way the steps of
\* update_client, handle_client_goodbye and watchdog_sweep interleave.
THEOREM TypeCorrect == Spec => []TypeOK
<1>1. IInv => TypeOK
  BY DEF IInv
<1> QED
  BY <1>1, Invariance, PTL

\* A miss counter never runs ahead of the silence it stands for
\* (bump_client_missed_run, reset_client_missed_run).
THEOREM OutagesNeverEscalate == Spec => []NoEscalation
<1>1. IInv => NoEscalation
  <2> SUFFICES ASSUME IInv, NEW c \in Clients,
                      record[c].known, misses[c] > 1, ~Resetting(c)
               PROVE  record[c].age > SafeGap + (misses[c] - 2) * Interval
    BY DEF NoEscalation
  <2>1. misses[c] \in 2..(Threshold + 1) /\ record[c].age \in Nat /\ timer \in Nat
    BY AgesAreNat, OldestIsBeyond, TimesAreNat DEF IInv, TypeOK
  <2>2. record[c].age > Longer(misses[c]) + Since(c)
    BY <2>1 DEF IInv, CountsTime, Counted
  <2>3. Longer(misses[c]) \in Nat /\ Since(c) \in Nat
    BY <2>1, LongerIsTold, TimesAreNat DEF Since
  <2>4. record[c].age > Longer(misses[c])
    BY <2>1, <2>2, <2>3
  <2> QED
    BY <2>4 DEF Longer
<1> QED
  BY <1>1, Invariance, PTL

\* No sweep removes a client that was heard of within the grace period, unless the
\* heartbeat came in after the decision (watchdog_sweep), although it decides by the
\* records as they were.
THEOREM OnlySilentRemoved == Spec => RemovesOnlySilent
<1>1. ASSUME IInv, SweepRemoves, Threshold > 1,
             record[sweep.who].known, misses[sweep.who] > 0, ~Resetting(sweep.who)
      PROVE  record[sweep.who].age >= Grace
  BY <1>1 DEF IInv, SweepRemoves, Doomed, Counted
<1>2. IInv /\ [Next]_vars =>
        [SweepRemoves /\ Threshold > 1 =>
            LET c == sweep.who
            IN  record[c].known /\ misses[c] > 0 /\ ~Resetting(c) => record[c].age >= Grace]_vars
  BY <1>1
<1> QED
  BY <1>2, Invariance, PTL DEF Spec, RemovesOnlySilent

\* kick_device ends no session that force_release_allowed found at another address.
THEOREM OnlyPeersCut == Spec => CutsOnlyItsPeer
<1>1. ASSUME IInv, NEW b \in Busids, KickUnbinds(b), session[b] # NoClient
      PROVE  session[b] # sweep.seen \/ Addr[session[b]] = Addr[sweep.who]
  BY <1>1 DEF IInv, Checked, KickUnbinds
<1>2. IInv /\ [Next]_vars =>
        [\A b \in Busids : KickUnbinds(b) /\ session[b] # NoClient
            => session[b] # sweep.seen \/ Addr[session[b]] = Addr[sweep.who]]_vars
  BY <1>1
<1> QED
  BY <1>2, Invariance, PTL DEF Spec, CutsOnlyItsPeer
=============================================================================
