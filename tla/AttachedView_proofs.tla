------------------------ MODULE AttachedView_proofs ------------------------
(***************************************************************************)
(* Proofs about AttachedView, for any servers, devices, ports and bounds:  *)
(* the types, and that what the client takes for attached is attached or   *)
(* about to be corrected.                                                  *)
(*                                                                         *)
(* NoGhosts is not inductive: it says nothing of the answers that are in   *)
(* hand and nothing of the order of the events that are under way.         *)
(***************************************************************************)
EXTENDS AttachedViewProps, TLAPS

\* The states that make the client claim a device.
Claiming == {"connected", "plugged"}

Mends(q, j, d) == q[j].dev = d /\ q[j].state \notin Claiming

\* Behind every event that makes the client claim d, in the queue p of the user
\* interface or in the list q of the driver, there is one that takes it back.
Mended(p, q, d) ==
    /\ \A i \in 1 .. Len(q) :
         q[i].dev = d /\ q[i].state \in Claiming =>
            \E j \in 1 .. Len(q) : j > i /\ Mends(q, j, d)
    /\ \A i \in 1 .. Len(p) :
         p[i].dev = d /\ p[i].state \in Claiming =>
            \/ \E j \in 1 .. Len(p) : j > i /\ Mends(p, j, d)
            \/ \E j \in 1 .. Len(q) : Mends(q, j, d)

Viewed(d) == HostOf(d) = host /\ BusidOf(d) \in view
Queued(d) == About(events, d) \/ About(posted, d)

\* The driver will still publish an event about d that does not claim it.
Early == {"connect", "import", "plugin", "shut", "close"}
Late == {"reclaim", "out", "outed"}
Coming(d) ==
    \/ closing[d] > 0
    \/ work.dev = {d} /\ work.at \in Early
    \/ work.dev = {d} /\ work.at \in {"reclaim", "out"} /\ work.out

Accounted(d) == d \in hub \cup stale \/ Coming(d)

\* The answer in hand takes d out.
Asked(d) == gui.step = "note" /\ gui.dev = {d} /\ d \notin gui.list

\* Of a device that is gone, nothing is claimed that is not taken back.
Guarded == \A d \in Devices : ~Accounted(d) =>
    /\ Mended(posted, events, d)
    /\ d \in gui.list => Queued(d)
    /\ Viewed(d) => Queued(d) \/ Asked(d)

\* Whoever gives a device up has published it.
LateMended == \A d \in Devices :
    work.dev = {d} /\ work.at \in Late /\ d \notin stale => Mended(posted, events, d)

Steps == {"connect", "import", "plugin", "shut", "close", "reclaim", "out", "outed"}
Works == [at : {"free"} \cup Steps, dev : OneDevice, out : BOOLEAN]

\* The types of the driver, and what a request has got to.
WorkOK ==
    /\ ports \in [Devices -> Nat]
    /\ work \in Works
    /\ work.at = "free" <=> work.dev = {}
    /\ closing \in [Devices -> Nat]
    /\ works \in 0 .. MaxWork
    /\ work.at \in {"plugin", "close", "reclaim"} => work.dev \subseteq hub
    /\ work.at \in {"out", "outed"} => work.out

\* The types of the client and of its events.
ClientOK ==
    /\ reader \in {"off", "first", "asked", "waiting"}
    /\ events \in Seq(Events) /\ Len(events) <= Cap
    /\ posted \in Seq(Events) /\ Len(posted) <= MaxPosted
    /\ gui \in [step : {"calm", "note", "set"}, list : SUBSET Devices, dev : OneDevice]
    /\ host \in Hosts
    /\ view \subseteq Busids
    /\ beat \in [asked : SUBSET Hosts, list : SUBSET Devices]
    /\ stale \subseteq Devices

\* What the interface has in hand and what the heartbeat thread has.
Shapes ==
    /\ beat.list \subseteq hub \cup stale
    /\ gui.step = "note" => \E d \in Devices : gui.dev = {d}
    /\ gui.step = "calm" => gui = Calm

\* Nobody subscribed, and a read that waits.
Quiet ==
    /\ reader \in {"off", "first"} =>
         /\ events = <<>> /\ posted = <<>> /\ gui.step # "note"
         /\ \A d \in Devices : Viewed(d) \/ d \in gui.list => d \in hub \cup stale
    /\ reader = "off" => view = {} /\ gui = Calm /\ beat = Resting
    /\ reader = "waiting" => events = <<>>

\* A read waits only if there is room for what it brings.
Room == reader = "waiting" => Len(posted) < MaxPosted

IInv == WorkOK /\ ClientOK /\ Room /\ Guarded /\ LateMended /\ Shapes /\ Quiet

-----------------------------------------------------------------------------
(* Queues of events.                                                        *)

LEMMA AboutIsIn ==
    ASSUME NEW q \in Seq(Events), NEW d
    PROVE  About(q, d) <=> \E i \in 1 .. Len(q) : q[i].dev = d
  BY DEF About

\* An event that does not claim mends all that the queue holds about its device.
LEMMA AppendMends ==
    ASSUME NEW p \in Seq(Events), NEW q \in Seq(Events), NEW e \in Events,
           e.state \notin Claiming
    PROVE  Mended(p, Append(q, e), e.dev) /\ About(Append(q, e), e.dev)
<1> DEFINE r == Append(q, e)
<1>1. /\ r \in Seq(Events) /\ Len(r) = Len(q) + 1 /\ Len(q) \in Nat
      /\ r[Len(q) + 1] = e /\ \A i \in 1 .. Len(q) : r[i] = q[i]
  OBVIOUS
<1>2. Mends(r, Len(r), e.dev) /\ Len(r) \in 1 .. Len(r)
  BY <1>1 DEF Mends
<1>3. ASSUME NEW i \in 1 .. Len(r), r[i].state \in Claiming
      PROVE  i < Len(r)
  BY <1>1, <1>3
<1>4. Mended(p, r, e.dev)
  BY <1>2, <1>3, <1>1 DEF Mended
<1>5. About(r, e.dev)
  BY <1>1, <1>2, AboutIsIn DEF Mends
<1> HIDE DEF r
<1> QED
  BY <1>4, <1>5 DEF r

\* The same in the queue of the user interface, when the driver holds no event.
LEMMA AppendMendsPosted ==
    ASSUME NEW p \in Seq(Events), NEW e \in Events, e.state \notin Claiming
    PROVE  Mended(Append(p, e), <<>>, e.dev) /\ About(Append(p, e), e.dev)
<1> DEFINE r == Append(p, e)
<1>1. /\ r \in Seq(Events) /\ Len(r) = Len(p) + 1 /\ Len(p) \in Nat
      /\ r[Len(p) + 1] = e /\ \A i \in 1 .. Len(p) : r[i] = p[i]
  OBVIOUS
<1>2. Mends(r, Len(r), e.dev) /\ Len(r) \in 1 .. Len(r)
  BY <1>1 DEF Mends
<1>3. ASSUME NEW i \in 1 .. Len(r), r[i].state \in Claiming
      PROVE  i < Len(r)
  BY <1>1, <1>3
<1>4. Mended(r, <<>>, e.dev)
  BY <1>2, <1>3, <1>1 DEF Mended
<1>5. About(r, e.dev)
  BY <1>1, <1>2, AboutIsIn DEF Mends
<1> HIDE DEF r
<1> QED
  BY <1>4, <1>5 DEF r

\* An event about another device changes nothing.
LEMMA AppendKeeps ==
    ASSUME NEW p \in Seq(Events), NEW q \in Seq(Events), NEW e \in Events, NEW d
    PROVE  /\ About(q, d) => About(Append(q, e), d)
           /\ e.dev # d /\ Mended(p, q, d) => Mended(p, Append(q, e), d)
<1> DEFINE r == Append(q, e)
<1>1. /\ r \in Seq(Events) /\ Len(r) = Len(q) + 1 /\ Len(q) \in Nat
      /\ r[Len(q) + 1] = e /\ \A i \in 1 .. Len(q) : r[i] = q[i]
  OBVIOUS
<1> HIDE DEF r
<1>2. About(q, d) => About(r, d)
  BY <1>1, AboutIsIn
<1>3. ASSUME e.dev # d, Mended(p, q, d)
      PROVE  Mended(p, r, d)
  <2>1. ASSUME NEW i \in 1 .. Len(r), r[i].dev = d
        PROVE  i \in 1 .. Len(q) /\ r[i] = q[i]
    BY <1>1, <1>3, <2>1
  <2>2. ASSUME NEW j \in 1 .. Len(q), Mends(q, j, d)
        PROVE  j \in 1 .. Len(r) /\ Mends(r, j, d)
    BY <1>1, <2>2 DEF Mends
  <2> QED
    BY <1>3, <2>1, <2>2 DEF Mended
<1> QED
  BY <1>2, <1>3 DEF r

LEMMA AppendKeepsPosted ==
    ASSUME NEW p \in Seq(Events), NEW e \in Events, NEW d
    PROVE  /\ About(p, d) => About(Append(p, e), d)
           /\ e.dev # d /\ Mended(p, <<>>, d) => Mended(Append(p, e), <<>>, d)
<1> DEFINE r == Append(p, e)
<1>1. /\ r \in Seq(Events) /\ Len(r) = Len(p) + 1 /\ Len(p) \in Nat
      /\ r[Len(p) + 1] = e /\ \A i \in 1 .. Len(p) : r[i] = p[i]
  OBVIOUS
<1> HIDE DEF r
<1>2. About(p, d) => About(r, d)
  BY <1>1, AboutIsIn
<1>3. ASSUME e.dev # d, Mended(p, <<>>, d)
      PROVE  Mended(r, <<>>, d)
  <2>1. ASSUME NEW i \in 1 .. Len(r), r[i].dev = d
        PROVE  i \in 1 .. Len(p) /\ r[i] = p[i]
    BY <1>1, <1>3, <2>1
  <2>2. ASSUME NEW j \in 1 .. Len(p), Mends(p, j, d)
        PROVE  j \in 1 .. Len(r) /\ Mends(r, j, d)
    BY <1>1, <2>2 DEF Mends
  <2> QED
    BY <1>3, <2>1, <2>2 DEF Mended
<1> QED
  BY <1>2, <1>3 DEF r

LEMMA TailIs ==
    ASSUME NEW q \in Seq(Events), q # <<>>
    PROVE  /\ Tail(q) \in Seq(Events) /\ Len(Tail(q)) = Len(q) - 1
           /\ Len(q) \in Nat \ {0} /\ Head(q) = q[1] /\ Head(q) \in Events
           /\ \A i \in 1 .. Len(Tail(q)) : Tail(q)[i] = q[i + 1]
  OBVIOUS

\* A full list loses its first event (process_event): what is queued about a device
\* is still mended, if an event about it is left or there was none at all.
LEMMA TailMended ==
    ASSUME NEW p \in Seq(Events), NEW q \in Seq(Events), q # <<>>, NEW d,
           Mended(p, q, d), About(Tail(q), d) \/ ~About(q, d)
    PROVE  Mended(p, Tail(q), d)
<1> DEFINE r == Tail(q)
<1>1. /\ r \in Seq(Events) /\ Len(r) = Len(q) - 1 /\ Len(q) \in Nat \ {0}
      /\ \A i \in 1 .. Len(r) : i + 1 \in 1 .. Len(q) /\ r[i] = q[i + 1]
  BY TailIs
<1> HIDE DEF r
<1>2. ASSUME NEW i \in 1 .. Len(r), r[i].dev = d, r[i].state \in Claiming
      PROVE  \E j \in 1 .. Len(r) : j > i /\ Mends(r, j, d)
  <2>1. PICK j \in 1 .. Len(q) : j > i + 1 /\ Mends(q, j, d)
    BY <1>1, <1>2 DEF Mended
  <2>2. j - 1 \in 1 .. Len(r) /\ j - 1 > i /\ r[j - 1] = q[j]
    BY <1>1, <2>1
  <2> QED
    BY <2>1, <2>2 DEF Mends
<1>3. ASSUME About(r, d)
      PROVE  Mended(p, r, d)
  <2>1. PICK i \in 1 .. Len(r) : r[i].dev = d
    BY <1>1, <1>3, AboutIsIn
  <2>2. \E j \in 1 .. Len(r) : Mends(r, j, d)
    BY <1>2, <2>1 DEF Mends
  <2> QED
    BY <1>2, <2>2 DEF Mended
<1>4. ASSUME ~About(q, d)
      PROVE  Mended(p, r, d)
  <2>1. ~\E j \in 1 .. Len(q) : Mends(q, j, d)
    BY <1>4, AboutIsIn DEF Mends
  <2> QED
    BY <1>2, <2>1 DEF Mended
<1> QED
  BY <1>3, <1>4 DEF r

\* Another event is left about every device but that of the first.
LEMMA TailAbout ==
    ASSUME NEW q \in Seq(Events), q # <<>>, NEW d, About(q, d), Head(q).dev # d
    PROVE  About(Tail(q), d)
<1>1. PICK i \in 1 .. Len(q) : q[i].dev = d
  BY AboutIsIn
<1>2. i - 1 \in 1 .. Len(Tail(q)) /\ Tail(q)[i - 1] = q[i]
  BY TailIs, <1>1
<1> QED
  BY <1>1, <1>2, TailIs, AboutIsIn

\* The thread that reads moves the first event to the user interface (device_read).
LEMMA MoveMended ==
    ASSUME NEW p \in Seq(Events), NEW q \in Seq(Events), q # <<>>, NEW d
    PROVE  /\ Mended(p, q, d) => Mended(Append(p, Head(q)), Tail(q), d)
           /\ About(p, d) \/ About(q, d) =>
                About(Append(p, Head(q)), d) \/ About(Tail(q), d)
<1> DEFINE r == Tail(q)
           s == Append(p, Head(q))
<1>1. /\ r \in Seq(Events) /\ Len(r) = Len(q) - 1 /\ Len(q) \in Nat \ {0}
      /\ \A i \in 1 .. Len(r) : i + 1 \in 1 .. Len(q) /\ r[i] = q[i + 1]
      /\ Head(q) = q[1] /\ Head(q) \in Events
  BY TailIs
<1>2. /\ s \in Seq(Events) /\ Len(s) = Len(p) + 1 /\ Len(p) \in Nat
      /\ s[Len(p) + 1] = q[1] /\ \A i \in 1 .. Len(p) : s[i] = p[i]
  BY <1>1
<1> HIDE DEF r, s
<1>3. ASSUME NEW j \in 1 .. Len(q), j > 1
      PROVE  j - 1 \in 1 .. Len(r) /\ r[j - 1] = q[j]
  BY <1>1, <1>3
<1>4. ASSUME Mended(p, q, d)
      PROVE  Mended(s, r, d)
  <2>1. ASSUME NEW i \in 1 .. Len(r), r[i].dev = d, r[i].state \in Claiming
        PROVE  \E j \in 1 .. Len(r) : j > i /\ Mends(r, j, d)
    <3>1. PICK j \in 1 .. Len(q) : j > i + 1 /\ Mends(q, j, d)
      BY <1>1, <1>4, <2>1 DEF Mended
    <3>2. j - 1 \in 1 .. Len(r) /\ j - 1 > i /\ r[j - 1] = q[j]
      BY <1>1, <3>1
    <3> QED
      BY <3>1, <3>2 DEF Mends
  <2>2. ASSUME NEW i \in 1 .. Len(s), s[i].dev = d, s[i].state \in Claiming
        PROVE  \/ \E j \in 1 .. Len(s) : j > i /\ Mends(s, j, d)
               \/ \E j \in 1 .. Len(r) : Mends(r, j, d)
    <3>1. CASE i = Len(p) + 1
      <4>1. PICK j \in 1 .. Len(q) : j > 1 /\ Mends(q, j, d)
        BY <1>1, <1>2, <1>4, <2>2, <3>1 DEF Mended
      <4> QED
        BY <1>3, <4>1 DEF Mends
    <3>2. CASE i \in 1 .. Len(p)
      <4>1. CASE \E j \in 1 .. Len(p) : j > i /\ Mends(p, j, d)
        BY <1>2, <4>1 DEF Mends
      <4>2. CASE \E j \in 1 .. Len(q) : Mends(q, j, d)
        <5>1. PICK j \in 1 .. Len(q) : Mends(q, j, d)
          BY <4>2
        <5>2. CASE j = 1
          BY <1>2, <3>2, <5>1, <5>2 DEF Mends
        <5>3. CASE j > 1
          BY <1>3, <5>1, <5>3 DEF Mends
        <5> QED
          BY <5>2, <5>3
      <4> QED
        BY <1>2, <1>4, <2>2, <3>2, <4>1, <4>2 DEF Mended
    <3> QED
      BY <1>2, <3>1, <3>2
  <2> QED
    BY <2>1, <2>2 DEF Mended
<1>5. ASSUME About(p, d) \/ About(q, d)
      PROVE  About(s, d) \/ About(r, d)
  <2>1. CASE About(p, d)
    <3>1. PICK i \in 1 .. Len(p) : p[i].dev = d
      BY <2>1, AboutIsIn
    <3>2. i \in 1 .. Len(s) /\ s[i].dev = d
      BY <1>2, <3>1
    <3> QED
      BY <1>2, <3>2, AboutIsIn
  <2>2. CASE About(q, d)
    <3>1. PICK i \in 1 .. Len(q) : q[i].dev = d
      BY <2>2, AboutIsIn
    <3>2. CASE i = 1
      <4>1. Len(p) + 1 \in 1 .. Len(s) /\ s[Len(p) + 1].dev = d
        BY <1>2, <3>1, <3>2
      <4> QED
        BY <1>2, <4>1, AboutIsIn
    <3>3. CASE i > 1
      <4>1. i - 1 \in 1 .. Len(r) /\ r[i - 1].dev = d
        BY <1>3, <3>1, <3>3
      <4> QED
        BY <1>1, <4>1, AboutIsIn
    <3> QED
      BY <3>2, <3>3
  <2> QED
    BY <1>5, <2>1, <2>2
<1> QED
  BY <1>4, <1>5 DEF r, s

\* The user interface takes its first event.
LEMMA TakeMended ==
    ASSUME NEW p \in Seq(Events), NEW q \in Seq(Events), p # <<>>, NEW d, Mended(p, q, d)
    PROVE  /\ Mended(Tail(p), q, d)
           /\ Head(p).dev = d /\ Head(p).state \in Claiming => About(Tail(p), d) \/ About(q, d)
<1> DEFINE r == Tail(p)
<1>1. /\ r \in Seq(Events) /\ Len(r) = Len(p) - 1 /\ Len(p) \in Nat \ {0}
      /\ \A i \in 1 .. Len(r) : i + 1 \in 1 .. Len(p) /\ r[i] = p[i + 1]
      /\ Head(p) = p[1]
  BY TailIs
<1> HIDE DEF r
<1>2. ASSUME NEW j \in 1 .. Len(p), j > 1
      PROVE  j - 1 \in 1 .. Len(r) /\ r[j - 1] = p[j]
  BY <1>1, <1>2
<1>3. ASSUME NEW i \in 1 .. Len(r), r[i].dev = d, r[i].state \in Claiming
      PROVE  \/ \E j \in 1 .. Len(r) : j > i /\ Mends(r, j, d)
             \/ \E j \in 1 .. Len(q) : Mends(q, j, d)
  <2>1. \/ \E j \in 1 .. Len(p) : j > i + 1 /\ Mends(p, j, d)
        \/ \E j \in 1 .. Len(q) : Mends(q, j, d)
    BY <1>1, <1>3 DEF Mended
  <2>2. ASSUME NEW j \in 1 .. Len(p), j > i + 1, Mends(p, j, d)
        PROVE  j - 1 \in 1 .. Len(r) /\ j - 1 > i /\ Mends(r, j - 1, d)
    BY <1>2, <2>2 DEF Mends
  <2> QED
    BY <2>1, <2>2
<1>4. Mended(r, q, d)
  BY <1>3 DEF Mended
<1>5. ASSUME Head(p).dev = d, Head(p).state \in Claiming
      PROVE  About(r, d) \/ About(q, d)
  <2>1. \/ \E j \in 1 .. Len(p) : j > 1 /\ Mends(p, j, d)
        \/ \E j \in 1 .. Len(q) : Mends(q, j, d)
    BY <1>1, <1>5 DEF Mended
  <2>2. ASSUME NEW j \in 1 .. Len(p), j > 1, Mends(p, j, d)
        PROVE  About(r, d)
    BY <1>1, <1>2, <2>2, AboutIsIn DEF Mends
  <2>3. ASSUME NEW j \in 1 .. Len(q), Mends(q, j, d)
        PROVE  About(q, d)
    BY <2>3, AboutIsIn DEF Mends
  <2> QED
    BY <2>1, <2>2, <2>3
<1> QED
  BY <1>4, <1>5 DEF r

-----------------------------------------------------------------------------
(* Publishing.                                                              *)

\* Two devices of one server have different busids.
LEMMA SameDevice ==
    ASSUME NEW x \in Devices, NEW y \in Devices,
           HostOf(x) = HostOf(y), BusidOf(x) = BusidOf(y)
    PROVE  x = y
  BY PlacesAssumption DEF HostOf, BusidOf

LEMMA CapIsNat == Cap \in Nat /\ Cap >= 1
<1>1. Ports \in Nat \ {0} /\ PerPort \in Nat \ {0}
  BY PortsAssumption
<1>2. \A a, b \in Nat \ {0} : a * b \in Nat /\ a * b >= 1
  OBVIOUS
<1> QED
  BY <1>1, <1>2 DEF Cap

LEMMA KeptType ==
    ASSUME NEW q \in Seq(Events), NEW e \in Events, Len(q) <= Cap
    PROVE  Kept(Append(q, e)) \in Seq(Events) /\ Len(Kept(Append(q, e))) <= Cap
<1> DEFINE r == Append(q, e)
<1>1. r \in Seq(Events) /\ Len(r) = Len(q) + 1 /\ Len(q) \in Nat
  OBVIOUS
<1> HIDE DEF r
<1>2. CASE Len(r) > Cap
  <2>1. r # <<>>
    BY <1>1
  <2>2. Tail(r) \in Seq(Events) /\ Len(Tail(r)) <= Cap
    BY <1>1, <1>2, <2>1, TailIs, CapIsNat
  <2> QED
    BY <1>2, <2>2 DEF Kept, r
<1>3. CASE ~(Len(r) > Cap)
  BY <1>1, <1>3, CapIsNat DEF Kept, r
<1> QED
  BY <1>2, <1>3

\* The bounded list keeps the event that is new, and one about every device that it
\* held an event about, unless that device is noted as dropped.
LEMMA KeptMends ==
    ASSUME NEW p \in Seq(Events), NEW q \in Seq(Events), NEW e \in Events, NEW x,
           Len(q) <= Cap,
           x \notin Dropped(Append(q, e))
    PROVE  /\ e.dev = x => About(Kept(Append(q, e)), x)
           /\ e.dev = x /\ e.state \notin Claiming => Mended(p, Kept(Append(q, e)), x)
           /\ e.dev # x /\ Mended(p, q, x) => Mended(p, Kept(Append(q, e)), x)
           /\ About(q, x) => About(Kept(Append(q, e)), x)
<1> DEFINE r == Append(q, e)
<1>1. /\ r \in Seq(Events) /\ Len(r) = Len(q) + 1 /\ r[Len(q) + 1] = e
      /\ Len(q) \in Nat
  OBVIOUS
<1>2. /\ e.state \notin Claiming /\ e.dev = x => Mended(p, r, x)
      /\ About(q, x) => About(r, x)
      /\ e.dev # x /\ Mended(p, q, x) => Mended(p, r, x)
  BY AppendMends, AppendKeeps
<1> HIDE DEF r
<1>3. e.dev = x => About(r, x)
  <2>1. Len(r) \in 1 .. Len(r) /\ r[Len(r)] = e
    BY <1>1
  <2> QED
    BY <1>1, <2>1, AboutIsIn
<1>7. r # <<>>
  BY <1>1
<1>4. CASE Len(r) > Cap
  <2>1. Kept(r) = Tail(r) /\ (Head(r).dev = x => About(Tail(r), x))
    BY <1>4 DEF Kept, Dropped, r
  <2>2. About(r, x) => About(Tail(r), x)
    BY <1>1, <1>7, <2>1, TailAbout
  <2>3. Mended(p, r, x) => Mended(p, Tail(r), x)
    BY <1>1, <1>7, <2>2, TailMended
  <2> QED
    BY <1>2, <1>3, <2>1, <2>2, <2>3 DEF r
<1>5. CASE ~(Len(r) > Cap)
  <2>1. Kept(r) = r
    BY <1>5 DEF Kept
  <2> QED
    BY <1>2, <1>3, <2>1 DEF r
<1> QED
  BY <1>4, <1>5

\* What the invariant says of the queues, for a step that publishes.
LEMMA Published ==
    ASSUME ClientOK, Room, Quiet, NEW d \in Devices, NEW s \in States, Publish(s, d)
    PROVE  /\ reader' \in {"off", "first", "asked", "waiting"}
           /\ events' \in Seq(Events) /\ Len(events') <= Cap
           /\ posted' \in Seq(Events) /\ Len(posted') <= MaxPosted
           /\ stale' \subseteq Devices /\ stale \subseteq stale'
           /\ reader' \in {"off", "first"} =>
                UNCHANGED <<reader, events, posted, stale>>
           /\ reader' = "off" <=> reader = "off"
           /\ reader' # "waiting"
           /\ \A x \in Devices \ stale' :
                /\ x # d /\ Mended(posted, events, x) => Mended(posted', events', x)
                /\ Queued(x) => Queued(x)'
                /\ s \notin Claiming => Mended(posted', events', d) \/ d \in stale'
                /\ x = d /\ reader \notin {"off", "first"} => Queued(d)'
<1> DEFINE e == Event(s, d)
<1>1. e \in Events /\ e.dev = d /\ e.state = s
  BY DEF Event, Events
<1>2. /\ events \in Seq(Events) /\ Len(events) <= Cap
      /\ posted \in Seq(Events) /\ Len(posted) <= MaxPosted /\ Len(posted) \in Nat
      /\ MaxPosted \in Nat
      /\ stale \subseteq Devices /\ reader \in {"off", "first", "asked", "waiting"}
  BY PortsAssumption DEF ClientOK
<1> HIDE DEF e
<1>3. CASE reader \in {"off", "first"} /\ UNCHANGED <<stream, posted, stale>>
  <2>1. events = <<>> /\ posted = <<>>
    BY <1>3 DEF Quiet
  <2>2. \A x : Mended(posted', events', x)
    BY <1>3, <2>1 DEF Mended, stream
  <2> QED
    BY <1>2, <1>3, <2>2 DEF stream, Queued
<1>4. CASE /\ reader = "waiting" /\ reader' = "asked"
           /\ posted' = Append(posted, e) /\ UNCHANGED <<events, stale>>
  <2>1. events = <<>> /\ events' = <<>>
    BY <1>4 DEF Quiet
  <2>2. posted' \in Seq(Events) /\ Len(posted') <= MaxPosted
    BY <1>1, <1>2, <1>4 DEF Room
  <2>3. s \notin Claiming => Mended(posted', events', d)
    BY <1>1, <1>2, <1>4, <2>1, AppendMendsPosted
  <2>4. ASSUME NEW x
        PROVE  /\ x # d /\ Mended(posted, events, x) => Mended(posted', events', x)
               /\ About(posted, x) => About(posted', x)
    BY <1>1, <1>2, <1>4, <2>1, AppendKeepsPosted
  <2>5. About(posted', d)
    <3>1. Len(posted') \in 1 .. Len(posted') /\ posted'[Len(posted')] = e
      BY <1>1, <1>2, <1>4
    <3> QED
      BY <1>1, <2>2, <3>1, AboutIsIn
  <2> QED
    BY <1>2, <1>4, <2>1, <2>2, <2>3, <2>4, <2>5 DEF Queued
<1>5. CASE /\ reader = "asked" /\ events' = Kept(Append(events, e))
           /\ stale' = stale \cup Dropped(Append(events, e)) /\ UNCHANGED <<reader, posted>>
  <2>1. \A x \in Devices \ stale' :
          /\ x = d => About(events', x)
          /\ x = d /\ s \notin Claiming => Mended(posted', events', x)
          /\ x # d /\ Mended(posted, events, x) => Mended(posted', events', x)
          /\ About(events, x) => About(events', x)
    BY <1>1, <1>2, <1>5, KeptMends
  <2>2. events' \in Seq(Events) /\ Len(events') <= Cap
    BY <1>1, <1>2, <1>5, KeptType
  <2>3. Dropped(Append(events, e)) \subseteq Devices
    <3>1. Append(events, e) \in Seq(Events) /\ Append(events, e) # <<>>
      BY <1>1, <1>2
    <3>2. Head(Append(events, e)) \in Events
      BY <3>1, TailIs
    <3> QED
      BY <3>2 DEF Dropped, Events
  <2> QED
    BY <1>2, <1>5, <2>1, <2>2, <2>3 DEF Queued
<1> QED
  BY <1>3, <1>4, <1>5 DEF Publish, e

-----------------------------------------------------------------------------
(* The steps of the driver.                                                 *)

LEMMA Publishes ==
    ASSUME IInv, WorkOK', NEW d \in Devices, NEW s \in States, Publish(s, d),
           UNCHANGED <<hub, client>>,
           \A x \in Devices \ {d} : Coming(x) => Coming(x)',
           s \notin Claiming \/ Accounted(d)',
           \A x \in Devices :
               work'.dev = {x} /\ work'.at \in Late =>
                   \/ x = d /\ s \notin Claiming
                   \/ x # d /\ work.dev = {x} /\ work.at \in Late
    PROVE  IInv'
<1>1. /\ reader' \in {"off", "first", "asked", "waiting"}
      /\ events' \in Seq(Events) /\ Len(events') <= Cap
      /\ posted' \in Seq(Events) /\ Len(posted') <= MaxPosted
      /\ stale' \subseteq Devices /\ stale \subseteq stale'
      /\ reader' \in {"off", "first"} => UNCHANGED <<reader, events, posted, stale>>
      /\ reader' = "off" <=> reader = "off"
      /\ reader' # "waiting"
      /\ \A x \in Devices \ stale' :
           /\ x # d /\ Mended(posted, events, x) => Mended(posted', events', x)
           /\ Queued(x) => Queued(x)'
           /\ s \notin Claiming => Mended(posted', events', d) \/ d \in stale'
           /\ x = d /\ reader \notin {"off", "first"} => Queued(d)'
  BY Published DEF IInv
<1>2. /\ ClientOK /\ Guarded /\ LateMended /\ Shapes /\ Quiet
      /\ UNCHANGED <<hub, gui, host, view, beat>>
  BY DEF IInv, client
<1>3. ClientOK' /\ Room'
  BY <1>1, <1>2 DEF ClientOK, Room
<1>4. Shapes'
  BY <1>1, <1>2 DEF Shapes
<1>5. Quiet'
  <2>1. \A x \in Devices : Viewed(x)' <=> Viewed(x)
    BY <1>2 DEF Viewed
  <2> QED
    BY <1>1, <1>2, <2>1 DEF Quiet
<1>6. LateMended'
  <2>1. ASSUME NEW x \in Devices, work'.dev = {x}, work'.at \in Late, x \notin stale'
        PROVE  Mended(posted', events', x)
    <3>1. CASE x = d /\ s \notin Claiming
      BY <1>1, <2>1, <3>1
    <3>2. CASE x # d /\ work.dev = {x} /\ work.at \in Late
      BY <1>1, <1>2, <2>1, <3>2 DEF LateMended
    <3> QED
      BY <2>1, <3>1, <3>2
  <2> QED
    BY <2>1 DEF LateMended
<1>7. Guarded'
  <2>1. ASSUME NEW x \in Devices, ~Accounted(x)'
        PROVE  /\ Mended(posted', events', x)
               /\ x \in gui'.list => Queued(x)'
               /\ Viewed(x)' => Queued(x)' \/ Asked(x)'
    <3>1. x \notin hub /\ x \notin stale /\ x \notin stale'
      BY <1>1, <1>2, <2>1 DEF Accounted
    <3>2. (Viewed(x)' <=> Viewed(x)) /\ (Asked(x)' <=> Asked(x)) /\ gui' = gui
      BY <1>2 DEF Viewed, Asked
    <3>3. CASE x = d
      <4>1. Mended(posted', events', x)
        BY <1>1, <2>1, <3>1, <3>3
      <4>2. reader \in {"off", "first"} => ~Viewed(x) /\ x \notin gui.list
        BY <1>2, <3>1 DEF Quiet
      <4> QED
        BY <1>1, <3>1, <3>2, <3>3, <4>1, <4>2
    <3>4. CASE x # d
      <4>1. ~Accounted(x)
        BY <2>1, <3>1, <3>4 DEF Accounted
      <4>2. /\ Mended(posted, events, x)
            /\ x \in gui.list => Queued(x)
            /\ Viewed(x) => Queued(x) \/ Asked(x)
        BY <1>2, <4>1 DEF Guarded
      <4> QED
        BY <1>1, <3>1, <3>2, <3>4, <4>2
    <3> QED
      BY <3>3, <3>4
  <2> QED
    BY <2>1 DEF Guarded
<1> QED
  BY <1>3, <1>4, <1>5, <1>6, <1>7 DEF IInv

\* A step that publishes nothing.
LEMMA Silent ==
    ASSUME IInv, WorkOK', UNCHANGED <<stream, posted, client>>, stale' \subseteq Devices,
           \A x \in Devices :
               Accounted(x) /\ ~Accounted(x)' => Mended(posted, events, x) /\ Queued(x),
           \A x \in hub \cup stale :
               x \in hub' \cup stale' \/ (x \notin beat.list /\ reader # "first"),
           \A x \in Devices :
               work'.dev = {x} /\ work'.at \in Late /\ x \notin stale' =>
                   Mended(posted, events, x)
    PROVE  IInv'
<1>1. /\ ClientOK /\ Room /\ Guarded /\ LateMended /\ Shapes /\ Quiet
      /\ UNCHANGED <<reader, events, posted, gui, host, view, beat>>
  BY DEF IInv, client, stream
<1>2. ClientOK' /\ Room'
  BY <1>1 DEF ClientOK, Room
<1>3. Shapes'
  BY <1>1 DEF Shapes
<1>4. \A x \in Devices : /\ Viewed(x)' <=> Viewed(x)
                         /\ Asked(x)' <=> Asked(x)
                         /\ Queued(x)' <=> Queued(x)
  BY <1>1 DEF Viewed, Asked, Queued, About
<1>5. Quiet'
  <2>1. CASE reader = "off"
    <3>1. \A x \in Devices : ~Viewed(x) /\ x \notin gui.list
      BY <1>1, <2>1 DEF Quiet, Viewed, Calm
    <3> QED
      BY <1>1, <1>4, <2>1, <3>1 DEF Quiet
  <2>2. CASE reader # "off"
    BY <1>1, <1>4, <2>2 DEF Quiet
  <2> QED
    BY <2>1, <2>2
<1>6. LateMended'
  BY <1>1 DEF LateMended
<1>7. Guarded'
  <2>1. ASSUME NEW x \in Devices, ~Accounted(x)'
        PROVE  /\ Mended(posted, events, x)
               /\ x \in gui.list => Queued(x)
               /\ Viewed(x) => Queued(x) \/ Asked(x)
    BY <1>1, <2>1 DEF Guarded
  <2> QED
    BY <1>1, <1>4, <2>1 DEF Guarded
<1> QED
  BY <1>2, <1>3, <1>5, <1>6, <1>7 DEF IInv

LEMMA HubIs == hub \subseteq Devices /\ (ports' = ports => hub' = hub)
  BY DEF hub

LEMMA AtType ==
    ASSUME NEW d \in Devices, NEW out \in BOOLEAN,
           NEW step \in Steps
    PROVE  /\ At(step, d, out) \in Works
           /\ At(step, d, out).at = step /\ At(step, d, out).dev = {d}
           /\ At(step, d, out).out = out
  BY DEF At, OneDevice, Works, Steps

\* The same for the two values, which the provers do not find by themselves.
LEMMA AtFalse ==
    ASSUME NEW d \in Devices,
           NEW step \in Steps
    PROVE  /\ At(step, d, FALSE) \in Works
           /\ At(step, d, FALSE).at = step /\ At(step, d, FALSE).dev = {d}
  BY DEF At, OneDevice, Works, Steps

\* The same of a value of which only this is asked.
LEMMA AtAny ==
    ASSUME NEW d \in Devices, NEW out \in BOOLEAN,
           NEW w, w = At("close", d, out) \/ w = At("reclaim", d, out)
    PROVE  w \in Works /\ w.at \in {"close", "reclaim"} /\ w.dev = {d}
<1>1. /\ At("close", d, out) \in Works
      /\ At("close", d, out).at = "close" /\ At("close", d, out).dev = {d}
  BY AtType DEF Steps
<1>2. /\ At("reclaim", d, out) \in Works
      /\ At("reclaim", d, out).at = "reclaim" /\ At("reclaim", d, out).dev = {d}
  BY AtType DEF Steps
<1> QED
  BY <1>1, <1>2

LEMMA AtTrue ==
    ASSUME NEW d \in Devices,
           NEW step \in Steps
    PROVE  /\ At(step, d, TRUE) \in Works
           /\ At(step, d, TRUE).at = step /\ At(step, d, TRUE).dev = {d}
           /\ At(step, d, TRUE).out = TRUE
  BY DEF At, OneDevice, Works, Steps

LEMMA FreeType ==
    /\ Free \in Works
    /\ Free.at = "free" /\ Free.dev = {} /\ Free.out = FALSE
  BY DEF Free, OneDevice, Works, Steps

\* Every step of the driver keeps its types.
LEMMA WorkStep ==
    ASSUME WorkOK, NEW d \in Devices,
           Driver(d) \/ Attach(d) \/ \E out \in BOOLEAN : Detach(d, out)
    PROVE  WorkOK'
<1> USE DEF WorkOK
<1>0. ports' = ports => hub' = hub
  BY HubIs
<1>1. CASE Attach(d)
  <2>1. work' = At("connect", d, FALSE) /\ works' \in 0 .. MaxWork
        /\ UNCHANGED <<ports, closing>>
    BY <1>1, PortsAssumption DEF Attach, Request
  <2> QED
    BY <1>0, <2>1, AtFalse DEF Steps
<1>2. CASE Connected(d)
  <2>1. work' = At("import", d, FALSE) /\ UNCHANGED <<ports, closing, works>>
    BY <1>2 DEF Connected
  <2> QED
    BY <1>0, <2>1, AtFalse DEF Steps
<1>3. CASE AttemptFails(d)
  <2>1. work' = Free /\ UNCHANGED <<ports, works>> /\ closing' \in [Devices -> Nat]
    BY <1>3 DEF AttemptFails
  <2> QED
    BY <1>0, <2>1, FreeType
<1>4. CASE Cleanup(d)
  <2>1. UNCHANGED <<ports, work, works>> /\ closing' \in [Devices -> Nat]
    BY <1>4 DEF Cleanup
  <2> QED
    BY <1>0, <2>1
<1>5. CASE ClaimPort(d)
  <2>1. /\ work' = At("plugin", d, FALSE) /\ ports' = [ports EXCEPT ![d] = @ + 1]
        /\ UNCHANGED <<closing, works>>
    BY <1>5 DEF ClaimPort
  <2>2. ports' \in [Devices -> Nat] /\ d \in hub'
    BY <2>1 DEF hub
  <2>3. work' \in Works /\ work'.at = "plugin" /\ work'.dev = {d}
    BY <2>1, AtFalse DEF Steps
  <2> QED
    BY <2>1, <2>2, <2>3
<1>6. CASE PluginFails(d)
  <2>1. CASE work' = At("shut", d, FALSE) /\ UNCHANGED <<ports, closing, works>>
    BY <1>0, <2>1, AtFalse DEF Steps
  <2>2. CASE \E out \in BOOLEAN :
               /\ work.at = "plugin" /\ work.dev = {d}
               /\ work' = At("close", d, out) /\ UNCHANGED <<ports, closing, works>>
    <3>1. work' \in Works /\ work'.at \in {"close", "reclaim"} /\ work'.dev = {d}
      BY <2>2, AtAny
    <3> QED
      BY <1>0, <2>2, <3>1
  <2> QED
    BY <1>6, <2>1, <2>2 DEF PluginFails, Working
<1>7. CASE Plugged(d)
  <2>1. work' = Free /\ UNCHANGED <<ports, closing, works>>
    BY <1>7 DEF Plugged
  <2> QED
    BY <1>0, <2>1, FreeType
<1>8. CASE \E out \in BOOLEAN : Detach(d, out)
  <2>1. PICK out \in BOOLEAN : Detach(d, out)
    BY <1>8
  <2>2. /\ work' = At("close", d, out) /\ works' \in 0 .. MaxWork
        /\ UNCHANGED <<ports, closing>> /\ d \in hub
    BY <2>1, PortsAssumption DEF Detach, Request
  <2>3. work' \in Works /\ work'.at \in {"close", "reclaim"} /\ work'.dev = {d}
    BY <2>2, AtAny
  <2> QED
    BY <1>0, <2>2, <2>3
<1>9. CASE CloseSocket(d)
  <2>1. /\ work' = At("reclaim", d, work.out) /\ UNCHANGED <<ports, closing, works>>
        /\ work.at = "close" /\ work.dev = {d}
    BY <1>9 DEF CloseSocket, Working
  <2>2. work.out \in BOOLEAN
    BY DEF Works
  <2>3. work' \in Works /\ work'.at \in {"close", "reclaim"} /\ work'.dev = {d}
    BY <2>1, <2>2, AtAny
  <2> QED
    BY <1>0, <2>1, <2>3
<1>10. CASE Reclaim(d)
  <2>1. /\ ports' = [ports EXCEPT ![d] = @ - 1] /\ UNCHANGED <<closing, works>>
        /\ work' = At("out", d, TRUE) \/ work' = Free
        /\ work.at = "reclaim" /\ work.dev = {d}
    BY <1>10 DEF Reclaim, Working
  <2>2. ports[d] \in Nat /\ ports[d] > 0
    BY <2>1 DEF hub
  <2>3. ports' \in [Devices -> Nat]
    BY <2>1, <2>2
  <2>4. /\ work' \in Works /\ work'.at \in {"out", "free"}
        /\ work'.at = "free" <=> work'.dev = {}
        /\ work'.at = "out" => work'.out
    BY <2>1, AtTrue, FreeType DEF Steps
  <2> QED
    BY <2>1, <2>3, <2>4
<1>11. CASE Unplugging(d)
  <2>1. work' = At("outed", d, TRUE) /\ UNCHANGED <<ports, closing, works>>
    BY <1>11 DEF Unplugging
  <2> QED
    BY <1>0, <2>1, AtTrue DEF Steps
<1>12. CASE Unplugged(d)
  <2>1. work' = Free /\ UNCHANGED <<ports, closing, works>>
    BY <1>12 DEF Unplugged
  <2> QED
    BY <1>0, <2>1, FreeType
<1>13. CASE PlugOutFails(d)
  <2>1. work' = Free /\ UNCHANGED <<ports, closing, works>>
    BY <1>13 DEF PlugOutFails
  <2> QED
    BY <1>0, <2>1, FreeType
<1>14. CASE Shut(d)
  <2>1. work' = Free /\ UNCHANGED <<ports, closing, works>>
    BY <1>14 DEF Shut
  <2> QED
    BY <1>0, <2>1, FreeType
<1> QED
  BY <1>1, <1>2, <1>3, <1>4, <1>5, <1>6, <1>7, <1>8, <1>9, <1>10, <1>11, <1>12, <1>13,
     <1>14
  DEF Driver

LEMMA PublishingSteps ==
    ASSUME IInv, NEW d \in Devices,
           \/ Attach(d) \/ Connected(d) \/ Cleanup(d) \/ Plugged(d)
           \/ Shut(d) \/ CloseSocket(d) \/ Unplugging(d) \/ Unplugged(d)
    PROVE  IInv'
<1>1. WorkOK /\ WorkOK'
  BY WorkStep DEF IInv, Driver
<1>2. \A x \in Devices \ {d} : {x} # {d} /\ {x} # {}
  OBVIOUS
<1>3. CASE Attach(d)
  <2>1. /\ work = Free /\ work' = At("connect", d, FALSE)
        /\ Publish("connecting", d) /\ UNCHANGED <<hub, closing, client>>
    BY <1>3, HubIs DEF Attach, Request
  <2>2. work'.dev = {d} /\ work'.at = "connect"
    BY <2>1, AtFalse DEF Steps
  <2>3. Accounted(d)'
    BY <2>2 DEF Accounted, Coming, Early
  <2>4. \A x \in Devices \ {d} : Coming(x) => Coming(x)'
    BY <1>2, <2>1, <2>2, FreeType DEF Coming
  <2> QED
    BY <1>1, <2>1, <2>2, <2>3, <2>4, Publishes DEF States, Late
<1>4. CASE Connected(d)
  <2>1. /\ work.dev = {d} /\ work' = At("import", d, FALSE)
        /\ Publish("connected", d) /\ UNCHANGED <<hub, closing, client>>
    BY <1>4, HubIs DEF Connected, Working
  <2>2. work'.dev = {d} /\ work'.at = "import"
    BY <2>1, AtFalse DEF Steps
  <2>3. Accounted(d)'
    BY <2>2 DEF Accounted, Coming, Early
  <2>4. \A x \in Devices \ {d} : Coming(x) => Coming(x)'
    BY <1>2, <2>1, <2>2 DEF Coming
  <2> QED
    BY <1>1, <2>1, <2>2, <2>3, <2>4, Publishes DEF States, Late
<1>5. CASE Cleanup(d)
  <2>1. /\ work' = work /\ closing' = [closing EXCEPT ![d] = @ - 1]
        /\ Publish("disconnected", d) /\ UNCHANGED <<hub, client>>
    BY <1>5, HubIs DEF Cleanup
  <2>2. \A x \in Devices \ {d} : Coming(x) => Coming(x)'
    BY <1>1, <2>1 DEF Coming, WorkOK
  <2>3. "disconnected" \notin Claiming
    BY DEF Claiming
  <2> QED
    BY <1>1, <2>1, <2>2, <2>3, Publishes DEF States
<1>6. CASE Plugged(d)
  <2>1. /\ work.dev = {d} /\ work.at = "plugin" /\ work' = Free
        /\ Publish("plugged", d) /\ UNCHANGED <<hub, closing, client>>
    BY <1>6, HubIs DEF Plugged, Working
  <2>2. Accounted(d)'
    BY <1>1, <2>1 DEF WorkOK, Accounted
  <2>3. \A x \in Devices \ {d} : Coming(x) => Coming(x)'
    BY <1>2, <2>1 DEF Coming
  <2> QED
    BY <1>1, <2>1, <2>2, <2>3, FreeType, Publishes DEF States, Late
<1>7. CASE Shut(d) \/ CloseSocket(d) \/ Unplugging(d) \/ Unplugged(d)
  <2>1. PICK s \in {"disconnected", "unplugging", "unplugged"} : Publish(s, d)
    BY <1>7 DEF Shut, CloseSocket, Unplugging, Unplugged
  <2>2. work.dev = {d} /\ UNCHANGED <<hub, closing, client>>
    BY <1>7, HubIs DEF Shut, CloseSocket, Unplugging, Unplugged, Working
  <2>3. work'.dev \in {{}, {d}}
    <3>1. work.out \in BOOLEAN
      BY <1>1 DEF WorkOK, Works
    <3>2. CASE CloseSocket(d)
      <4>1. work' = At("reclaim", d, work.out)
        BY <3>2 DEF CloseSocket
      <4> QED
        BY <3>1, <4>1, AtAny
    <3>3. CASE Unplugging(d)
      BY <3>3, AtTrue DEF Unplugging, Steps
    <3>4. CASE Unplugged(d)
      BY <3>4, FreeType DEF Unplugged
    <3>5. CASE Shut(d)
      BY <3>5, FreeType DEF Shut
    <3> QED
      BY <1>7, <3>2, <3>3, <3>4, <3>5
  <2>4. \A x \in Devices \ {d} : Coming(x) => Coming(x)'
    BY <1>2, <2>2 DEF Coming
  <2>5. s \in States /\ s \notin Claiming
    BY DEF States, Claiming
  <2>6. \A x \in Devices : work'.dev = {x} => x = d
    BY <2>3
  <2> QED
    BY <1>1, <2>1, <2>2, <2>4, <2>5, <2>6, Publishes
<1> QED
  BY <1>3, <1>4, <1>5, <1>6, <1>7

LEMMA SilentSteps ==
    ASSUME IInv, NEW d \in Devices,
           \/ AttemptFails(d) \/ ClaimPort(d) \/ PluginFails(d) \/ Reclaim(d)
           \/ PlugOutFails(d) \/ \E out \in BOOLEAN : Detach(d, out)
    PROVE  IInv'
<1>1. WorkOK /\ WorkOK' /\ ClientOK /\ LateMended
  BY WorkStep DEF IInv, Driver
<1>2. \A x \in Devices : {x} # {} /\ ({x} = {d} => x = d)
  OBVIOUS
<1>3. CASE AttemptFails(d)
  <2>1. /\ work.dev = {d} /\ work' = Free /\ closing' = [closing EXCEPT ![d] = @ + 1]
        /\ UNCHANGED <<hub, stream, posted, client, stale>>
    BY <1>3, HubIs DEF AttemptFails, Working
  <2>2. \A x \in Devices : Accounted(x) => Accounted(x)'
    BY <1>1, <1>2, <2>1 DEF Accounted, Coming, WorkOK
  <2> QED
    BY <1>1, <1>2, <2>1, <2>2, FreeType, Silent DEF ClientOK
<1>4. CASE ClaimPort(d)
  <2>1. /\ work.dev = {d} /\ work' = At("plugin", d, FALSE)
        /\ ports' = [ports EXCEPT ![d] = @ + 1] /\ stale' = stale \ {d}
        /\ UNCHANGED <<closing, stream, posted, client>>
    BY <1>4 DEF ClaimPort, Working
  <2>0. hub' = hub \cup {d}
    BY <1>1, <2>1 DEF hub, WorkOK
  <2>2. work'.at = "plugin"
    BY <2>1, AtFalse DEF Steps
  <2>3. \A x \in Devices : Accounted(x) => Accounted(x)'
    BY <1>2, <2>0, <2>1 DEF Accounted, Coming
  <2> QED
    BY <1>1, <2>0, <2>1, <2>2, <2>3, Silent DEF ClientOK, Late
<1>5. CASE PluginFails(d)
  <2>1. /\ work.dev = {d}
        /\ work' = At("shut", d, FALSE) \/ \E out \in BOOLEAN : work' = At("close", d, out)
        /\ UNCHANGED <<hub, closing, stream, posted, client, stale>>
    BY <1>5, HubIs DEF PluginFails, Working
  <2>2. work'.at \in {"shut", "close"} /\ work'.dev = {d}
    <3>1. At("shut", d, FALSE).at = "shut" /\ At("shut", d, FALSE).dev = {d}
      BY AtFalse DEF Steps
    <3>2. \A out \in BOOLEAN :
            At("close", d, out).at = "close" /\ At("close", d, out).dev = {d}
      BY AtType DEF Steps
    <3> QED
      BY <2>1, <3>1, <3>2
  <2>3. \A x \in Devices : Accounted(x) => Accounted(x)'
    BY <1>2, <2>1, <2>2 DEF Accounted, Coming, Early
  <2> QED
    BY <1>1, <2>1, <2>2, <2>3, Silent DEF ClientOK, Late
<1>6. CASE \E out \in BOOLEAN : Detach(d, out)
  <2>1. PICK out \in BOOLEAN :
          /\ work = Free /\ work' = At("close", d, out)
          /\ UNCHANGED <<hub, closing, stream, posted, client, stale>>
    BY <1>6, HubIs DEF Detach, Request
  <2>2. work'.at = "close" /\ work'.dev = {d}
    BY <2>1, AtType DEF Steps
  <2>3. \A x \in Devices : Accounted(x) => Accounted(x)'
    BY <1>2, <2>1, <2>2, FreeType DEF Accounted, Coming, Early
  <2> QED
    BY <1>1, <2>1, <2>2, <2>3, Silent DEF ClientOK, Late
<1>7. CASE PlugOutFails(d)
  <2>1. /\ work.dev = {d} /\ work.at = "outed" /\ work' = Free
        /\ UNCHANGED <<hub, closing, stream, posted, client, stale>>
    BY <1>7, HubIs DEF PlugOutFails, Working
  <2>2. \A x \in Devices : Accounted(x) => Accounted(x)'
    BY <1>2, <2>1 DEF Accounted, Coming, Early
  <2> QED
    BY <1>1, <1>2, <2>1, <2>2, FreeType, Silent DEF ClientOK
<1>8. CASE Reclaim(d)
  <2>1. /\ work.dev = {d} /\ work.at = "reclaim" /\ ports' = [ports EXCEPT ![d] = @ - 1]
        /\ work' = IF work.out THEN At("out", d, TRUE) ELSE Free
        /\ stale' = stale \cup (IF ports[d] = 1 THEN Removed(d) ELSE {})
        /\ UNCHANGED <<closing, stream, posted, client>>
    BY <1>8 DEF Reclaim, Working
  <2>0. /\ d \in hub /\ ports[d] = 1 <=> d \notin hub'
        /\ hub' \subseteq hub /\ hub \subseteq hub' \cup {d}
    <3>1. d \in hub /\ ports[d] \in Nat /\ ports[d] > 0
      BY <1>1, <2>1 DEF WorkOK, hub
    <3> QED
      BY <1>1, <2>1, <3>1 DEF WorkOK, hub
  <2>2. Removed(d) \in {{}, {d}}
    BY DEF Removed
  <2>3. /\ work.out => work'.at = "out" /\ work'.dev = {d} /\ work'.out
        /\ ~work.out => work'.at = "free" /\ work'.dev = {}
    BY <2>1, AtTrue, FreeType DEF Steps
  <2>4. stale \subseteq stale' /\ stale' \subseteq Devices
    BY <1>1, <2>1, <2>2 DEF ClientOK
  <2>5. ASSUME d \notin hub', d \notin stale'
        PROVE  /\ d \notin beat.list /\ reader # "first"
               /\ ~work.out => Queued(d)
    BY <2>0, <2>1, <2>5 DEF Removed, Queued
  <2>6. d \notin stale' => Mended(posted, events, d)
    BY <1>1, <2>1, <2>4 DEF LateMended, Late
  <2>7. ASSUME NEW x \in Devices, Accounted(x), ~Accounted(x)'
        PROVE  Mended(posted, events, x) /\ Queued(x)
    <3>1. CASE x # d
      <4>1. x \notin hub \cup stale /\ ~Coming(x)
        BY <1>2, <2>0, <2>1, <2>4, <2>7, <3>1 DEF Accounted, Coming
      <4> QED
        BY <2>7, <4>1 DEF Accounted
    <3>2. CASE x = d
      <4>0. d \notin stale' /\ ~Coming(d)'
        BY <2>7, <3>2 DEF Accounted
      <4>3. ~work.out
        BY <2>3, <4>0 DEF Coming
      <4>4. ~(closing[d] > 0)
        BY <2>1, <4>0 DEF Coming
      <4>1. ~work.out /\ ~(closing[d] > 0) /\ d \notin stale'
        BY <4>0, <4>3, <4>4
      <4>2. d \notin hub'
        BY <2>7, <3>2 DEF Accounted
      <4> QED
        BY <2>5, <2>6, <3>2, <4>1, <4>2
    <3> QED
      BY <3>1, <3>2
  <2>8. \A x \in hub \cup stale :
          x \in hub' \cup stale' \/ (x \notin beat.list /\ reader # "first")
    BY <2>0, <2>1, <2>4, <2>5
  <2>9. \A x \in Devices :
          work'.dev = {x} /\ work'.at \in Late /\ x \notin stale' => Mended(posted, events, x)
    BY <1>2, <2>3, <2>6
  <2> QED
    BY <1>1, <2>1, <2>4, <2>7, <2>8, <2>9, Silent
<1> QED
  BY <1>3, <1>4, <1>5, <1>6, <1>7, <1>8

-----------------------------------------------------------------------------
(* The steps of the client.                                                 *)

LEMMA ClientKeeps ==
    ASSUME IInv, UNCHANGED <<driver, works, stale>>
    PROVE  /\ WorkOK'
           /\ \A x \in Devices : Accounted(x)' <=> Accounted(x)
           /\ UNCHANGED <<hub, work>>
<1>1. UNCHANGED <<hub, ports, work, closing, works, stale>> /\ WorkOK
  BY HubIs DEF driver, IInv
<1> QED
  BY <1>1 DEF WorkOK, Accounted, Coming

\* A step that leaves the events alone.
LEMMA Viewing ==
    ASSUME IInv, UNCHANGED <<driver, works, stale, events, posted>>,
           ClientOK', Room', Shapes', Quiet',
           \A x \in Devices : ~Accounted(x) =>
               /\ x \in gui'.list => Queued(x)
               /\ Viewed(x)' => Queued(x) \/ Asked(x)'
    PROVE  IInv'
<1>1. Guarded /\ LateMended
  BY DEF IInv
<1>2. \A x \in Devices : Queued(x)' <=> Queued(x)
  BY DEF Queued, About
<1>3. Guarded'
  BY <1>1, <1>2, ClientKeeps DEF Guarded
<1>4. LateMended'
  BY <1>1, ClientKeeps DEF LateMended
<1> QED
  BY <1>3, <1>4, ClientKeeps DEF IInv

LEMMA ReadStep ==
    ASSUME IInv, DeviceRead
    PROVE  IInv'
<1>1. /\ ClientOK /\ Room /\ Guarded /\ LateMended /\ Shapes /\ Quiet
      /\ UNCHANGED <<driver, works, stale, gui, host, view, beat>>
      /\ reader \in {"first", "asked"} /\ Len(posted) < MaxPosted
  BY DEF IInv, DeviceRead, client
<1>2. \A x \in Devices : /\ Viewed(x)' <=> Viewed(x)
                         /\ Asked(x)' <=> Asked(x)
  BY <1>1 DEF Viewed, Asked
<1>3. Shapes'
  BY <1>1, ClientKeeps DEF Shapes
<1>4. CASE events = <<>> /\ reader' = "waiting" /\ UNCHANGED <<events, posted>>
  <2>1. \A x \in Devices : Queued(x)' <=> Queued(x)
    BY <1>4 DEF Queued, About
  <2>2. ClientOK' /\ Room' /\ Quiet'
    BY <1>1, <1>4 DEF ClientOK, Room, Quiet
  <2> QED
    BY <1>1, <1>2, <1>3, <1>4, <2>1, <2>2, Viewing DEF Guarded
<1>5. CASE /\ events # <<>> /\ reader' = "asked"
           /\ posted' = Append(posted, Head(events)) /\ events' = Tail(events)
  <2>1. \A x \in Devices :
          /\ Mended(posted, events, x) => Mended(posted', events', x)
          /\ Queued(x) => Queued(x)'
    BY <1>1, <1>5, MoveMended DEF ClientOK, Queued
  <2>2. ClientOK'
    <3>1. /\ events' \in Seq(Events) /\ Len(events') = Len(events) - 1
          /\ Head(events) \in Events
      BY <1>1, <1>5, TailIs DEF ClientOK
    <3>2. posted' \in Seq(Events) /\ Len(posted') = Len(posted) + 1
      BY <1>1, <1>5, <3>1 DEF ClientOK
    <3>3. Len(posted) \in Nat /\ Len(events) \in Nat /\ MaxPosted \in Nat /\ Cap \in Nat
      BY <1>1, CapIsNat, PortsAssumption DEF ClientOK
    <3>4. Len(posted') <= MaxPosted /\ Len(events') <= Cap
      BY <1>1, <3>1, <3>2, <3>3 DEF ClientOK
    <3> QED
      BY <1>1, <1>5, <3>1, <3>2, <3>4 DEF ClientOK
  <2>3. Room' /\ Quiet'
    BY <1>1, <1>5 DEF Room, Quiet
  <2>4. Guarded'
    BY <1>1, <1>2, <2>1, ClientKeeps DEF Guarded
  <2>5. LateMended'
    BY <1>1, <2>1, ClientKeeps DEF LateMended, WorkOK
  <2> QED
    BY <1>1, <1>3, <2>2, <2>3, <2>4, <2>5, ClientKeeps DEF IInv
<1> QED
  BY <1>1, <1>4, <1>5 DEF DeviceRead

\* The interface takes its first event.
LEMMA HandleStep ==
    ASSUME IInv, Handle
    PROVE  IInv'
<1> DEFINE e == Head(posted)
<1>1. /\ ClientOK /\ Room /\ Guarded /\ LateMended /\ Shapes /\ Quiet
      /\ UNCHANGED <<driver, works, stale, reader, events, host, beat>>
      /\ gui = Calm /\ posted # <<>> /\ posted' = Tail(posted)
  BY DEF IInv, Handle, Note, AskNote, stream
<1>2. /\ posted' \in Seq(Events) /\ Len(posted') = Len(posted) - 1
      /\ Len(posted) \in Nat /\ e \in Events
  BY <1>1, TailIs DEF ClientOK
<1>3. ASSUME NEW x \in Devices
      PROVE  /\ Mended(posted, events, x) => Mended(posted', events', x)
             /\ Mended(posted, events, x) /\ e.dev = x /\ e.state \in Claiming => Queued(x)'
             /\ Queued(x) /\ e.dev # x => Queued(x)'
  <2>1. posted \in Seq(Events) /\ events \in Seq(Events) /\ events' = events
    BY <1>1 DEF ClientOK
  <2>2. Mended(posted, events, x) =>
          /\ Mended(Tail(posted), events, x)
          /\ Head(posted).dev = x /\ Head(posted).state \in Claiming =>
               About(Tail(posted), x) \/ About(events, x)
    BY <1>1, <2>1, TakeMended
  <2>3. About(posted, x) /\ Head(posted).dev # x => About(Tail(posted), x)
    BY <1>1, <2>1, TailAbout
  <2>4. Queued(x)' <=> About(events, x) \/ About(Tail(posted), x)
    BY <1>1, <2>1 DEF Queued
  <2>5. Mended(posted', events', x) <=> Mended(Tail(posted), events, x)
    BY <1>1, <2>1
  <2>6. Queued(x) <=> About(events, x) \/ About(posted, x)
    BY DEF Queued
  <2> QED
    BY <2>2, <2>3, <2>4, <2>5, <2>6
<1>4. reader \notin {"off", "first"}
  BY <1>1 DEF Quiet
<1>5. Room' /\ LateMended'
  <2>1. MaxPosted \in Nat
    BY PortsAssumption
  <2>2. Room'
    BY <1>1, <1>2, <2>1 DEF Room
  <2> QED
    BY <1>1, <1>3, <2>2, ClientKeeps DEF LateMended
<1>6. \A x \in Devices : ~Asked(x)
  BY <1>1 DEF Asked, Calm
<1> HIDE DEF e
<1>7. CASE Note
  <2>1. gui' = gui /\ Set(e.dev, e.state \in Claiming)
    BY <1>7 DEF Note, e, Claiming
  <2>2. view' \subseteq Busids
    <3>1. BusidOf(e.dev) \in Busids
      BY <1>2, PlacesAssumption DEF Events, BusidOf
    <3> QED
      BY <1>1, <2>1, <3>1 DEF Set, ClientOK
  <2>3. ClientOK'
    <3>1. MaxPosted \in Nat
      BY PortsAssumption
    <3> QED
      BY <1>1, <1>2, <2>1, <2>2, <3>1 DEF ClientOK
  <2>4. Shapes' /\ Quiet'
    BY <1>1, <1>4, <2>1, ClientKeeps DEF Shapes, Quiet
  <2>5. ASSUME NEW x \in Devices, ~Accounted(x), Viewed(x)'
        PROVE  Queued(x)'
    <3>1. Mended(posted, events, x) /\ (Viewed(x) => Queued(x))
      BY <1>1, <1>6, <2>5 DEF Guarded
    <3>2. e.dev \in Devices
      BY <1>2 DEF Events
    <3>3. CASE e.dev = x /\ e.state \in Claiming
      BY <1>3, <3>1, <3>3
    <3>4. CASE e.dev = x /\ e.state \notin Claiming
      BY <1>1, <2>1, <2>5, <3>4 DEF Viewed, Set
    <3>5. CASE e.dev # x
      <4>1. HostOf(e.dev) # HostOf(x) \/ BusidOf(e.dev) # BusidOf(x)
        BY <3>2, <3>5, SameDevice
      <4>2. Viewed(x)
        BY <1>1, <2>1, <2>5, <4>1 DEF Viewed, Set
      <4> QED
        BY <1>3, <3>1, <3>5, <4>2
    <3> QED
      BY <3>3, <3>4, <3>5
  <2>6. gui'.list = {}
    BY <1>1, <2>1 DEF Calm
  <2>7. Guarded'
    BY <1>1, <1>3, <2>5, <2>6, ClientKeeps DEF Guarded
  <2> QED
    BY <1>1, <1>5, <2>3, <2>4, <2>7, ClientKeeps DEF IInv
<1>8. CASE AskNote
  <2>1. PICK list \in SUBSET hub : gui' = [step |-> "note", list |-> list, dev |-> {e.dev}]
    BY <1>8 DEF AskNote, Answers, e
  <2>2. view' = view /\ e.dev \in Devices /\ hub \subseteq Devices
    BY <1>2, <1>8, HubIs DEF AskNote, Events
  <2>3. ClientOK'
    <3>1. MaxPosted \in Nat
      BY PortsAssumption
    <3>2. gui' \in [step : {"calm", "note", "set"}, list : SUBSET Devices, dev : OneDevice]
      BY <2>1, <2>2 DEF OneDevice
    <3> QED
      BY <1>1, <1>2, <2>2, <3>1, <3>2 DEF ClientOK
  <2>4. Shapes' /\ Quiet'
    BY <1>1, <1>4, <2>1, <2>2, ClientKeeps DEF Shapes, Quiet
  <2>5. ASSUME NEW x \in Devices, ~Accounted(x)
        PROVE  x \notin gui'.list /\ (Viewed(x)' => Queued(x)' \/ Asked(x)')
    <3>1. x \notin gui'.list
      BY <2>1, <2>5 DEF Accounted
    <3>2. Viewed(x)' => Queued(x)
      BY <1>1, <1>6, <2>2, <2>5 DEF Guarded, Viewed
    <3>3. e.dev = x => Asked(x)'
      BY <2>1, <3>1 DEF Asked
    <3> QED
      BY <1>3, <3>1, <3>2, <3>3
  <2>6. Guarded'
    BY <1>1, <1>3, <2>5, ClientKeeps DEF Guarded
  <2> QED
    BY <1>1, <1>5, <2>3, <2>4, <2>6, ClientKeeps DEF IInv
<1> QED
  BY <1>7, <1>8 DEF Handle

\* What the interface and the heartbeat thread do with the answers of the driver.
LEMMA AnswerSteps ==
    ASSUME IInv,
           NoteAnswer \/ Look \/ NoteList \/ (\E h \in Hosts : SwitchHost(h)) \/ Heartbeat
    PROVE  IInv'
<1>1. /\ ClientOK /\ Room /\ Guarded /\ Shapes /\ Quiet /\ hub \subseteq Devices
      /\ UNCHANGED <<driver, works, stale, reader, events, posted, hub>>
  BY HubIs DEF IInv, NoteAnswer, Look, NoteList, SwitchHost, Heartbeat, Ask, Sync,
         stream, driver
<1>2. Room'
  BY <1>1 DEF Room
<1>3. \A x \in Devices : BusidOf(x) \in Busids
  BY PlacesAssumption DEF BusidOf
<1>4. ASSUME NEW list \in SUBSET Devices, NEW x \in Devices, HostOf(x) = host,
             BusidOf(x) \in Listed(list, host)
      PROVE  x \in list
  <2>1. PICK y \in list : HostOf(y) = host /\ BusidOf(x) = BusidOf(y)
    BY <1>4 DEF Listed
  <2> QED
    BY <1>4, <2>1, SameDevice
<1>5. ASSUME NEW list \in SUBSET Devices
      PROVE  Listed(list, host) \subseteq Busids
  BY <1>3 DEF Listed
<1>6. Calm \in [step : {"calm", "note", "set"}, list : SUBSET Devices, dev : OneDevice]
      /\ Calm.step = "calm" /\ Calm.list = {}
  BY DEF Calm, OneDevice
<1>7. Resting \in [asked : SUBSET Hosts, list : SUBSET Devices] /\ Resting.list = {}
      /\ Resting.asked = {}
  BY DEF Resting
<1>8. CASE NoteAnswer
  <2>1. PICK d \in gui.dev : Set(d, d \in gui.list)
    BY <1>8 DEF NoteAnswer
  <2>2. gui.step = "note" /\ gui' = Calm /\ UNCHANGED <<host, beat>>
    BY <1>8 DEF NoteAnswer
  <2>3. d \in Devices /\ gui.dev = {d}
    BY <1>1, <2>1, <2>2 DEF Shapes
  <2>4. ClientOK'
    BY <1>1, <1>3, <1>6, <2>1, <2>2, <2>3 DEF ClientOK, Set
  <2>5. Shapes' /\ Quiet'
    BY <1>1, <1>6, <2>2 DEF Shapes, Quiet
  <2>6. ASSUME NEW x \in Devices, ~Accounted(x), Viewed(x)'
        PROVE  Queued(x)
    <3>1. x \in gui.list => Queued(x)
      BY <1>1, <2>6 DEF Guarded
    <3>2. CASE x = d
      <4>1. d \in gui.list
        BY <2>1, <2>2, <2>6, <3>2 DEF Viewed, Set
      <4> QED
        BY <3>1, <3>2, <4>1
    <3>3. CASE x # d
      <4>1. HostOf(d) # HostOf(x) \/ BusidOf(d) # BusidOf(x)
        BY <2>3, <3>3, SameDevice
      <4>2. Viewed(x)
        BY <2>1, <2>2, <2>6, <4>1 DEF Viewed, Set
      <4>3. ~Asked(x)
        BY <2>3, <3>3 DEF Asked
      <4> QED
        BY <1>1, <2>6, <4>2, <4>3 DEF Guarded
    <3> QED
      BY <3>2, <3>3
  <2> QED
    BY <1>1, <1>2, <1>6, <2>2, <2>4, <2>5, <2>6, Viewing
<1>9. CASE Look
  <2>1. PICK list \in SUBSET hub : gui' = [step |-> "set", list |-> list, dev |-> {}]
    BY <1>9 DEF Look
  <2>2. gui = Calm /\ reader # "off" /\ UNCHANGED <<host, view, beat>>
    BY <1>9 DEF Look
  <2>3. ClientOK'
    BY <1>1, <2>1, <2>2 DEF ClientOK, OneDevice
  <2>4. \A x \in Devices : ~Asked(x) /\ (Viewed(x)' <=> Viewed(x))
    BY <2>2 DEF Asked, Calm, Viewed
  <2>5. Shapes' /\ Quiet'
    BY <1>1, <2>1, <2>2, <2>4 DEF Shapes, Quiet
  <2>6. \A x \in Devices : ~Accounted(x) => x \notin gui'.list /\ (Viewed(x)' => Queued(x))
    BY <1>1, <2>1, <2>4 DEF Accounted, Guarded
  <2> QED
    BY <1>1, <1>2, <2>3, <2>5, <2>6, Viewing
<1>10. CASE NoteList
  <2>1. /\ gui.step = "set" /\ view' = view \cup Listed(gui.list, host)
        /\ gui' = Calm /\ UNCHANGED <<host, beat>>
    BY <1>10 DEF NoteList
  <2>2. gui.list \in SUBSET Devices
    BY <1>1 DEF ClientOK
  <2>3. ClientOK'
    BY <1>1, <1>5, <1>6, <2>1, <2>2 DEF ClientOK
  <2>4. \A x \in Devices : Viewed(x)' => Viewed(x) \/ x \in gui.list
    BY <1>4, <2>1, <2>2 DEF Viewed
  <2>5. Shapes' /\ Quiet'
    BY <1>1, <1>6, <2>1, <2>4 DEF Shapes, Quiet, Calm
  <2>6. \A x \in Devices : ~Accounted(x) /\ Viewed(x)' => Queued(x)
    BY <1>1, <2>1, <2>4 DEF Guarded, Asked
  <2> QED
    BY <1>1, <1>2, <1>6, <2>1, <2>3, <2>5, <2>6, Viewing
<1>11. CASE \E h \in Hosts : SwitchHost(h)
  <2>1. /\ gui = Calm /\ reader # "off" /\ host' \in Hosts /\ view' = {}
        /\ UNCHANGED <<gui, beat>>
    BY <1>11 DEF SwitchHost
  <2>2. ClientOK'
    BY <1>1, <2>1 DEF ClientOK
  <2>3. \A x \in Devices : ~Viewed(x)'
    BY <2>1 DEF Viewed
  <2>4. Shapes' /\ Quiet'
    BY <1>1, <1>6, <2>1, <2>3 DEF Shapes, Quiet
  <2> QED
    BY <1>1, <1>2, <1>6, <2>1, <2>2, <2>3, <2>4, Viewing
<1>12. CASE \E list \in Answers : Ask(list)
  <2>1. PICK list \in SUBSET hub : beat' = [asked |-> {host}, list |-> list]
    BY <1>12 DEF Ask, Answers
  <2>2. reader # "off" /\ UNCHANGED <<gui, host, view>>
    BY <1>12 DEF Ask
  <2>3. ClientOK'
    BY <1>1, <2>1, <2>2 DEF ClientOK
  <2>4. \A x \in Devices : (Asked(x)' <=> Asked(x)) /\ (Viewed(x)' <=> Viewed(x))
    BY <2>2 DEF Asked, Viewed
  <2>5. Shapes' /\ Quiet'
    BY <1>1, <2>1, <2>2, <2>4 DEF Shapes, Quiet
  <2> QED
    BY <1>1, <1>2, <2>2, <2>3, <2>4, <2>5, Viewing DEF Guarded
<1>13. CASE Sync
  <2>1. PICK h \in beat.asked : view' = Synced(h)
    BY <1>13 DEF Sync
  <2>2. beat' = Resting /\ UNCHANGED <<gui, host>>
    BY <1>13 DEF Sync
  <2>3. beat.list \in SUBSET Devices /\ beat.list \subseteq hub \cup stale
    BY <1>1 DEF ClientOK, Shapes
  <2>4. view' = view \/ view' = view \cup Listed(beat.list, host)
    BY <2>1 DEF Synced
  <2>5. ClientOK'
    BY <1>1, <1>5, <1>7, <2>2, <2>3, <2>4 DEF ClientOK
  <2>6. \A x \in Devices :
          /\ Viewed(x)' => Viewed(x) \/ x \in hub \cup stale
          /\ Asked(x)' <=> Asked(x)
    BY <1>4, <2>2, <2>3, <2>4 DEF Viewed, Asked
  <2>7. reader # "off"
    BY <1>1, <1>7, <2>1 DEF Quiet
  <2>8. Shapes' /\ Quiet'
    BY <1>1, <1>7, <2>2, <2>6, <2>7 DEF Shapes, Quiet
  <2> QED
    BY <1>1, <1>2, <2>2, <2>5, <2>6, <2>8, Viewing DEF Guarded, Accounted
<1> QED
  BY <1>8, <1>9, <1>10, <1>11, <1>12, <1>13 DEF Heartbeat

LEMMA ProcessSteps ==
    ASSUME IInv, Start \/ Exit
    PROVE  IInv'
<1>1. /\ WorkOK /\ ClientOK /\ Room /\ Guarded /\ LateMended /\ Shapes /\ Quiet
  BY DEF IInv
<1>2. CASE Start
  <2>1. /\ reader = "off" /\ reader' = "first"
        /\ UNCHANGED <<driver, works, stale, events, posted, gui, host, view, beat>>
    BY <1>2 DEF Start, client
  <2>2. ClientOK' /\ Room' /\ Shapes'
    BY <1>1, <2>1, ClientKeeps DEF ClientOK, Room, Shapes
  <2>3. \A x \in Devices : (Asked(x)' <=> Asked(x)) /\ (Viewed(x)' <=> Viewed(x))
    BY <2>1 DEF Asked, Viewed
  <2>4. \A x \in Devices : ~Viewed(x) /\ x \notin gui.list
    BY <1>1, <2>1 DEF Quiet, Viewed, Calm
  <2>5. Quiet'
    BY <1>1, <2>1, <2>3, <2>4 DEF Quiet
  <2> QED
    BY <2>1, <2>2, <2>3, <2>4, <2>5, Viewing
<1>3. CASE Exit
  <2>1. /\ reader' = "off" /\ events' = <<>> /\ posted' = <<>> /\ gui' = Calm /\ view' = {}
        /\ beat' = Resting /\ stale' = {} /\ UNCHANGED <<host, ports, hub, work, closing, works>>
    BY <1>3, HubIs DEF Exit, driver
  <2>2. WorkOK'
    BY <1>1, <2>1 DEF WorkOK
  <2>3. ClientOK'
    <3>1. <<>> \in Seq(Events) /\ Len(<<>>) = 0
      OBVIOUS
    <3>2. 0 <= Cap /\ 0 <= MaxPosted
      BY CapIsNat, PortsAssumption
    <3> QED
      BY <1>1, <2>1, <3>1, <3>2 DEF ClientOK, Calm, Resting, OneDevice
  <2>4. \A x \in Devices : /\ Mended(posted', events', x)
                           /\ ~Viewed(x)' /\ x \notin gui'.list
    BY <2>1 DEF Mended, Viewed, Calm
  <2>5. Room' /\ Guarded' /\ LateMended'
    BY <2>1, <2>4 DEF Room, Guarded, LateMended
  <2>6. Shapes' /\ Quiet'
    BY <2>1, <2>4 DEF Shapes, Quiet, Calm, Resting
  <2> QED
    BY <2>2, <2>3, <2>5, <2>6 DEF IInv
<1> QED
  BY <1>2, <1>3

LEMMA InitHolds == Init => IInv
<1> SUFFICES ASSUME Init PROVE IInv
  OBVIOUS
<1>1. /\ ports \in [Devices -> Nat] /\ work = Free /\ closing = [x \in Devices |-> 0]
      /\ reader = "off" /\ events = <<>> /\ posted = <<>> /\ gui = Calm /\ view = {}
      /\ host \in Hosts /\ beat = Resting /\ stale = {} /\ works = 0
  BY DEF Init
<1>2. WorkOK
  BY <1>1, FreeType, PortsAssumption DEF WorkOK
<1>3. ClientOK
  <2>1. <<>> \in Seq(Events) /\ Len(<<>>) = 0
    OBVIOUS
  <2>2. 0 <= Cap /\ 0 <= MaxPosted
    BY CapIsNat, PortsAssumption
  <2> QED
    BY <1>1, <2>1, <2>2 DEF ClientOK, Calm, Resting, OneDevice
<1>4. \A x \in Devices : Mended(posted, events, x) /\ ~Viewed(x) /\ x \notin gui.list
  BY <1>1 DEF Mended, Viewed, Calm
<1>5. Room /\ Guarded /\ LateMended
  BY <1>1, <1>4 DEF Room, Guarded, LateMended
<1>6. Shapes /\ Quiet
  BY <1>1, <1>4 DEF Shapes, Quiet, Calm, Resting
<1> QED
  BY <1>2, <1>3, <1>5, <1>6 DEF IInv

LEMMA NextKeeps == IInv /\ [Next]_vars => IInv'
<1> SUFFICES ASSUME IInv, [Next]_vars PROVE IInv'
  OBVIOUS
<1>1. ASSUME NEW d \in Devices, Driver(d) \/ Attach(d) \/ \E out \in BOOLEAN : Detach(d, out)
      PROVE  IInv'
  BY <1>1, PublishingSteps, SilentSteps DEF Driver
<1>2. CASE DeviceRead
  BY <1>2, ReadStep
<1>3. CASE Handle
  BY <1>3, HandleStep
<1>4. CASE Answered \/ Look \/ (\E h \in Hosts : SwitchHost(h)) \/ Heartbeat
  BY <1>4, AnswerSteps DEF Answered
<1>5. CASE Start \/ Exit
  BY <1>5, ProcessSteps
<1>6. CASE UNCHANGED vars
  <2>1. /\ UNCHANGED <<driver, works, stale, reader, events, posted, gui, host, view, beat>>
        /\ ClientOK /\ Room /\ Guarded /\ Shapes /\ Quiet
    BY <1>6 DEF vars, client, stream, IInv
  <2>2. \A x \in Devices : (Asked(x)' <=> Asked(x)) /\ (Viewed(x)' <=> Viewed(x))
    BY <2>1 DEF Asked, Viewed
  <2>3. ClientOK' /\ Room' /\ Shapes' /\ Quiet'
    BY <2>1, <2>2, ClientKeeps DEF ClientOK, Room, Shapes, Quiet
  <2> QED
    BY <2>1, <2>2, <2>3, Viewing DEF Guarded
<1> QED
  BY <1>1, <1>2, <1>3, <1>4, <1>5, <1>6 DEF Next

-----------------------------------------------------------------------------
(* The theorems.                                                            *)

\* The driver, its list of events, the interface and the heartbeat thread keep their
\* types, and the lists their bounds (process_event).
THEOREM TypeCorrect == Spec => []TypeOK
<1>1. IInv => TypeOK
  BY DEF IInv, WorkOK, ClientOK, Works, Steps, TypeOK
<1> QED
  BY <1>1, InitHolds, NextKeeps, PTL DEF Spec

\* A device the client takes for attached is attached, or the event that corrects it is
\* under way, or it is one of those the client cannot be told about (mgmt_note_state,
\* process_event).
THEOREM NoGhostsEver == Spec => []NoGhosts
<1>1. IInv => NoGhosts
  <2> SUFFICES ASSUME IInv, NEW d \in Devices, Viewed(d), d \notin hub \cup stale
               PROVE  Underway(d)
    BY DEF NoGhosts, Viewed
  <2>1. CASE Coming(d)
    BY <2>1 DEF Coming, Underway
  <2>2. CASE ~Coming(d)
    <3>1. Queued(d) \/ Asked(d)
      BY <2>2 DEF IInv, Guarded, Accounted
    <3> QED
      BY <3>1 DEF Queued, Asked, Underway
  <2> QED
    BY <2>1, <2>2
<1> QED
  BY <1>1, InitHolds, NextKeeps, PTL DEF Spec
=============================================================================
