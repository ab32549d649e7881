---------------------------- MODULE IngestProofs ----------------------------
(***************************************************************************)
(* Proofs about Ingest: for every number of slots, resolution threads and  *)
(* sockets, every channel capacity and every stream.                       *)
(***************************************************************************)
EXTENDS Ingest, SlotTableProofs

USE SlotTableAssumption

Packets == (0 .. TagSpace - 1) \X (0 .. FramePackets - 1)
HandItems == [p : Packets, fresh : BOOLEAN]

Labels == {"idle", "absent", "reinject", "packet", "assign", "count", "route", "buffer", "received",
           "park", "park_locked", "release", "dispatch"}

\* A thread that has a packet in its hand and is deciding where it goes.
Deciding == {"assign", "count", "route", "buffer", "park", "park_locked"}
\* The packet has a slot, and is counted or routed there next.
Placing == {"count", "route", "buffer"}

StateTypeOK ==
  /\ scenario \in Scenarios
  /\ wire \in [Sockets -> Seq(Packets)]
  /\ channel \in Seq(Packets)
  /\ hand \in [Threads -> Seq(HandItems)]
  /\ pending_frames \in SUBSET Packets
  /\ buffers \in [Slots -> SUBSET Packets]
  /\ batch \in [Threads -> SUBSET (Packets \X Slots)]
  /\ resolved \in [Slots -> SUBSET Packets]
  /\ slot \in [Threads -> Slots]
  /\ pc \in [Threads -> Labels]
  /\ lost \in SUBSET Packets
  /\ finished \in SUBSET Nat /\ frame_dropped \in SUBSET Nat
  /\ completed \in Nat
  /\ b_base \in Nat \cup {-1}

-----------------------------------------------------------------------------
(* Where a packet is *)

Places == ({"wire"} \X Sockets) \cup ({"hand", "batch"} \X Threads)
            \cup ({"buffer", "resolved"} \X Slots)
            \cup ({"channel", "parked", "finished", "lost"} \X {0})

Content ==
  [l \in Places |->
     CASE l[1] = "wire" -> Range(wire[l[2]])
       [] l[1] = "channel" -> Range(channel)
       [] l[1] = "hand" -> {hand[l[2]][i].p : i \in DOMAIN hand[l[2]]}
       [] l[1] = "parked" -> pending_frames
       [] l[1] = "buffer" -> buffers[l[2]]
       [] l[1] = "batch" -> {x[1] : x \in batch[l[2]]}
       [] l[1] = "resolved" -> resolved[l[2]]
       [] l[1] = "finished" -> {p \in Packets : FrameOf(p) \in finished}
       [] OTHER -> lost]

\* No queue holds a packet twice.
Injective ==
  /\ \A k \in Sockets : IsInjective(wire[k])
  /\ IsInjective(channel)
  /\ \A t \in Threads : \A i, j \in DOMAIN hand[t] : hand[t][i].p = hand[t][j].p => i = j

\* A packet is in one place at a time ...
Exclusive == \A l, m \in Places : \A p \in Content[l] : p \in Content[m] => l = m

Streamed == UNION {Range(scenario.stream[k]) : k \in Sockets}

\* ... and in no place only when the replacement process has it.
Everywhere == \A p \in Streamed : (\E l \in Places : p \in Content[l]) \/ TakenOver(p)

-----------------------------------------------------------------------------
(* Slots and threads *)

\* A running frame is one of the stream's, and has one slot.
FrameOnce ==
  /\ \A s \in Slots : frame_id[s] # NoFrame => frame_id[s] \in 0 .. TagSpace - 1
  /\ \A r, s \in Slots : frame_id[r] = frame_id[s] /\ frame_id[s] # NoFrame => r = s

\* A packet that has a slot has the slot of its frame, which stays until all of
\* the frame's packets are resolved; a buffer is used before the promotion only.
InItsSlot ==
  /\ \A t \in Threads : pc[t] \in Placing => frame_id[slot[t]] = FrameOf(Cur(t))
  /\ \A s \in Slots : \A p \in buffers[s] : frame_id[s] = FrameOf(p) /\ states[s] # "Active"
  /\ \A t \in Threads : \A x \in batch[t] : frame_id[x[2]] = FrameOf(x[1])
  /\ \A s \in Slots : \A p \in resolved[s] : frame_id[s] = FrameOf(p)

\* A slot is released by one thread, after its frame was counted.
Releasing ==
  /\ \A t \in Threads : pc[t] = "release" => frame_id[slot[t]] \in finished
  /\ \A t, u \in Threads :
       pc[t] = "release" /\ pc[u] = "release" /\ slot[t] = slot[u] => t = u

\* What a thread holds where.
Holding ==
  \A t \in Threads :
    /\ pc[t] \in {"idle", "release", "dispatch"} => hand[t] = <<>>
    /\ pc[t] \in {"idle", "release", "reinject"} => batch[t] = {}
    /\ pc[t] \in Deciding => hand[t] # <<>>

\* A dropped frame has lost a packet, so it never completes.
DropsLose == \A f \in frame_dropped : \E p \in lost : FrameOf(p) = f

Window ==
  /\ IsFiniteSet(finished) /\ IsFiniteSet(frame_dropped)
  /\ completed = Cardinality(finished) + Cardinality(frame_dropped)

IInv ==
  /\ StateTypeOK /\ TableInv
  /\ Injective /\ Exclusive /\ Everywhere
  /\ FrameOnce /\ InItsSlot /\ Releasing /\ Holding /\ DropsLose /\ Window

-----------------------------------------------------------------------------
(* What the scenario fixes *)

LEMMA ScenarioFacts ==
  ASSUME scenario \in Scenarios
  PROVE  /\ FramePackets \in Nat \ {0} /\ MaxFrames \in Nat \ {0}
         /\ IsStream(scenario)
         /\ \A S \in SUBSET Packets : IsFiniteSet(S) /\ Cardinality(S) \in Nat
         /\ \A p \in Packets : FrameOf(p) \in Nat /\ FrameOf(p) \in 0 .. TagSpace - 1
<1>1. FramePackets \in Nat \ {0} /\ MaxFrames \in Nat \ {0} /\ IsStream(scenario)
  BY IngestAssumption DEF FramePackets, MaxFrames
<1>2. IsFiniteSet(0 .. TagSpace - 1) /\ IsFiniteSet(0 .. FramePackets - 1)
  BY <1>1, FS_Interval
<1>3. IsFiniteSet(Packets)
  BY <1>2, FS_Product DEF Packets
<1>4. \A S \in SUBSET Packets : IsFiniteSet(S) /\ Cardinality(S) \in Nat
  BY <1>3, FS_Subset, FS_CardinalityType
<1>5. \A p \in Packets : FrameOf(p) \in Nat /\ FrameOf(p) \in 0 .. TagSpace - 1
  BY DEF Packets, FrameOf
<1> QED BY <1>1, <1>4, <1>5

LEMMA StreamedPackets ==
  ASSUME scenario \in Scenarios, NEW p \in Streamed
  PROVE  p \in Packets /\ FrameOf(p) \in Nat
<1>1. PICK k \in Sockets : p \in Range(scenario.stream[k])
  BY DEF Streamed
<1>2. scenario.stream[k] \in Seq(Packets)
  BY ScenarioFacts DEF IsStream, Packets, FramePackets, Sockets
<1>3. p \in Packets
  BY <1>1, <1>2 DEF Range
<1> QED BY <1>3, ScenarioFacts

LEMMA ScenarioStays ==
  ASSUME UNCHANGED scenario
  PROVE  /\ Sockets' = Sockets /\ FramePackets' = FramePackets /\ MaxFrames' = MaxFrames
         /\ Packets' = Packets /\ HandItems' = HandItems /\ Places' = Places
         /\ Streamed' = Streamed
<1>1. Sockets' = Sockets /\ FramePackets' = FramePackets /\ MaxFrames' = MaxFrames
  BY DEF Sockets, FramePackets, MaxFrames
<1>2. Packets' = Packets /\ HandItems' = HandItems
  BY <1>1 DEF Packets, HandItems
<1>3. Places' = Places
  BY <1>1 DEF Places
<1>4. Streamed' = Streamed
  BY <1>1 DEF Streamed
<1> QED BY <1>1, <1>2, <1>3, <1>4

-----------------------------------------------------------------------------
(* Moving packets *)

LEMMA PlaceKinds ==
  ASSUME NEW l \in Places
  PROVE  \/ \E k \in Sockets : l = <<"wire", k>>
         \/ \E t \in Threads : l = <<"hand", t>> \/ l = <<"batch", t>>
         \/ \E s \in Slots : l = <<"buffer", s>> \/ l = <<"resolved", s>>
         \/ l = <<"channel", 0>> \/ l = <<"parked", 0>>
         \/ l = <<"finished", 0>> \/ l = <<"lost", 0>>
BY DEF Places

\* What Content says of every place.
ContentFacts ==
  /\ \A k \in Sockets : Content[<<"wire", k>>] = Range(wire[k])
  /\ \A t \in Threads : /\ Content[<<"hand", t>>] = {hand[t][i].p : i \in DOMAIN hand[t]}
                        /\ Content[<<"batch", t>>] = {x[1] : x \in batch[t]}
  /\ \A s \in Slots : /\ Content[<<"buffer", s>>] = buffers[s]
                      /\ Content[<<"resolved", s>>] = resolved[s]
  /\ Content[<<"channel", 0>>] = Range(channel)
  /\ Content[<<"parked", 0>>] = pending_frames
  /\ Content[<<"finished", 0>>] = {p \in Packets : FrameOf(p) \in finished}
  /\ Content[<<"lost", 0>>] = lost

LEMMA ContentIs == ContentFacts
<1>1. \A k \in Sockets : Content[<<"wire", k>>] = Range(wire[k])
  <2>1. \A k \in Sockets : <<"wire", k>> \in Places
    BY DEF Places
  <2> QED BY <2>1 DEF Content
<1>2. \A t \in Threads : /\ Content[<<"hand", t>>] = {hand[t][i].p : i \in DOMAIN hand[t]}
                         /\ Content[<<"batch", t>>] = {x[1] : x \in batch[t]}
  <2>1. \A t \in Threads : <<"hand", t>> \in Places /\ <<"batch", t>> \in Places
    BY DEF Places
  <2> QED BY <2>1 DEF Content
<1>3. \A s \in Slots : /\ Content[<<"buffer", s>>] = buffers[s]
                       /\ Content[<<"resolved", s>>] = resolved[s]
  <2>1. \A s \in Slots : <<"buffer", s>> \in Places /\ <<"resolved", s>> \in Places
    BY DEF Places
  <2> QED BY <2>1 DEF Content
<1>4. /\ Content[<<"channel", 0>>] = Range(channel)
      /\ Content[<<"parked", 0>>] = pending_frames
      /\ Content[<<"finished", 0>>] = {p \in Packets : FrameOf(p) \in finished}
      /\ Content[<<"lost", 0>>] = lost
  <2>1. /\ <<"channel", 0>> \in Places /\ <<"parked", 0>> \in Places
        /\ <<"finished", 0>> \in Places /\ <<"lost", 0>> \in Places
    BY DEF Places
  <2> QED BY <2>1 DEF Content
<1> QED BY <1>1, <1>2, <1>3, <1>4 DEF ContentFacts

LEMMA ContentIsNext == ContentFacts'
BY ContentIs, PTL

\* The places a step does not touch keep their packets.
LEMMA ContentStays ==
  ASSUME UNCHANGED scenario, NEW T,
         \A k \in Sockets : wire'[k] = wire[k] \/ <<"wire", k>> \in T,
         \A t \in Threads : hand'[t] = hand[t] \/ <<"hand", t>> \in T,
         \A t \in Threads : batch'[t] = batch[t] \/ <<"batch", t>> \in T,
         \A s \in Slots : buffers'[s] = buffers[s] \/ <<"buffer", s>> \in T,
         \A s \in Slots : resolved'[s] = resolved[s] \/ <<"resolved", s>> \in T,
         channel' = channel \/ <<"channel", 0>> \in T,
         pending_frames' = pending_frames \/ <<"parked", 0>> \in T,
         finished' = finished \/ <<"finished", 0>> \in T,
         lost' = lost \/ <<"lost", 0>> \in T
  PROVE  \A l \in Places \ T : Content'[l] = Content[l]
<1>1. SUFFICES ASSUME NEW l \in Places \ T PROVE Content'[l] = Content[l]
  OBVIOUS
<1>2. /\ Sockets' = Sockets /\ Packets' = Packets /\ Places' = Places
  BY ScenarioStays
<1>3. CASE \E k \in Sockets : l = <<"wire", k>>
  BY <1>2, <1>3, ContentIs, ContentIsNext DEF ContentFacts
<1>4. CASE \E t \in Threads : l = <<"hand", t>>
  <2>1. PICK t \in Threads : l = <<"hand", t>>
    BY <1>4
  <2>2. hand'[t] = hand[t]
    BY <1>1, <2>1
  <2>3. /\ Content[l] = {hand[t][i].p : i \in DOMAIN hand[t]}
        /\ Content'[l] = {hand'[t][i].p : i \in DOMAIN hand'[t]}
    BY <2>1, ContentIs, ContentIsNext DEF ContentFacts
  <2> QED BY <2>2, <2>3
<1>5. CASE \E t \in Threads : l = <<"batch", t>>
  <2>1. PICK t \in Threads : l = <<"batch", t>>
    BY <1>5
  <2>2. batch'[t] = batch[t]
    BY <1>1, <2>1
  <2>3. /\ Content[l] = {x[1] : x \in batch[t]}
        /\ Content'[l] = {x[1] : x \in batch'[t]}
    BY <2>1, ContentIs, ContentIsNext DEF ContentFacts
  <2> QED BY <2>2, <2>3
<1>6. CASE \E s \in Slots : l = <<"buffer", s>> \/ l = <<"resolved", s>>
  <2>1. PICK s \in Slots : l = <<"buffer", s>> \/ l = <<"resolved", s>>
    BY <1>6
  <2>2. /\ l = <<"buffer", s>> => buffers'[s] = buffers[s]
        /\ l = <<"resolved", s>> => resolved'[s] = resolved[s]
    BY <1>1
  <2>3. /\ l = <<"buffer", s>> => Content[l] = buffers[s] /\ Content'[l] = buffers'[s]
        /\ l = <<"resolved", s>> => Content[l] = resolved[s] /\ Content'[l] = resolved'[s]
    BY ContentIs, ContentIsNext DEF ContentFacts
  <2> QED BY <2>1, <2>2, <2>3
<1>7. CASE l = <<"channel", 0>> \/ l = <<"parked", 0>> \/ l = <<"lost", 0>>
  BY <1>7, ContentIs, ContentIsNext DEF ContentFacts
<1>8. CASE l = <<"finished", 0>>
  BY <1>2, <1>8, ContentIs, ContentIsNext DEF ContentFacts, FrameOf
<1> QED BY <1>3, <1>4, <1>5, <1>6, <1>7, <1>8 DEF Places

\* What the replacement process has, it keeps.
TakeoverKeeps == \A p : TakenOver(p) => TakenOver(p)'

\* Every packet a step moves is in one place after it.
LEMMA Moves ==
  ASSUME Exclusive, Everywhere, UNCHANGED scenario, TakeoverKeeps,
         NEW S,
         \A l \in Places : \A q : q \notin S => (q \in Content'[l] <=> q \in Content[l]),
         \A q \in S : \E m \in Places : \A l \in Places : q \in Content'[l] <=> l = m
  PROVE  Exclusive' /\ Everywhere'
<1>1. Places' = Places /\ Streamed' = Streamed
  BY ScenarioStays
<1>2. Exclusive'
  <2>1. SUFFICES ASSUME NEW l \in Places, NEW m \in Places, NEW q \in Content'[l],
                        q \in Content'[m]
                 PROVE  l = m
    BY <1>1 DEF Exclusive
  <2>2. CASE q \in S
    BY <2>1, <2>2
  <2>3. CASE q \notin S
    BY <2>1, <2>3 DEF Exclusive
  <2> QED BY <2>2, <2>3
<1>3. Everywhere'
  <2>1. SUFFICES ASSUME NEW q \in Streamed
                 PROVE  (\E l \in Places : q \in Content'[l]) \/ TakenOver(q)'
    BY <1>1 DEF Everywhere
  <2>2. CASE q \in S
    BY <2>2
  <2>3. CASE q \notin S
    BY <2>3 DEF Everywhere, TakeoverKeeps
  <2> QED BY <2>2, <2>3
<1> QED BY <1>2, <1>3

\* The usual case: S goes from one place to another.
LEMMA MovesTo ==
  ASSUME Exclusive, Everywhere, UNCHANGED scenario, TakeoverKeeps,
         NEW from \in Places, NEW to \in Places, from # to,
         NEW S, S \subseteq Content[from],
         Content'[from] = Content[from] \ S,
         Content'[to] = Content[to] \cup S,
         \A l \in Places \ {from, to} : Content'[l] = Content[l]
  PROVE  Exclusive' /\ Everywhere'
<1>1. \A l \in Places : \A q : q \notin S => (q \in Content'[l] <=> q \in Content[l])
  OBVIOUS
<1>2. ASSUME NEW q \in S, NEW l \in Places
      PROVE  q \in Content'[l] <=> l = to
  <2>1. q \in Content[l] => l = from
    BY DEF Exclusive
  <2> QED BY <2>1
<1> QED BY <1>1, <1>2, Moves

\* No packet moves.
LEMMA MovesNothing ==
  ASSUME Exclusive, Everywhere, UNCHANGED scenario, TakeoverKeeps,
         \A l \in Places : Content'[l] = Content[l]
  PROVE  Exclusive' /\ Everywhere'
<1> DEFINE S == {}
<1>1. \A l \in Places : \A q : q \notin S => (q \in Content'[l] <=> q \in Content[l])
  OBVIOUS
<1>2. \A q \in S : \E m \in Places : \A l \in Places : q \in Content'[l] <=> l = m
  OBVIOUS
<1> HIDE DEF S
<1> QED BY <1>1, <1>2, Moves

-----------------------------------------------------------------------------
(* The packets in a thread's hand *)

PacketsIn(q) == {q[i].p : i \in DOMAIN q}
NoneTwice(q) == \A i, j \in DOMAIN q : q[i].p = q[j].p => i = j

\* The first packet leaves the hand.
LEMMA RestOfHand ==
  ASSUME NEW H, NEW q \in Seq(H), NoneTwice(q), q # <<>>
  PROVE  /\ Tail(q) \in Seq(H) /\ NoneTwice(Tail(q))
         /\ Head(q) \in H /\ Head(q).p \in PacketsIn(q)
         /\ PacketsIn(Tail(q)) = PacketsIn(q) \ {Head(q).p}
<1>1. /\ Len(q) \in Nat \ {0} /\ DOMAIN q = 1 .. Len(q)
      /\ Head(q) = q[1] /\ Tail(q) \in Seq(H)
      /\ Len(Tail(q)) = Len(q) - 1 /\ DOMAIN Tail(q) = 1 .. Len(q) - 1
      /\ \A i \in 1 .. Len(q) - 1 : Tail(q)[i] = q[i + 1]
      /\ q[1] \in H
  OBVIOUS
<1>2. NoneTwice(Tail(q))
  BY <1>1 DEF NoneTwice
<1>3. ASSUME NEW x \in PacketsIn(Tail(q)) PROVE x \in PacketsIn(q) \ {Head(q).p}
  <2>1. PICK i \in 1 .. Len(q) - 1 : Tail(q)[i].p = x
    BY <1>1 DEF PacketsIn
  <2>2. i + 1 \in 1 .. Len(q) /\ i + 1 # 1 /\ q[i + 1].p = x
    BY <1>1, <2>1
  <2> QED BY <1>1, <2>2 DEF PacketsIn, NoneTwice
<1>4. ASSUME NEW x \in PacketsIn(q), x # Head(q).p PROVE x \in PacketsIn(Tail(q))
  <2>1. PICK i \in 1 .. Len(q) : q[i].p = x
    BY <1>1 DEF PacketsIn
  <2>2. i # 1 /\ i - 1 \in 1 .. Len(q) - 1
    BY <1>1, <1>4, <2>1
  <2>3. Tail(q)[i - 1].p = x
    BY <1>1, <2>1, <2>2
  <2> QED BY <1>1, <2>2, <2>3 DEF PacketsIn
<1>5. Head(q) \in H /\ Head(q).p \in PacketsIn(q)
  BY <1>1 DEF PacketsIn
<1> QED BY <1>1, <1>2, <1>3, <1>4, <1>5

\* Packets put before the ones in the hand.
LEMMA BeforeHand ==
  ASSUME NEW H, NEW r \in Seq(H), NEW q \in Seq(H),
         NoneTwice(r), NoneTwice(q), PacketsIn(r) \cap PacketsIn(q) = {}
  PROVE  /\ r \o q \in Seq(H) /\ NoneTwice(r \o q)
         /\ PacketsIn(r \o q) = PacketsIn(r) \cup PacketsIn(q)
<1> DEFINE c == r \o q
           m == Len(r)
           n == Len(q)
<1>1. /\ m \in Nat /\ n \in Nat /\ DOMAIN r = 1 .. m /\ DOMAIN q = 1 .. n
      /\ c \in Seq(H) /\ Len(c) = m + n /\ DOMAIN c = 1 .. m + n
      /\ \A i \in 1 .. m + n : c[i] = IF i <= m THEN r[i] ELSE q[i - m]
  BY ConcatProperties
<1> HIDE DEF c, m, n
<1>2. \A i \in 1 .. m, j \in 1 .. n : r[i].p # q[j].p
  BY <1>1 DEF PacketsIn
<1>3. ASSUME NEW i \in 1 .. m + n, NEW j \in 1 .. m + n, c[i].p = c[j].p PROVE i = j
  <2>1. CASE i <= m /\ j <= m
    BY <1>1, <1>3, <2>1 DEF NoneTwice
  <2>2. CASE i > m /\ j > m
    <3>1. i - m \in 1 .. n /\ j - m \in 1 .. n /\ q[i - m].p = q[j - m].p
      BY <1>1, <1>3, <2>2
    <3>2. i - m = j - m
      BY <1>1, <3>1 DEF NoneTwice
    <3> QED BY <1>1, <3>2
  <2>3. CASE i <= m /\ j > m
    <3>1. i \in 1 .. m /\ j - m \in 1 .. n /\ c[i] = r[i] /\ c[j] = q[j - m]
      BY <1>1, <2>3
    <3> QED BY <1>2, <1>3, <3>1
  <2>4. CASE i > m /\ j <= m
    <3>1. j \in 1 .. m /\ i - m \in 1 .. n /\ c[j] = r[j] /\ c[i] = q[i - m]
      BY <1>1, <2>4
    <3> QED BY <1>2, <1>3, <3>1
  <2> QED BY <1>1, <2>1, <2>2, <2>3, <2>4
<1>4. PacketsIn(c) = PacketsIn(r) \cup PacketsIn(q)
  <2>1. ASSUME NEW x \in PacketsIn(c) PROVE x \in PacketsIn(r) \cup PacketsIn(q)
    <3>1. PICK i \in 1 .. m + n : c[i].p = x
      BY <1>1 DEF PacketsIn
    <3>2. CASE i <= m
      <4>1. i \in 1 .. m /\ r[i].p = x
        BY <1>1, <3>1, <3>2
      <4> QED BY <1>1, <4>1 DEF PacketsIn
    <3>3. CASE i > m
      <4>1. i - m \in 1 .. n /\ q[i - m].p = x
        BY <1>1, <3>1, <3>3
      <4> QED BY <1>1, <4>1 DEF PacketsIn
    <3> QED BY <1>1, <3>2, <3>3
  <2>2. ASSUME NEW x \in PacketsIn(r) PROVE x \in PacketsIn(c)
    <3>1. PICK i \in 1 .. m : r[i].p = x
      BY <1>1 DEF PacketsIn
    <3>2. i \in 1 .. m + n /\ c[i].p = x
      BY <1>1, <3>1
    <3> QED BY <1>1, <3>2 DEF PacketsIn
  <2>3. ASSUME NEW x \in PacketsIn(q) PROVE x \in PacketsIn(c)
    <3>1. PICK i \in 1 .. n : q[i].p = x
      BY <1>1 DEF PacketsIn
    <3>2. i + m \in 1 .. m + n /\ c[i + m].p = x
      BY <1>1, <3>1
    <3> QED BY <1>1, <3>2 DEF PacketsIn
  <2> QED BY <2>1, <2>2, <2>3
<1>5. NoneTwice(c)
  BY <1>1, <1>3 DEF NoneTwice
<1> QED BY <1>1, <1>4, <1>5 DEF c

\* Re-injection takes every packet that is ready once.
LEMMA ReinjectsAll ==
  ASSUME scenario \in Scenarios, NEW ready \in SUBSET Packets
  PROVE  /\ Reinjected(ready) \in Seq(HandItems)
         /\ NoneTwice(Reinjected(ready))
         /\ PacketsIn(Reinjected(ready)) = ready
<1> DEFINE n == Cardinality(ready)
           R == {xy \in ready \X ready : Older(xy[1], xy[2])}
           rank(x) == RankIn(ready, R, x)
           o == InOrder(ready)
           r == Reinjected(ready)
<1>1. IsFiniteSet(ready) /\ n \in Nat
  BY ScenarioFacts
<1>2. \A x \in ready : FrameOf(x) \in Nat /\ x[2] \in Nat /\ x = <<FrameOf(x), x[2]>>
  <2>1. FramePackets \in Nat \ {0}
    BY ScenarioFacts
  <2> QED BY <2>1 DEF Packets, FrameOf
<1>3. \A x, y \in ready : <<x, y>> \in R <=> Older(x, y)
  OBVIOUS
<1>4. StrictOrder(ready, R)
  <2> HIDE DEF R
  <2>1. \A x \in ready : <<x, x>> \notin R
    BY <1>2, <1>3 DEF Older
  <2>2. \A x, y, z \in ready : <<x, y>> \in R /\ <<y, z>> \in R => <<x, z>> \in R
    BY <1>2, <1>3 DEF Older
  <2>3. \A x, y \in ready : x # y => <<x, y>> \in R \/ <<y, x>> \in R
    BY <1>2, <1>3 DEF Older
  <2> QED BY <2>1, <2>2, <2>3 DEF StrictOrder
<1>5. /\ \A x \in ready : rank(x) \in 0 .. n - 1
      /\ \A x, y \in ready : rank(x) = rank(y) => x = y
      /\ \A k \in 0 .. n - 1 : \E x \in ready : rank(x) = k
  <2> HIDE DEF R
  <2> QED BY <1>1, <1>4, RankOrder
<1>6. ASSUME NEW x \in ready PROVE rank(x) = Cardinality({q \in ready : Older(q, x)})
  <2>1. {y \in ready : <<y, x>> \in R} = {q \in ready : Older(q, x)}
    BY <1>3
  <2> QED BY <2>1 DEF RankIn
<1>7. ASSUME NEW k \in 1 .. n PROVE o[k] \in ready /\ rank(o[k]) = k - 1
  <2>1. o[k] = CHOOSE x \in ready : Cardinality({q \in ready : Older(q, x)}) = k - 1
    BY DEF InOrder
  <2>2. k - 1 \in 0 .. n - 1
    BY <1>1
  <2> HIDE DEF o, rank, R, n
  <2>3. \E x \in ready : Cardinality({q \in ready : Older(q, x)}) = k - 1
    BY <1>5, <1>6, <2>2
  <2>4. o[k] \in ready /\ Cardinality({q \in ready : Older(q, o[k])}) = k - 1
    BY <2>1, <2>3
  <2> QED BY <1>6, <2>4
<1>8. \A k \in 1 .. n : r[k] = [p |-> o[k], fresh |-> FALSE]
  BY DEF Reinjected
<1>9. DOMAIN r = 1 .. n
  BY DEF Reinjected
<1>10. r \in Seq(HandItems)
  <2>1. r \in [1 .. n -> HandItems]
    <3>1. \A k \in 1 .. n : [p |-> o[k], fresh |-> FALSE] \in HandItems
      <4> HIDE DEF o
      <4> QED BY <1>7 DEF HandItems
    <3> QED BY <3>1 DEF Reinjected
  <2> HIDE DEF r, n
  <2> QED BY <1>1, <2>1
<1> HIDE DEF o, r, rank, R, n
<1>11. NoneTwice(r)
  <2>1. ASSUME NEW i \in 1 .. n, NEW j \in 1 .. n, o[i] = o[j] PROVE i = j
    <3>1. i - 1 = j - 1
      BY <1>7, <2>1
    <3> QED BY <1>1, <3>1
  <2> QED BY <1>8, <1>9, <2>1 DEF NoneTwice
<1>12. PacketsIn(r) = ready
  <2>1. ASSUME NEW x \in PacketsIn(r) PROVE x \in ready
    BY <1>7, <1>8, <1>9 DEF PacketsIn
  <2>2. ASSUME NEW x \in ready PROVE x \in PacketsIn(r)
    <3>1. rank(x) \in 0 .. n - 1
      BY <1>5
    <3>2. rank(x) + 1 \in 1 .. n /\ (rank(x) + 1) - 1 = rank(x)
      BY <1>1, <3>1
    <3>3. o[rank(x) + 1] = x
      BY <1>5, <1>7, <3>2
    <3> QED BY <1>8, <1>9, <3>2, <3>3 DEF PacketsIn
  <2> QED BY <2>1, <2>2
<1> QED BY <1>10, <1>11, <1>12 DEF r

-----------------------------------------------------------------------------
(* What most steps leave alone *)

\* The slot table is not touched.
LEMMA SameTable ==
  ASSUME IInv, UNCHANGED slotVars
  PROVE  TableInv' /\ FrameOnce'
<1>1. TableInv'
  BY TableUnchanged DEF IInv, TableInv, SlotTableTypeOK, slotVars
<1>2. FrameOnce'
  BY DEF IInv, FrameOnce, slotVars
<1> QED BY <1>1, <1>2

\* No frame is counted.
LEMMA SameCount ==
  ASSUME IInv, UNCHANGED <<finished, frame_dropped, completed>>, lost \subseteq lost'
  PROVE  DropsLose' /\ Window'
<1>1. DropsLose'
  BY DEF IInv, DropsLose
<1>2. Window'
  BY DEF IInv, Window
<1> QED BY <1>1, <1>2

\* Only thread t moves, and what it does suits the slots.
LEMMA LocalStep ==
  ASSUME IInv, UNCHANGED slotVars, NEW t \in Threads,
         \A u \in Threads \ {t} : /\ hand'[u] = hand[u] /\ pc'[u] = pc[u]
                                  /\ slot'[u] = slot[u] /\ batch'[u] = batch[u],
         pc'[t] # "release",
         pc'[t] \in Placing => frame_id[slot'[t]] = FrameOf(Head(hand'[t]).p),
         \A x \in batch'[t] : frame_id[x[2]] = FrameOf(x[1]),
         \A s \in Slots : \A p \in buffers'[s] : frame_id[s] = FrameOf(p) /\ states[s] # "Active",
         \A s \in Slots : \A p \in resolved'[s] : frame_id[s] = FrameOf(p),
         pc'[t] \in {"idle", "dispatch"} => hand'[t] = <<>>,
         pc'[t] \in {"idle", "reinject"} => batch'[t] = {},
         pc'[t] \in Deciding => hand'[t] # <<>>,
         finished' = finished
  PROVE  InItsSlot' /\ Releasing' /\ Holding'
<1>1. frame_id' = frame_id /\ states' = states
  BY DEF slotVars
<1>2. ASSUME NEW u \in Threads, pc'[u] \in Placing
      PROVE  frame_id'[slot'[u]] = FrameOf(Head(hand'[u]).p)
  <2>1. CASE u = t
    BY <1>1, <1>2, <2>1
  <2>2. CASE u # t
    BY <1>1, <1>2, <2>2 DEF IInv, InItsSlot, Cur
  <2> QED BY <2>1, <2>2
<1>3. ASSUME NEW u \in Threads, NEW x \in batch'[u] PROVE frame_id'[x[2]] = FrameOf(x[1])
  <2>1. CASE u = t
    BY <1>1, <1>3, <2>1
  <2>2. CASE u # t
    BY <1>1, <1>3, <2>2 DEF IInv, InItsSlot
  <2> QED BY <2>1, <2>2
<1>4. InItsSlot'
  BY <1>1, <1>2, <1>3 DEF InItsSlot, Cur, FrameOf
<1>5. Releasing'
  BY <1>1 DEF IInv, Releasing
<1>6. ASSUME NEW u \in Threads
      PROVE  /\ pc'[u] \in {"idle", "release", "dispatch"} => hand'[u] = <<>>
             /\ pc'[u] \in {"idle", "release", "reinject"} => batch'[u] = {}
             /\ pc'[u] \in Deciding => hand'[u] # <<>>
  <2>1. CASE u = t
    BY <2>1
  <2>2. CASE u # t
    BY <2>2 DEF IInv, Holding
  <2> QED BY <2>1, <2>2
<1> QED BY <1>4, <1>5, <1>6 DEF Holding

\* No thread moves.
LEMMA SameThreads ==
  ASSUME IInv, UNCHANGED slotVars, UNCHANGED <<locals, buffers, resolved, finished>>
  PROVE  InItsSlot' /\ Releasing' /\ Holding'
<1>1. UNCHANGED <<frame_id, states, pc, hand, slot, batch>>
  BY DEF slotVars, locals
<1>2. InItsSlot'
  BY <1>1 DEF IInv, InItsSlot, Cur, FrameOf
<1>3. Releasing' /\ Holding'
  BY <1>1 DEF IInv, Releasing, Holding
<1> QED BY <1>2, <1>3

LEMMA SameTakeover ==
  ASSUME UNCHANGED takeover, handed_over => handed_over'
  PROVE  TakeoverKeeps
BY DEF takeover, TakeoverKeeps, TakenOver, FrameOf

-----------------------------------------------------------------------------
(* The sockets *)

LEMMA ReceiveStep ==
  ASSUME IInv, NEW sock \in Sockets, Receive(sock)
  PROVE  IInv'
<1> DEFINE p == Head(wire[sock])
           from == <<"wire", sock>>
           to == IF Len(channel) < ChannelCap THEN <<"channel", 0>> ELSE <<"lost", 0>>
<1>1. StateTypeOK /\ Injective /\ Exclusive /\ Everywhere /\ UNCHANGED <<slotVars, scenario>>
  BY DEF IInv, Receive
<1>2. /\ Sockets' = Sockets /\ Packets' = Packets /\ HandItems' = HandItems
  BY <1>1, ScenarioStays
<1>3. wire[sock] \in Seq(Packets) /\ wire[sock] # <<>> /\ IsInjective(wire[sock])
  BY <1>1 DEF StateTypeOK, Receive, Injective
<1>4. /\ Tail(wire[sock]) \in Seq(Packets) /\ p \in Packets /\ p \in Range(wire[sock])
      /\ IsInjective(Tail(wire[sock]))
      /\ Range(Tail(wire[sock])) = Range(wire[sock]) \ {p}
  BY <1>3, ReceiveInjective
<1> HIDE DEF p
<1>5. /\ wire' = [wire EXCEPT ![sock] = Tail(@)]
      /\ \/ Len(channel) < ChannelCap /\ channel' = Append(channel, p) /\ lost' = lost
         \/ ~(Len(channel) < ChannelCap) /\ channel' = channel /\ lost' = lost \cup {p}
  BY DEF Receive, p
<1>6. /\ wire \in [Sockets -> Seq(Packets)] /\ channel \in Seq(Packets) /\ IsInjective(channel)
      /\ lost \in SUBSET Packets
  BY <1>1 DEF StateTypeOK, Injective
<1>7. from \in Places /\ to \in Places /\ from # to
  BY DEF Places
<1>8. p \in Content[from] /\ p \notin Range(channel)
  <2>1. Content[from] = Range(wire[sock]) /\ Content[<<"channel", 0>>] = Range(channel)
    BY ContentIs DEF ContentFacts
  <2>2. <<"channel", 0>> \in Places /\ from # <<"channel", 0>>
    BY DEF Places
  <2> QED BY <1>1, <1>4, <1>7, <2>1, <2>2 DEF Exclusive
<1>9. channel' \in Seq(Packets) /\ IsInjective(channel') /\ lost' \in SUBSET Packets
  <2>1. Append(channel, p) \in Seq(Packets) /\ IsInjective(Append(channel, p))
    BY <1>4, <1>6, <1>8, SendInjective
  <2> QED BY <1>4, <1>5, <1>6, <2>1
<1>10. wire' \in [Sockets -> Seq(Packets)] /\ \A k \in Sockets : IsInjective(wire'[k])
  BY <1>1, <1>4, <1>5, <1>6 DEF Injective
<1>11. StateTypeOK'
  BY <1>1, <1>2, <1>9, <1>10 DEF StateTypeOK, Receive, locals, slots, parked, run, takeover
<1>12. Injective'
  BY <1>1, <1>2, <1>9, <1>10 DEF Injective, Receive, locals
<1>13. Content'[from] = Content[from] \ {p}
  <2>1. Content[from] = Range(wire[sock]) /\ Content'[from] = Range(wire'[sock])
    BY <1>2, ContentIs, ContentIsNext DEF ContentFacts
  <2>2. wire'[sock] = Tail(wire[sock])
    BY <1>5, <1>6
  <2> QED BY <1>4, <2>1, <2>2
<1>14. Content'[to] = Content[to] \cup {p}
  <2>1. CASE Len(channel) < ChannelCap
    <3>1. /\ channel \in Seq(Packets) /\ IsInjective(channel) /\ p \in Packets
          /\ p \notin Range(channel) /\ channel' = Append(channel, p)
      BY <1>4, <1>5, <1>6, <1>8, <2>1
    <3>2. Range(channel') = Range(channel) \cup {p}
      BY <3>1, SendInjective
    <3> QED BY <2>1, <3>2, ContentIs, ContentIsNext DEF ContentFacts
  <2>2. CASE ~(Len(channel) < ChannelCap)
    BY <1>5, <2>2, ContentIs, ContentIsNext DEF ContentFacts
  <2> QED BY <2>1, <2>2
<1>15. \A l \in Places \ {from, to} : Content'[l] = Content[l]
  <2>1. \A k \in Sockets : wire'[k] = wire[k] \/ <<"wire", k>> \in {from, to}
    BY <1>5, <1>6
  <2>2. channel' = channel \/ <<"channel", 0>> \in {from, to}
    BY <1>5
  <2>3. lost' = lost \/ <<"lost", 0>> \in {from, to}
    BY <1>5
  <2>4. UNCHANGED <<scenario, hand, batch, buffers, resolved, pending_frames, finished>>
    BY DEF Receive, locals, slots, parked
  <2> HIDE DEF from, to
  <2> QED BY <2>1, <2>2, <2>3, <2>4, ContentStays
<1>16. TakeoverKeeps
  BY SameTakeover DEF Receive
<1>17. Exclusive' /\ Everywhere'
  <2>1. {p} \subseteq Content[from]
    BY <1>8
  <2> HIDE DEF from, to
  <2> QED BY <1>1, <1>7, <1>13, <1>14, <1>15, <1>16, <2>1, MovesTo
<1>18. TableInv' /\ FrameOnce'
  BY <1>1, SameTable
<1>19. InItsSlot' /\ Releasing' /\ Holding'
  BY <1>1, SameThreads DEF Receive, slots
<1>20. DropsLose' /\ Window'
  BY <1>5, SameCount DEF Receive, run
<1> QED BY <1>11, <1>12, <1>17, <1>18, <1>19, <1>20 DEF IInv

\* The replacement reads what nobody else will.
LEMMA TakeoverStep ==
  ASSUME IInv, NEW sock \in Sockets, TakeoverRead(sock)
  PROVE  IInv'
<1> DEFINE p == Head(wire[sock])
           from == <<"wire", sock>>
<1>1. StateTypeOK /\ Injective /\ Exclusive /\ Everywhere /\ UNCHANGED <<slotVars, scenario>>
  BY DEF IInv, TakeoverRead
<1>2. /\ Sockets' = Sockets /\ Packets' = Packets /\ HandItems' = HandItems /\ Places' = Places
      /\ Streamed' = Streamed
  BY <1>1, ScenarioStays
<1>3. wire[sock] \in Seq(Packets) /\ wire[sock] # <<>> /\ IsInjective(wire[sock])
  BY <1>1 DEF StateTypeOK, TakeoverRead, Injective
<1>4. /\ Tail(wire[sock]) \in Seq(Packets) /\ p \in Packets /\ p \in Range(wire[sock])
      /\ IsInjective(Tail(wire[sock]))
      /\ Range(Tail(wire[sock])) = Range(wire[sock]) \ {p}
  BY <1>3, ReceiveInjective
<1> HIDE DEF p
<1>5. wire \in [Sockets -> Seq(Packets)] /\ wire' = [wire EXCEPT ![sock] = Tail(@)]
  BY <1>1 DEF StateTypeOK, TakeoverRead
<1>6. /\ b_base' = (IF b_base = -1 THEN FrameOf(p) + 1 ELSE b_base)
      /\ b_got' = (IF FrameOf(p) >= b_base' THEN b_got \cup {p} ELSE b_got)
      /\ handed_over /\ handed_over'
  BY DEF TakeoverRead, rebase_frame_id, p
<1>7. FrameOf(p) \in Nat /\ b_base \in Nat \cup {-1} /\ \A q \in Packets : FrameOf(q) \in Nat
  BY <1>1, <1>4, ScenarioFacts DEF StateTypeOK
<1>8. wire' \in [Sockets -> Seq(Packets)] /\ \A k \in Sockets : IsInjective(wire'[k])
  BY <1>1, <1>4, <1>5 DEF Injective
<1>9. StateTypeOK'
  BY <1>1, <1>2, <1>6, <1>7, <1>8
     DEF StateTypeOK, TakeoverRead, locals, slots, parked, run, history
<1>10. Injective'
  BY <1>1, <1>2, <1>8 DEF Injective, TakeoverRead, locals
<1>11. Content'[from] = Content[from] \ {p}
  <2>1. Content[from] = Range(wire[sock]) /\ Content'[from] = Range(wire'[sock])
    BY <1>2, ContentIs, ContentIsNext DEF ContentFacts
  <2>2. wire'[sock] = Tail(wire[sock])
    BY <1>5
  <2> QED BY <1>4, <2>1, <2>2
<1>12. \A l \in Places \ {from} : Content'[l] = Content[l]
  <2>1. \A k \in Sockets : wire'[k] = wire[k] \/ <<"wire", k>> \in {from}
    BY <1>5
  <2>2. UNCHANGED <<scenario, hand, batch, buffers, resolved, pending_frames, finished, channel, lost>>
    BY DEF TakeoverRead, locals, slots, parked, history
  <2> HIDE DEF from
  <2> QED BY <2>1, <2>2, ContentStays
<1>13. \A l \in Places : Content'[l] \subseteq Content[l]
  BY <1>11, <1>12
<1>14. Exclusive'
  BY <1>1, <1>2, <1>13 DEF Exclusive
<1>15. Everywhere'
  <2>1. SUFFICES ASSUME NEW q \in Streamed
                 PROVE  (\E l \in Places : q \in Content'[l]) \/ TakenOver(q)'
    BY <1>2 DEF Everywhere
  <2>2. CASE q = p
    <3>1. q \in b_got' \/ FrameOf(q) < b_base'
      BY <1>6, <1>7, <2>2
    <3> QED BY <1>6, <3>1 DEF TakenOver, FrameOf
  <2>3. CASE q # p /\ \E l \in Places : q \in Content[l]
    BY <1>11, <1>12, <2>3
  <2>4. CASE TakenOver(q)
    <3>1. q \in b_got \/ FrameOf(q) < b_base
      BY <2>4 DEF TakenOver
    <3>2. CASE q \in b_got
      BY <1>6, <3>2 DEF TakenOver
    <3>3. CASE FrameOf(q) < b_base /\ b_base # -1
      BY <1>6, <3>3 DEF TakenOver, FrameOf
    <3>4. CASE FrameOf(q) < b_base /\ b_base = -1
      <4>1. FrameOf(q) \in Nat
        BY <1>1, StreamedPackets DEF StateTypeOK
      <4> QED BY <3>4, <4>1
    <3> QED BY <3>1, <3>2, <3>3, <3>4
  <2> QED BY <1>1, <2>2, <2>3, <2>4 DEF Everywhere
<1>16. TableInv' /\ FrameOnce'
  BY <1>1, SameTable
<1>17. InItsSlot' /\ Releasing' /\ Holding'
  BY <1>1, SameThreads DEF TakeoverRead, slots, history
<1>18. DropsLose' /\ Window'
  BY SameCount DEF TakeoverRead, run, history
<1> QED BY <1>9, <1>10, <1>14, <1>15, <1>16, <1>17, <1>18 DEF IInv

\* The steps of the listener and of the main thread move no packet.
LEMMA OtherNetStep ==
  ASSUME IInv,
         \/ \E sock \in Sockets : FreezeAck(sock)
         \/ Connect \/ send_fds \/ MainPoll \/ UNCHANGED vars
  PROVE  IInv'
<1>1. StateTypeOK /\ Injective /\ Exclusive /\ Everywhere
  BY DEF IInv
<1>2. /\ UNCHANGED <<slotVars, scenario, wire, channel, slots, parked, locals, takeover>>
      /\ UNCHANGED <<finished, lost, frame_dropped, completed>>
      /\ handed_over => handed_over'
  <2>1. CASE \E sock \in Sockets : FreezeAck(sock)
    BY <2>1 DEF FreezeAck, run, history
  <2>2. CASE Connect
    BY <2>2 DEF Connect, run, history
  <2>3. CASE send_fds
    BY <2>3 DEF send_fds, run, history
  <2>4. CASE MainPoll
    BY <2>4 DEF MainPoll, net
  <2>5. CASE UNCHANGED vars
    BY <2>5 DEF vars, net, run, history
  <2> QED BY <2>1, <2>2, <2>3, <2>4, <2>5
<1>3. Sockets' = Sockets /\ Packets' = Packets /\ HandItems' = HandItems
  BY <1>2, ScenarioStays
<1>4. StateTypeOK' /\ Injective'
  BY <1>1, <1>2, <1>3 DEF StateTypeOK, Injective, locals, slots, parked, takeover
<1>5. \A l \in Places : Content'[l] = Content[l]
  <2> DEFINE T == {}
  <2>1. UNCHANGED <<scenario, wire, hand, batch, buffers, resolved, channel, pending_frames,
                    finished, lost>>
    BY <1>2 DEF locals, slots, parked
  <2> HIDE DEF T
  <2>2. \A l \in Places \ T : Content'[l] = Content[l]
    BY <2>1, ContentStays
  <2> QED BY <2>2 DEF T
<1>6. Exclusive' /\ Everywhere'
  BY <1>1, <1>2, <1>5, SameTakeover, MovesNothing
<1>7. TableInv' /\ FrameOnce'
  BY <1>2, SameTable
<1>8. InItsSlot' /\ Releasing' /\ Holding'
  BY <1>2, SameThreads DEF slots
<1>9. DropsLose' /\ Window'
  BY <1>2, SameCount
<1> QED BY <1>4, <1>6, <1>7, <1>8, <1>9 DEF IInv

-----------------------------------------------------------------------------
(* A resolution thread, packet by packet *)

\* What the proofs of the thread steps begin with.
LEMMA ThreadFacts ==
  ASSUME IInv, UNCHANGED scenario
  PROVE  /\ StateTypeOK /\ Injective /\ Exclusive /\ Everywhere
         /\ DOMAIN pc = Threads /\ DOMAIN hand = Threads
         /\ DOMAIN slot = Threads /\ DOMAIN batch = Threads
         /\ \A u \in Threads : hand[u] \in Seq(HandItems) /\ NoneTwice(hand[u])
         /\ \A u \in Threads : /\ Content[<<"hand", u>>] = PacketsIn(hand[u])
                               /\ Content'[<<"hand", u>>] = PacketsIn(hand'[u])
                               /\ <<"hand", u>> \in Places /\ <<"batch", u>> \in Places
         /\ \A s \in Slots : <<"buffer", s>> \in Places /\ <<"resolved", s>> \in Places
         /\ {"channel", "parked", "finished", "lost"} \X {0} \subseteq Places
         /\ Sockets' = Sockets /\ Packets' = Packets /\ HandItems' = HandItems
<1>1. \A u \in Threads : hand[u] \in Seq(HandItems) /\ NoneTwice(hand[u])
  BY DEF IInv, StateTypeOK, Injective, NoneTwice
<1>2. \A u \in Threads : /\ Content[<<"hand", u>>] = PacketsIn(hand[u])
                         /\ Content'[<<"hand", u>>] = PacketsIn(hand'[u])
  BY ContentIs, ContentIsNext DEF ContentFacts, PacketsIn
<1>3. /\ \A u \in Threads : <<"hand", u>> \in Places /\ <<"batch", u>> \in Places
      /\ \A s \in Slots : <<"buffer", s>> \in Places /\ <<"resolved", s>> \in Places
      /\ {"channel", "parked", "finished", "lost"} \X {0} \subseteq Places
  BY DEF Places
<1>4. Sockets' = Sockets /\ Packets' = Packets /\ HandItems' = HandItems
  BY ScenarioStays
<1>5. /\ StateTypeOK /\ Injective /\ Exclusive /\ Everywhere
      /\ DOMAIN pc = Threads /\ DOMAIN hand = Threads
      /\ DOMAIN slot = Threads /\ DOMAIN batch = Threads
  BY DEF IInv, StateTypeOK
<1> QED BY <1>1, <1>2, <1>3, <1>4, <1>5

\* The packet a thread has finished with leaves its hand.
LEMMA HeadLeaves ==
  ASSUME IInv, UNCHANGED scenario, NEW t \in Threads, hand[t] # <<>>,
         hand' = [hand EXCEPT ![t] = Tail(@)]
  PROVE  /\ Cur(t) \in Packets /\ {Cur(t)} \subseteq Content[<<"hand", t>>]
         /\ Content'[<<"hand", t>>] = Content[<<"hand", t>>] \ {Cur(t)}
         /\ hand' \in [Threads -> Seq(HandItems)]
         /\ \A u \in Threads : NoneTwice(hand'[u])
         /\ \A u \in Threads \ {t} : hand'[u] = hand[u]
<1>1. /\ DOMAIN hand = Threads
      /\ \A u \in Threads : hand[u] \in Seq(HandItems) /\ NoneTwice(hand[u])
      /\ \A u \in Threads : /\ Content[<<"hand", u>>] = PacketsIn(hand[u])
                            /\ Content'[<<"hand", u>>] = PacketsIn(hand'[u])
  BY ThreadFacts
<1>2. /\ hand'[t] = Tail(hand[t])
      /\ \A u \in Threads \ {t} : hand'[u] = hand[u]
      /\ hand' = [u \in Threads |-> hand'[u]]
  BY <1>1
<1>3. /\ Tail(hand[t]) \in Seq(HandItems) /\ NoneTwice(Tail(hand[t]))
      /\ Head(hand[t]) \in HandItems /\ Cur(t) \in PacketsIn(hand[t])
      /\ PacketsIn(Tail(hand[t])) = PacketsIn(hand[t]) \ {Cur(t)}
  BY <1>1, RestOfHand DEF Cur
<1>4. Cur(t) \in Packets
  BY <1>3 DEF Cur, HandItems
<1>5. \A u \in Threads : hand'[u] \in Seq(HandItems) /\ NoneTwice(hand'[u])
  BY <1>1, <1>2, <1>3
<1>6. hand' \in [Threads -> Seq(HandItems)]
  BY <1>2, <1>5
<1> QED BY <1>1, <1>2, <1>3, <1>4, <1>5, <1>6

\* The packet at hand is in the hand and nowhere else.
LEMMA CurFacts ==
  ASSUME IInv, NEW t \in Threads, hand[t] # <<>>
  PROVE  /\ Cur(t) \in Packets /\ Cur(t) \in Content[<<"hand", t>>]
         /\ \A l \in Places : Cur(t) \in Content[l] => l = <<"hand", t>>
<1>1. hand[t] \in Seq(HandItems) /\ <<"hand", t>> \in Places
  BY DEF IInv, StateTypeOK, Places
<1>2. 1 \in DOMAIN hand[t] /\ Head(hand[t]) = hand[t][1] /\ hand[t][1] \in HandItems
  <2> DEFINE q == hand[t]
  <2>1. q \in Seq(HandItems) /\ q # <<>>
    BY <1>1
  <2> HIDE DEF q
  <2>2. 1 \in DOMAIN q /\ Head(q) = q[1] /\ q[1] \in HandItems
    BY <2>1
  <2> QED BY <2>2 DEF q
<1>3. Cur(t) \in Packets
  BY <1>2 DEF Cur, HandItems
<1>4. Cur(t) \in Content[<<"hand", t>>]
  <2>1. Content[<<"hand", t>>] = {hand[t][i].p : i \in DOMAIN hand[t]}
    BY ContentIs DEF ContentFacts
  <2>2. hand[t][1].p \in {hand[t][i].p : i \in DOMAIN hand[t]}
    BY <1>2
  <2> QED BY <1>2, <2>1, <2>2 DEF Cur
<1> QED BY <1>1, <1>3, <1>4 DEF IInv, Exclusive

\* The channel is drained into an empty hand.
LEMMA PollStep ==
  ASSUME IInv, NEW t \in Threads, Poll(t)
  PROVE  IInv'
<1> DEFINE q == [i \in DOMAIN channel |-> [p |-> channel[i], fresh |-> TRUE]]
           from == <<"channel", 0>>
           to == <<"hand", t>>
<1>1. /\ UNCHANGED <<slotVars, scenario, wire, slots, parked, run, slot, batch, history, takeover>>
      /\ handed_over' = handed_over
      /\ pc[t] = "idle" /\ hand' = [hand EXCEPT ![t] = q] /\ channel' = <<>>
      /\ \E l \in {"reinject", "packet"} : pc' = [pc EXCEPT ![t] = l]
  BY DEF Poll, Looping, Goto
<1>2. /\ StateTypeOK /\ Injective /\ Exclusive /\ Everywhere
      /\ DOMAIN pc = Threads /\ DOMAIN hand = Threads
      /\ from \in Places /\ to \in Places /\ from # to
      /\ Sockets' = Sockets /\ Packets' = Packets /\ HandItems' = HandItems
      /\ Content[to] = PacketsIn(hand[t]) /\ Content'[to] = PacketsIn(hand'[t])
      /\ \A u \in Threads : hand[u] \in Seq(HandItems) /\ NoneTwice(hand[u])
  BY <1>1, ThreadFacts
<1>3. channel \in Seq(Packets) /\ IsInjective(channel)
  BY <1>2 DEF StateTypeOK, Injective
<1>4. q \in Seq(HandItems) /\ NoneTwice(q) /\ PacketsIn(q) = Range(channel)
  <2>1. DOMAIN channel = 1 .. Len(channel) /\ Len(channel) \in Nat
    BY <1>3
  <2>2. \A i \in DOMAIN channel : channel[i] \in Packets
    BY <1>3
  <2>3. \A i \in DOMAIN channel : [p |-> channel[i], fresh |-> TRUE] \in HandItems
    BY <2>2 DEF HandItems
  <2>4. q \in [1 .. Len(channel) -> HandItems]
    BY <2>1, <2>3
  <2>5. q \in Seq(HandItems)
    <3> HIDE DEF q
    <3> QED BY <2>1, <2>4
  <2>6. NoneTwice(q)
    BY <1>3 DEF NoneTwice, IsInjective
  <2>7. PacketsIn(q) = Range(channel)
    BY DEF PacketsIn, Range
  <2> QED BY <2>5, <2>6, <2>7
<1> HIDE DEF q
<1>5. hand[t] = <<>> /\ batch[t] = {}
  BY <1>1 DEF IInv, Holding
<1>6. hand'[t] = q /\ \A u \in Threads \ {t} : hand'[u] = hand[u] /\ pc'[u] = pc[u]
  BY <1>1, <1>2
<1>7. pc'[t] \in {"reinject", "packet"}
  BY <1>1, <1>2
<1>8. hand' \in [Threads -> Seq(HandItems)] /\ \A u \in Threads : NoneTwice(hand'[u])
  BY <1>1, <1>2, <1>4, <1>6
<1>9. StateTypeOK'
  BY <1>1, <1>2, <1>8 DEF StateTypeOK, Labels, slots, parked, run, history, takeover
<1>10. Injective'
  <2>1. IsInjective(channel')
    BY <1>1 DEF IsInjective
  <2> QED BY <1>1, <1>2, <1>8, <2>1 DEF Injective, NoneTwice
<1>11. Content'[from] = Content[from] \ Range(channel)
  <2>1. Content[from] = Range(channel) /\ Content'[from] = Range(channel')
    BY ContentIs, ContentIsNext DEF ContentFacts
  <2>2. Range(channel') = {}
    BY <1>1 DEF Range
  <2> QED BY <2>1, <2>2
<1>12. Content'[to] = Content[to] \cup Range(channel)
  <2>1. PacketsIn(hand[t]) = {}
    BY <1>5 DEF PacketsIn
  <2> QED BY <1>2, <1>4, <1>6, <2>1
<1>13. \A l \in Places \ {from, to} : Content'[l] = Content[l]
  <2>1. \A u \in Threads : hand'[u] = hand[u] \/ <<"hand", u>> \in {from, to}
    BY <1>6
  <2>2. UNCHANGED <<scenario, wire, batch, buffers, resolved, pending_frames, finished, lost>>
    BY <1>1 DEF slots, parked, history
  <2>3. <<"channel", 0>> \in {from, to}
    OBVIOUS
  <2> HIDE DEF from, to
  <2> QED BY <2>1, <2>2, <2>3, ContentStays
<1>14. Exclusive' /\ Everywhere'
  <2>1. Range(channel) \subseteq Content[from]
    BY ContentIs DEF ContentFacts
  <2>2. TakeoverKeeps
    BY <1>1, SameTakeover
  <2> HIDE DEF from, to
  <2> QED BY <1>1, <1>2, <1>11, <1>12, <1>13, <2>1, <2>2, MovesTo
<1>15. TableInv' /\ FrameOnce'
  BY <1>1, SameTable
<1>16. InItsSlot' /\ Releasing' /\ Holding'
  <2>1. batch' = batch /\ slot' = slot /\ buffers' = buffers /\ resolved' = resolved
        /\ finished' = finished
    BY <1>1 DEF slots, history
  <2>2. /\ \A x \in batch'[t] : frame_id[x[2]] = FrameOf(x[1])
        /\ \A s \in Slots : \A p \in buffers'[s] : frame_id[s] = FrameOf(p) /\ states[s] # "Active"
        /\ \A s \in Slots : \A p \in resolved'[s] : frame_id[s] = FrameOf(p)
    BY <2>1 DEF IInv, InItsSlot
  <2>3. pc'[t] # "release" /\ pc'[t] \notin Placing /\ pc'[t] \notin Deciding
        /\ pc'[t] \notin {"idle", "dispatch"}
    BY <1>7 DEF Placing, Deciding
  <2> QED BY <1>1, <1>5, <1>6, <2>1, <2>2, <2>3, LocalStep
<1>17. DropsLose' /\ Window'
  BY <1>1, SameCount DEF run, history
<1> QED BY <1>9, <1>10, <1>14, <1>15, <1>16, <1>17 DEF IInv

\* A step of a thread that moves no packet and leaves the table alone.
LEMMA KeepsPackets ==
  ASSUME IInv, NEW t \in Threads, NEW l \in Labels, NEW s \in Slots,
         UNCHANGED <<slotVars, scenario, net, buffers, resolved, pending_frames, hand, batch>>,
         UNCHANGED <<frame_dropped, completed, finished, lost, takeover>>,
         pc' = [pc EXCEPT ![t] = l], slot' = [slot EXCEPT ![t] = s],
         l \notin {"release", "idle", "reinject", "dispatch"},
         l \in Placing => frame_id[s] = FrameOf(Cur(t)),
         l \in Deciding => hand[t] # <<>>
  PROVE  IInv'
<1>1. /\ StateTypeOK /\ Injective /\ Exclusive /\ Everywhere
      /\ DOMAIN pc = Threads /\ DOMAIN slot = Threads
      /\ Sockets' = Sockets /\ Packets' = Packets /\ HandItems' = HandItems
  BY ThreadFacts
<1>2. UNCHANGED <<wire, channel, handed_over>>
  BY DEF net
<1>3. pc'[t] = l /\ slot'[t] = s
      /\ \A u \in Threads \ {t} : pc'[u] = pc[u] /\ slot'[u] = slot[u]
  BY <1>1
<1>4. StateTypeOK' /\ Injective'
  BY <1>1, <1>2 DEF StateTypeOK, Injective, takeover
<1>5. \A m \in Places : Content'[m] = Content[m]
  <2> DEFINE T == {}
  <2> HIDE DEF T
  <2>2. \A m \in Places \ T : Content'[m] = Content[m]
    BY <1>2, ContentStays
  <2> QED BY <2>2 DEF T
<1>6. Exclusive' /\ Everywhere'
  BY <1>1, <1>2, <1>5, SameTakeover, MovesNothing
<1>7. InItsSlot' /\ Releasing' /\ Holding'
  <2>1. /\ \A x \in batch'[t] : frame_id[x[2]] = FrameOf(x[1])
        /\ \A r \in Slots : \A p \in buffers'[r] : frame_id[r] = FrameOf(p) /\ states[r] # "Active"
        /\ \A r \in Slots : \A p \in resolved'[r] : frame_id[r] = FrameOf(p)
    BY DEF IInv, InItsSlot
  <2>2. pc'[t] \in Placing => frame_id[slot'[t]] = FrameOf(Head(hand'[t]).p)
    BY <1>3 DEF Cur
  <2> QED BY <1>3, <2>1, <2>2, LocalStep
<1>8. TableInv' /\ FrameOnce'
  BY SameTable
<1>9. DropsLose' /\ Window'
  BY SameCount
<1> QED BY <1>4, <1>6, <1>7, <1>8, <1>9 DEF IInv

\* The packet at hand is discarded, batched for its slot or buffered in it.
LEMMA HandsOver ==
  ASSUME IInv, NEW t \in Threads, NEW l \in {"packet", "received"}, hand[t] # <<>>,
         UNCHANGED <<slotVars, scenario, net, resolved, pending_frames, slot>>,
         UNCHANGED <<frame_dropped, completed, finished, takeover>>,
         pc' = [pc EXCEPT ![t] = l], hand' = [hand EXCEPT ![t] = Tail(@)],
         \/ lost' = lost \cup {Cur(t)} /\ UNCHANGED <<batch, buffers>>
         \/ /\ ToBatch(t) /\ UNCHANGED <<lost, buffers>>
            /\ frame_id[slot[t]] = FrameOf(Cur(t))
         \/ /\ buffers' = [buffers EXCEPT ![slot[t]] = @ \cup {Cur(t)}]
            /\ UNCHANGED <<lost, batch>>
            /\ frame_id[slot[t]] = FrameOf(Cur(t)) /\ states[slot[t]] # "Active"
  PROVE  IInv'
<1> DEFINE p == Cur(t)
           s == slot[t]
           from == <<"hand", t>>
<1>1. /\ StateTypeOK /\ Injective /\ Exclusive /\ Everywhere
      /\ DOMAIN pc = Threads
      /\ Sockets' = Sockets /\ Packets' = Packets /\ HandItems' = HandItems
      /\ from \in Places /\ <<"lost", 0>> \in Places /\ <<"batch", t>> \in Places
      /\ \A r \in Slots : <<"buffer", r>> \in Places
  BY ThreadFacts
<1>2. UNCHANGED <<wire, channel, handed_over>>
  BY DEF net
<1>3. /\ p \in Packets /\ {p} \subseteq Content[from]
      /\ Content'[from] = Content[from] \ {p}
      /\ hand' \in [Threads -> Seq(HandItems)]
      /\ \A u \in Threads : NoneTwice(hand'[u])
      /\ \A u \in Threads \ {t} : hand'[u] = hand[u]
  BY HeadLeaves
<1>4. /\ s \in Slots /\ batch \in [Threads -> SUBSET (Packets \X Slots)]
      /\ buffers \in [Slots -> SUBSET Packets] /\ lost \in SUBSET Packets
  BY <1>1 DEF StateTypeOK
<1>5. pc'[t] = l /\ \A u \in Threads \ {t} : pc'[u] = pc[u]
  BY <1>1
<1> HIDE DEF p, s
<1>6. \E to \in {<<"lost", 0>>, <<"batch", t>>, <<"buffer", s>>} :
        /\ lost' = IF to = <<"lost", 0>> THEN lost \cup {p} ELSE lost
        /\ batch' = IF to = <<"batch", t>> THEN [batch EXCEPT ![t] = @ \cup {<<p, s>>}] ELSE batch
        /\ buffers' = IF to = <<"buffer", s>> THEN [buffers EXCEPT ![s] = @ \cup {p}] ELSE buffers
        /\ to # <<"lost", 0>> => frame_id[s] = FrameOf(p)
        /\ to = <<"buffer", s>> => states[s] # "Active"
  BY DEF ToBatch, p, s
<1>7. PICK to \in {<<"lost", 0>>, <<"batch", t>>, <<"buffer", s>>} :
        /\ lost' = IF to = <<"lost", 0>> THEN lost \cup {p} ELSE lost
        /\ batch' = IF to = <<"batch", t>> THEN [batch EXCEPT ![t] = @ \cup {<<p, s>>}] ELSE batch
        /\ buffers' = IF to = <<"buffer", s>> THEN [buffers EXCEPT ![s] = @ \cup {p}] ELSE buffers
        /\ to # <<"lost", 0>> => frame_id[s] = FrameOf(p)
        /\ to = <<"buffer", s>> => states[s] # "Active"
  BY <1>6
<1>8. to \in Places /\ from # to
  BY <1>1, <1>4
<1>9. /\ lost' \in SUBSET Packets
      /\ batch' \in [Threads -> SUBSET (Packets \X Slots)]
      /\ buffers' \in [Slots -> SUBSET Packets]
  BY <1>3, <1>4, <1>7
<1>10. StateTypeOK' /\ Injective'
  <2>1. StateTypeOK'
    BY <1>1, <1>2, <1>3, <1>9 DEF StateTypeOK, Labels, takeover
  <2>2. Injective'
    BY <1>1, <1>2, <1>3 DEF Injective, NoneTwice
  <2> QED BY <2>1, <2>2
<1>11. Content'[to] = Content[to] \cup {p}
  <2>1. CASE to = <<"lost", 0>>
    BY <1>7, <2>1, ContentIs, ContentIsNext DEF ContentFacts
  <2>2. CASE to = <<"batch", t>>
    <3>1. Content[to] = {x[1] : x \in batch[t]} /\ Content'[to] = {x[1] : x \in batch'[t]}
      BY <2>2, ContentIs, ContentIsNext DEF ContentFacts
    <3>2. batch'[t] = batch[t] \cup {<<p, s>>}
      BY <1>4, <1>7, <2>2
    <3>3. \A q : q \in {x[1] : x \in batch[t] \cup {<<p, s>>}}
                   <=> q \in {x[1] : x \in batch[t]} \/ q = <<p, s>>[1]
      OBVIOUS
    <3> QED BY <3>1, <3>2, <3>3
  <2>3. CASE to = <<"buffer", s>>
    <3>1. Content[to] = buffers[s] /\ Content'[to] = buffers'[s]
      BY <1>4, <2>3, ContentIs, ContentIsNext DEF ContentFacts
    <3>2. buffers'[s] = buffers[s] \cup {p}
      BY <1>4, <1>7, <2>3
    <3> QED BY <3>1, <3>2
  <2> QED BY <1>7, <2>1, <2>2, <2>3
<1>12. \A m \in Places \ {from, to} : Content'[m] = Content[m]
  <2>1. \A u \in Threads : hand'[u] = hand[u] \/ <<"hand", u>> \in {from, to}
    BY <1>3
  <2>2. \A u \in Threads : batch'[u] = batch[u] \/ <<"batch", u>> \in {from, to}
    BY <1>4, <1>7
  <2>3. \A r \in Slots : buffers'[r] = buffers[r] \/ <<"buffer", r>> \in {from, to}
    BY <1>4, <1>7
  <2>4. lost' = lost \/ <<"lost", 0>> \in {from, to}
    BY <1>7
  <2> HIDE DEF from
  <2> QED BY <1>2, <2>1, <2>2, <2>3, <2>4, ContentStays
<1>13. Exclusive' /\ Everywhere'
  <2>1. TakeoverKeeps
    BY <1>2, SameTakeover
  <2> HIDE DEF from
  <2> QED BY <1>1, <1>3, <1>8, <1>11, <1>12, <2>1, MovesTo
<1>14. InItsSlot' /\ Releasing' /\ Holding'
  <2>1. /\ \A x \in batch[t] : frame_id[x[2]] = FrameOf(x[1])
        /\ \A r \in Slots : \A q \in buffers[r] : frame_id[r] = FrameOf(q) /\ states[r] # "Active"
        /\ \A r \in Slots : \A q \in resolved[r] : frame_id[r] = FrameOf(q)
    BY DEF IInv, InItsSlot
  <2>2. \A x \in batch'[t] : frame_id[x[2]] = FrameOf(x[1])
    <3>1. ASSUME NEW x \in batch'[t] PROVE x \in batch[t] \/ (x = <<p, s>> /\ to # <<"lost", 0>>)
      BY <1>4, <1>7
    <3> QED BY <1>7, <2>1, <3>1
  <2>3. \A r \in Slots : \A q \in buffers'[r] : frame_id[r] = FrameOf(q) /\ states[r] # "Active"
    <3>1. ASSUME NEW r \in Slots, NEW q \in buffers'[r]
          PROVE  q \in buffers[r] \/ (r = s /\ q = p /\ to = <<"buffer", s>>)
      BY <1>4, <1>7
    <3> QED BY <1>7, <2>1, <3>1
  <2>4. \A u \in Threads \ {t} : batch'[u] = batch[u]
    BY <1>4, <1>7
  <2>5. /\ pc'[t] # "release" /\ pc'[t] \notin Placing /\ pc'[t] \notin Deciding
        /\ pc'[t] \notin {"idle", "dispatch"} /\ pc'[t] \notin {"idle", "reinject"}
    BY <1>5 DEF Placing, Deciding
  <2> QED BY <1>3, <1>5, <2>1, <2>2, <2>3, <2>4, <2>5, LocalStep
<1>15. TableInv' /\ FrameOnce'
  BY SameTable
<1>16. DropsLose' /\ Window'
  <2>1. lost \subseteq lost'
    BY <1>7
  <2> QED BY <2>1, SameCount
<1> QED BY <1>10, <1>13, <1>14, <1>15, <1>16 DEF IInv

LEMMA PacketStep ==
  ASSUME IInv, NEW t \in Threads, Packet(t)
  PROVE  IInv'
<1>1. /\ pc[t] = "packet" /\ hand[t] # <<>>
      /\ UNCHANGED <<slotVars, scenario, net, buffers, resolved, pending_frames, slot, batch>>
      /\ UNCHANGED <<frame_dropped, completed, finished, takeover>>
      /\ pc = [pc EXCEPT ![t] = pc[t]] /\ slot = [slot EXCEPT ![t] = slot[t]] /\ slot[t] \in Slots
  BY DEF Packet, slots, parked, run, IInv, StateTypeOK
<1>2. CASE lost' = lost \cup {Cur(t)} /\ hand' = [hand EXCEPT ![t] = Tail(@)] /\ UNCHANGED pc
  BY <1>1, <1>2, HandsOver
<1>3. CASE UNCHANGED <<lost, hand>> /\ \E l \in {"park", "assign"} : pc' = [pc EXCEPT ![t] = l]
  <2>1. PICK l \in {"park", "assign"} : pc' = [pc EXCEPT ![t] = l]
    BY <1>3
  <2>2. l \in Labels /\ l \notin Placing /\ l \notin {"release", "idle", "reinject", "dispatch"}
    BY DEF Labels, Placing
  <2> QED BY <1>1, <1>3, <2>1, <2>2, KeepsPackets
<1> QED BY <1>2, <1>3 DEF Packet, Goto

LEMMA CountPacketStep ==
  ASSUME IInv, NEW t \in Threads, CountPacket(t)
  PROVE  IInv'
<1>1. /\ pc[t] = "count" /\ pc' = [pc EXCEPT ![t] = "route"]
      /\ UNCHANGED <<slotVars, scenario, net, buffers, resolved, pending_frames, slot, batch, hand>>
      /\ UNCHANGED <<frame_dropped, completed, finished, lost, takeover>>
      /\ slot = [slot EXCEPT ![t] = slot[t]] /\ slot[t] \in Slots
  BY DEF CountPacket, Goto, parked, run, history, IInv, StateTypeOK
<1>2. frame_id[slot[t]] = FrameOf(Cur(t)) /\ hand[t] # <<>>
  BY <1>1 DEF IInv, InItsSlot, Holding, Placing, Deciding
<1> QED BY <1>1, <1>2, KeepsPackets DEF Labels

LEMMA RouteStep ==
  ASSUME IInv, NEW t \in Threads, Route(t)
  PROVE  IInv'
<1>1. /\ pc[t] = "route"
      /\ UNCHANGED <<slotVars, scenario, net, buffers, resolved, pending_frames, slot>>
      /\ UNCHANGED <<frame_dropped, completed, finished, lost, takeover>>
      /\ slot = [slot EXCEPT ![t] = slot[t]] /\ slot[t] \in Slots
  BY DEF Route, slots, parked, run, history, IInv, StateTypeOK
<1>2. frame_id[slot[t]] = FrameOf(Cur(t)) /\ hand[t] # <<>>
  BY <1>1 DEF IInv, InItsSlot, Holding, Placing, Deciding
<1>3. CASE ToBatch(t) /\ Routed(t)
  BY <1>1, <1>2, <1>3, HandsOver DEF Routed, Goto
<1>4. CASE pc' = [pc EXCEPT ![t] = "buffer"] /\ UNCHANGED <<batch, hand>>
  BY <1>1, <1>2, <1>4, KeepsPackets DEF Labels
<1> QED BY <1>3, <1>4 DEF Route, Goto

\* Looked at under the lock, a slot outside the bitmap is not Active.
LEMMA RouteToBufferStep ==
  ASSUME IInv, NEW t \in Threads, route_to_buffer(t)
  PROVE  IInv'
<1>1. /\ pc[t] = "buffer"
      /\ UNCHANGED <<slotVars, scenario, net, resolved, pending_frames, slot>>
      /\ UNCHANGED <<frame_dropped, completed, finished, lost, takeover>>
      /\ slot[t] \in Slots
  BY DEF route_to_buffer, parked, run, history, IInv, StateTypeOK
<1>2. frame_id[slot[t]] = FrameOf(Cur(t)) /\ hand[t] # <<>>
  BY <1>1 DEF IInv, InItsSlot, Holding, Placing, Deciding
<1>3. CASE slot[t] \in active_bitmap
  BY <1>1, <1>2, <1>3, HandsOver DEF Routed, Goto, route_to_buffer
<1>4. CASE slot[t] \notin active_bitmap
  <2>1. states[slot[t]] # "Active"
    BY <1>1, <1>4 DEF IInv, TableInv, TableConsistent, ActiveSlots
  <2> QED BY <1>1, <1>2, <1>4, <2>1, HandsOver DEF Routed, Goto, route_to_buffer
<1> QED BY <1>3, <1>4

LEMMA CheckCompletionStep ==
  ASSUME IInv, NEW t \in Threads, check_frame_completion(t)
  PROVE  IInv'
<1>1. /\ pc[t] = "received" /\ pc' = [pc EXCEPT ![t] = "packet"]
      /\ UNCHANGED <<slotVars, scenario, net, buffers, resolved, pending_frames, batch, hand>>
      /\ UNCHANGED <<frame_dropped, completed, finished, lost, takeover>>
      /\ slot' = [slot EXCEPT ![t] = 0] /\ 0 \in Slots
  BY DEF check_frame_completion, Goto, parked, history, Slots
<1> QED BY <1>1, KeepsPackets DEF Labels, Placing, Deciding

LEMMA ParkTestStep ==
  ASSUME IInv, NEW t \in Threads, ParkTest(t)
  PROVE  IInv'
<1>1. /\ pc[t] = "park"
      /\ UNCHANGED <<slotVars, scenario, net, buffers, resolved, pending_frames, slot, batch>>
      /\ UNCHANGED <<frame_dropped, completed, finished, takeover>>
      /\ slot = [slot EXCEPT ![t] = slot[t]] /\ slot[t] \in Slots
  BY DEF ParkTest, slots, parked, run, IInv, StateTypeOK
<1>2. hand[t] # <<>>
  BY <1>1 DEF IInv, Holding, Deciding
<1>3. CASE /\ lost' = lost \cup {Cur(t)} /\ hand' = [hand EXCEPT ![t] = Tail(@)]
           /\ pc' = [pc EXCEPT ![t] = "packet"]
  BY <1>1, <1>2, <1>3, HandsOver
<1>4. CASE UNCHANGED <<lost, hand>> /\ pc' = [pc EXCEPT ![t] = "park_locked"]
  BY <1>1, <1>2, <1>4, KeepsPackets DEF Labels, Placing
<1> QED BY <1>3, <1>4 DEF ParkTest, Goto

\* A frame gets the slot it has, a free one, or none and is parked.
LEMMA AssignStep ==
  ASSUME IInv, NEW t \in Threads, Assign(t)
  PROVE  IInv'
<1> DEFINE f == FrameOf(Cur(t))
<1>1. /\ pc[t] = "assign" /\ TableInv /\ FrameOnce
      /\ UNCHANGED <<scenario, net, buffers, resolved, pending_frames, hand, batch>>
      /\ UNCHANGED <<frame_dropped, completed, finished, lost, takeover>>
  BY DEF Assign, slots, parked, run, history, IInv
<1>2. hand[t] # <<>>
  BY <1>1 DEF IInv, Holding, Deciding
<1>3. f \in 0 .. TagSpace - 1 /\ f \in Nat
  BY <1>2, CurFacts, ScenarioFacts DEF IInv, StateTypeOK
<1>4. /\ StateTypeOK /\ Injective /\ Exclusive /\ Everywhere
      /\ DOMAIN pc = Threads /\ DOMAIN slot = Threads
      /\ slot = [slot EXCEPT ![t] = slot[t]] /\ slot[t] \in Slots
      /\ Sockets' = Sockets /\ Packets' = Packets /\ HandItems' = HandItems
  BY <1>1, ThreadFacts DEF StateTypeOK
<1>5. UNCHANGED <<wire, channel, handed_over>>
  BY <1>1 DEF net
<1>6. CASE /\ frame_slot_hit(f) \/ InRunning(f)
           /\ slot' = [slot EXCEPT ![t] = IF frame_slot_hit(f) THEN frame_slot_lookup(f)
                                          ELSE SlotOfFrame(f)]
           /\ pc' = [pc EXCEPT ![t] = "count"]
           /\ UNCHANGED slotVars
  <2>1. PICK s : s = (IF frame_slot_hit(f) THEN frame_slot_lookup(f) ELSE SlotOfFrame(f))
    OBVIOUS
  <2>2. s \in Slots /\ frame_id[s] = f
    <3>1. frame_slot_hit(f) =>
            frame_slot_lookup(f) \in Slots /\ frame_id[frame_slot_lookup(f)] = f
      BY <1>1, <1>3, HitFinds DEF FrameOnce
    <3>2. InRunning(f) => SlotOfFrame(f) \in Slots /\ frame_id[SlotOfFrame(f)] = f
      BY <1>1, <1>3, ScanFinds
    <3> QED BY <1>6, <2>1, <3>1, <3>2
  <2>3. "count" \in Labels /\ slot' = [slot EXCEPT ![t] = s]
    BY <1>6, <2>1 DEF Labels
  <2> QED BY <1>1, <1>2, <1>6, <2>2, <2>3, KeepsPackets
<1>7. CASE /\ pc' = [pc EXCEPT ![t] = "park"]
           /\ UNCHANGED <<slotVars, slot>>
  <2>1. "park" \in Labels /\ "park" \notin Placing
    BY DEF Labels, Placing
  <2> QED BY <1>1, <1>2, <1>4, <1>7, <2>1, KeepsPackets
<1>8. ASSUME NEW s \in Slots,
             \/ s = last_assigned /\ AssignLastAssigned(f)
             \/ AssignParallel(f, s)
             \/ AssignBuffering(f, s),
             slot' = [slot EXCEPT ![t] = s], pc' = [pc EXCEPT ![t] = "count"]
      PROVE  IInv'
  <2> HIDE DEF f
  <2>1. TableInv'
    BY <1>1, <1>3, <1>8, AssignKeepsTable
  <2>2. /\ \A r \in Slots : frame_id[r] # f
        /\ states[s] = "Inactive" /\ frame_id[s] = NoFrame
        /\ frame_id' = [frame_id EXCEPT ![s] = f]
        /\ \A r \in Slots : r # s => states'[r] = states[r]
    BY <1>1, <1>3, <1>8, AssignGives
  <2>3. frame_id \in [Slots -> Nat \cup {NoFrame}]
    BY <1>1 DEF TableInv, SlotTableTypeOK
  <2>4. frame_id'[s] = f /\ \A r \in Slots : r # s => frame_id'[r] = frame_id[r]
    BY <2>2, <2>3
  <2>5. FrameOnce'
    BY <1>1, <1>3, <2>2, <2>4 DEF FrameOnce
  <2>6. \A r \in Slots : frame_id[r] \in Nat => r # s
    BY <2>2 DEF NoFrame
  <2>7. pc'[t] = "count" /\ slot'[t] = s
        /\ \A u \in Threads \ {t} : pc'[u] = pc[u] /\ slot'[u] = slot[u]
    BY <1>4, <1>8
  <2>8. \A p \in Packets : FrameOf(p) \in Nat
    BY <1>4, ScenarioFacts DEF StateTypeOK
  <2>9. /\ slot \in [Threads -> Slots] /\ finished \in SUBSET Nat
        /\ buffers \in [Slots -> SUBSET Packets] /\ resolved \in [Slots -> SUBSET Packets]
        /\ batch \in [Threads -> SUBSET (Packets \X Slots)]
    BY <1>4 DEF StateTypeOK
  <2>10. StateTypeOK' /\ Injective'
    BY <1>1, <1>4, <1>5, <1>8 DEF StateTypeOK, Injective, takeover, Labels
  <2>11. Exclusive' /\ Everywhere'
    <3> DEFINE T == {}
    <3> HIDE DEF T
    <3>1. \A m \in Places \ T : Content'[m] = Content[m]
      BY <1>1, <1>5, ContentStays
    <3>2. \A m \in Places : Content'[m] = Content[m]
      BY <3>1 DEF T
    <3> QED BY <1>1, <1>4, <1>5, <3>2, SameTakeover, MovesNothing
  <2>12. InItsSlot'
    <3>1. ASSUME NEW u \in Threads, pc'[u] \in Placing
          PROVE  frame_id'[slot'[u]] = FrameOf(Cur(u))
      <4>1. CASE u = t
        BY <2>4, <2>7, <4>1 DEF f
      <4>2. CASE u # t
        <5>1. pc[u] \in Placing /\ slot'[u] = slot[u] /\ slot[u] \in Slots
          BY <2>7, <2>9, <3>1, <4>2
        <5>2. frame_id[slot[u]] = FrameOf(Cur(u)) /\ hand[u] # <<>>
          BY <5>1 DEF IInv, InItsSlot, Holding, Placing, Deciding
        <5>3. Cur(u) \in Packets
          BY <5>2, CurFacts
        <5> QED BY <2>4, <2>6, <2>8, <5>1, <5>2, <5>3
      <4> QED BY <4>1, <4>2
    <3>2. ASSUME NEW r \in Slots, NEW p \in buffers[r]
          PROVE  frame_id'[r] = FrameOf(p) /\ states'[r] # "Active"
      <4>1. frame_id[r] = FrameOf(p) /\ states[r] # "Active"
        BY DEF IInv, InItsSlot
      <4> QED BY <2>2, <2>4, <2>6, <2>8, <2>9, <4>1
    <3>3. ASSUME NEW u \in Threads, NEW x \in batch[u]
          PROVE  frame_id'[x[2]] = FrameOf(x[1])
      <4>1. frame_id[x[2]] = FrameOf(x[1])
        BY DEF IInv, InItsSlot
      <4>2. x[1] \in Packets /\ x[2] \in Slots
        BY <2>9
      <4> QED BY <2>4, <2>6, <2>8, <4>1, <4>2
    <3>4. ASSUME NEW r \in Slots, NEW p \in resolved[r] PROVE frame_id'[r] = FrameOf(p)
      <4>1. frame_id[r] = FrameOf(p)
        BY DEF IInv, InItsSlot
      <4> QED BY <2>4, <2>6, <2>8, <2>9, <4>1
    <3> QED BY <1>1, <3>1, <3>2, <3>3, <3>4 DEF InItsSlot, Cur, FrameOf
  <2>13. Releasing'
    <3>1. ASSUME NEW u \in Threads, pc'[u] = "release"
          PROVE  u # t /\ pc[u] = "release" /\ slot'[u] = slot[u] /\ frame_id'[slot'[u]] \in finished'
      <4>1. u # t /\ pc[u] = "release" /\ slot'[u] = slot[u] /\ slot[u] \in Slots
        BY <2>7, <2>9, <3>1
      <4>2. frame_id[slot[u]] \in finished
        BY <4>1 DEF IInv, Releasing
      <4> QED BY <1>1, <2>4, <2>6, <2>9, <4>1, <4>2
    <3> QED BY <3>1 DEF IInv, Releasing
  <2>14. Holding'
    BY <1>1, <1>2, <2>7 DEF IInv, Holding
  <2>15. DropsLose' /\ Window'
    BY <1>1, SameCount
  <2> QED BY <2>1, <2>5, <2>10, <2>11, <2>12, <2>13, <2>14, <2>15 DEF IInv
<1> QED BY <1>6, <1>7, <1>8 DEF Assign, Goto

\* Parked packets go to the front of the hand.
LEMMA ReinjectStep ==
  ASSUME IInv, NEW t \in Threads, reinject_pending_frames(t)
  PROVE  IInv'
<1> DEFINE ready == {p \in pending_frames : FrameOf(p) < window_end}
           from == <<"parked", 0>>
           to == <<"hand", t>>
<1>1. /\ UNCHANGED <<slotVars, scenario, net, slots, run, slot, batch, history, takeover>>
      /\ pc[t] = "reinject" /\ pc' = [pc EXCEPT ![t] = "packet"]
      /\ hand' = [hand EXCEPT ![t] = Reinjected(ready) \o @]
      /\ pending_frames' = pending_frames \ ready
  BY DEF reinject_pending_frames, Goto
<1>2. /\ StateTypeOK /\ Injective /\ Exclusive /\ Everywhere
      /\ DOMAIN pc = Threads /\ DOMAIN hand = Threads
      /\ from \in Places /\ to \in Places /\ from # to
      /\ Sockets' = Sockets /\ Packets' = Packets /\ HandItems' = HandItems
      /\ Content[to] = PacketsIn(hand[t]) /\ Content'[to] = PacketsIn(hand'[t])
      /\ \A u \in Threads : hand[u] \in Seq(HandItems) /\ NoneTwice(hand[u])
  BY <1>1, ThreadFacts
<1>3. UNCHANGED <<wire, channel, handed_over, buffers, resolved, finished, lost, frame_dropped, completed>>
  BY <1>1 DEF net, slots, history, run
<1>4. ready \in SUBSET Packets /\ ready \subseteq pending_frames
  BY <1>2 DEF StateTypeOK
<1> HIDE DEF ready
<1>5. /\ Content[from] = pending_frames /\ Content'[from] = pending_frames'
  BY ContentIs, ContentIsNext DEF ContentFacts
<1>6. ready \cap PacketsIn(hand[t]) = {}
  <2>1. ASSUME NEW q \in ready PROVE q \notin PacketsIn(hand[t])
    <3>1. q \in Content[from]
      BY <1>4, <1>5
    <3> QED BY <1>2, <3>1 DEF Exclusive
  <2> QED BY <2>1
<1>7. /\ Reinjected(ready) \in Seq(HandItems) /\ NoneTwice(Reinjected(ready))
      /\ PacketsIn(Reinjected(ready)) = ready
  BY <1>2, <1>4, ReinjectsAll DEF StateTypeOK
<1>8. /\ Reinjected(ready) \o hand[t] \in Seq(HandItems)
      /\ NoneTwice(Reinjected(ready) \o hand[t])
      /\ PacketsIn(Reinjected(ready) \o hand[t]) = ready \cup PacketsIn(hand[t])
  BY <1>2, <1>6, <1>7, BeforeHand
<1>9. /\ hand'[t] = Reinjected(ready) \o hand[t]
      /\ pc'[t] = "packet"
      /\ \A u \in Threads \ {t} : hand'[u] = hand[u] /\ pc'[u] = pc[u]
  BY <1>1, <1>2
<1>10. hand' \in [Threads -> Seq(HandItems)] /\ \A u \in Threads : NoneTwice(hand'[u])
  BY <1>1, <1>2, <1>8, <1>9
<1>11. StateTypeOK' /\ Injective'
  <2>1. StateTypeOK'
    BY <1>1, <1>2, <1>3, <1>10 DEF StateTypeOK, Labels, takeover
  <2>2. Injective'
    BY <1>1, <1>2, <1>3, <1>10 DEF Injective, NoneTwice
  <2> QED BY <2>1, <2>2
<1>12. Content'[from] = Content[from] \ ready /\ Content'[to] = Content[to] \cup ready
  BY <1>1, <1>2, <1>5, <1>8, <1>9
<1>13. \A l \in Places \ {from, to} : Content'[l] = Content[l]
  <2>1. \A u \in Threads : hand'[u] = hand[u] \/ <<"hand", u>> \in {from, to}
    BY <1>9
  <2>2. <<"parked", 0>> \in {from, to}
    OBVIOUS
  <2> HIDE DEF from, to
  <2> QED BY <1>1, <1>3, <2>1, <2>2, ContentStays
<1>14. Exclusive' /\ Everywhere'
  <2>1. ready \subseteq Content[from]
    BY <1>4, <1>5
  <2>2. TakeoverKeeps
    BY <1>1, <1>3, SameTakeover
  <2> HIDE DEF from, to
  <2> QED BY <1>1, <1>2, <1>12, <1>13, <2>1, <2>2, MovesTo
<1>15. TableInv' /\ FrameOnce'
  BY <1>1, SameTable
<1>16. InItsSlot' /\ Releasing' /\ Holding'
  <2>1. /\ \A x \in batch'[t] : frame_id[x[2]] = FrameOf(x[1])
        /\ \A s \in Slots : \A p \in buffers'[s] : frame_id[s] = FrameOf(p) /\ states[s] # "Active"
        /\ \A s \in Slots : \A p \in resolved'[s] : frame_id[s] = FrameOf(p)
    BY <1>1, <1>3 DEF IInv, InItsSlot
  <2>2. pc'[t] # "release" /\ pc'[t] \notin Placing /\ pc'[t] \notin Deciding
        /\ pc'[t] \notin {"idle", "dispatch"} /\ pc'[t] \notin {"idle", "reinject"}
    BY <1>9 DEF Placing, Deciding
  <2> QED BY <1>1, <1>3, <1>9, <2>1, <2>2, LocalStep
<1>17. DropsLose' /\ Window'
  BY <1>3, SameCount
<1> QED BY <1>11, <1>14, <1>15, <1>16, <1>17 DEF IInv

\* A batch is dispatched: its packets are resolved, each in the slot of its frame.
LEMMA FlushStep ==
  ASSUME IInv, NEW t \in Threads, flush_active_batch(t)
  PROVE  IInv'
<1> DEFINE B == batch[t]
           S == {x[1] : x \in B}
           of(r) == {x[1] : x \in {y \in B : y[2] = r}}
           from == <<"batch", t>>
<1>1. /\ UNCHANGED <<slotVars, scenario, net, buffers, parked, run, hand, slot, history, takeover>>
      /\ resolved' = [r \in Slots |-> resolved[r] \cup of(r)]
      /\ batch' = [batch EXCEPT ![t] = {}]
      /\ \E l \in {"idle", "packet"} :
           pc' = [pc EXCEPT ![t] = l] /\ (l = "idle" => hand[t] = <<>>)
  BY DEF flush_active_batch, Goto
<1>2. /\ StateTypeOK /\ Injective /\ Exclusive /\ Everywhere
      /\ DOMAIN pc = Threads /\ DOMAIN batch = Threads /\ from \in Places
      /\ \A r \in Slots : <<"resolved", r>> \in Places
      /\ Sockets' = Sockets /\ Packets' = Packets /\ HandItems' = HandItems
  BY <1>1, ThreadFacts
<1>3. UNCHANGED <<wire, channel, handed_over, pending_frames, finished, lost, frame_dropped, completed>>
  BY <1>1 DEF net, parked, history, run
<1>4. /\ B \in SUBSET (Packets \X Slots)
      /\ resolved \in [Slots -> SUBSET Packets]
      /\ batch \in [Threads -> SUBSET (Packets \X Slots)]
  BY <1>2 DEF StateTypeOK
<1>5. \A x \in B : frame_id[x[2]] = FrameOf(x[1])
  BY DEF IInv, InItsSlot
<1> HIDE DEF B
<1>6. \A r \in Slots : \A q : q \in of(r) <=> <<q, r>> \in B
  <2>1. ASSUME NEW r \in Slots, NEW q PROVE q \in of(r) <=> <<q, r>> \in B
    <3>1. ASSUME q \in of(r) PROVE <<q, r>> \in B
      <4>1. PICK x \in B : x[2] = r /\ q = x[1]
        BY <3>1
      <4>2. x = <<x[1], x[2]>>
        BY <1>4
      <4> QED BY <4>1, <4>2
    <3>2. ASSUME <<q, r>> \in B PROVE q \in of(r)
      <4>1. <<q, r>>[1] = q /\ <<q, r>>[2] = r
        OBVIOUS
      <4> QED BY <3>2, <4>1
    <3> QED BY <3>1, <3>2
  <2> QED BY <2>1
<1>7. \A q : q \in S <=> \E r \in Slots : <<q, r>> \in B
  <2>1. ASSUME NEW q \in S PROVE \E r \in Slots : <<q, r>> \in B
    <3>1. PICK x \in B : q = x[1]
      OBVIOUS
    <3>2. x = <<x[1], x[2]>> /\ x[2] \in Slots
      BY <1>4
    <3> QED BY <3>1, <3>2
  <2>2. ASSUME NEW q, NEW r \in Slots, <<q, r>> \in B PROVE q \in S
    <3>1. <<q, r>>[1] = q
      OBVIOUS
    <3> QED BY <2>2, <3>1
  <2> QED BY <2>1, <2>2
<1>8. Content[from] = S /\ Content'[from] = {}
  <2>1. Content[from] = S
    BY ContentIs DEF ContentFacts, B
  <2>2. Content'[from] = {x[1] : x \in batch'[t]}
    BY ContentIsNext DEF ContentFacts
  <2>3. batch'[t] = {}
    BY <1>1, <1>2
  <2> QED BY <2>1, <2>2, <2>3
<1> HIDE DEF S, of
<1>9. \A r \in Slots : /\ Content[<<"resolved", r>>] = resolved[r]
                       /\ Content'[<<"resolved", r>>] = resolved[r] \cup of(r)
  <2>1. \A r \in Slots : resolved'[r] = resolved[r] \cup of(r)
    BY <1>1
  <2> QED BY <2>1, ContentIs, ContentIsNext DEF ContentFacts
<1>10. \A l \in Places : l # from /\ (\A r \in Slots : l # <<"resolved", r>>) => Content'[l] = Content[l]
  <2> DEFINE T == {from} \cup {<<"resolved", r>> : r \in Slots}
  <2>1. \A u \in Threads : batch'[u] = batch[u] \/ <<"batch", u>> \in T
    BY <1>1, <1>2
  <2>2. \A r \in Slots : <<"resolved", r>> \in T
    OBVIOUS
  <2>3. \A l : l \in T <=> l = from \/ \E r \in Slots : l = <<"resolved", r>>
    OBVIOUS
  <2> HIDE DEF T
  <2>4. \A l \in Places \ T : Content'[l] = Content[l]
    BY <1>1, <1>3, <2>1, <2>2, ContentStays
  <2> QED BY <2>3, <2>4
<1>11. ASSUME NEW l \in Places, NEW q, q \notin S
       PROVE  q \in Content'[l] <=> q \in Content[l]
  <2>1. CASE l = from
    BY <1>8, <1>11, <2>1
  <2>2. CASE \E r \in Slots : l = <<"resolved", r>>
    BY <1>6, <1>7, <1>9, <1>11, <2>2
  <2>3. CASE l # from /\ \A r \in Slots : l # <<"resolved", r>>
    BY <1>10, <2>3
  <2> QED BY <2>1, <2>2, <2>3
<1>12. ASSUME NEW q \in S
       PROVE  \E m \in Places : \A l \in Places : q \in Content'[l] <=> l = m
  <2>1. PICK s \in Slots : <<q, s>> \in B
    BY <1>7
  <2>2. \A l \in Places : q \in Content[l] => l = from
    BY <1>2, <1>8 DEF Exclusive
  <2>3. frame_id[s] = FrameOf(q) /\ FrameOf(q) \in Nat
    <3>1. <<q, s>>[1] = q /\ <<q, s>>[2] = s
      OBVIOUS
    <3>2. q \in Packets
      BY <1>4, <2>1, <3>1
    <3> QED BY <1>2, <1>5, <2>1, <3>1, <3>2, ScenarioFacts DEF StateTypeOK
  <2>4. ASSUME NEW r \in Slots, <<q, r>> \in B PROVE r = s
    <3>1. <<q, r>>[1] = q /\ <<q, r>>[2] = r
      OBVIOUS
    <3>2. frame_id[r] = FrameOf(q)
      BY <1>5, <2>4, <3>1
    <3> QED BY <2>3, <3>2 DEF IInv, FrameOnce, NoFrame
  <2>5. ASSUME NEW l \in Places PROVE q \in Content'[l] <=> l = <<"resolved", s>>
    <3>1. CASE l = from
      BY <1>8, <3>1
    <3>2. ASSUME NEW r \in Slots, l = <<"resolved", r>>
          PROVE  q \in Content'[l] <=> l = <<"resolved", s>>
      <4>1. q \notin resolved[r]
        BY <1>9, <2>2, <3>2
      <4>2. q \in Content'[l] <=> <<q, r>> \in B
        BY <1>6, <1>9, <3>2, <4>1
      <4>3. <<q, r>> \in B <=> r = s
        BY <2>1, <2>4
      <4> QED BY <3>2, <4>2, <4>3
    <3>3. CASE l # from /\ \A r \in Slots : l # <<"resolved", r>>
      BY <1>10, <2>2, <3>3
    <3> QED BY <3>1, <3>2, <3>3
  <2> QED BY <1>2, <2>5
<1>13. Exclusive' /\ Everywhere'
  <2>1. TakeoverKeeps
    BY <1>1, <1>3, SameTakeover
  <2> QED BY <1>1, <1>2, <1>11, <1>12, <2>1, Moves
<1>14. StateTypeOK' /\ Injective'
  <2>1. \A r \in Slots : of(r) \in SUBSET Packets
    BY <1>4 DEF of
  <2>2. resolved' \in [Slots -> SUBSET Packets]
    BY <1>1, <1>4, <2>1
  <2>3. batch' \in [Threads -> SUBSET (Packets \X Slots)]
    BY <1>1, <1>4
  <2>4. pc' \in [Threads -> Labels]
    BY <1>1, <1>2 DEF StateTypeOK, Labels
  <2>5. StateTypeOK'
    BY <1>1, <1>2, <1>3, <2>2, <2>3, <2>4 DEF StateTypeOK, takeover
  <2>6. Injective'
    BY <1>1, <1>2, <1>3 DEF Injective
  <2> QED BY <2>5, <2>6
<1>15. InItsSlot' /\ Releasing' /\ Holding'
  <2>1. PICK l \in {"idle", "packet"} :
           pc' = [pc EXCEPT ![t] = l] /\ (l = "idle" => hand[t] = <<>>)
    BY <1>1
  <2>2. batch'[t] = {} /\ pc'[t] = l
        /\ \A u \in Threads \ {t} : batch'[u] = batch[u] /\ pc'[u] = pc[u]
    BY <1>1, <1>2, <2>1
  <2>3. \A r \in Slots : \A q \in resolved'[r] : frame_id[r] = FrameOf(q)
    <3>1. ASSUME NEW r \in Slots, NEW q \in resolved'[r] PROVE frame_id[r] = FrameOf(q)
      <4>1. q \in resolved[r] \/ <<q, r>> \in B
        BY <1>1, <1>6
      <4>2. <<q, r>>[1] = q /\ <<q, r>>[2] = r
        OBVIOUS
      <4> QED BY <1>5, <4>1, <4>2 DEF IInv, InItsSlot
    <3> QED BY <3>1
  <2>4. \A r \in Slots : \A q \in buffers'[r] : frame_id[r] = FrameOf(q) /\ states[r] # "Active"
    BY <1>1 DEF IInv, InItsSlot
  <2>5. pc'[t] # "release" /\ pc'[t] \notin Placing /\ pc'[t] \notin Deciding
    BY <2>1, <2>2 DEF Placing, Deciding
  <2>6. pc'[t] \in {"idle", "dispatch"} => hand'[t] = <<>>
    BY <1>1, <2>1, <2>2
  <2> QED BY <1>1, <1>3, <2>2, <2>3, <2>4, <2>5, <2>6, LocalStep
<1>16. TableInv' /\ FrameOnce'
  BY <1>1, SameTable
<1>17. DropsLose' /\ Window'
  BY <1>3, SameCount
<1> QED BY <1>13, <1>14, <1>15, <1>16, <1>17 DEF IInv

\* The packet at hand is parked, or its frame or another one is dropped.
LEMMA ParkStep ==
  ASSUME IInv, NEW t \in Threads, Park(t)
  PROVE  IInv'
<1> DEFINE p == Cur(t)
           full == pending_count >= Cap
           frames == {FrameOf(q) : q \in pending_frames \cup {p}}
           victim == Max(frames)
           evicted == {q \in pending_frames : full /\ FrameOf(q) = victim}
           stays == ~full \/ FrameOf(p) # victim
           from == <<"hand", t>>
           kept == <<"parked", 0>>
           gone == <<"lost", 0>>
<1>1. /\ pc[t] = "park_locked"
      /\ UNCHANGED <<slotVars, scenario, net, slots, slot, batch, finished, takeover>>
      /\ pending_frames' = (pending_frames \ evicted) \cup (IF stays THEN {p} ELSE {})
      /\ IF full THEN mark_frame_dropped(victim) ELSE UNCHANGED <<frame_dropped, completed>>
      /\ lost' = lost \cup evicted \cup (IF stays THEN {} ELSE {p})
      /\ hand' = [hand EXCEPT ![t] = Tail(@)]
      /\ pc' = [pc EXCEPT ![t] = "packet"]
  BY DEF Park, Goto
<1>2. hand[t] # <<>>
  BY <1>1 DEF IInv, Holding, Deciding
<1>3. /\ StateTypeOK /\ Injective /\ Exclusive /\ Everywhere /\ DOMAIN pc = Threads
      /\ from \in Places /\ kept \in Places /\ gone \in Places
      /\ Sockets' = Sockets /\ Packets' = Packets /\ HandItems' = HandItems
  BY <1>1, ThreadFacts
<1>4. UNCHANGED <<wire, channel, handed_over, buffers, resolved>>
  BY <1>1 DEF net, slots
<1>5. /\ p \in Packets /\ p \in Content[from]
      /\ Content'[from] = Content[from] \ {p}
      /\ hand' \in [Threads -> Seq(HandItems)]
      /\ \A u \in Threads : NoneTwice(hand'[u])
      /\ \A u \in Threads \ {t} : hand'[u] = hand[u]
  BY <1>1, <1>2, HeadLeaves
<1>6. /\ pending_frames \in SUBSET Packets /\ lost \in SUBSET Packets
      /\ evicted \subseteq pending_frames
  BY <1>3 DEF StateTypeOK
<1>7. /\ Content[kept] = pending_frames /\ Content'[kept] = pending_frames'
      /\ Content[gone] = lost /\ Content'[gone] = lost'
  BY ContentIs, ContentIsNext DEF ContentFacts
<1>8. victim \in frames
  <2>1. TagSpace - 1 \in Nat /\ frames # {}
    OBVIOUS
  <2>2. frames \in SUBSET (0 .. TagSpace - 1)
    <3>1. \A q \in Packets : FrameOf(q) \in 0 .. TagSpace - 1
      BY <1>3, ScenarioFacts DEF StateTypeOK
    <3>2. pending_frames \cup {p} \subseteq Packets
      BY <1>5, <1>6
    <3> HIDE DEF p
    <3> QED BY <3>1, <3>2
  <2> HIDE DEF frames
  <2> QED BY <2>1, <2>2, GreatestElement
<1>9. \E q \in pending_frames \cup {p} : FrameOf(q) = victim
  <2> HIDE DEF victim, p
  <2> QED BY <1>8
<1>10. full => \E q \in lost' : FrameOf(q) = victim
  <2>1. SUFFICES ASSUME full PROVE \E q \in lost' : FrameOf(q) = victim
    OBVIOUS
  <2>2. PICK q \in pending_frames \cup {p} : FrameOf(q) = victim
    BY <1>9
  <2> HIDE DEF victim
  <2>3. CASE q \in pending_frames
    BY <1>1, <2>1, <2>2, <2>3
  <2>4. CASE q = p
    BY <1>1, <2>1, <2>2, <2>4
  <2> QED BY <2>2, <2>3, <2>4
<1>11. victim \in Nat
  <2>1. PICK q \in pending_frames \cup {p} : FrameOf(q) = victim
    BY <1>9
  <2>2. q \in Packets
    BY <1>5, <1>6, <2>1
  <2> HIDE DEF victim
  <2> QED BY <1>3, <2>1, <2>2, ScenarioFacts DEF StateTypeOK
<1> HIDE DEF victim
<1>12. \A q : q # p /\ q \notin evicted =>
         (q \in pending_frames' <=> q \in pending_frames) /\ (q \in lost' <=> q \in lost)
  <2> HIDE DEF evicted, p
  <2> QED BY <1>1
<1>13. /\ p \in pending_frames' <=> (stays \/ p \in pending_frames \ evicted)
       /\ p \in lost' <=> (~stays \/ p \in lost \cup evicted)
       /\ \A q \in evicted : q # p => q \notin pending_frames' /\ q \in lost'
  <2> HIDE DEF evicted, p, stays
  <2> QED BY <1>1
<1>14. p \notin pending_frames /\ p \notin lost
  BY <1>3, <1>5, <1>7 DEF Exclusive
<1>15. \A l \in Places : l \notin {from, kept, gone} => Content'[l] = Content[l]
  <2> DEFINE T == {from, kept, gone}
  <2>1. \A u \in Threads : hand'[u] = hand[u] \/ <<"hand", u>> \in T
    BY <1>5
  <2>2. <<"parked", 0>> \in T /\ <<"lost", 0>> \in T
    OBVIOUS
  <2> HIDE DEF T
  <2>3. \A l \in Places \ T : Content'[l] = Content[l]
    BY <1>1, <1>4, <2>1, <2>2, ContentStays
  <2> QED BY <2>3 DEF T
<1>16. from # kept /\ from # gone /\ kept # gone
  OBVIOUS
<1> DEFINE S == {p} \cup evicted
<1>17. ASSUME NEW l \in Places, NEW q, q \notin S
       PROVE  q \in Content'[l] <=> q \in Content[l]
  <2> HIDE DEF evicted, p, from, kept, gone
  <2>1. q # p /\ q \notin evicted
    BY <1>17
  <2>2. CASE l = from
    BY <1>5, <2>1, <2>2
  <2>3. CASE l = kept \/ l = gone
    BY <1>7, <1>12, <2>1, <2>3
  <2>4. CASE l \notin {from, kept, gone}
    BY <1>15, <2>4
  <2> QED BY <2>2, <2>3, <2>4
<1>18. ASSUME NEW q \in S
       PROVE  \E m \in Places : \A l \in Places : q \in Content'[l] <=> l = m
  <2>1. CASE q = p
    <3> DEFINE m == IF stays THEN kept ELSE gone
    <3>1. \A l \in Places : p \in Content[l] => l = from
      BY <1>3, <1>5 DEF Exclusive
    <3>2. p \notin evicted
      BY <1>6, <1>14
    <3> HIDE DEF evicted, p, from, kept, gone, stays
    <3>3. (q \in Content'[kept] <=> stays) /\ (q \in Content'[gone] <=> ~stays)
          /\ q \notin Content'[from]
      BY <1>5, <1>7, <1>13, <1>14, <2>1, <3>2
    <3>4. \A l \in Places : q \in Content'[l] <=> l = m
      BY <1>15, <1>16, <2>1, <3>1, <3>3
    <3>5. m \in Places
      BY <1>3
    <3> QED BY <3>4, <3>5
  <2>2. CASE q # p
    <3>1. q \in evicted /\ q \in pending_frames
      BY <1>18, <2>2
    <3>2. \A l \in Places : q \in Content[l] => l = kept
      BY <1>3, <1>7, <3>1 DEF Exclusive
    <3> HIDE DEF evicted, p, from, kept, gone
    <3>3. q \notin Content'[kept] /\ q \in Content'[gone] /\ q \notin Content'[from]
      BY <1>3, <1>5, <1>7, <1>13, <1>16, <2>2, <3>1, <3>2
    <3>4. \A l \in Places : q \in Content'[l] <=> l = gone
      BY <1>15, <3>2, <3>3
    <3> QED BY <1>3, <3>4
  <2> QED BY <2>1, <2>2
<1>19. Exclusive' /\ Everywhere'
  <2>1. TakeoverKeeps
    BY <1>1, <1>4, SameTakeover
  <2>2. UNCHANGED scenario
    BY <1>1
  <2> HIDE DEF S, from, kept, gone
  <2> QED BY <1>3, <1>17, <1>18, <2>1, <2>2, Moves
<1>20. /\ pending_frames' \in SUBSET Packets /\ lost' \in SUBSET Packets
       /\ lost \subseteq lost'
  BY <1>1, <1>5, <1>6
<1>21. DropsLose' /\ Window' /\ frame_dropped' \in SUBSET Nat /\ completed' \in Nat
  <2>1. CASE ~full
    <3>1. UNCHANGED <<finished, frame_dropped, completed>>
      BY <1>1, <2>1
    <3> QED BY <1>3, <1>20, <3>1, SameCount DEF StateTypeOK
  <2>2. CASE full
    <3>1. /\ frame_dropped' = frame_dropped \cup {victim} /\ finished' = finished
          /\ completed' = completed + (IF victim \in frame_dropped THEN 0 ELSE 1)
      BY <1>1, <2>2 DEF mark_frame_dropped
    <3>2. /\ IsFiniteSet(finished) /\ IsFiniteSet(frame_dropped) /\ completed \in Nat
          /\ completed = Cardinality(finished) + Cardinality(frame_dropped)
          /\ frame_dropped \in SUBSET Nat
      BY DEF IInv, Window, StateTypeOK
    <3>3. /\ Cardinality(finished) \in Nat /\ Cardinality(frame_dropped) \in Nat
          /\ IsFiniteSet(frame_dropped \cup {victim})
          /\ Cardinality(frame_dropped \cup {victim}) =
               Cardinality(frame_dropped) + (IF victim \in frame_dropped THEN 0 ELSE 1)
      BY <3>2, FS_CardinalityType, FS_AddElement
    <3>4. Window'
      BY <3>1, <3>2, <3>3 DEF Window
    <3>5. DropsLose'
      <4>1. ASSUME NEW f \in frame_dropped' PROVE \E q \in lost' : FrameOf(q) = f
        <5>1. CASE f = victim
          BY <1>10, <2>2, <5>1
        <5>2. CASE f \in frame_dropped
          BY <1>20, <5>2 DEF IInv, DropsLose
        <5> QED BY <3>1, <4>1, <5>1, <5>2
      <4> QED BY <4>1 DEF DropsLose, FrameOf
    <3> QED BY <1>11, <3>1, <3>2, <3>4, <3>5
  <2> QED BY <2>1, <2>2
<1>22. pc'[t] = "packet" /\ \A u \in Threads \ {t} : pc'[u] = pc[u]
  BY <1>1, <1>3
<1>23. StateTypeOK' /\ Injective'
  <2>1. StateTypeOK'
    BY <1>1, <1>3, <1>4, <1>5, <1>20, <1>21 DEF StateTypeOK, Labels, takeover
  <2>2. Injective'
    BY <1>3, <1>4, <1>5 DEF Injective, NoneTwice
  <2> QED BY <2>1, <2>2
<1>24. InItsSlot' /\ Releasing' /\ Holding'
  <2>1. /\ \A x \in batch'[t] : frame_id[x[2]] = FrameOf(x[1])
        /\ \A r \in Slots : \A q \in buffers'[r] : frame_id[r] = FrameOf(q) /\ states[r] # "Active"
        /\ \A r \in Slots : \A q \in resolved'[r] : frame_id[r] = FrameOf(q)
    BY <1>1, <1>4 DEF IInv, InItsSlot
  <2>2. pc'[t] # "release" /\ pc'[t] \notin Placing /\ pc'[t] \notin Deciding
        /\ pc'[t] \notin {"idle", "dispatch"} /\ pc'[t] \notin {"idle", "reinject"}
    BY <1>22 DEF Placing, Deciding
  <2> QED BY <1>1, <1>5, <1>22, <2>1, <2>2, LocalStep
<1>25. TableInv' /\ FrameOnce'
  BY <1>1, SameTable
<1> QED BY <1>19, <1>21, <1>23, <1>24, <1>25 DEF IInv

-----------------------------------------------------------------------------
(* The end of a frame *)

\* A frame whose packets are all resolved has none of them anywhere else.
LEMMA CompleteStep ==
  ASSUME IInv, NEW t \in Threads, NEW s \in Slots, CompleteFrame(t, s)
  PROVE  IInv'
<1> DEFINE f == frame_id[s]
           F == {q \in Packets : FrameOf(q) = f}
           from == <<"resolved", s>>
           to == <<"finished", 0>>
<1>1. /\ pc[t] = "idle" /\ states[s] = "Active" /\ Cardinality(resolved[s]) = FramePackets
      /\ UNCHANGED <<slotVars, scenario, net, buffers, parked, frame_dropped, hand, batch, lost, takeover>>
      /\ resolved' = [resolved EXCEPT ![s] = {}]
      /\ completed' = completed + 1 /\ finished' = finished \cup {f}
      /\ slot' = [slot EXCEPT ![t] = s] /\ pc' = [pc EXCEPT ![t] = "release"]
  BY DEF CompleteFrame, Looping, Goto
<1>2. /\ StateTypeOK /\ Injective /\ Exclusive /\ Everywhere
      /\ DOMAIN pc = Threads /\ DOMAIN slot = Threads
      /\ from \in Places /\ to \in Places /\ from # to
      /\ Sockets' = Sockets /\ Packets' = Packets /\ HandItems' = HandItems
  BY <1>1, ThreadFacts
<1>3. UNCHANGED <<wire, channel, handed_over, pending_frames, frame_id, states>>
  BY <1>1 DEF net, parked, slotVars
<1>4. /\ resolved \in [Slots -> SUBSET Packets] /\ finished \in SUBSET Nat /\ completed \in Nat
      /\ FramePackets \in Nat \ {0} /\ \A q \in Packets : FrameOf(q) \in Nat
  BY <1>2, ScenarioFacts DEF StateTypeOK
<1>5. f \in 0 .. TagSpace - 1 /\ f \in Nat
  <2>1. Occupied(s) /\ TableInv /\ FrameOnce
    BY <1>1 DEF Occupied, IInv
  <2>2. f # NoFrame
    BY <2>1, SlotFrames
  <2> QED BY <2>1, <2>2 DEF FrameOnce
<1>6. \A q \in resolved[s] : FrameOf(q) = f
  BY DEF IInv, InItsSlot
<1> HIDE DEF f
<1>7. resolved[s] = F /\ F # {}
  <2>1. F = {f} \X (0 .. FramePackets - 1)
    BY <1>5 DEF Packets, FrameOf
  <2>2. /\ IsFiniteSet(0 .. FramePackets - 1)
        /\ Cardinality(0 .. FramePackets - 1) = FramePackets
    BY <1>4, FS_Interval
  <2>3. IsFiniteSet({f}) /\ Cardinality({f}) = 1
    BY FS_Singleton
  <2>4. /\ IsFiniteSet({f} \X (0 .. FramePackets - 1))
        /\ Cardinality({f} \X (0 .. FramePackets - 1)) = 1 * FramePackets
    BY <2>2, <2>3, FS_Product
  <2>5. IsFiniteSet(F) /\ Cardinality(F) = FramePackets
    <3> HIDE DEF F
    <3>1. 1 * FramePackets = FramePackets
      BY <1>4
    <3> QED BY <2>1, <2>4, <3>1
  <2>6. resolved[s] \in SUBSET F
    BY <1>4, <1>6
  <2> HIDE DEF F
  <2>7. resolved[s] = F
    BY <1>1, <2>5, <2>6, FS_Subset
  <2>8. F # {}
    BY <1>4, <2>5, FS_EmptySet
  <2> QED BY <2>7, <2>8
<1>8. /\ Content[from] = resolved[s] /\ Content'[from] = {}
      /\ Content[to] = {q \in Packets : FrameOf(q) \in finished}
      /\ Content'[to] = {q \in Packets : FrameOf(q) \in finished'}
  <2>1. /\ Content[from] = resolved[s] /\ Content'[from] = resolved'[s]
        /\ Content[to] = {q \in Packets : FrameOf(q) \in finished}
        /\ Content'[to] = {q \in Packets' : FrameOf(q) \in finished'}
    BY ContentIs, ContentIsNext DEF ContentFacts, FrameOf
  <2>2. resolved'[s] = {}
    BY <1>1, <1>4
  <2> QED BY <1>2, <2>1, <2>2
<1>9. f \notin finished
  <2>1. PICK q \in resolved[s] : FrameOf(q) = f /\ q \in Packets
    BY <1>7
  <2>2. q \notin Content[to]
    BY <1>2, <1>8, <2>1 DEF Exclusive
  <2> QED BY <1>8, <2>1, <2>2
<1>10. Exclusive' /\ Everywhere'
  <2>1. Content'[to] = Content[to] \cup resolved[s]
    BY <1>1, <1>7, <1>8
  <2>2. resolved[s] \subseteq Content[from] /\ Content'[from] = Content[from] \ resolved[s]
    BY <1>8
  <2>3. \A l \in Places \ {from, to} : Content'[l] = Content[l]
    <3>1. \A r \in Slots : resolved'[r] = resolved[r] \/ <<"resolved", r>> \in {from, to}
      BY <1>1, <1>4
    <3>2. <<"finished", 0>> \in {from, to}
      OBVIOUS
    <3> HIDE DEF from, to
    <3> QED BY <1>1, <1>3, <3>1, <3>2, ContentStays
  <2>4. TakeoverKeeps
    BY <1>1, <1>3, SameTakeover
  <2> HIDE DEF from, to
  <2> QED BY <1>1, <1>2, <2>1, <2>2, <2>3, <2>4, MovesTo
<1>11. StateTypeOK' /\ Injective'
  <2>1. /\ resolved' \in [Slots -> SUBSET Packets] /\ finished' \in SUBSET Nat /\ completed' \in Nat
    BY <1>1, <1>4, <1>5
  <2>2. StateTypeOK'
    BY <1>1, <1>2, <1>3, <2>1 DEF StateTypeOK, Labels, takeover
  <2>3. Injective'
    BY <1>1, <1>2, <1>3 DEF Injective
  <2> QED BY <2>2, <2>3
<1>12. /\ pc'[t] = "release" /\ slot'[t] = s
       /\ \A u \in Threads \ {t} : pc'[u] = pc[u] /\ slot'[u] = slot[u]
  BY <1>1, <1>2
<1>13. InItsSlot'
  <2>1. ASSUME NEW u \in Threads, pc'[u] \in Placing PROVE frame_id[slot'[u]] = FrameOf(Cur(u))
    <3>1. u # t /\ pc[u] \in Placing
      BY <1>12, <2>1 DEF Placing
    <3> QED BY <1>12, <3>1 DEF IInv, InItsSlot
  <2>2. \A r \in Slots : \A q \in buffers[r] : frame_id[r] = FrameOf(q) /\ states[r] # "Active"
    BY DEF IInv, InItsSlot
  <2>3. \A u \in Threads : \A x \in batch[u] : frame_id[x[2]] = FrameOf(x[1])
    BY DEF IInv, InItsSlot
  <2>4. \A r \in Slots : \A q \in resolved'[r] : frame_id[r] = FrameOf(q)
    BY <1>1, <1>4 DEF IInv, InItsSlot
  <2> QED BY <1>1, <1>3, <2>1, <2>2, <2>3, <2>4 DEF InItsSlot, Cur, FrameOf
<1>14. Releasing'
  <2>1. ASSUME NEW u \in Threads, pc'[u] = "release" PROVE frame_id[slot'[u]] \in finished'
    <3>1. CASE u = t
      BY <1>1, <1>12, <3>1 DEF f
    <3>2. CASE u # t
      BY <1>1, <1>12, <2>1, <3>2 DEF IInv, Releasing
    <3> QED BY <3>1, <3>2
  <2>2. ASSUME NEW u \in Threads, u # t, pc'[u] = "release" PROVE slot'[u] # s
    <3>1. frame_id[slot[u]] \in finished
      BY <1>12, <2>2 DEF IInv, Releasing
    <3> QED BY <1>9, <1>12, <2>2, <3>1 DEF f
  <2>3. ASSUME NEW u \in Threads, NEW v \in Threads,
               pc'[u] = "release" /\ pc'[v] = "release" /\ slot'[u] = slot'[v]
        PROVE  u = v
    <3>1. CASE u = t \/ v = t
      BY <1>12, <2>2, <2>3, <3>1
    <3>2. CASE u # t /\ v # t
      BY <1>12, <2>3, <3>2 DEF IInv, Releasing
    <3> QED BY <3>1, <3>2
  <2> QED BY <1>3, <2>1, <2>3 DEF Releasing
<1>15. Holding'
  BY <1>1, <1>12 DEF IInv, Holding, Deciding
<1>16. Window'
  <2>1. /\ IsFiniteSet(finished) /\ IsFiniteSet(frame_dropped)
        /\ completed = Cardinality(finished) + Cardinality(frame_dropped)
    BY DEF IInv, Window
  <2>2. /\ Cardinality(finished) \in Nat /\ Cardinality(frame_dropped) \in Nat
        /\ IsFiniteSet(finished \cup {f})
        /\ Cardinality(finished \cup {f}) = Cardinality(finished) + 1
    BY <1>9, <2>1, FS_CardinalityType, FS_AddElement
  <2> QED BY <1>1, <2>1, <2>2 DEF Window
<1>17. DropsLose'
  BY <1>1 DEF IInv, DropsLose
<1>18. TableInv' /\ FrameOnce'
  BY <1>1, SameTable
<1> QED BY <1>10, <1>11, <1>13, <1>14, <1>15, <1>16, <1>17, <1>18 DEF IInv

\* Nothing refers to a slot whose frame is finished.
LEMMA NothingLeft ==
  ASSUME IInv, NEW s \in Slots, frame_id[s] \in finished
  PROVE  /\ buffers[s] = {} /\ resolved[s] = {}
         /\ \A u \in Threads : \A x \in batch[u] : x[2] # s
         /\ \A u \in Threads : pc[u] \in Placing => slot[u] # s
<1>1. /\ StateTypeOK /\ Exclusive /\ <<"finished", 0>> \in Places
      /\ \A r \in Slots : <<"buffer", r>> \in Places /\ <<"resolved", r>> \in Places
      /\ \A u \in Threads : <<"batch", u>> \in Places /\ <<"hand", u>> \in Places
  BY DEF IInv, Places
<1>2. \A q \in Packets : FrameOf(q) = frame_id[s] => q \in Content[<<"finished", 0>>]
  BY ContentIs DEF ContentFacts
<1>3. \A l \in Places : \A q \in Packets :
        q \in Content[l] /\ FrameOf(q) = frame_id[s] => l = <<"finished", 0>>
  BY <1>1, <1>2 DEF Exclusive
<1>4. buffers[s] = {}
  <2>1. \A q \in buffers[s] : q \in Packets /\ FrameOf(q) = frame_id[s]
    BY <1>1 DEF StateTypeOK, IInv, InItsSlot
  <2>2. Content[<<"buffer", s>>] = buffers[s] /\ <<"buffer", s>> # <<"finished", 0>>
    BY ContentIs DEF ContentFacts
  <2> QED BY <1>1, <1>3, <2>1, <2>2
<1>5. resolved[s] = {}
  <2>1. \A q \in resolved[s] : q \in Packets /\ FrameOf(q) = frame_id[s]
    BY <1>1 DEF StateTypeOK, IInv, InItsSlot
  <2>2. Content[<<"resolved", s>>] = resolved[s] /\ <<"resolved", s>> # <<"finished", 0>>
    BY ContentIs DEF ContentFacts
  <2> QED BY <1>1, <1>3, <2>1, <2>2
<1>6. ASSUME NEW u \in Threads, NEW x \in batch[u] PROVE x[2] # s
  <2>1. x[1] \in Packets /\ frame_id[x[2]] = FrameOf(x[1])
    BY <1>1 DEF StateTypeOK, IInv, InItsSlot
  <2>2. Content[<<"batch", u>>] = {y[1] : y \in batch[u]} /\ <<"batch", u>> # <<"finished", 0>>
    BY ContentIs DEF ContentFacts
  <2>3. x[1] \in Content[<<"batch", u>>]
    BY <2>2
  <2> QED BY <1>1, <1>3, <2>1, <2>2, <2>3
<1>7. ASSUME NEW u \in Threads, pc[u] \in Placing PROVE slot[u] # s
  <2>1. frame_id[slot[u]] = FrameOf(Cur(u)) /\ hand[u] # <<>>
    BY <1>7 DEF IInv, InItsSlot, Holding, Placing, Deciding
  <2>2. Cur(u) \in Packets /\ Cur(u) \in Content[<<"hand", u>>]
    BY <2>1, CurFacts
  <2> QED BY <1>1, <1>3, <2>1, <2>2
<1> QED BY <1>4, <1>5, <1>6, <1>7

\* The slot of a finished frame is released; a promoted slot's buffer is drained.
LEMMA ReleaseStep ==
  ASSUME IInv, NEW t \in Threads, Release(t)
  PROVE  IInv'
<1> DEFINE s == slot[t]
<1>1. /\ pc[t] = "release" /\ pc' = [pc EXCEPT ![t] = "dispatch"]
      /\ slot' = [slot EXCEPT ![t] = 0]
      /\ UNCHANGED <<scenario, net, resolved, parked, run, hand, history, takeover>>
  BY DEF Release, Goto
<1>2. /\ StateTypeOK /\ Injective /\ Exclusive /\ Everywhere /\ TableInv /\ FrameOnce
      /\ DOMAIN pc = Threads /\ DOMAIN slot = Threads /\ DOMAIN batch = Threads
      /\ Sockets' = Sockets /\ Packets' = Packets /\ HandItems' = HandItems
      /\ <<"batch", t>> \in Places /\ \A r \in Slots : <<"buffer", r>> \in Places
  BY <1>1, ThreadFacts DEF IInv
<1>3. UNCHANGED <<wire, channel, handed_over, pending_frames, finished, lost, frame_dropped, completed>>
  BY <1>1 DEF net, parked, run, history
<1>4. s \in Slots /\ frame_id[s] \in finished /\ finished \in SUBSET Nat
  BY <1>1, <1>2 DEF StateTypeOK, IInv, Releasing
<1>5. Occupied(s)
  BY <1>2, <1>4, SlotFrames DEF NoFrame
<1>6. hand[t] = <<>> /\ batch[t] = {}
  BY <1>1 DEF IInv, Holding
<1>7. /\ buffers[s] = {} /\ resolved[s] = {}
      /\ \A u \in Threads : \A x \in batch[u] : x[2] # s
      /\ \A u \in Threads : pc[u] \in Placing => slot[u] # s
  BY <1>4, NothingLeft
<1>8. \A u \in Threads \ {t} : pc[u] = "release" => slot[u] # s
  BY <1>1 DEF IInv, Releasing
<1>9. \E next \in Slots \cup {NoFrame} :
        IF next = NoFrame THEN ReleaseOnly(s) /\ UNCHANGED <<buffers, batch>>
        ELSE /\ ReleaseAndPromote(s, next)
             /\ batch' = [batch EXCEPT ![t] = {<<p, next>> : p \in buffers[next]}]
             /\ buffers' = [buffers EXCEPT ![next] = {}]
  BY DEF Release, NoFrame, Slots
<1>10. PICK next \in Slots \cup {NoFrame} :
        IF next = NoFrame THEN ReleaseOnly(s) /\ UNCHANGED <<buffers, batch>>
        ELSE /\ ReleaseAndPromote(s, next)
             /\ batch' = [batch EXCEPT ![t] = {<<p, next>> : p \in buffers[next]}]
             /\ buffers' = [buffers EXCEPT ![next] = {}]
  BY <1>9
<1> HIDE DEF s
<1>11. /\ TableInv'
       /\ frame_id' = [frame_id EXCEPT ![s] = NoFrame]
       /\ next # s /\ \A r \in Slots : r \notin {s, next} => states'[r] = states[r]
  <2>1. NoFrame \notin Slots
    BY DEF NoFrame, Slots
  <2> QED BY <1>2, <1>4, <1>5, <1>10, <2>1, ReleaseGives
<1>12. frame_id \in [Slots -> Nat \cup {NoFrame}]
  BY <1>2 DEF TableInv, SlotTableTypeOK
<1>13. frame_id'[s] = NoFrame /\ \A r \in Slots : r # s => frame_id'[r] = frame_id[r]
  BY <1>4, <1>11, <1>12
<1>14. FrameOnce'
  BY <1>2, <1>13 DEF FrameOnce
<1>15. /\ pc'[t] = "dispatch" /\ slot'[t] = 0
       /\ \A u \in Threads \ {t} : pc'[u] = pc[u] /\ slot'[u] = slot[u]
  BY <1>1, <1>2
<1>16. /\ buffers \in [Slots -> SUBSET Packets] /\ batch \in [Threads -> SUBSET (Packets \X Slots)]
       /\ slot \in [Threads -> Slots] /\ resolved \in [Slots -> SUBSET Packets]
  BY <1>2 DEF StateTypeOK
<1>17. /\ \A u \in Threads \ {t} : batch'[u] = batch[u]
       /\ \A r \in Slots \ {next} : buffers'[r] = buffers[r]
       /\ next \in Slots => buffers'[next] = {}
       /\ batch'[t] = IF next \in Slots THEN {<<p, next>> : p \in buffers[next]} ELSE {}
       /\ buffers' \in [Slots -> SUBSET Packets] /\ batch' \in [Threads -> SUBSET (Packets \X Slots)]
  <2>1. CASE next = NoFrame
    <3>1. NoFrame \notin Slots
      BY DEF NoFrame, Slots
    <3> QED BY <1>6, <1>10, <1>16, <2>1, <3>1
  <2>2. CASE next \in Slots /\ next # NoFrame
    <3>1. {<<p, next>> : p \in buffers[next]} \in SUBSET (Packets \X Slots)
      BY <1>16, <2>2
    <3>2. batch' = [batch EXCEPT ![t] = {<<p, next>> : p \in buffers[next]}]
          /\ buffers' = [buffers EXCEPT ![next] = {}]
      BY <1>10, <2>2
    <3> QED BY <1>16, <2>2, <3>1, <3>2
  <2>3. NoFrame \notin Slots
    BY DEF NoFrame, Slots
  <2> QED BY <2>1, <2>2, <2>3
<1>18. StateTypeOK' /\ Injective'
  <2>1. 0 \in Slots
    BY DEF Slots
  <2>2. StateTypeOK'
    BY <1>1, <1>2, <1>3, <1>17, <2>1 DEF StateTypeOK, Labels, takeover
  <2>3. Injective'
    BY <1>1, <1>2, <1>3 DEF Injective
  <2> QED BY <2>2, <2>3
<1>19. Exclusive' /\ Everywhere'
  <2>1. TakeoverKeeps
    BY <1>1, <1>3, SameTakeover
  <2>2. CASE next \in Slots
    <3> DEFINE from == <<"buffer", next>>
               to == <<"batch", t>>
    <3>1. from \in Places /\ to \in Places /\ from # to
      BY <1>2, <2>2
    <3>2. Content[from] = buffers[next] /\ Content'[from] = buffers'[next]
          /\ Content[to] = {x[1] : x \in batch[t]} /\ Content'[to] = {x[1] : x \in batch'[t]}
      BY <2>2, ContentIs, ContentIsNext DEF ContentFacts
    <3>3. Content[to] = {}
      BY <1>6, <3>2
    <3>4. Content'[to] = buffers[next]
      <4>1. batch'[t] = {<<p, next>> : p \in buffers[next]}
        BY <1>17, <2>2
      <4>2. ASSUME NEW q \in Content'[to] PROVE q \in buffers[next]
        <5>1. PICK x \in batch'[t] : q = x[1]
          BY <3>2
        <5>2. PICK p \in buffers[next] : x = <<p, next>>
          BY <4>1, <5>1
        <5> QED BY <5>1, <5>2
      <4>3. ASSUME NEW q \in buffers[next] PROVE q \in Content'[to]
        <5>1. <<q, next>> \in batch'[t] /\ <<q, next>>[1] = q
          BY <4>1
        <5> QED BY <3>2, <5>1
      <4> QED BY <4>2, <4>3
    <3>5. Content'[from] = {}
      BY <1>17, <2>2, <3>2
    <3>6. \A l \in Places \ {from, to} : Content'[l] = Content[l]
      <4>1. \A u \in Threads : batch'[u] = batch[u] \/ <<"batch", u>> \in {from, to}
        BY <1>17
      <4>2. \A r \in Slots : buffers'[r] = buffers[r] \/ <<"buffer", r>> \in {from, to}
        BY <1>17
      <4> HIDE DEF from, to
      <4> QED BY <1>1, <1>3, <4>1, <4>2, ContentStays
    <3>7. /\ buffers[next] \subseteq Content[from]
          /\ Content'[from] = Content[from] \ buffers[next]
          /\ Content'[to] = Content[to] \cup buffers[next]
      BY <3>2, <3>3, <3>4, <3>5
    <3> HIDE DEF from, to
    <3> QED BY <1>1, <1>2, <2>1, <3>1, <3>6, <3>7, MovesTo
  <2>3. CASE next \notin Slots
    <3> DEFINE T == {}
    <3>1. /\ \A u \in Threads : batch'[u] = batch[u]
          /\ \A r \in Slots : buffers'[r] = buffers[r]
      BY <1>6, <1>17, <2>3
    <3> HIDE DEF T
    <3>2. \A m \in Places \ T : Content'[m] = Content[m]
      BY <1>1, <1>3, <3>1, ContentStays
    <3>3. \A m \in Places : Content'[m] = Content[m]
      BY <3>2 DEF T
    <3> QED BY <1>1, <1>2, <2>1, <3>3, MovesNothing
  <2> QED BY <2>2, <2>3
<1>20. InItsSlot'
  <2>1. ASSUME NEW u \in Threads, pc'[u] \in Placing PROVE frame_id'[slot'[u]] = FrameOf(Cur(u))
    <3>1. u # t /\ pc[u] \in Placing /\ slot'[u] = slot[u] /\ slot[u] \in Slots
      BY <1>15, <1>16, <2>1 DEF Placing
    <3>2. frame_id[slot[u]] = FrameOf(Cur(u))
      BY <3>1 DEF IInv, InItsSlot
    <3> QED BY <1>7, <1>13, <3>1, <3>2
  <2>2. ASSUME NEW r \in Slots, NEW q \in buffers'[r]
        PROVE  frame_id'[r] = FrameOf(q) /\ states'[r] # "Active"
    <3>1. r # next /\ q \in buffers[r] /\ r # s
      BY <1>7, <1>17, <2>2
    <3>2. frame_id[r] = FrameOf(q) /\ states[r] # "Active"
      BY <3>1 DEF IInv, InItsSlot
    <3> QED BY <1>11, <1>13, <3>1, <3>2
  <2>3. ASSUME NEW u \in Threads, NEW x \in batch'[u] PROVE frame_id'[x[2]] = FrameOf(x[1])
    <3>1. CASE u # t
      <4>1. x \in batch[u] /\ x[2] # s /\ x[2] \in Slots
        BY <1>7, <1>16, <1>17, <2>3, <3>1
      <4>2. frame_id[x[2]] = FrameOf(x[1])
        BY <4>1 DEF IInv, InItsSlot
      <4> QED BY <1>13, <4>1, <4>2
    <3>2. CASE u = t
      <4>1. PICK q \in buffers[next] : next \in Slots /\ x = <<q, next>>
        BY <1>17, <2>3, <3>2
      <4>2. frame_id[next] = FrameOf(q)
        BY <4>1 DEF IInv, InItsSlot
      <4> QED BY <1>11, <1>13, <4>1, <4>2
    <3> QED BY <3>1, <3>2
  <2>4. ASSUME NEW r \in Slots, NEW q \in resolved[r] PROVE frame_id'[r] = FrameOf(q)
    <3>1. frame_id[r] = FrameOf(q) /\ r # s
      BY <1>7 DEF IInv, InItsSlot
    <3> QED BY <1>13, <3>1
  <2> QED BY <1>1, <2>1, <2>2, <2>3, <2>4 DEF InItsSlot, Cur, FrameOf
<1>21. Releasing'
  <2>1. ASSUME NEW u \in Threads, pc'[u] = "release"
        PROVE  pc[u] = "release" /\ slot'[u] = slot[u] /\ frame_id'[slot'[u]] \in finished'
    <3>1. u # t /\ pc[u] = "release" /\ slot'[u] = slot[u] /\ slot[u] \in Slots
      BY <1>15, <1>16, <2>1
    <3>2. frame_id[slot[u]] \in finished
      BY <3>1 DEF IInv, Releasing
    <3> QED BY <1>3, <1>8, <1>13, <3>1, <3>2
  <2> QED BY <2>1 DEF IInv, Releasing
<1>22. Holding'
  <2>1. ASSUME NEW u \in Threads
        PROVE  /\ pc'[u] \in {"idle", "release", "dispatch"} => hand'[u] = <<>>
               /\ pc'[u] \in {"idle", "release", "reinject"} => batch'[u] = {}
               /\ pc'[u] \in Deciding => hand'[u] # <<>>
    <3>1. CASE u = t
      BY <1>1, <1>6, <1>15, <3>1 DEF Deciding
    <3>2. CASE u # t
      BY <1>1, <1>15, <1>17, <3>2 DEF IInv, Holding
    <3> QED BY <3>1, <3>2
  <2> QED BY <2>1 DEF Holding
<1>23. DropsLose' /\ Window'
  BY <1>3, SameCount
<1> QED BY <1>11, <1>14, <1>18, <1>19, <1>20, <1>21, <1>22, <1>23 DEF IInv

-----------------------------------------------------------------------------
(* The invariant *)

LEMMA InitInv ==
  ASSUME Init
  PROVE  IInv
<1>1. /\ scenario \in Scenarios /\ wire = scenario.stream /\ channel = <<>>
      /\ buffers = [s \in Slots |-> {}] /\ resolved = [s \in Slots |-> {}]
      /\ pending_frames = {} /\ frame_dropped = {} /\ completed = 0
      /\ pc = [t \in Threads |-> IF t \in scenario.threads THEN "idle" ELSE "absent"]
      /\ hand = [t \in Threads |-> <<>>]
      /\ slot = [t \in Threads |-> 0] /\ batch = [t \in Threads |-> {}]
      /\ finished = {} /\ lost = {} /\ b_base = -1
  BY DEF Init
<1>2. IsStream(scenario)
  BY <1>1, ScenarioFacts
<1>3. \A k \in Sockets : scenario.stream[k] \in Seq(Packets)
  BY <1>2 DEF IsStream, Packets, FramePackets, Sockets
<1>4. /\ \A k, l \in Sockets : \A i \in DOMAIN scenario.stream[k], j \in DOMAIN scenario.stream[l] :
           scenario.stream[k][i] = scenario.stream[l][j] => k = l /\ i = j
  BY <1>2 DEF IsStream, Sockets
<1>5. StateTypeOK
  <2>1. wire \in [Sockets -> Seq(Packets)]
    <3>1. scenario.stream \in [Sockets -> Seq(Packets)]
      BY <1>2 DEF IsStream, Packets, FramePackets, Sockets
    <3> QED BY <1>1, <3>1
  <2>2. channel \in Seq(Packets) /\ hand \in [Threads -> Seq(HandItems)] /\ 0 \in Slots
    BY <1>1 DEF Slots
  <2> QED BY <1>1, <2>1, <2>2 DEF StateTypeOK, Labels
<1>6. TableInv /\ FrameOnce
  BY DEF Init, SlotTableInit, FrameOnce, TableInv, SlotTableTypeOK, TableConsistent, CacheCoherent,
         Occupied, ActiveSlots, SlotState, Slots
<1>7. Injective
  <2>1. \A k \in Sockets : IsInjective(wire[k])
    BY <1>1, <1>4 DEF IsInjective
  <2> QED BY <1>1, <2>1 DEF Injective, IsInjective
<1>8. /\ \A k \in Sockets : Content[<<"wire", k>>] = Range(scenario.stream[k])
      /\ \A l \in Places : Content[l] # {} => \E k \in Sockets : l = <<"wire", k>>
  <2>1. \A k \in Sockets : Content[<<"wire", k>>] = Range(scenario.stream[k])
    BY <1>1, ContentIs DEF ContentFacts
  <2>2. \A t \in Threads : Content[<<"hand", t>>] = {} /\ Content[<<"batch", t>>] = {}
    BY <1>1, ContentIs DEF ContentFacts
  <2>3. \A s \in Slots : Content[<<"buffer", s>>] = {} /\ Content[<<"resolved", s>>] = {}
    BY <1>1, ContentIs DEF ContentFacts
  <2>4. Content[<<"channel", 0>>] = {}
    BY <1>1, ContentIs DEF ContentFacts, Range
  <2>5. Content[<<"parked", 0>>] = {} /\ Content[<<"finished", 0>>] = {} /\ Content[<<"lost", 0>>] = {}
    BY <1>1, ContentIs DEF ContentFacts
  <2>6. ASSUME NEW l \in Places, Content[l] # {} PROVE \E k \in Sockets : l = <<"wire", k>>
    BY <2>2, <2>3, <2>4, <2>5, <2>6, PlaceKinds
  <2> QED BY <2>1, <2>6
<1>9. Exclusive
  <2>1. ASSUME NEW l \in Places, NEW m \in Places, NEW p \in Content[l], p \in Content[m]
        PROVE  l = m
    <3>1. PICK k \in Sockets : l = <<"wire", k>>
      BY <1>8
    <3>2. PICK j \in Sockets : m = <<"wire", j>>
      BY <1>8, <2>1
    <3>3. p \in Range(scenario.stream[k]) /\ p \in Range(scenario.stream[j])
      BY <1>8, <2>1, <3>1, <3>2
    <3>4. k = j
      BY <1>4, <3>3 DEF Range
    <3> QED BY <3>1, <3>2, <3>4
  <2> QED BY <2>1 DEF Exclusive
<1>10. Everywhere
  <2>1. ASSUME NEW p \in Streamed PROVE \E l \in Places : p \in Content[l]
    <3>1. PICK k \in Sockets : p \in Range(scenario.stream[k])
      BY DEF Streamed
    <3>2. <<"wire", k>> \in Places
      BY DEF Places
    <3> QED BY <1>8, <3>1, <3>2
  <2> QED BY <2>1 DEF Everywhere
<1>11. InItsSlot /\ Releasing /\ Holding /\ DropsLose
  BY <1>1 DEF InItsSlot, Releasing, Holding, DropsLose, Placing, Deciding
<1>12. Window
  BY <1>1, FS_EmptySet DEF Window
<1> QED BY <1>5, <1>6, <1>7, <1>9, <1>10, <1>11, <1>12 DEF IInv

LEMMA NextInv ==
  ASSUME IInv, [Next]_vars
  PROVE  IInv'
<1>1. ASSUME NEW t \in Threads, Poll(t) \/ Admission(t) \/ \E s \in Slots : CompleteFrame(t, s)
      PROVE  IInv'
  <2>1. CASE Admission(t)
    BY <2>1, ReinjectStep, PacketStep, AssignStep, CountPacketStep, RouteStep, RouteToBufferStep,
       CheckCompletionStep, FlushStep, ParkTestStep, ParkStep, ReleaseStep DEF Admission
  <2> QED BY <1>1, <2>1, PollStep, CompleteStep
<1>2. CASE \E sock \in Sockets : Receive(sock) \/ FreezeAck(sock) \/ TakeoverRead(sock)
  BY <1>2, ReceiveStep, TakeoverStep, OtherNetStep
<1>3. CASE Connect \/ send_fds \/ MainPoll \/ Done \/ UNCHANGED vars
  BY <1>3, OtherNetStep DEF Done
<1> QED BY <1>1, <1>2, <1>3 DEF Next

LEMMA InvHolds == Spec => []IInv
BY InitInv, NextInv, PTL DEF Spec

-----------------------------------------------------------------------------
(* What the invariant gives *)

\* No packet waits in the buffer of a slot that was promoted: route_to_buffer looks
\* at active_bitmap again under the lock that a promotion needs.
THEOREM BuffersAreDrained == Spec => []NotStranded
<1>1. IInv => NotStranded
  BY DEF IInv, InItsSlot, NotStranded
<1> QED BY <1>1, InvHolds, PTL

\* The admission window moves once for every frame that completed or was dropped,
\* and no frame is both: mark_frame_dropped and the completion never count the same.
THEOREM WindowIsExact == Spec => []WindowCountsFrames
<1>1. ASSUME IInv PROVE WindowCountsFrames
  <2>1. ASSUME NEW f \in finished, f \in frame_dropped PROVE FALSE
    <3>1. PICK p \in lost : FrameOf(p) = f
      BY <1>1, <2>1 DEF IInv, DropsLose
    <3>2. p \in Packets
      BY <1>1 DEF IInv, StateTypeOK
    <3>3. p \in Content[<<"lost", 0>>] /\ p \in Content[<<"finished", 0>>]
      BY <3>1, <3>2, ContentIs DEF ContentFacts
    <3>4. <<"lost", 0>> \in Places /\ <<"finished", 0>> \in Places
      BY DEF Places
    <3> QED BY <1>1, <3>3, <3>4 DEF IInv, Exclusive
  <2> QED BY <1>1, <2>1 DEF IInv, Window, WindowCountsFrames
<1> QED BY <1>1, InvHolds, PTL

\* How often a packet is counted in the places of one kind.
Counted(p, kind, I) == Cardinality({i \in I : p \in Content[<<kind, i>>]})

LEMMA CountedAtMostOnce ==
  ASSUME Exclusive, NEW p, NEW kind, NEW I, \A i \in I : <<kind, i>> \in Places
  PROVE  Counted(p, kind, I) = IF \E i \in I : p \in Content[<<kind, i>>] THEN 1 ELSE 0
<1> DEFINE S == {i \in I : p \in Content[<<kind, i>>]}
<1>1. \A i, j \in S : i = j
  <2>1. ASSUME NEW i \in S, NEW j \in S PROVE i = j
    <3>1. <<kind, i>> = <<kind, j>>
      BY DEF Exclusive
    <3> QED BY <3>1
  <2> QED BY <2>1
<1>2. S = {} <=> ~ \E i \in I : p \in Content[<<kind, i>>]
  OBVIOUS
<1> HIDE DEF S
<1>3. Cardinality(S) = IF S = {} THEN 0 ELSE 1
  BY <1>1, CountAtMostOne
<1> QED BY <1>2, <1>3 DEF Counted, S

\* Held counts the places outside the wires that have the packet.
LEMMA HeldCounts ==
  ASSUME IInv, NEW p \in Streamed
  PROVE  Held(p) = IF \E l \in Places : p \in Content[l] /\ l[1] # "wire" THEN 1 ELSE 0
<1> DEFINE has(l) == p \in Content[l]
           b(P) == IF P THEN 1 ELSE 0
<1>1. /\ StateTypeOK /\ Exclusive /\ p \in Packets
      /\ \A t \in Threads : <<"hand", t>> \in Places /\ <<"batch", t>> \in Places
      /\ \A s \in Slots : <<"buffer", s>> \in Places /\ <<"resolved", s>> \in Places
      /\ <<"channel", 0>> \in Places /\ <<"parked", 0>> \in Places
      /\ <<"finished", 0>> \in Places /\ <<"lost", 0>> \in Places
  BY StreamedPackets DEF IInv, Places, StateTypeOK
<1>2. /\ p \in Range(channel) <=> has(<<"channel", 0>>)
      /\ p \in pending_frames <=> has(<<"parked", 0>>)
      /\ FrameOf(p) \in finished <=> has(<<"finished", 0>>)
      /\ p \in lost <=> has(<<"lost", 0>>)
  BY <1>1, ContentIs DEF ContentFacts
<1>3. {t \in Threads : \E i \in DOMAIN hand[t] : hand[t][i].p = p} = {t \in Threads : has(<<"hand", t>>)}
  <2>1. ASSUME NEW t \in Threads
        PROVE  (\E i \in DOMAIN hand[t] : hand[t][i].p = p) <=> has(<<"hand", t>>)
    <3>1. Content[<<"hand", t>>] = {hand[t][i].p : i \in DOMAIN hand[t]}
      BY ContentIs DEF ContentFacts
    <3> QED BY <3>1
  <2> QED BY <2>1
<1>4. {t \in Threads : \E s \in Slots : <<p, s>> \in batch[t]} = {t \in Threads : has(<<"batch", t>>)}
  <2>1. ASSUME NEW t \in Threads
        PROVE  (\E s \in Slots : <<p, s>> \in batch[t]) <=> has(<<"batch", t>>)
    <3>1. Content[<<"batch", t>>] = {x[1] : x \in batch[t]}
      BY ContentIs DEF ContentFacts
    <3>2. \A x \in batch[t] : x = <<x[1], x[2]>> /\ x[2] \in Slots
      BY <1>1 DEF StateTypeOK
    <3>3. ASSUME NEW s \in Slots, <<p, s>> \in batch[t] PROVE p \in {x[1] : x \in batch[t]}
      <4>1. <<p, s>>[1] = p
        OBVIOUS
      <4> QED BY <3>3, <4>1
    <3>4. ASSUME p \in {x[1] : x \in batch[t]} PROVE \E s \in Slots : <<p, s>> \in batch[t]
      <4>1. PICK x \in batch[t] : p = x[1]
        BY <3>4
      <4> QED BY <3>2, <4>1
    <3> QED BY <3>1, <3>3, <3>4
  <2> QED BY <2>1
<1>5. /\ {s \in Slots : p \in buffers[s]} = {s \in Slots : has(<<"buffer", s>>)}
      /\ {s \in Slots : p \in resolved[s]} = {s \in Slots : has(<<"resolved", s>>)}
  BY ContentIs DEF ContentFacts
<1> DEFINE H == \E t \in Threads : has(<<"hand", t>>)
           B == \E t \in Threads : has(<<"batch", t>>)
           F == \E s \in Slots : has(<<"buffer", s>>)
           R == \E s \in Slots : has(<<"resolved", s>>)
<1>6. /\ Counted(p, "hand", Threads) = b(H) /\ Counted(p, "batch", Threads) = b(B)
      /\ Counted(p, "buffer", Slots) = b(F) /\ Counted(p, "resolved", Slots) = b(R)
  BY <1>1, CountedAtMostOnce
<1>7. Held(p) = b(has(<<"channel", 0>>)) + b(H) + b(has(<<"parked", 0>>)) + b(F) + b(B) + b(R)
                  + b(has(<<"finished", 0>>)) + b(has(<<"lost", 0>>))
  <2>1. /\ Cardinality({t \in Threads : \E i \in DOMAIN hand[t] : hand[t][i].p = p}) = b(H)
        /\ Cardinality({t \in Threads : \E s \in Slots : <<p, s>> \in batch[t]}) = b(B)
        /\ Cardinality({s \in Slots : p \in buffers[s]}) = b(F)
        /\ Cardinality({s \in Slots : p \in resolved[s]}) = b(R)
    BY <1>3, <1>4, <1>5, <1>6 DEF Counted
  <2> HIDE DEF H, B, F, R, has
  <2> QED BY <1>2, <2>1 DEF Held
<1>8. (\E l \in Places : has(l) /\ l[1] # "wire")
        <=> (has(<<"channel", 0>>) \/ H \/ has(<<"parked", 0>>) \/ F \/ B \/ R
               \/ has(<<"finished", 0>>) \/ has(<<"lost", 0>>))
  <2>1. ASSUME NEW l \in Places, has(l), l[1] # "wire"
        PROVE  has(<<"channel", 0>>) \/ H \/ has(<<"parked", 0>>) \/ F \/ B \/ R
                 \/ has(<<"finished", 0>>) \/ has(<<"lost", 0>>)
    BY <2>1, PlaceKinds
  <2>2. ASSUME has(<<"channel", 0>>) \/ H \/ has(<<"parked", 0>>) \/ F \/ B \/ R
                 \/ has(<<"finished", 0>>) \/ has(<<"lost", 0>>)
        PROVE  \E l \in Places : has(l) /\ l[1] # "wire"
    <3>1. \A k, i : <<k, i>>[1] = k
      OBVIOUS
    <3> QED BY <1>1, <2>2, <3>1
  <2> QED BY <2>1, <2>2
<1>9. \A l, m \in Places : has(l) /\ has(m) => l = m
  BY <1>1 DEF Exclusive
<1>10. CASE ~ \E l \in Places : has(l) /\ l[1] # "wire"
  <2> HIDE DEF H, B, F, R, has
  <2>1. /\ ~has(<<"channel", 0>>) /\ ~H /\ ~has(<<"parked", 0>>) /\ ~F /\ ~B /\ ~R
        /\ ~has(<<"finished", 0>>) /\ ~has(<<"lost", 0>>)
    BY <1>8, <1>10
  <2>2. Held(p) = 0
    BY <1>7, <2>1
  <2> QED BY <1>10, <2>2 DEF has
<1>11. CASE \E l \in Places : has(l) /\ l[1] # "wire"
  <2>1. PICK l \in Places : has(l) /\ l[1] # "wire"
    BY <1>11
  <2>2. \A m \in Places : has(m) => m = l
    BY <1>9, <2>1
  <2>3. /\ has(<<"channel", 0>>) <=> l = <<"channel", 0>>
        /\ has(<<"parked", 0>>) <=> l = <<"parked", 0>>
        /\ has(<<"finished", 0>>) <=> l = <<"finished", 0>>
        /\ has(<<"lost", 0>>) <=> l = <<"lost", 0>>
    BY <1>1, <2>1, <2>2
  <2>4. (H <=> \E t \in Threads : l = <<"hand", t>>) /\ (B <=> \E t \in Threads : l = <<"batch", t>>)
    BY <1>1, <2>1, <2>2
  <2>5. (F <=> \E s \in Slots : l = <<"buffer", s>>) /\ (R <=> \E s \in Slots : l = <<"resolved", s>>)
    BY <1>1, <2>1, <2>2
  <2> HIDE DEF H, B, F, R, has
  <2>6. CASE l = <<"channel", 0>>
    <3>1. /\ has(<<"channel", 0>>) /\ ~H /\ ~has(<<"parked", 0>>) /\ ~F /\ ~B /\ ~R
          /\ ~has(<<"finished", 0>>) /\ ~has(<<"lost", 0>>)
      BY <2>3, <2>4, <2>5, <2>6
    <3> QED BY <1>7, <1>11, <3>1 DEF has
  <2>7. CASE l = <<"parked", 0>>
    <3>1. /\ ~has(<<"channel", 0>>) /\ ~H /\ has(<<"parked", 0>>) /\ ~F /\ ~B /\ ~R
          /\ ~has(<<"finished", 0>>) /\ ~has(<<"lost", 0>>)
      BY <2>3, <2>4, <2>5, <2>7
    <3> QED BY <1>7, <1>11, <3>1 DEF has
  <2>8. CASE l = <<"finished", 0>>
    <3>1. /\ ~has(<<"channel", 0>>) /\ ~H /\ ~has(<<"parked", 0>>) /\ ~F /\ ~B /\ ~R
          /\ has(<<"finished", 0>>) /\ ~has(<<"lost", 0>>)
      BY <2>3, <2>4, <2>5, <2>8
    <3> QED BY <1>7, <1>11, <3>1 DEF has
  <2>9. CASE l = <<"lost", 0>>
    <3>1. /\ ~has(<<"channel", 0>>) /\ ~H /\ ~has(<<"parked", 0>>) /\ ~F /\ ~B /\ ~R
          /\ ~has(<<"finished", 0>>) /\ has(<<"lost", 0>>)
      BY <2>3, <2>4, <2>5, <2>9
    <3> QED BY <1>7, <1>11, <3>1 DEF has
  <2>10. CASE \E t \in Threads : l = <<"hand", t>>
    <3>1. /\ ~has(<<"channel", 0>>) /\ H /\ ~has(<<"parked", 0>>) /\ ~F /\ ~B /\ ~R
          /\ ~has(<<"finished", 0>>) /\ ~has(<<"lost", 0>>)
      BY <2>3, <2>4, <2>5, <2>10
    <3> QED BY <1>7, <1>11, <3>1 DEF has
  <2>11. CASE \E t \in Threads : l = <<"batch", t>>
    <3>1. /\ ~has(<<"channel", 0>>) /\ ~H /\ ~has(<<"parked", 0>>) /\ ~F /\ B /\ ~R
          /\ ~has(<<"finished", 0>>) /\ ~has(<<"lost", 0>>)
      BY <2>3, <2>4, <2>5, <2>11
    <3> QED BY <1>7, <1>11, <3>1 DEF has
  <2>12. CASE \E s \in Slots : l = <<"buffer", s>>
    <3>1. /\ ~has(<<"channel", 0>>) /\ ~H /\ ~has(<<"parked", 0>>) /\ F /\ ~B /\ ~R
          /\ ~has(<<"finished", 0>>) /\ ~has(<<"lost", 0>>)
      BY <2>3, <2>4, <2>5, <2>12
    <3> QED BY <1>7, <1>11, <3>1 DEF has
  <2>13. CASE \E s \in Slots : l = <<"resolved", s>>
    <3>1. /\ ~has(<<"channel", 0>>) /\ ~H /\ ~has(<<"parked", 0>>) /\ ~F /\ ~B /\ R
          /\ ~has(<<"finished", 0>>) /\ ~has(<<"lost", 0>>)
      BY <2>3, <2>4, <2>5, <2>13
    <3> QED BY <1>7, <1>11, <3>1 DEF has
  <2>14. \A k \in Sockets : l # <<"wire", k>>
    BY <2>1
  <2> QED BY <2>6, <2>7, <2>8, <2>9, <2>10, <2>11, <2>12, <2>13, <2>14, PlaceKinds
<1> QED BY <1>10, <1>11

\* No packet is lost or duplicated on its way: the one that was read is in one
\* place, resolved with its frame or gone with it, or the replacement has it.
THEOREM PacketsAreConserved == Spec => []PacketConserved
<1>1. ASSUME IInv PROVE PacketConserved
  <2>1. SUFFICES ASSUME NEW p \in Streamed
                 PROVE  IF p \in Unread THEN Held(p) = 0
                        ELSE Held(p) = 1 \/ (Held(p) = 0 /\ TakenOver(p))
    BY DEF PacketConserved, Streamed
  <2>2. Held(p) = IF \E l \in Places : p \in Content[l] /\ l[1] # "wire" THEN 1 ELSE 0
    BY <1>1, HeldCounts
  <2>3. Exclusive /\ Everywhere
    BY <1>1 DEF IInv
  <2>4. CASE p \in Unread
    <3>1. PICK k \in Sockets : p \in Range(wire[k])
      BY <2>4 DEF Unread
    <3>2. p \in Content[<<"wire", k>>] /\ <<"wire", k>> \in Places
      BY <3>1, ContentIs DEF ContentFacts, Places
    <3>3. \A l \in Places : p \in Content[l] => l = <<"wire", k>>
      BY <2>3, <3>2 DEF Exclusive
    <3> QED BY <2>2, <2>4, <3>3
  <2>5. CASE p \notin Unread
    <3>1. \A k \in Sockets : p \notin Content[<<"wire", k>>]
      BY <2>5, ContentIs DEF ContentFacts, Unread
    <3>2. ASSUME NEW l \in Places, p \in Content[l] PROVE l[1] # "wire"
      BY <3>1, <3>2, PlaceKinds
    <3> QED BY <2>2, <2>3, <2>5, <3>2 DEF Everywhere
  <2> QED BY <2>4, <2>5
<1> QED BY <1>1, InvHolds, PTL

-----------------------------------------------------------------------------
(* The hand-over *)

InFrameOrder(q) == \A i, j \in DOMAIN q : i < j => FrameOf(q[i]) <= FrameOf(q[j])

\* What each socket has given up is older than what it still has.
ReadBefore(k) ==
  \A p \in Range(scenario.stream[k]) \ Range(wire[k]) : \A q \in Range(wire[k]) :
    FrameOf(p) <= FrameOf(q)

\* Nobody but the replacement reads after a clean hand-over, and it misses none of
\* the frames it numbers.
Joined ==
  Cardinality(Sockets) = 1 /\ handed_over /\ ~timed_out /\ b_base # -1 =>
    \A p \in Streamed : FrameOf(p) >= b_base => p \in Unread \cup b_got

TakeoverInv ==
  /\ handed_over => listener = "sent"
  /\ listener # "listen" => scenario.handover
  /\ b_base # -1 => handed_over
  /\ handed_over /\ ~timed_out => frozen = Sockets
  /\ scenario.handover => \A k \in Sockets : InFrameOrder(wire[k]) /\ ReadBefore(k)
  /\ Joined

\* Reading from a socket keeps the order.
LEMMA ReadInOrder ==
  ASSUME IInv, TakeoverInv, UNCHANGED scenario, scenario.handover,
         NEW sock \in Sockets, wire[sock] # <<>>, wire' = [wire EXCEPT ![sock] = Tail(@)]
  PROVE  /\ \A k \in Sockets : InFrameOrder(wire'[k]) /\ ReadBefore(k)'
         /\ \A k \in Sockets \ {sock} : wire'[k] = wire[k]
         /\ Head(wire[sock]) \in Packets /\ Head(wire[sock]) \in Range(wire[sock])
         /\ Range(wire'[sock]) = Range(wire[sock]) \ {Head(wire[sock])}
<1> DEFINE q == wire[sock]
           p == Head(q)
<1>1. /\ wire \in [Sockets -> Seq(Packets)] /\ q \in Seq(Packets) /\ q # <<>> /\ IsInjective(q)
      /\ InFrameOrder(q) /\ ReadBefore(sock)
      /\ \A k \in Sockets : InFrameOrder(wire[k]) /\ ReadBefore(k)
  BY DEF IInv, StateTypeOK, Injective, TakeoverInv
<1>2. /\ wire'[sock] = Tail(q) /\ \A k \in Sockets \ {sock} : wire'[k] = wire[k]
      /\ scenario'.stream = scenario.stream
  BY <1>1
<1>3. \A x \in Packets : FrameOf(x) \in Nat
  BY ScenarioFacts DEF IInv, StateTypeOK
<1> HIDE DEF q
<1>4. /\ Len(q) \in Nat \ {0} /\ DOMAIN q = 1 .. Len(q) /\ p = q[1]
      /\ DOMAIN Tail(q) = 1 .. Len(q) - 1
      /\ \A i \in 1 .. Len(q) - 1 : Tail(q)[i] = q[i + 1]
      /\ \A i \in 1 .. Len(q) : q[i] \in Packets
  BY <1>1
<1>5. Range(Tail(q)) = Range(q) \ {p} /\ p \in Packets /\ p \in Range(q)
  BY <1>1, ReceiveInjective
<1>6. InFrameOrder(Tail(q))
  BY <1>1, <1>4 DEF InFrameOrder
<1>7. \A x \in Range(q) : FrameOf(p) <= FrameOf(x)
  <2>1. ASSUME NEW i \in 1 .. Len(q) PROVE FrameOf(q[1]) <= FrameOf(q[i])
    <3>1. 1 \in DOMAIN q /\ i \in DOMAIN q /\ FrameOf(q[1]) \in Nat
      BY <1>3, <1>4
    <3>2. CASE i = 1
      BY <3>1, <3>2
    <3>3. CASE i # 1
      <4>1. 1 < i
        BY <3>3
      <4> QED BY <1>1, <3>1, <4>1 DEF InFrameOrder
    <3> QED BY <3>2, <3>3
  <2> QED BY <1>4, <2>1 DEF Range
<1> HIDE DEF p
<1>8. ASSUME NEW x \in Range(scenario.stream[sock]) \ Range(Tail(q)), NEW y \in Range(Tail(q))
      PROVE  FrameOf(x) <= FrameOf(y)
  <2>1. y \in Range(q) /\ (x \notin Range(q) \/ x = p)
    BY <1>5
  <2> QED BY <1>1, <1>7, <2>1 DEF ReadBefore, q
<1>9. ReadBefore(sock)'
  BY <1>2, <1>8 DEF ReadBefore, FrameOf
<1>10. \A k \in Sockets \ {sock} : ReadBefore(k)'
  BY <1>1, <1>2 DEF ReadBefore, FrameOf
<1>11. \A k \in Sockets : InFrameOrder(wire'[k])
  BY <1>1, <1>2, <1>6
<1> QED BY <1>2, <1>5, <1>9, <1>10, <1>11 DEF p, q

\* Nothing of the hand-over moves.
LEMMA NoTakeover ==
  ASSUME TakeoverInv, UNCHANGED <<scenario, wire, handed_over, listener, timed_out, frozen, takeover>>
  PROVE  TakeoverInv'
<1>1. Sockets' = Sockets /\ Streamed' = Streamed
  BY ScenarioStays
<1>2. Unread' = Unread
  BY <1>1 DEF Unread
<1>3. Joined'
  BY <1>1, <1>2 DEF TakeoverInv, Joined, takeover, FrameOf
<1>4. scenario.handover => \A k \in Sockets : InFrameOrder(wire[k])' /\ ReadBefore(k)'
  BY DEF TakeoverInv, InFrameOrder, ReadBefore, FrameOf
<1> QED BY <1>1, <1>3, <1>4 DEF TakeoverInv, takeover

LEMMA TakeoverNext ==
  ASSUME IInv, TakeoverInv, [Next]_vars
  PROVE  TakeoverInv'
<1>1. ASSUME NEW t \in Threads, Poll(t) \/ Admission(t) \/ \E s \in Slots : CompleteFrame(t, s)
      PROVE  TakeoverInv'
  <2>1. CASE Poll(t)
    BY <2>1, NoTakeover DEF Poll
  <2>2. CASE Admission(t)
    <3>1. UNCHANGED <<scenario, net, takeover>>
      BY <2>2 DEF Admission, reinject_pending_frames, Packet, Assign, CountPacket, Route,
                  route_to_buffer, check_frame_completion, flush_active_batch, ParkTest, Park,
                  Release
    <3> QED BY <3>1, NoTakeover DEF net
  <2>3. CASE \E s \in Slots : CompleteFrame(t, s)
    BY <2>3, NoTakeover DEF CompleteFrame, net
  <2> QED BY <1>1, <2>1, <2>2, <2>3
<1>2. ASSUME NEW sock \in Sockets, Receive(sock) PROVE TakeoverInv'
  <2>1. /\ UNCHANGED <<scenario, frozen, handed_over, listener, timed_out, takeover>>
        /\ sock \notin frozen /\ wire[sock] # <<>> /\ wire' = [wire EXCEPT ![sock] = Tail(@)]
    BY <1>2 DEF Receive
  <2>2. Sockets' = Sockets
    BY <2>1, ScenarioStays
  <2>3. ~(handed_over /\ ~timed_out)
    BY <2>1 DEF TakeoverInv
  <2>4. Joined'
    BY <2>1, <2>3 DEF Joined
  <2>5. scenario.handover => \A k \in Sockets : InFrameOrder(wire'[k]) /\ ReadBefore(k)'
    BY <2>1, ReadInOrder
  <2> QED BY <2>1, <2>2, <2>4, <2>5 DEF TakeoverInv, takeover, InFrameOrder, FrameOf
<1>3. ASSUME NEW sock \in Sockets, FreezeAck(sock) PROVE TakeoverInv'
  <2>1. /\ UNCHANGED <<scenario, wire, handed_over, listener, timed_out, takeover>>
        /\ sock \notin frozen
    BY <1>3 DEF FreezeAck
  <2>2. ~(handed_over /\ ~timed_out)
    BY <2>1 DEF TakeoverInv
  <2>3. Joined'
    BY <2>1, <2>2 DEF Joined
  <2>4. scenario.handover => \A k \in Sockets : InFrameOrder(wire[k])' /\ ReadBefore(k)'
    BY <2>1 DEF TakeoverInv, InFrameOrder, ReadBefore, FrameOf
  <2>5. Sockets' = Sockets
    BY <2>1, ScenarioStays
  <2> QED BY <2>1, <2>2, <2>3, <2>4, <2>5 DEF TakeoverInv, takeover
<1>4. ASSUME NEW sock \in Sockets, TakeoverRead(sock) PROVE TakeoverInv'
  <2> DEFINE p == Head(wire[sock])
  <2>1. /\ UNCHANGED <<scenario, frozen, handed_over, listener, timed_out>> /\ handed_over
        /\ wire[sock] # <<>> /\ wire' = [wire EXCEPT ![sock] = Tail(@)]
        /\ b_base' = (IF b_base = -1 THEN FrameOf(p) + 1 ELSE b_base)
        /\ b_got' = (IF FrameOf(p) >= b_base' THEN b_got \cup {p} ELSE b_got)
    BY <1>4 DEF TakeoverRead, rebase_frame_id
  <2>2. scenario.handover
    BY <2>1 DEF TakeoverInv
  <2>3. /\ \A k \in Sockets : InFrameOrder(wire'[k]) /\ ReadBefore(k)'
        /\ \A k \in Sockets \ {sock} : wire'[k] = wire[k]
        /\ p \in Packets /\ p \in Range(wire[sock])
        /\ Range(wire'[sock]) = Range(wire[sock]) \ {p}
    BY <2>1, <2>2, ReadInOrder
  <2> HIDE DEF p
  <2>4. Sockets' = Sockets /\ Streamed' = Streamed
    BY <2>1, ScenarioStays
  <2>5. FrameOf(p) \in Nat /\ b_base \in Nat \cup {-1}
    BY <2>3, ScenarioFacts DEF IInv, StateTypeOK
  <2>6. \A q \in Unread : q = p \/ q \in Unread'
    <3>1. ASSUME NEW q \in Unread, q # p PROVE q \in Unread'
      <4>1. PICK k \in Sockets : q \in Range(wire[k])
        BY DEF Unread
      <4>2. q \in Range(wire'[k])
        BY <2>3, <3>1, <4>1
      <4> QED BY <2>4, <4>1, <4>2 DEF Unread
    <3> QED BY <3>1
  <2>7. Joined'
    <3>1. SUFFICES ASSUME Cardinality(Sockets) = 1, ~timed_out,
                          NEW q \in Streamed, FrameOf(q) >= b_base'
                   PROVE  q \in Unread' \cup b_got'
      BY <2>1, <2>4 DEF Joined, FrameOf
    <3>2. q \in Packets /\ FrameOf(q) \in Nat
      BY StreamedPackets DEF IInv, StateTypeOK
    <3>3. CASE b_base = -1
      <4>1. PICK k \in Sockets : q \in Range(scenario.stream[k])
        BY DEF Streamed
      <4>2. IsFiniteSet(Sockets)
        BY ScenarioFacts DEF IInv, StateTypeOK, IsStream, Sockets
      <4>3. k = sock
        BY <3>1, <4>2, FS_Singleton
      <4>4. FrameOf(q) > FrameOf(p)
        BY <2>1, <2>5, <3>1, <3>2, <3>3
      <4>5. ReadBefore(sock)
        BY <2>2 DEF TakeoverInv
      <4>6. q \in Range(wire[sock])
        <5>1. q \notin Range(wire[sock]) => FrameOf(q) <= FrameOf(p)
          BY <2>3, <4>1, <4>3, <4>5 DEF ReadBefore
        <5> QED BY <2>5, <3>2, <4>4, <5>1
      <4>7. q # p
        BY <2>5, <4>4
      <4> QED BY <2>3, <2>4, <4>6, <4>7 DEF Unread
    <3>4. CASE b_base # -1
      <4>1. q \in Unread \cup b_got
        BY <2>1, <3>1, <3>4 DEF TakeoverInv, Joined
      <4> QED BY <2>1, <2>6, <3>1, <4>1
    <3> QED BY <3>3, <3>4
  <2> QED BY <2>1, <2>2, <2>3, <2>4, <2>7 DEF TakeoverInv, InFrameOrder, FrameOf
<1>5. CASE Connect
  <2>1. /\ UNCHANGED <<scenario, wire, handed_over, timed_out, frozen, takeover>>
        /\ scenario.handover /\ listener = "listen"
    BY <1>5 DEF Connect
  <2>2. ~handed_over
    BY <2>1 DEF TakeoverInv
  <2>3. Joined'
    BY <2>1, <2>2 DEF Joined
  <2>4. \A k \in Sockets : InFrameOrder(wire[k])' /\ ReadBefore(k)'
    BY <2>1 DEF TakeoverInv, InFrameOrder, ReadBefore, FrameOf
  <2>5. Sockets' = Sockets
    BY <2>1, ScenarioStays
  <2> QED BY <2>1, <2>2, <2>3, <2>4, <2>5 DEF TakeoverInv, takeover
<1>6. CASE send_fds
  <2>1. /\ UNCHANGED <<scenario, wire, frozen, takeover>>
        /\ listener = "waiting" /\ timed_out' = (frozen # Sockets)
        /\ \/ handed_over' = TRUE /\ listener' = "sent"
           \/ listener' = "failed" /\ UNCHANGED handed_over
    BY <1>6 DEF send_fds
  <2>2. ~handed_over /\ b_base = -1 /\ scenario.handover
    BY <2>1 DEF TakeoverInv
  <2>3. Joined'
    BY <2>1, <2>2 DEF Joined, takeover
  <2>4. \A k \in Sockets : InFrameOrder(wire[k])' /\ ReadBefore(k)'
    BY <2>1, <2>2 DEF TakeoverInv, InFrameOrder, ReadBefore, FrameOf
  <2>5. Sockets' = Sockets
    BY <2>1, ScenarioStays
  <2>6. ~timed_out' => frozen' = Sockets'
    BY <2>1, <2>5
  <2>7. (handed_over' => listener' = "sent") /\ (b_base' # -1 => handed_over')
    BY <2>1, <2>2 DEF takeover
  <2> QED BY <2>1, <2>2, <2>3, <2>4, <2>5, <2>6, <2>7 DEF TakeoverInv
<1>7. CASE MainPoll \/ Done \/ UNCHANGED vars
  BY <1>7, NoTakeover DEF MainPoll, Done, vars, net
<1> QED BY <1>1, <1>2, <1>3, <1>4, <1>5, <1>6, <1>7 DEF Next

LEMMA TakeoverInit ==
  ASSUME Init
  PROVE  TakeoverInv
<1>1. /\ scenario \in Scenarios /\ wire = scenario.stream /\ b_base = -1
      /\ ~handed_over /\ listener = "listen"
  BY DEF Init
<1>2. IsStream(scenario)
  BY <1>1, ScenarioFacts
<1>3. scenario.handover => \A k \in Sockets : InFrameOrder(wire[k])
  BY <1>1, <1>2 DEF IsStream, Sockets, InFrameOrder, FrameOf
<1>4. \A k \in Sockets : ReadBefore(k)
  BY <1>1 DEF ReadBefore
<1> QED BY <1>1, <1>3, <1>4 DEF TakeoverInv, Joined

\* After a clean hand-over of one socket the replacement has every packet of the
\* frames it numbers: rebase_frame_id skips the frame it joined in the middle of.
THEOREM ReplacementJoinsWholeFrames == Spec => []JoinsAtWholeFrame
<1>1. Init => IInv /\ TakeoverInv
  BY InitInv, TakeoverInit
<1>2. IInv /\ TakeoverInv /\ [Next]_vars => (IInv /\ TakeoverInv)'
  BY NextInv, TakeoverNext
<1>3. TakeoverInv => JoinsAtWholeFrame
  BY DEF TakeoverInv, Joined, JoinsAtWholeFrame, Streamed
<1> QED BY <1>1, <1>2, <1>3, PTL DEF Spec
=============================================================================
