-------------------------- MODULE SlotTableProofs --------------------------
(***************************************************************************)
(* What the operations of SlotTable keep, for every number of slots and    *)
(* every size of the lookup cache.  SlotProtocol and Ingest both run them. *)
(***************************************************************************)
EXTENDS SlotTable, DataLemmas

Entries == Nat \X Slots

-----------------------------------------------------------------------------
(* Entries *)

\* The entry that release removes is one of the slot's.
LEMMA EntryOfSlotLemma ==
  ASSUME running_frames \in Seq(Entries), NEW s, HasEntry(s)
  PROVE  /\ EntryOfSlot(s) \in 1 .. Len(running_frames)
         /\ running_frames[EntryOfSlot(s)][2] = s
<1> DEFINE I == {i \in DOMAIN running_frames : running_frames[i][2] = s}
<1>1. I \in SUBSET Nat /\ I # {}
  BY DEF HasEntry
<1>2. Min(I) \in I
  BY <1>1, LeastElement
<1> QED BY <1>2 DEF EntryOfSlot

-----------------------------------------------------------------------------
(* The slot table *)

\* A cell of frame_slot_map that is not empty stands for a running entry.
CacheCoherent ==
  \A c \in 0 .. MapLen - 1 :
    frame_slot_map[c] # FRAME_SLOT_EMPTY =>
      \E i \in DOMAIN running_frames :
        /\ CellIndex(running_frames[i][1]) = c
        /\ frame_slot_map[c] = Cell(running_frames[i][1], running_frames[i][2])

TableInv == SlotTableTypeOK /\ TableConsistent /\ CacheCoherent

USE SlotTableAssumption

LEMMA CellType ==
  ASSUME NEW f \in Nat, NEW s \in Slots
  PROVE  /\ CellIndex(f) \in 0 .. MapLen - 1
         /\ Cell(f, s) \in (0 .. TagSpace - 1) \X Slots
         /\ Cell(f, s) # FRAME_SLOT_EMPTY
BY DEF CellIndex, Cell, Slots, FRAME_SLOT_EMPTY

\* Giving a free slot to a frame keeps the table consistent.
LEMMA RegisterPreserves ==
  ASSUME TableInv, NEW f \in Nat, NEW s \in Slots, ~Occupied(s),
         NEW st \in {"Active", "Buffering"}, Register(f, s, st),
         active_bitmap' = IF st = "Active" THEN active_bitmap \cup {s} ELSE active_bitmap,
         needs_check' \in [Slots -> BOOLEAN], last_assigned' \in Slots,
         UNCHANGED generation
  PROVE  /\ TableInv'
         /\ Len(running_frames') = Len(running_frames) + 1
         /\ running_frames'[Len(running_frames) + 1] = <<f, s>>
         /\ \A i \in 1 .. Len(running_frames) : running_frames'[i] = running_frames[i]
<1> USE DEF TableInv, Occupied
<1> DEFINE n == Len(running_frames)
<1>1. /\ running_frames \in Seq(Entries) /\ <<f, s>> \in Entries
      /\ states \in [Slots -> SlotState] /\ frame_id \in [Slots -> Nat \cup {NoFrame}]
  BY DEF SlotTableTypeOK, Entries
<1>2. /\ running_frames' \in Seq(Entries)
      /\ n \in Nat /\ DOMAIN running_frames = 1 .. n
      /\ Len(running_frames') = n + 1 /\ DOMAIN running_frames' = 1 .. n + 1
      /\ running_frames'[n + 1] = <<f, s>>
      /\ \A i \in 1 .. n : running_frames'[i] = running_frames[i]
      /\ \A i \in 1 .. n : running_frames[i] \in Entries
  BY <1>1, AppendProperties, LenProperties, ElementOfSeq DEF Register
<1>3. SlotTableTypeOK'
  BY <1>1, <1>2, CellType DEF SlotTableTypeOK, Register, SlotState, frame_slot_publish, Entries
<1>4. \A i \in 1 .. n : running_frames[i][2] # s /\ running_frames[i][2] \in Slots
  BY <1>1, <1>2 DEF TableConsistent, Entries
<1>5. TableConsistent'
  <2>1. \A i, j \in DOMAIN running_frames' :
          running_frames'[i][2] = running_frames'[j][2] => i = j
    BY <1>2, <1>4 DEF TableConsistent
  <2>2. \A i \in DOMAIN running_frames' :
          frame_id'[running_frames'[i][2]] = running_frames'[i][1]
    BY <1>1, <1>2, <1>4 DEF TableConsistent, Register
  <2>3. ASSUME NEW r \in Slots
        PROVE  Occupied(r)' <=> \E i \in DOMAIN running_frames' : running_frames'[i][2] = r
    <3>1. CASE r = s
      BY <1>1, <1>2, <3>1 DEF Register
    <3>2. CASE r # s
      <4>1. states'[r] = states[r]
        BY <1>1, <3>2 DEF Register
      <4>2. (\E i \in 1 .. n : running_frames[i][2] = r) <=>
              (\E i \in 1 .. n + 1 : running_frames'[i][2] = r)
        BY <1>2, <3>2
      <4> QED BY <1>2, <4>1, <4>2 DEF TableConsistent
    <3> QED BY <3>1, <3>2
  <2>4. \A r \in Slots : ~Occupied(r)' => frame_id'[r] = NoFrame
    BY <1>1 DEF TableConsistent, Register
  <2>5. active_bitmap' = ActiveSlots'
    BY <1>1 DEF TableConsistent, Register, ActiveSlots
  <2> QED BY <2>1, <2>2, <2>3, <2>4, <2>5 DEF TableConsistent
<1>6. CacheCoherent'
  <2> SUFFICES ASSUME NEW c \in 0 .. MapLen - 1, frame_slot_map'[c] # FRAME_SLOT_EMPTY
               PROVE  \E i \in DOMAIN running_frames' :
                        /\ CellIndex(running_frames'[i][1]) = c
                        /\ frame_slot_map'[c] =
                             Cell(running_frames'[i][1], running_frames'[i][2])
    BY DEF CacheCoherent, CellIndex, Cell
  <2>0. frame_slot_map' = [frame_slot_map EXCEPT ![CellIndex(f)] = Cell(f, s)]
    BY DEF Register, frame_slot_publish
  <2>1. CASE c = CellIndex(f)
    <3>1. frame_slot_map'[c] = Cell(f, s)
      BY <2>0, <2>1 DEF SlotTableTypeOK
    <3> QED BY <1>2, <2>1, <3>1
  <2>2. CASE c # CellIndex(f)
    <3>1. frame_slot_map'[c] = frame_slot_map[c]
      BY <2>0, <2>2 DEF SlotTableTypeOK
    <3>2. PICK i \in 1 .. n :
             /\ CellIndex(running_frames[i][1]) = c
             /\ frame_slot_map[c] = Cell(running_frames[i][1], running_frames[i][2])
      BY <1>2, <3>1 DEF CacheCoherent
    <3> QED BY <1>2, <3>1, <3>2
  <2> QED BY <2>1, <2>2
<1> QED BY <1>2, <1>3, <1>5, <1>6

\* The step takes the entry of slot s out of running_frames.
EntryRemoved(s) ==
  \E p \in 1 .. Len(running_frames) :
    /\ running_frames[p][2] = s
    /\ Len(running_frames') = Len(running_frames) - 1
    /\ \A i \in 1 .. Len(running_frames) - 1 :
         running_frames'[i] = running_frames[IF i < p THEN i ELSE i + 1]

\* Removing the entry of an occupied slot keeps the table consistent,
\* whichever other slot is promoted in the same step.
LEMMA ReleasePreserves ==
  ASSUME TableInv, NEW s \in Slots, Occupied(s), ReleaseCommon(s),
         states' \in [Slots -> SlotState], states'[s] = "Inactive",
         \A r \in Slots : r # s => (states'[r] # "Inactive" <=> Occupied(r)),
         active_bitmap' = {r \in Slots : states'[r] = "Active"},
         needs_check' \in [Slots -> BOOLEAN], last_assigned' \in Slots
  PROVE  TableInv' /\ EntryRemoved(s)
<1> USE DEF TableInv, Occupied
<1> DEFINE n == Len(running_frames)
           p == EntryOfSlot(s)
<1>1. /\ running_frames \in Seq(Entries)
      /\ n \in Nat /\ DOMAIN running_frames = 1 .. n
      /\ frame_id \in [Slots -> Nat \cup {NoFrame}]
      /\ \A i \in 1 .. n : running_frames[i] \in Entries
  BY LenProperties, ElementOfSeq DEF SlotTableTypeOK, Entries
<1>2. HasEntry(s)
  BY DEF TableConsistent, HasEntry
<1>3. p \in 1 .. n /\ running_frames[p][2] = s
  BY <1>1, <1>2, EntryOfSlotLemma
<1>4. /\ running_frames' = RemoveAt(running_frames, p)
      /\ frame_slot_map' = frame_slot_clear(running_frames[p][1])
      /\ frame_id' = [frame_id EXCEPT ![s] = NoFrame]
  BY <1>2 DEF ReleaseCommon
<1> HIDE DEF p
<1>5. /\ running_frames' \in Seq(Entries)
      /\ Len(running_frames') = n - 1 /\ DOMAIN running_frames' = 1 .. n - 1
      /\ \A j \in 1 .. n - 1 :
           running_frames'[j] = IF j < p THEN running_frames[j] ELSE running_frames[j + 1]
  <2> DEFINE q == RemoveAt(running_frames, p)
  <2>1. /\ q \in Seq(Entries)
        /\ Len(q) = n - 1
        /\ \A j \in 1 .. n - 1 :
             q[j] = IF j < p THEN running_frames[j] ELSE running_frames[j + 1]
    BY <1>1, <1>3, RemoveAtLemma
  <2>2. running_frames' = q
    BY <1>4
  <2> HIDE DEF q
  <2>3. DOMAIN q = 1 .. n - 1
    BY <2>1, LenProperties
  <2> QED BY <2>1, <2>2, <2>3
<1>6. \A i \in 1 .. n : i # p => running_frames[i][2] # s
  BY <1>1, <1>3 DEF TableConsistent
\* The entries that are left, seen from the old vector and from the new one.
<1>7. /\ \A j \in 1 .. n - 1 : \E i \in 1 .. n : i # p /\ running_frames'[j] = running_frames[i]
      /\ \A i \in 1 .. n : i # p => \E j \in 1 .. n - 1 : running_frames'[j] = running_frames[i]
  <2>1. ASSUME NEW j \in 1 .. n - 1
        PROVE  \E i \in 1 .. n : i # p /\ running_frames'[j] = running_frames[i]
    <3>1. CASE j < p
      <4>1. j \in 1 .. n /\ j # p  BY <1>1, <1>3, <3>1
      <4>2. running_frames'[j] = running_frames[j]  BY <1>5, <3>1
      <4> QED BY <4>1, <4>2
    <3>2. CASE ~(j < p)
      <4>1. j + 1 \in 1 .. n /\ j + 1 # p  BY <1>1, <1>3, <3>2
      <4>2. running_frames'[j] = running_frames[j + 1]  BY <1>5, <3>2
      <4> QED BY <4>1, <4>2
    <3> QED BY <3>1, <3>2
  <2>2. ASSUME NEW i \in 1 .. n, i # p
        PROVE  \E j \in 1 .. n - 1 : running_frames'[j] = running_frames[i]
    <3>1. CASE i < p
      <4>1. i \in 1 .. n - 1  BY <1>1, <1>3, <3>1
      <4> QED BY <1>5, <3>1, <4>1
    <3>2. CASE i > p
      <4>1. i - 1 \in 1 .. n - 1 /\ ~(i - 1 < p) /\ (i - 1) + 1 = i  BY <1>1, <1>3, <3>2
      <4>2. running_frames'[i - 1] = running_frames[(i - 1) + 1]  BY <1>5, <4>1
      <4> QED BY <4>1, <4>2
    <3> QED BY <1>1, <1>3, <2>2, <3>1, <3>2
  <2> QED BY <2>1, <2>2
<1>8. SlotTableTypeOK'
  <2>1. frame_slot_map' \in
          [0 .. MapLen - 1 -> {FRAME_SLOT_EMPTY} \cup ((0 .. TagSpace - 1) \X Slots)]
    BY <1>4 DEF SlotTableTypeOK, frame_slot_clear
  <2>2. frame_id' \in [Slots -> Nat \cup {NoFrame}]
    BY <1>1, <1>4
  <2> QED BY <1>5, <2>1, <2>2 DEF SlotTableTypeOK, ReleaseCommon, Entries
<1>9. TableConsistent'
  <2>1. \A i, j \in DOMAIN running_frames' :
          running_frames'[i][2] = running_frames'[j][2] => i = j
    <3> SUFFICES ASSUME NEW i \in 1 .. n - 1, NEW j \in 1 .. n - 1,
                        running_frames'[i][2] = running_frames'[j][2]
                 PROVE  i = j
      BY <1>5
    <3> DEFINE a == IF i < p THEN i ELSE i + 1
               b == IF j < p THEN j ELSE j + 1
    <3>1. a \in 1 .. n /\ b \in 1 .. n
      BY <1>1, <1>3
    <3>2. running_frames'[i] = running_frames[a] /\ running_frames'[j] = running_frames[b]
      BY <1>5
    <3>3. a = b
      BY <1>1, <3>1, <3>2 DEF TableConsistent
    <3> QED BY <1>1, <1>3, <3>3
  <2>2. \A i \in DOMAIN running_frames' :
          frame_id'[running_frames'[i][2]] = running_frames'[i][1]
    <3> SUFFICES ASSUME NEW i \in 1 .. n - 1
                 PROVE  frame_id'[running_frames'[i][2]] = running_frames'[i][1]
      BY <1>5
    <3>1. PICK a \in 1 .. n : a # p /\ running_frames'[i] = running_frames[a]
      BY <1>7
    <3>2. running_frames[a][2] \in Slots /\ running_frames[a][2] # s
      BY <1>1, <1>6, <3>1 DEF Entries
    <3> QED BY <1>1, <1>4, <3>1, <3>2 DEF TableConsistent
  <2>3. ASSUME NEW r \in Slots
        PROVE  Occupied(r)' <=> \E i \in DOMAIN running_frames' : running_frames'[i][2] = r
    <3>1. CASE r = s
      <4>1. ~Occupied(r)'
        BY <3>1
      <4>2. ASSUME NEW j \in 1 .. n - 1 PROVE running_frames'[j][2] # s
        <5>1. PICK i \in 1 .. n : i # p /\ running_frames'[j] = running_frames[i]
          BY <1>7
        <5> QED BY <1>6, <5>1
      <4> QED BY <1>5, <3>1, <4>1, <4>2
    <3>2. CASE r # s
      <4>1. Occupied(r)' <=> Occupied(r)
        BY <3>2
      <4>2. Occupied(r) <=> \E i \in 1 .. n : running_frames[i][2] = r
        BY <1>1 DEF TableConsistent
      <4>3. (\E i \in 1 .. n : running_frames[i][2] = r) <=>
              (\E j \in 1 .. n - 1 : running_frames'[j][2] = r)
        <5>1. ASSUME NEW i \in 1 .. n, running_frames[i][2] = r
              PROVE  \E j \in 1 .. n - 1 : running_frames'[j][2] = r
          <6>1. PICK j \in 1 .. n - 1 : running_frames'[j] = running_frames[i]
            BY <1>3, <1>7, <3>2, <5>1
          <6> QED BY <5>1, <6>1
        <5>2. ASSUME NEW j \in 1 .. n - 1, running_frames'[j][2] = r
              PROVE  \E i \in 1 .. n : running_frames[i][2] = r
          <6>1. PICK i \in 1 .. n : running_frames'[j] = running_frames[i]
            BY <1>7
          <6> QED BY <5>2, <6>1
        <5> QED BY <5>1, <5>2
      <4> QED BY <1>5, <4>1, <4>2, <4>3
    <3> QED BY <3>1, <3>2
  <2>4. \A r \in Slots : ~Occupied(r)' => frame_id'[r] = NoFrame
    BY <1>1, <1>4 DEF TableConsistent
  <2>5. active_bitmap' = ActiveSlots'
    BY DEF ActiveSlots
  <2> QED BY <2>1, <2>2, <2>3, <2>4, <2>5 DEF TableConsistent
<1>10. CacheCoherent'
  <2> DEFINE f == running_frames[p][1]
  <2> SUFFICES ASSUME NEW c \in 0 .. MapLen - 1, frame_slot_map'[c] # FRAME_SLOT_EMPTY
               PROVE  \E i \in DOMAIN running_frames' :
                        /\ CellIndex(running_frames'[i][1]) = c
                        /\ frame_slot_map'[c] =
                             Cell(running_frames'[i][1], running_frames'[i][2])
    BY DEF CacheCoherent, CellIndex, Cell
  <2>1. frame_slot_map'[c] = frame_slot_map[c]
    BY <1>4 DEF SlotTableTypeOK, frame_slot_clear
  <2>2. PICK i \in 1 .. n :
          /\ CellIndex(running_frames[i][1]) = c
          /\ frame_slot_map[c] = Cell(running_frames[i][1], running_frames[i][2])
    BY <1>1, <2>1 DEF CacheCoherent
  <2>3. i # p
    <3> SUFFICES ASSUME i = p PROVE FALSE
      OBVIOUS
    <3>1. frame_slot_map[CellIndex(f)][1] = f % TagSpace
      BY <2>2 DEF Cell
    <3>2. frame_slot_hit(f)
      BY <2>1, <2>2, <3>1 DEF frame_slot_hit
    <3>3. frame_slot_map'[c] = FRAME_SLOT_EMPTY
      BY <1>4, <2>2, <3>2 DEF frame_slot_clear, SlotTableTypeOK
    <3> QED BY <3>3
  <2>4. PICK j \in 1 .. n - 1 : running_frames'[j] = running_frames[i]
    BY <1>7, <2>3
  <2> QED BY <1>5, <2>1, <2>2, <2>4
<1> QED
  <2>1. \A i \in 1 .. n - 1 : running_frames'[i] = running_frames[IF i < p THEN i ELSE i + 1]
    BY <1>5
  <2> QED BY <1>3, <1>5, <1>8, <1>9, <1>10, <2>1 DEF EntryRemoved

-----------------------------------------------------------------------------
(* The operations of the slot table keep TableInv *)

\* The table's facts depend on six of its variables only.
LEMMA TableUnchanged ==
  ASSUME TableInv,
         UNCHANGED <<states, running_frames, frame_slot_map, frame_id,
                     active_bitmap, last_assigned>>,
         generation' \in [Slots -> Nat], needs_check' \in [Slots -> BOOLEAN]
  PROVE  TableInv'
BY DEF TableInv, SlotTableTypeOK, TableConsistent, CacheCoherent, Occupied, ActiveSlots,
       CellIndex, Cell

LEMMA RoundRobinFree ==
  ASSUME SlotTableTypeOK, NEW s, RoundRobinSlot(s)
  PROVE  s \in Slots /\ ~Occupied(s)
BY DEF RoundRobinSlot, SlotTableTypeOK, Slots

LEMMA AssignKeepsTable ==
  ASSUME TableInv, NEW f \in Nat, NEW s \in Slots,
         \/ s = last_assigned /\ AssignLastAssigned(f)
         \/ AssignParallel(f, s)
         \/ AssignBuffering(f, s)
  PROVE  TableInv'
<1>1. SlotTableTypeOK
  BY DEF TableInv
<1>2. CASE s = last_assigned /\ AssignLastAssigned(f)
  BY <1>1, <1>2, RegisterPreserves DEF AssignLastAssigned, SetActive, SlotTableTypeOK
<1>3. CASE AssignParallel(f, s)
  BY <1>1, <1>3, RegisterPreserves, RoundRobinFree
     DEF AssignParallel, SetActive, SlotTableTypeOK
<1>4. CASE AssignBuffering(f, s)
  BY <1>1, <1>4, RegisterPreserves, RoundRobinFree DEF AssignBuffering, SlotTableTypeOK
<1> QED BY <1>2, <1>3, <1>4

LEMMA ReleaseOnlyKeepsTable ==
  ASSUME TableInv, NEW s \in Slots, Occupied(s), ReleaseOnly(s)
  PROVE  TableInv' /\ EntryRemoved(s)
<1>1. SlotTableTypeOK /\ active_bitmap = ActiveSlots
  BY DEF TableInv, TableConsistent
<1>2. /\ states' \in [Slots -> SlotState] /\ states'[s] = "Inactive"
      /\ \A r \in Slots : r # s => (states'[r] # "Inactive" <=> Occupied(r))
      /\ active_bitmap' = {r \in Slots : states'[r] = "Active"}
      /\ needs_check' \in [Slots -> BOOLEAN] /\ last_assigned' \in Slots
  BY <1>1 DEF ReleaseOnly, SlotTableTypeOK, SlotState, Occupied, ActiveSlots
<1> QED BY <1>2, ReleasePreserves DEF ReleaseOnly

LEMMA ReleaseAndPromoteKeepsTable ==
  ASSUME TableInv, NEW s \in Slots, NEW next \in Slots, Occupied(s),
         ReleaseAndPromote(s, next)
  PROVE  TableInv' /\ EntryRemoved(s)
<1>1. SlotTableTypeOK /\ active_bitmap = ActiveSlots
  BY DEF TableInv, TableConsistent
<1>2. next # s /\ states[next] = "Buffering"
  BY DEF ReleaseAndPromote, Promotable
<1>3. /\ states' \in [Slots -> SlotState] /\ states'[s] = "Inactive"
      /\ \A r \in Slots : r # s => (states'[r] # "Inactive" <=> Occupied(r))
      /\ active_bitmap' = {r \in Slots : states'[r] = "Active"}
      /\ needs_check' \in [Slots -> BOOLEAN] /\ last_assigned' \in Slots
  BY <1>1, <1>2 DEF ReleaseAndPromote, SlotTableTypeOK, SlotState, Occupied, ActiveSlots
<1> QED BY <1>3, ReleasePreserves DEF ReleaseAndPromote

\* Releasing a slot that has no frame keeps the table consistent and its entries,
\* whether or not a frame is promoted.
LEMMA FreeReleaseKeepsTable ==
  ASSUME TableInv, NEW s \in Slots, ~Occupied(s),
         ReleaseOnly(s) \/ \E n \in Slots : ReleaseAndPromote(s, n)
  PROVE  TableInv' /\ UNCHANGED <<running_frames, frame_id>>
<1>1. SlotTableTypeOK /\ TableConsistent /\ CacheCoherent
  BY DEF TableInv
<1>2. ~HasEntry(s) /\ frame_id[s] = NoFrame
  BY <1>1 DEF TableConsistent, HasEntry
<1>3. UNCHANGED <<running_frames, frame_slot_map, frame_id, generation>>
  BY <1>1, <1>2 DEF ReleaseOnly, ReleaseAndPromote, ReleaseCommon, SlotTableTypeOK
<1>4. /\ states' \in [Slots -> SlotState]
      /\ \A r \in Slots : states'[r] # "Inactive" <=> Occupied(r)
      /\ active_bitmap' = {r \in Slots : states'[r] = "Active"}
      /\ needs_check' \in [Slots -> BOOLEAN] /\ last_assigned' \in Slots
  <2>1. CASE ReleaseOnly(s)
    BY <1>1, <2>1 DEF ReleaseOnly, SlotTableTypeOK, TableConsistent, ActiveSlots, SlotState, Occupied
  <2>2. CASE \E n \in Slots : ReleaseAndPromote(s, n)
    <3>1. PICK n \in Slots : ReleaseAndPromote(s, n)
      BY <2>2
    <3>2. /\ states' = [states EXCEPT ![s] = "Inactive", ![n] = "Active"]
          /\ n # s /\ states[n] = "Buffering" /\ states[s] = "Inactive"
      BY <3>1 DEF ReleaseAndPromote, Promotable, Occupied
    <3>3. states'[n] = "Active" /\ \A r \in Slots : r # n => states'[r] = states[r]
      BY <1>1, <3>2 DEF SlotTableTypeOK
    <3>4. states' \in [Slots -> SlotState]
      BY <1>1, <3>2 DEF SlotTableTypeOK, SlotState
    <3>5. \A r \in Slots : states'[r] # "Inactive" <=> Occupied(r)
      BY <3>2, <3>3 DEF Occupied
    <3>6. active_bitmap' = (ActiveSlots \ {s}) \cup {n}
      BY <1>1, <3>1 DEF ReleaseAndPromote, TableConsistent
    <3>7. active_bitmap' = {r \in Slots : states'[r] = "Active"}
      BY <3>2, <3>3, <3>6 DEF ActiveSlots
    <3> QED BY <1>1, <3>1, <3>4, <3>5, <3>7 DEF ReleaseAndPromote, SlotTableTypeOK
  <2> QED BY <2>1, <2>2
<1>5. SlotTableTypeOK'
  BY <1>1, <1>3, <1>4 DEF SlotTableTypeOK
<1>6. TableConsistent'
  BY <1>1, <1>3, <1>4 DEF TableConsistent, ActiveSlots, Occupied
<1>7. CacheCoherent'
  BY <1>1, <1>3 DEF CacheCoherent, CellIndex, Cell
<1> QED BY <1>3, <1>5, <1>6, <1>7 DEF TableInv

\* So a release of any slot keeps the table consistent.
LEMMA AnyReleaseKeepsTable ==
  ASSUME TableInv, NEW s \in Slots,
         ReleaseOnly(s) \/ \E n \in Slots : ReleaseAndPromote(s, n)
  PROVE  TableInv'
BY FreeReleaseKeepsTable, ReleaseOnlyKeepsTable, ReleaseAndPromoteKeepsTable

LEMMA RestartKeepsTable ==
  ASSUME TableInv, NEW f \in Nat, NEW s \in Slots, ~Occupied(s), RestartSlot(f, s)
  PROVE  TableInv'
BY RegisterPreserves DEF RestartSlot, TableInv, SlotTableTypeOK

\* Counting slots gives a natural number.
LEMMA CountSlots ==
  ASSUME NEW S \in SUBSET Slots
  PROVE  Cardinality(S) \in Nat
<1>1. IsFiniteSet(Slots)
  BY FS_Interval DEF Slots
<1> QED BY <1>1, FS_Subset, FS_CardinalityType

\* Below TagSpace the truncated tag identifies the frame.
LEMMA TagIdentifies ==
  ASSUME NEW f \in 0 .. TagSpace - 1
  PROVE  f % TagSpace = f
<1> DEFINE k == f \div TagSpace
           r == f % TagSpace
<1>1. f \in Int /\ TagSpace \in Int /\ TagSpace > 0
  OBVIOUS
<1>2. k \in Int /\ r \in 0 .. TagSpace - 1 /\ f = TagSpace * k + r
  BY <1>1
<1> HIDE DEF k, r
<1>3. ~(k >= 1)
  <2> SUFFICES ASSUME k >= 1 PROVE FALSE
    OBVIOUS
  <2>1. TagSpace * k >= TagSpace
    BY <1>1, <1>2
  <2> QED BY <1>1, <1>2, <2>1
<1>4. ~(k <= -1)
  <2> SUFFICES ASSUME k <= -1 PROVE FALSE
    OBVIOUS
  <2>1. TagSpace * k <= -TagSpace
    BY <1>1, <1>2
  <2> QED BY <1>1, <1>2, <2>1
<1>5. k = 0
  BY <1>2, <1>3, <1>4
<1> QED BY <1>1, <1>2, <1>5 DEF r

-----------------------------------------------------------------------------
(* The frame of a slot *)

\* frame_id and running_frames name the same frames.
LEMMA SlotFrames ==
  ASSUME TableInv
  PROVE  /\ \A s \in Slots : frame_id[s] # NoFrame <=> Occupied(s)
         /\ \A i \in DOMAIN running_frames :
              /\ running_frames[i][1] \in Nat /\ running_frames[i][2] \in Slots
              /\ frame_id[running_frames[i][2]] = running_frames[i][1]
         /\ \A f \in Nat : InRunning(f) <=> \E s \in Slots : frame_id[s] = f
<1>1. running_frames \in Seq(Entries) /\ TableConsistent /\ frame_id \in [Slots -> Nat \cup {NoFrame}]
  BY DEF TableInv, SlotTableTypeOK, Entries
<1>2. \A i \in DOMAIN running_frames :
        /\ running_frames[i][1] \in Nat /\ running_frames[i][2] \in Slots
        /\ frame_id[running_frames[i][2]] = running_frames[i][1]
  <2>1. \A i \in DOMAIN running_frames : running_frames[i] \in Entries
    BY <1>1
  <2> QED BY <1>1, <2>1 DEF Entries, TableConsistent
<1>3. \A s \in Slots : frame_id[s] # NoFrame <=> Occupied(s)
  BY <1>1, <1>2 DEF TableConsistent, NoFrame
<1>4. ASSUME NEW f \in Nat PROVE InRunning(f) <=> \E s \in Slots : frame_id[s] = f
  <2>1. ASSUME InRunning(f) PROVE \E s \in Slots : frame_id[s] = f
    BY <1>2, <2>1 DEF InRunning
  <2>2. ASSUME NEW s \in Slots, frame_id[s] = f PROVE InRunning(f)
    <3>1. Occupied(s)
      BY <1>3, <2>2 DEF NoFrame
    <3>2. PICK i \in DOMAIN running_frames : running_frames[i][2] = s
      BY <1>1, <3>1 DEF TableConsistent
    <3> QED BY <1>2, <2>2, <3>2 DEF InRunning
  <2> QED BY <2>1, <2>2
<1> QED BY <1>2, <1>3, <1>4

\* The slot the locked scan returns runs the frame.
LEMMA ScanFinds ==
  ASSUME TableInv, NEW f \in Nat, InRunning(f)
  PROVE  SlotOfFrame(f) \in Slots /\ frame_id[SlotOfFrame(f)] = f
<1> DEFINE I == {i \in DOMAIN running_frames : running_frames[i][1] = f}
<1>1. I \in SUBSET Nat /\ I # {}
  BY DEF InRunning, TableInv, SlotTableTypeOK
<1>2. Min(I) \in I
  BY <1>1, LeastElement
<1>3. SlotOfFrame(f) = running_frames[Min(I)][2]
  BY DEF SlotOfFrame
<1> HIDE DEF I
<1>4. Min(I) \in DOMAIN running_frames /\ running_frames[Min(I)][1] = f
  BY <1>2 DEF I
<1> QED BY <1>3, <1>4, SlotFrames

\* While the frames in the slots fit the tag, so does the slot a lock-free hit names.
LEMMA HitFinds ==
  ASSUME TableInv, NEW f \in 0 .. TagSpace - 1, frame_slot_hit(f),
         \A s \in Slots : frame_id[s] # NoFrame => frame_id[s] \in 0 .. TagSpace - 1
  PROVE  frame_slot_lookup(f) \in Slots /\ frame_id[frame_slot_lookup(f)] = f
<1> DEFINE c == CellIndex(f)
<1>1. f \in Nat /\ c \in 0 .. MapLen - 1
  BY DEF CellIndex
<1>2. PICK i \in DOMAIN running_frames :
        /\ CellIndex(running_frames[i][1]) = c
        /\ frame_slot_map[c] = Cell(running_frames[i][1], running_frames[i][2])
  BY <1>1 DEF TableInv, CacheCoherent, frame_slot_hit
<1> DEFINE g == running_frames[i][1]
           r == running_frames[i][2]
<1>3. g \in Nat /\ r \in Slots /\ frame_id[r] = g
  BY SlotFrames
<1>4. g \in 0 .. TagSpace - 1
  BY <1>3 DEF NoFrame
<1>5. g % TagSpace = f % TagSpace
  BY <1>2 DEF frame_slot_hit, Cell
<1>6. g % TagSpace = g /\ f % TagSpace = f
  <2> HIDE DEF g
  <2> QED BY <1>4, TagIdentifies
<1>7. frame_slot_lookup(f) = r
  BY <1>2 DEF frame_slot_lookup, Cell
<1> QED BY <1>3, <1>5, <1>6, <1>7

\* An assignment gives a free slot to a frame that has none.
LEMMA AssignGives ==
  ASSUME TableInv, NEW f \in Nat, NEW s \in Slots,
         \/ s = last_assigned /\ AssignLastAssigned(f)
         \/ AssignParallel(f, s)
         \/ AssignBuffering(f, s)
  PROVE  /\ \A r \in Slots : frame_id[r] # f
         /\ states[s] = "Inactive" /\ frame_id[s] = NoFrame
         /\ frame_id' = [frame_id EXCEPT ![s] = f]
         /\ \A r \in Slots : r # s => states'[r] = states[r]
<1>1. SlotTableTypeOK /\ ~InRunning(f)
  BY DEF TableInv, AssignLastAssigned, AssignParallel, AssignBuffering
<1>2. ~Occupied(s)
  BY <1>1, RoundRobinFree DEF AssignLastAssigned, AssignParallel, AssignBuffering
<1>3. \E st \in SlotState : Register(f, s, st)
  BY DEF AssignLastAssigned, AssignParallel, AssignBuffering, SlotState
<1>4. frame_id[s] = NoFrame /\ \A r \in Slots : frame_id[r] # f
  BY <1>1, <1>2, SlotFrames
<1> QED BY <1>1, <1>2, <1>3, <1>4 DEF Register, Occupied, SlotTableTypeOK

\* A release takes the frame out of its slot, and a promotion changes no other.
LEMMA ReleaseGives ==
  ASSUME TableInv, NEW s \in Slots, Occupied(s),
         ReleaseOnly(s) \/ \E n \in Slots : ReleaseAndPromote(s, n)
  PROVE  /\ TableInv'
         /\ frame_id' = [frame_id EXCEPT ![s] = NoFrame]
         /\ ReleaseOnly(s) => \A r \in Slots : r # s => states'[r] = states[r]
         /\ \A n \in Slots : ReleaseAndPromote(s, n) =>
              n # s /\ \A r \in Slots : r \notin {s, n} => states'[r] = states[r]
<1>1. SlotTableTypeOK
  BY DEF TableInv
<1>2. TableInv'
  BY ReleaseOnlyKeepsTable, ReleaseAndPromoteKeepsTable
<1>3. frame_id' = [frame_id EXCEPT ![s] = NoFrame]
  BY DEF ReleaseOnly, ReleaseAndPromote, ReleaseCommon
<1> QED BY <1>1, <1>2, <1>3 DEF ReleaseOnly, ReleaseAndPromote, Promotable, SlotTableTypeOK
=============================================================================
