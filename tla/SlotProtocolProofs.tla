------------------------- MODULE SlotProtocolProofs -------------------------
(***************************************************************************)
(* Proofs about SlotProtocol, for every number of slots and threads.       *)
(***************************************************************************)
EXTENDS SlotProtocol, SlotTableProofs

USE SlotTableAssumption

-----------------------------------------------------------------------------
(***************************************************************************)
(* The inductive invariant.  The table stays consistent because a release  *)
(* of any slot keeps it, a free one included, and a slot is restarted      *)
(* while it is free.  The second is a fact of runs without evictions: the  *)
(* completion bit and the second reading of the counters leave a slot to   *)
(* one thread, and compute graphs assign only during the initial           *)
(* preparation, which is over before the first frame completes.            *)
(***************************************************************************)

Owning == Finishing \cup {"restart"}
HoldsBit == {"confirm", "unmark", "reset", "clear"}
Counted == {"count", "tally", "release"}

\* What a thread's program counter says of its frame and of the run.
FrameInv ==
  \A t \in Threads :
    /\ pc[t] \in Assigning => frame[t] \in Nat
    /\ pc[t] \in Evicting => Evicts
    /\ pc[t] = "restart" => ~Network

\* What a thread's program counter says of its slot.
ThreadInv ==
  \A t \in Threads :
    /\ pc[t] \in Finishing => Occupied(slot[t])
    /\ pc[t] = "restart" => ~Occupied(slot[t])

\* No two threads finish or restart the same slot.
OwnInv ==
  \A t, u \in Threads :
    pc[t] \in Owning /\ pc[u] \in Owning /\ t # u => slot[t] # slot[u]

\* Compute graphs: nothing completes before the preparation is over.
PrepInv ==
  ~Network =>
    /\ (\E t \in Threads : pc[t] \in Owning) =>
         initialized = <<>> /\ \A u \in Threads : pc[u] \notin Assigning
    /\ (initialized # <<>> \/ \E u \in Threads : pc[u] \in Assigning) =>
         \A s \in Slots : work[s] = 1

\* The work of a slot has ended: its frame runs, and no thread has reset it since.
WorkInv ==
  /\ \A s \in Slots : work[s] = 0 =>
       Runs(s) /\ \A t \in Threads : pc[t] \in Counted \cup {"restart"} => slot[t] # s
  /\ \A t \in Threads : pc[t] \in {"reset", "clear"} => work[slot[t]] = 0

\* The completion bit of a slot is held by one thread, up to its reset.
BitInv ==
  /\ \A t \in Threads : pc[t] \in HoldsBit => slot[t] \in bits
  /\ \A t, u \in Threads :
       pc[t] \in HoldsBit /\ pc[u] \in HoldsBit /\ t # u => slot[t] # slot[u]

\* Without evictions a slot that completes is in one thread's hands.
Exact == ThreadInv /\ OwnInv /\ PrepInv /\ WorkInv /\ BitInv
ExactInv == ~Evicts => Exact

IInv == LocalTypeOK /\ TableInv /\ FrameInv /\ ExactInv

PCs == {"idle", "packet", "whole", "promoted", "restart", "exited", "panicked"}
         \cup Assigning \cup Bumping \cup Checking \cup Finishing \cup Evicting

\* A thread that returns to the top of its loop leaves its locals well typed.
LEMMA ReturnTypes ==
  ASSUME LocalTypeOK, NEW t \in Threads, Return(t)
  PROVE  /\ pc' \in [Threads -> PCs]
         /\ frame' \in [Threads -> Nat \cup {NoFrame}]
         /\ slot' \in [Threads -> Slots]
         /\ others' \in [Threads -> Nat]
         /\ restart' \in [Threads -> BOOLEAN]
<1>1. 0 \in Slots
  BY DEF Slots
<1> QED BY <1>1 DEF Return, LocalTypeOK, PCs

\* So does one that goes on to another point with its slot.
LEMMA GotoTypes ==
  ASSUME LocalTypeOK, NEW t \in Threads, NEW next \in PCs, Goto(t, next)
  PROVE  /\ pc' \in [Threads -> PCs]
         /\ frame' \in [Threads -> Nat \cup {NoFrame}]
         /\ others' \in [Threads -> Nat]
         /\ restart' \in [Threads -> BOOLEAN]
BY DEF Goto, LocalTypeOK, PCs

LEMMA NextFrameIdType ==
  ASSUME LocalTypeOK
  PROVE  NextFrameId \in Nat
<1> DEFINE S == {s \in Slots : Occupied(s)}
<1>1. Cardinality(S) \in Nat
  BY CountSlots
<1>2. completed \in Nat
  BY DEF LocalTypeOK
<1> HIDE DEF S
<1>3. completed + Cardinality(S) \in Nat
  BY <1>1, <1>2
<1> QED BY <1>3 DEF NextFrameId, S
\* The scan of running_frames answers a slot.
LEMMA SlotOfFrameType ==
  ASSUME TableInv, NEW f, InRunning(f)
  PROVE  SlotOfFrame(f) \in Slots
<1> DEFINE I == {i \in DOMAIN running_frames : running_frames[i][1] = f}
<1>1. running_frames \in Seq(Entries)
  BY DEF TableInv, SlotTableTypeOK, Entries
<1>2. /\ DOMAIN running_frames \in SUBSET Nat
      /\ \A i \in DOMAIN running_frames : running_frames[i] \in Entries
  BY <1>1, LenProperties, ElementOfSeq
<1>3. I # {} /\ I \in SUBSET Nat
  BY <1>2 DEF InRunning
<1>4. Min(I) \in I
  BY <1>3, LeastElement
<1> QED BY <1>2, <1>4 DEF SlotOfFrame, Entries

\* A lock-free hit answers one too.
LEMMA LookupType ==
  ASSUME TableInv, NEW f \in Nat, frame_slot_hit(f)
  PROVE  frame_slot_lookup(f) \in Slots
<1>1. CellIndex(f) \in 0 .. MapLen - 1
  BY DEF CellIndex
<1> QED BY <1>1 DEF TableInv, SlotTableTypeOK, frame_slot_hit, frame_slot_lookup

\* Every step keeps the types of the threads' variables.
LEMMA LocalTypeStep ==
  ASSUME IInv, Next
  PROVE  LocalTypeOK'
<1> USE DEF IInv
<1>0. /\ TableInv /\ 0 \in Slots
      /\ {"packet", "whole", "bump", "prepbump", "load", "take", "confirm", "unmark", "reset",
          "clear", "count", "tally", "release", "evict", "drop", "discard", "wipe"} \subseteq PCs
  BY DEF Slots, PCs, Assigning, Bumping, Checking, Finishing, Evicting
<1>1. LocalTypeOK /\ (pc \in [Threads -> PCs])
  BY DEF LocalTypeOK, PCs
<1>2. ASSUME pc' \in [Threads -> PCs],
             frame' \in [Threads -> Nat \cup {NoFrame}],
             slot' \in [Threads -> Slots],
             others' \in [Threads -> Nat],
             restart' \in [Threads -> BOOLEAN],
             statesOwner' \in Threads \cup {NoThread},
             UNCHANGED <<countVars, runVars>>
      PROVE  LocalTypeOK'
  BY <1>1, <1>2 DEF LocalTypeOK, PCs, countVars, runVars
<1>3. /\ slot \in [Threads -> Slots] /\ frame \in [Threads -> Nat \cup {NoFrame}]
      /\ others \in [Threads -> Nat] /\ restart \in [Threads -> BOOLEAN]
      /\ statesOwner \in Threads \cup {NoThread}
  BY <1>1 DEF LocalTypeOK
<1>T. ASSUME NEW t \in Threads, ThreadStep(t) PROVE LocalTypeOK'
  <2>0. slot[t] \in Slots
    BY <1>3
  <2>1. CASE InitialFrame(t)
    <3>1. Head(initialized) \in Slots /\ Tail(initialized) \in Seq(Slots)
      BY <2>1, HeadTailProperties DEF InitialFrame, LocalTypeOK
    <3>2. Head(initialized) \in Nat
      BY <3>1 DEF Slots
    <3> QED BY <2>1, <3>1, <3>2 DEF InitialFrame, LocalTypeOK, Assigning, countVars
  <2>2. ASSUME NEW f \in Stream, AdmitMiss(t, f) PROVE LocalTypeOK'
    <3>1. f \in Nat /\ taken' \in [Stream -> Int]
      BY <2>2, SlotProtocolAssumption DEF AdmitMiss, Arrives, LocalTypeOK, Stream
    <3> QED BY <2>2, <3>1 DEF AdmitMiss, Arrives, LocalTypeOK, Assigning, countVars
  <2>3. ASSUME NEW f \in Stream, AdmitHit(t, f) PROVE LocalTypeOK'
    <3>1. f \in Nat /\ taken' \in [Stream -> Int]
      BY <2>3, SlotProtocolAssumption DEF AdmitHit, Arrives, LocalTypeOK, Stream
    <3>2. frame_slot_lookup(f) \in Slots
      BY <1>0, <2>3, <3>1, LookupType DEF AdmitHit
    <3> QED BY <2>3, <3>1, <3>2 DEF AdmitHit, Arrives, LocalTypeOK, countVars
  <2>4. CASE AssignRegistered(t)
    <3>1. CASE pc[t] = "assign"
      <4>1. SlotOfFrame(frame[t]) \in Slots
        BY <1>0, <2>4, SlotOfFrameType DEF AssignRegistered
      <4> QED BY <1>0, <1>1, <1>2, <1>3, <2>4, <3>1, <4>1, GotoTypes DEF AssignRegistered
    <3>2. CASE pc[t] # "assign"
      BY <1>1, <1>2, <1>3, <2>4, <3>2, ReturnTypes DEF AssignRegistered
    <3> QED BY <3>1, <3>2
  <2>5. CASE AssignNoSlot(t)
    <3>1. taken' \in [Stream -> Int]
      <4>1. taken \in [Stream -> Int]
        BY <1>1 DEF LocalTypeOK
      <4>2. [taken EXCEPT ![frame[t]] = @ - 1] \in [Stream -> Int]
        <5>1. CASE frame[t] \in Stream
          BY <4>1, <5>1
        <5>2. CASE frame[t] \notin Stream
          BY <4>1, <5>2
        <5> QED BY <5>1, <5>2
      <4> QED BY <2>5, <4>1, <4>2 DEF AssignNoSlot
    <3>2. /\ pc' \in [Threads -> PCs] /\ frame' \in [Threads -> Nat \cup {NoFrame}]
          /\ slot' \in [Threads -> Slots] /\ others' \in [Threads -> Nat]
          /\ restart' \in [Threads -> BOOLEAN]
      BY <1>1, <2>5, ReturnTypes DEF AssignNoSlot
    <3> QED BY <1>1, <2>5, <3>1, <3>2 DEF AssignNoSlot, LocalTypeOK, PCs, countVars
  <2>6. CASE PreparationPanics(t)
    BY <1>1, <2>6 DEF PreparationPanics, LocalTypeOK, runVars, countVars
  <2>7. ASSUME NEW s \in Slots, AssignActive(t, s) PROVE LocalTypeOK'
    <3> DEFINE to == IF pc[t] = "assign" THEN "bump" ELSE "prepbump"
    <3>1. to \in PCs /\ Goto(t, to)
      BY <1>0, <2>7 DEF AssignActive
    <3> HIDE DEF to
    <3> QED BY <1>1, <1>2, <1>3, <2>7, <3>1, GotoTypes DEF AssignActive
  <2>8. CASE AssignBump(t)
    <3>1. CASE pc[t] = "bump"
      BY <1>0, <1>1, <1>2, <1>3, <2>8, <3>1, GotoTypes DEF AssignBump
    <3>2. CASE pc[t] # "bump"
      BY <1>1, <1>2, <2>8, <3>2, ReturnTypes DEF AssignBump
    <3> QED BY <3>1, <3>2
  <2>9. ASSUME NEW s \in Slots, AssignBuffer(t, s) PROVE LocalTypeOK'
    <3>1. CASE pc[t] = "assign"
      BY <1>0, <1>1, <1>2, <1>3, <2>9, <3>1, GotoTypes DEF AssignBuffer
    <3>2. CASE pc[t] # "assign"
      BY <1>1, <1>2, <1>3, <2>9, <3>2, ReturnTypes DEF AssignBuffer
    <3> QED BY <3>1, <3>2
  <2>10. CASE CountPacket(t)
    BY <1>0, <1>1, <2>0, <2>10, GotoTypes DEF CountPacket, LocalTypeOK, PCs, runVars
  <2>11. CASE CheckWhole(t)
    <3>1. packet_complete' \in [Slots -> BOOLEAN]
      BY <1>1, <2>11 DEF CheckWhole, LocalTypeOK
    <3> QED BY <1>1, <2>11, <3>1, ReturnTypes DEF CheckWhole, LocalTypeOK, PCs, runVars
  <2>12. ASSUME NEW s \in Slots, Check(t, s) PROVE LocalTypeOK'
    BY <1>0, <1>1, <1>2, <1>3, <2>12, GotoTypes DEF Check
  <2>13. CASE Load(t)
    <3>1. CASE work[slot[t]] = 0
      BY <1>0, <1>1, <1>2, <1>3, <2>13, <3>1, GotoTypes DEF Load
    <3>2. CASE work[slot[t]] # 0
      BY <1>1, <1>2, <1>3, <2>13, <3>2, ReturnTypes DEF Load
    <3> QED BY <3>1, <3>2
  <2>14. CASE try_complete_slot(t)
    <3>1. bits' \in SUBSET Slots
      BY <1>1, <2>0, <2>14 DEF try_complete_slot, LocalTypeOK
    <3>2. CASE slot[t] \in bits
      BY <1>1, <2>14, <3>1, <3>2, ReturnTypes DEF try_complete_slot, LocalTypeOK, PCs, runVars
    <3>3. CASE slot[t] \notin bits
      BY <1>0, <1>1, <2>14, <3>1, <3>3, GotoTypes DEF try_complete_slot, LocalTypeOK, PCs, runVars
    <3> QED BY <3>2, <3>3
  <2>15. CASE Confirm(t)
    <3> DEFINE to == IF work[slot[t]] = 0 THEN "reset" ELSE "unmark"
    <3>1. to \in PCs /\ Goto(t, to)
      BY <1>0, <2>15 DEF Confirm
    <3> HIDE DEF to
    <3> QED BY <1>1, <1>2, <1>3, <2>15, <3>1, GotoTypes DEF Confirm
  <2>16. CASE unmark_slot_completed(t)
    <3>1. bits' \in SUBSET Slots
      BY <1>1, <2>16 DEF unmark_slot_completed, LocalTypeOK
    <3> QED BY <1>1, <2>16, <3>1, ReturnTypes DEF unmark_slot_completed, LocalTypeOK, PCs, runVars
  <2>17. CASE ResetGeneration(t)
    <3> DEFINE to == IF pc[t] = "reset" THEN "clear" ELSE "wipe"
    <3>1. to \in PCs /\ Goto(t, to)
      BY <1>0, <2>17 DEF ResetGeneration
    <3> HIDE DEF to
    <3>2. packet_complete' \in [Slots -> BOOLEAN]
      BY <1>1, <2>17 DEF ResetGeneration, LocalTypeOK
    <3> QED BY <1>1, <2>17, <3>1, <3>2, GotoTypes DEF ResetGeneration, LocalTypeOK, PCs, runVars
  <2>18. CASE ResetCounters(t)
    <3> DEFINE to == IF pc[t] = "clear" THEN "count" ELSE "release"
    <3>1. to \in PCs /\ Goto(t, to)
      BY <1>0, <2>18 DEF ResetCounters
    <3> HIDE DEF to
    <3>2. /\ packet_counters' \in [Slots -> Nat] /\ work' \in [Slots -> {0, 1}]
          /\ bits' \in SUBSET Slots
      BY <1>1, <2>18 DEF ResetCounters, LocalTypeOK
    <3> QED BY <1>1, <2>18, <3>1, <3>2, GotoTypes DEF ResetCounters, LocalTypeOK, PCs, runVars
  <2>19. CASE CountOthers(t)
    <3> DEFINE S == {s \in Slots \ {slot[t]} : Occupied(s)}
    <3>1. Cardinality(S) \in Nat
      BY CountSlots
    <3>2. others' = [others EXCEPT ![t] = Cardinality(S)]
      BY <2>19 DEF CountOthers
    <3> HIDE DEF S
    <3>3. others' \in [Threads -> Nat]
      BY <3>1, <3>2 DEF LocalTypeOK
    <3> QED BY <2>19, <3>3 DEF CountOthers, LocalTypeOK, Finishing, runVars, countVars
  <2>20. CASE Tally(t)
    <3>1. restart' \in [Threads -> BOOLEAN]
      <4>1. CanRestart(t) \in BOOLEAN
        BY SlotProtocolAssumption DEF CanRestart, LocalTypeOK
      <4>2. restart' = [restart EXCEPT ![t] = CanRestart(t)]
        BY <2>20 DEF Tally
      <4>3. restart \in [Threads -> BOOLEAN]
        BY DEF LocalTypeOK
      <4> QED BY <4>1, <4>2, <4>3
    <3>2. frame_id[slot[t]] \in Nat \cup {NoFrame}
      BY DEF LocalTypeOK, TableInv, SlotTableTypeOK
    <3>3. finished' \in SUBSET (Nat \cup {NoFrame})
      BY <2>20, <3>2 DEF Tally, LocalTypeOK
    <3> QED BY <2>20, <3>1, <3>3 DEF Tally, LocalTypeOK, Finishing, countVars
  <2>21. ASSUME NEW s \in Slots, EvictTest(t, s) PROVE LocalTypeOK'
    BY <1>0, <1>1, <1>2, <1>3, <2>21, GotoTypes DEF EvictTest
  <2>22. CASE EvictSwap(t)
    <3>1. packet_complete' \in [Slots -> BOOLEAN]
      BY <1>1, <2>22 DEF EvictSwap, LocalTypeOK
    <3>2. CASE packet_complete[slot[t]]
      BY <1>1, <2>22, <3>1, <3>2, ReturnTypes DEF EvictSwap, LocalTypeOK, PCs, runVars
    <3>3. CASE ~packet_complete[slot[t]]
      BY <1>0, <1>1, <2>22, <3>1, <3>3, GotoTypes DEF EvictSwap, LocalTypeOK, PCs, runVars
    <3> QED BY <3>2, <3>3
  <2>23. CASE EvictDrop(t)
    <3>1. completed' \in Nat /\ dropped' \in SUBSET Trackable
      BY <1>1, <2>23 DEF EvictDrop, mark_frame_dropped, LocalTypeOK
    <3> QED BY <1>0, <1>1, <2>23, <3>1, GotoTypes DEF EvictDrop, LocalTypeOK, PCs, countVars
  <2>24. CASE Release(t)
    <3>1. CASE restart[t] /\ ~Network
      BY <2>24, <3>1 DEF Release, LocalTypeOK, Finishing, runVars, countVars
    <3>2. CASE ~(restart[t] /\ ~Network)
      BY <1>1, <1>2, <1>3, <2>24, <3>2, ReturnTypes DEF Release
    <3> QED BY <3>1, <3>2
  <2>25. ASSUME NEW s \in Slots, Promote(t, s) PROVE LocalTypeOK'
    BY <2>25 DEF Promote, LocalTypeOK, runVars, countVars
  <2>26. CASE PromoteBump(t)
    BY <1>1, <1>2, <1>3, <2>26, ReturnTypes DEF PromoteBump
  <2>27. CASE Restart(t)
    BY <1>1, <1>2, <1>3, <2>27, ReturnTypes DEF Restart
  <2>28. CASE Exit(t)
    BY <2>28 DEF Exit, LocalTypeOK, runVars, countVars
  <2> QED BY <1>T, <2>1, <2>2, <2>3, <2>4, <2>5, <2>6, <2>7, <2>8, <2>9, <2>10, <2>11, <2>12, <2>13, <2>14, <2>15, <2>16, <2>17, <2>18, <2>19, <2>20, <2>21, <2>22, <2>23, <2>24, <2>25, <2>26, <2>27, <2>28 DEF ThreadStep
<1>F. ASSUME NEW s \in Slots, FrameWork(s) PROVE LocalTypeOK'
  <2>1. work' \in [Slots -> {0, 1}]
    BY <1>F DEF FrameWork, LocalTypeOK
  <2> QED BY <1>F, <2>1 DEF FrameWork, LocalTypeOK, threadVars, runVars
<1>M. CASE MainPoll
  BY <1>M DEF MainPoll, LocalTypeOK, threadVars, countVars
<1>E. CASE Terminated
  BY <1>E DEF Terminated, LocalTypeOK, vars, threadVars, runVars, countVars
<1> QED BY <1>T, <1>F, <1>M, <1>E DEF Next

-----------------------------------------------------------------------------
(***************************************************************************)
(* Most steps are calm: they leave the table, the work and the completion  *)
(* bits alone, and give no thread a slot to complete or to restart.        *)
(***************************************************************************)

\* The frames the packet path and the preparation ask a slot for.
FrameIds == 0 .. MaxFrameId

Calm ==
  /\ UNCHANGED <<states, running_frames, frame_slot_map, frame_id, active_bitmap,
                 last_assigned, work, bits, initialized>>
  /\ generation' \in [Slots -> Nat] /\ needs_check' \in [Slots -> BOOLEAN]
  /\ \A u \in Threads :
       /\ pc'[u] \in HoldsBit => pc[u] \in HoldsBit /\ slot'[u] = slot[u]
       /\ pc'[u] \in {"reset", "clear"} => pc[u] \in {"reset", "clear"} /\ slot'[u] = slot[u]
       /\ pc'[u] \in Counted => pc[u] \in Counted /\ slot'[u] = slot[u]
       /\ pc'[u] = "restart" => pc[u] = "restart" /\ slot'[u] = slot[u]
       /\ pc'[u] \in Assigning =>
            \/ pc[u] \in Assigning /\ frame'[u] = frame[u]
            \/ Network /\ frame'[u] \in FrameIds
       /\ pc'[u] \in Evicting => pc[u] \in Evicting \/ Evicts

LEMMA StreamFrames ==
  ASSUME NEW f \in Stream
  PROVE  f \in Nat /\ f \in FrameIds
BY SlotProtocolAssumption DEF Stream, FrameIds, MaxFrameId

LEMMA Steps ==
  ASSUME IInv, [Next]_vars
  PROVE  \/ Calm
         \/ \E t \in Threads, s \in Slots :
              AssignActive(t, s) \/ AssignBuffer(t, s) \/ Promote(t, s)
         \/ \E t \in Threads :
              \/ InitialFrame(t) \/ try_complete_slot(t) \/ Confirm(t)
              \/ unmark_slot_completed(t) \/ ResetCounters(t) \/ Release(t) \/ Restart(t)
         \/ \E s \in Slots : FrameWork(s)
<1>0. /\ DOMAIN pc = Threads /\ DOMAIN slot = Threads /\ DOMAIN frame = Threads
      /\ generation \in [Slots -> Nat] /\ needs_check \in [Slots -> BOOLEAN]
      /\ slot \in [Threads -> Slots]
  BY DEF IInv, LocalTypeOK, TableInv, SlotTableTypeOK
<1> USE DEF Calm, HoldsBit, Counted, Assigning, Evicting, Bumping
<1>1. ASSUME NEW t \in Threads, NEW f \in Stream, AdmitMiss(t, f) \/ AdmitHit(t, f)
      PROVE  Calm
  BY <1>0, <1>1, StreamFrames DEF AdmitMiss, AdmitHit, Arrives, slotVars, countVars
<1>2. ASSUME NEW t \in Threads, AssignRegistered(t) PROVE Calm
  BY <1>0, <1>2 DEF AssignRegistered, Return, Goto, slotVars, countVars, runVars
<1>3. ASSUME NEW t \in Threads, AssignNoSlot(t) PROVE Calm
  BY <1>0, <1>3 DEF AssignNoSlot, Return, slotVars, countVars
<1>4. ASSUME NEW t \in Threads, PreparationPanics(t) \/ Exit(t) PROVE Calm
  BY <1>0, <1>4 DEF PreparationPanics, Exit, slotVars, countVars, runVars
<1>5. ASSUME NEW t \in Threads, AssignBump(t) \/ PromoteBump(t) PROVE Calm
  BY <1>0, <1>5 DEF AssignBump, PromoteBump, bump_slot_generation, Return, Goto, countVars, runVars
<1>6. ASSUME NEW t \in Threads, CountPacket(t) \/ CheckWhole(t) PROVE Calm
  BY <1>0, <1>6 DEF CountPacket, CheckWhole, Return, Goto, slotVars, runVars
<1>7. ASSUME NEW t \in Threads, NEW s \in Slots, Check(t, s) PROVE Calm
  BY <1>0, <1>7 DEF Check, Goto, countVars, runVars
<1>8. ASSUME NEW t \in Threads, Load(t) PROVE Calm
  BY <1>0, <1>8 DEF Load, Return, Goto, slotVars, countVars, runVars
<1>9. ASSUME NEW t \in Threads, ResetGeneration(t) PROVE Calm
  <2>1. generation' \in [Slots -> Nat]
    BY <1>0, <1>9 DEF ResetGeneration, bump_slot_generation
  <2>2. CASE pc[t] = "reset"
    BY <1>0, <1>9, <2>1, <2>2 DEF ResetGeneration, Goto, runVars
  <2>3. CASE pc[t] = "discard"
    BY <1>0, <1>9, <2>1, <2>3 DEF ResetGeneration, Goto, runVars
  <2> QED BY <1>9, <2>2, <2>3 DEF ResetGeneration
<1>10. ASSUME NEW t \in Threads, CountOthers(t) \/ Tally(t) PROVE Calm
  BY <1>0, <1>10 DEF CountOthers, Tally, slotVars, countVars, runVars
<1>11. ASSUME NEW t \in Threads, NEW s \in Slots, EvictTest(t, s) PROVE Calm
  BY <1>0, <1>11 DEF EvictTest, Goto, slotVars, countVars, runVars
<1>12. ASSUME NEW t \in Threads, EvictSwap(t) \/ EvictDrop(t) PROVE Calm
  BY <1>0, <1>12 DEF EvictSwap, EvictDrop, Return, Goto, slotVars, countVars, runVars
<1>13. CASE MainPoll \/ Terminated \/ UNCHANGED vars
  BY <1>0, <1>13 DEF MainPoll, Terminated, vars, slotVars, threadVars, countVars, runVars
<1>14. CASE \E t \in Threads : ThreadStep(t)
  BY <1>14, <1>1, <1>2, <1>3, <1>4, <1>5, <1>6, <1>7, <1>8, <1>9, <1>10, <1>11, <1>12
     DEF ThreadStep
<1> QED BY <1>13, <1>14 DEF Next

\* Every step keeps the slot table consistent.
LEMMA TableStep ==
  ASSUME IInv, [Next]_vars
  PROVE  TableInv'
<1>0. /\ TableInv /\ SlotTableTypeOK /\ slot \in [Threads -> Slots]
      /\ generation \in [Slots -> Nat] /\ needs_check \in [Slots -> BOOLEAN]
  BY DEF IInv, TableInv, SlotTableTypeOK, LocalTypeOK
<1>1. CASE Calm
  BY <1>0, <1>1, TableUnchanged DEF Calm
<1>2. ASSUME NEW t \in Threads, NEW s \in Slots, AssignActive(t, s) \/ AssignBuffer(t, s)
      PROVE  TableInv'
  <2>1. frame[t] \in Nat
    BY <1>2 DEF AssignActive, AssignBuffer, IInv, FrameInv
  <2> QED BY <1>0, <1>2, <2>1, AssignKeepsTable DEF AssignActive, AssignBuffer
<1>3. ASSUME NEW t \in Threads, NEW s \in Slots, Promote(t, s) PROVE TableInv'
  BY <1>0, <1>3, AnyReleaseKeepsTable DEF Promote
<1>4. ASSUME NEW t \in Threads, Release(t) PROVE TableInv'
  BY <1>0, <1>4, AnyReleaseKeepsTable DEF Release
<1>5. ASSUME NEW t \in Threads, Restart(t) PROVE TableInv'
  <2>1. ~Evicts /\ ~Occupied(slot[t])
    BY <1>5 DEF Restart, IInv, FrameInv, ExactInv, Exact, ThreadInv, Evicts
  <2>2. NextFrameId \in Nat
    BY NextFrameIdType DEF IInv
  <2> QED BY <1>0, <1>5, <2>1, <2>2, RestartKeepsTable DEF Restart
<1>6. ASSUME NEW t \in Threads, ResetCounters(t) PROVE TableInv'
  BY <1>0, <1>6, TableUnchanged DEF ResetCounters
<1>7. ASSUME NEW t \in Threads,
             InitialFrame(t) \/ try_complete_slot(t) \/ Confirm(t) \/ unmark_slot_completed(t)
      PROVE  TableInv'
  BY <1>0, <1>7, TableUnchanged
     DEF InitialFrame, try_complete_slot, Confirm, unmark_slot_completed, slotVars
<1>8. ASSUME NEW s \in Slots, FrameWork(s) PROVE TableInv'
  BY <1>0, <1>8, TableUnchanged DEF FrameWork
<1> QED BY <1>1, <1>2, <1>3, <1>4, <1>5, <1>6, <1>7, <1>8, Steps

\* Every step keeps what the program counters say of frames and runs.
LEMMA FrameInvStep ==
  ASSUME IInv, [Next]_vars
  PROVE  FrameInv'
<1>0. DOMAIN pc = Threads /\ DOMAIN frame = Threads /\ FrameInv
  BY DEF IInv, LocalTypeOK
<1>1. CASE Calm
  BY <1>0, <1>1, SlotProtocolAssumption DEF Calm, FrameInv, FrameIds
<1> USE DEF FrameInv, Assigning, Evicting
<1>2. ASSUME NEW t \in Threads, NEW s \in Slots,
             AssignActive(t, s) \/ AssignBuffer(t, s) \/ Promote(t, s)
      PROVE  FrameInv'
  BY <1>0, <1>2 DEF AssignActive, AssignBuffer, Promote, Goto, Return
<1>3. ASSUME NEW t \in Threads, InitialFrame(t) PROVE FrameInv'
  <2>1. Head(initialized) \in Slots
    BY <1>3, HeadTailProperties DEF InitialFrame, IInv, LocalTypeOK
  <2>2. Head(initialized) \in Nat
    BY <2>1 DEF Slots
  <2> QED BY <1>0, <1>3, <2>2 DEF InitialFrame
<1>4. ASSUME NEW t \in Threads,
             try_complete_slot(t) \/ Confirm(t) \/ unmark_slot_completed(t) \/ ResetCounters(t)
      PROVE  FrameInv'
  BY <1>0, <1>4 DEF try_complete_slot, Confirm, unmark_slot_completed, ResetCounters, Goto, Return
<1>5. ASSUME NEW t \in Threads, Release(t) \/ Restart(t) PROVE FrameInv'
  BY <1>0, <1>5 DEF Release, Restart, Return
<1>6. ASSUME NEW s \in Slots, FrameWork(s) PROVE FrameInv'
  BY <1>0, <1>6 DEF FrameWork, threadVars
<1> QED BY <1>1, <1>2, <1>3, <1>4, <1>5, <1>6, Steps

-----------------------------------------------------------------------------
(* Without evictions every step leaves a slot to one thread *)

\* The types the steps below use.
Kinds ==
  /\ pc \in [Threads -> PCs] /\ slot \in [Threads -> Slots]
  /\ states \in [Slots -> SlotState] /\ work \in [Slots -> {0, 1}] /\ bits \in SUBSET Slots
  /\ last_assigned \in Slots /\ SlotTableTypeOK

LEMMA HaveKinds ==
  ASSUME IInv
  PROVE  Kinds
BY DEF IInv, LocalTypeOK, TableInv, SlotTableTypeOK, Kinds, PCs

LEMMA ExactCalm ==
  ASSUME IInv, Exact, ~Evicts, Calm
  PROVE  Exact'
<1> USE DEF Calm, Exact
<1>1. ThreadInv' /\ OwnInv'
  BY DEF ThreadInv, OwnInv, Owning, Finishing, Counted, Occupied
<1>2. PrepInv'
  BY DEF PrepInv, Owning, Finishing, Counted
<1>3. WorkInv'
  BY DEF WorkInv, Runs, Occupied
<1>4. BitInv'
  BY DEF BitInv
<1> QED BY <1>1, <1>2, <1>3, <1>4

\* An assignment takes a slot no thread completes: it has no frame.
LEMMA ExactAssign ==
  ASSUME IInv, Exact, ~Evicts, NEW t \in Threads, NEW s \in Slots,
         AssignActive(t, s) \/ AssignBuffer(t, s)
  PROVE  Exact'
<1>0. Kinds /\ FrameInv
  BY HaveKinds DEF IInv
<1>1. /\ pc[t] \in Assigning /\ ~Occupied(s)
      /\ \E st \in {"Active", "Buffering"} : states' = [states EXCEPT ![s] = st]
      /\ UNCHANGED <<work, bits, initialized>>
  BY <1>0, RoundRobinFree DEF Kinds, AssignActive, AssignBuffer, AssignLastAssigned, AssignParallel,
     AssignBuffering, Register, countVars, runVars
<1>2. /\ \A u \in Threads : u # t => pc'[u] = pc[u] /\ slot'[u] = slot[u]
      /\ pc'[t] \in {"bump", "prepbump", "packet", "idle"}
  BY <1>0 DEF Kinds, AssignActive, AssignBuffer, Goto, Return
<1>3. /\ states'[s] # "Inactive" /\ states[s] = "Inactive"
      /\ \A r \in Slots : r # s => states'[r] = states[r]
  BY <1>0, <1>1 DEF Kinds, Occupied
<1>4. \A u \in Threads : pc[u] # "restart"
  BY <1>0, <1>1 DEF Exact, PrepInv, FrameInv, Owning
<1>5. ThreadInv'
  BY <1>0, <1>2, <1>3, <1>4 DEF Exact, ThreadInv, Occupied, Finishing, Kinds
<1>6. OwnInv'
  BY <1>2 DEF Exact, OwnInv, Owning, Finishing
<1>7. PrepInv'
  BY <1>1, <1>2 DEF Exact, PrepInv, Owning, Finishing, Assigning
<1>8. WorkInv'
  BY <1>1, <1>2, <1>3 DEF Exact, WorkInv, Runs, Occupied, Counted
<1>9. BitInv'
  BY <1>1, <1>2 DEF Exact, BitInv, HoldsBit
<1> QED BY <1>5, <1>6, <1>7, <1>8, <1>9 DEF Exact

LEMMA ExactInitial ==
  ASSUME IInv, Exact, ~Evicts, NEW t \in Threads, InitialFrame(t)
  PROVE  Exact'
<1>0. Kinds
  BY HaveKinds
<1>1. /\ initialized # <<>> /\ UNCHANGED <<states, slot, work, bits>>
      /\ pc'[t] = "prepare" /\ \A u \in Threads : u # t => pc'[u] = pc[u]
  BY <1>0 DEF InitialFrame, slotVars, countVars, Kinds
<1>2. ThreadInv' /\ OwnInv' /\ BitInv'
  BY <1>1 DEF Exact, ThreadInv, OwnInv, BitInv, Owning, Finishing, HoldsBit, Occupied
<1>3. PrepInv'
  BY <1>1 DEF Exact, PrepInv, Owning, Finishing
<1>4. WorkInv'
  BY <1>1 DEF Exact, WorkInv, Runs, Occupied, Counted
<1> QED BY <1>2, <1>3, <1>4 DEF Exact

\* The last batch of a frame: its slot runs and is in no thread's hands.
LEMMA ExactWork ==
  ASSUME IInv, Exact, ~Evicts, NEW s \in Slots, FrameWork(s)
  PROVE  Exact'
<1>0. Kinds
  BY HaveKinds
<1>1. /\ UNCHANGED <<states, pc, slot, bits, initialized>>
      /\ work' = [work EXCEPT ![s] = 0]
      /\ Runs(s) /\ \A t \in Threads : pc[t] \in Finishing => slot[t] # s
      /\ ~Network => initialized = <<>> /\ \A t \in Threads : pc[t] \notin Assigning
  <2>1. UNCHANGED <<states, pc, slot, bits, initialized>>
    BY DEF FrameWork, threadVars, runVars
  <2>2. work[s] = 1 /\ work' = [work EXCEPT ![s] = work[s] - 1]
    BY <1>0 DEF FrameWork, Kinds
  <2>3. Runs(s) /\ \A t \in Threads : pc[t] \in Finishing => slot[t] # s
    BY DEF FrameWork, Underway
  <2>4. ~Network => initialized = <<>> /\ \A t \in Threads : pc[t] \notin Assigning
    BY DEF FrameWork, Underway
  <2> QED BY <2>1, <2>2, <2>3, <2>4
<1>2. Occupied(s)
  BY <1>1 DEF Runs, Occupied
<1>3. ThreadInv' /\ OwnInv' /\ BitInv'
  BY <1>1 DEF Exact, ThreadInv, OwnInv, BitInv, Occupied
<1>4. PrepInv'
  BY <1>1 DEF Exact, PrepInv
<1>5. \A t \in Threads : pc[t] \in Counted \cup {"restart"} => slot[t] # s
  BY <1>1, <1>2 DEF Exact, ThreadInv, Finishing, Counted
<1>6. WorkInv'
  BY <1>0, <1>1, <1>5 DEF Exact, WorkInv, Kinds, Runs, Occupied
<1> QED BY <1>3, <1>4, <1>6 DEF Exact

\* The completion bit, and the second reading of the counters.
LEMMA ExactBits ==
  ASSUME IInv, Exact, ~Evicts, NEW t \in Threads,
         try_complete_slot(t) \/ unmark_slot_completed(t)
  PROVE  Exact'
<1>0. Kinds
  BY HaveKinds
<1>1. /\ UNCHANGED <<states, work, initialized>>
      /\ \A u \in Threads : u # t => pc'[u] = pc[u] /\ slot'[u] = slot[u]
      /\ pc'[t] \in {"idle", "confirm"}
  BY <1>0 DEF try_complete_slot, unmark_slot_completed, Goto, Return, slotVars, runVars, Kinds
<1>2. ThreadInv' /\ OwnInv'
  BY <1>1 DEF Exact, ThreadInv, OwnInv, Owning, Finishing, Occupied
<1>3. PrepInv'
  BY <1>1 DEF Exact, PrepInv, Owning, Finishing, Assigning
<1>4. WorkInv'
  BY <1>1 DEF Exact, WorkInv, Runs, Occupied, Counted
<1>5. CASE try_complete_slot(t)
  <2>1. CASE slot[t] \in bits
    <3>1. bits' = bits /\ pc'[t] = "idle"
      BY <1>0, <1>5, <2>1 DEF try_complete_slot, Return, Kinds
    <3>2. BitInv'
      BY <1>1, <3>1 DEF Exact, BitInv, HoldsBit
    <3> QED BY <1>2, <1>3, <1>4, <3>2 DEF Exact
  <2>2. CASE slot[t] \notin bits
    <3>1. bits' = bits \cup {slot[t]} /\ pc'[t] = "confirm" /\ slot' = slot
      BY <1>0, <1>5, <2>2 DEF try_complete_slot, Goto, Kinds
    <3>2. BitInv'
      BY <1>1, <2>2, <3>1 DEF Exact, BitInv
    <3> QED BY <1>2, <1>3, <1>4, <3>2 DEF Exact
  <2> QED BY <2>1, <2>2
<1>6. CASE unmark_slot_completed(t)
  <2>1. bits' = bits \ {slot[t]} /\ pc'[t] = "idle" /\ pc[t] \in HoldsBit
    BY <1>0, <1>6 DEF unmark_slot_completed, Return, Kinds, HoldsBit
  <2>2. BitInv'
    BY <1>1, <2>1 DEF Exact, BitInv, HoldsBit
  <2> QED BY <1>2, <1>3, <1>4, <2>2 DEF Exact
<1> QED BY <1>5, <1>6

LEMMA ExactConfirm ==
  ASSUME IInv, Exact, ~Evicts, NEW t \in Threads, Confirm(t)
  PROVE  Exact'
<1>0. Kinds
  BY HaveKinds
<1>1. /\ UNCHANGED <<states, slot, work, bits, initialized>> /\ pc[t] = "confirm"
      /\ \A u \in Threads : u # t => pc'[u] = pc[u]
      /\ pc'[t] \in {"reset", "unmark"} /\ (pc'[t] = "reset" => work[slot[t]] = 0)
  BY <1>0 DEF Confirm, Goto, slotVars, countVars, runVars, Kinds
<1>2. BitInv'
  BY <1>1 DEF Exact, BitInv, HoldsBit
<1>3. CASE pc'[t] = "unmark"
  <2>1. ThreadInv' /\ OwnInv'
    BY <1>1, <1>3 DEF Exact, ThreadInv, OwnInv, Owning, Finishing, Occupied
  <2>2. PrepInv'
    BY <1>1, <1>3 DEF Exact, PrepInv, Owning, Finishing, Assigning
  <2>3. WorkInv'
    BY <1>1, <1>3 DEF Exact, WorkInv, Runs, Occupied, Counted
  <2> QED BY <1>2, <2>1, <2>2, <2>3 DEF Exact
<1>4. CASE pc'[t] = "reset"
  <2>1. /\ slot[t] \in Slots /\ work[slot[t]] = 0 /\ Runs(slot[t]) /\ Occupied(slot[t])
    BY <1>0, <1>1, <1>4 DEF Exact, WorkInv, Kinds, Runs, Occupied
  <2>2. ThreadInv'
    BY <1>1, <1>4, <2>1 DEF Exact, ThreadInv, Finishing, Occupied
  <2>3. ASSUME NEW u \in Threads, u # t, pc[u] \in Owning PROVE slot[u] # slot[t]
    <3>1. CASE pc[u] \in {"reset", "clear"}
      BY <1>1, <2>3, <3>1 DEF Exact, BitInv, HoldsBit
    <3>2. CASE pc[u] \in Counted \cup {"restart"}
      BY <2>1, <3>2 DEF Exact, WorkInv
    <3> QED BY <2>3, <3>1, <3>2 DEF Owning, Finishing, Counted
  <2>4. OwnInv'
    BY <1>1, <1>4, <2>3 DEF Exact, OwnInv
  <2>5. PrepInv'
    BY <1>1, <1>4, <2>1 DEF Exact, PrepInv, Owning, Finishing, Assigning
  <2>6. WorkInv'
    BY <1>1, <1>4, <2>1 DEF Exact, WorkInv, Runs, Occupied, Counted
  <2> QED BY <1>2, <2>2, <2>4, <2>5, <2>6 DEF Exact
<1> QED BY <1>1, <1>3, <1>4

LEMMA ExactReset ==
  ASSUME IInv, Exact, ~Evicts, NEW t \in Threads, ResetCounters(t)
  PROVE  Exact'
<1>0. Kinds
  BY HaveKinds
<1>1. pc[t] = "clear"
  BY DEF ResetCounters, IInv, FrameInv, Evicting
<1>2. /\ UNCHANGED <<states, slot, initialized>>
      /\ \A u \in Threads : u # t => pc'[u] = pc[u]
      /\ pc'[t] = "count" /\ bits' = bits \ {slot[t]}
      /\ work'[slot[t]] = 1 /\ \A r \in Slots : r # slot[t] => work'[r] = work[r]
  BY <1>0, <1>1 DEF ResetCounters, Goto, runVars, Kinds
<1>3. ThreadInv' /\ OwnInv'
  BY <1>1, <1>2 DEF Exact, ThreadInv, OwnInv, Owning, Finishing, Occupied
<1>4. PrepInv'
  BY <1>1, <1>2 DEF Exact, PrepInv, Owning, Finishing, Assigning
<1>5. BitInv'
  BY <1>1, <1>2 DEF Exact, BitInv, HoldsBit
<1>6. \A u \in Threads : u # t /\ pc[u] \in {"reset", "clear"} => slot[u] # slot[t]
  BY <1>1 DEF Exact, BitInv, HoldsBit
<1>7. \A s \in Slots : work'[s] = 0 =>
        Runs(s)' /\ \A u \in Threads : pc'[u] \in Counted \cup {"restart"} => slot'[u] # s
  BY <1>1, <1>2 DEF Exact, WorkInv, Runs, Occupied, Counted
<1>8. \A u \in Threads : pc'[u] \in {"reset", "clear"} => work'[slot'[u]] = 0
  BY <1>0, <1>2, <1>6 DEF Exact, WorkInv, Kinds
<1>9. WorkInv'
  BY <1>7, <1>8 DEF WorkInv
<1> QED BY <1>3, <1>4, <1>5, <1>9 DEF Exact

\* A release, with or without a promotion.
LEMMA ExactRelease ==
  ASSUME IInv, Exact, ~Evicts, NEW t \in Threads,
         Release(t) \/ \E s \in Slots : Promote(t, s)
  PROVE  Exact'
<1>0. Kinds
  BY HaveKinds
<1>1. /\ pc[t] = "release" /\ slot[t] \in Slots /\ UNCHANGED <<work, bits, initialized>>
      /\ \A u \in Threads : u # t => pc'[u] = pc[u] /\ slot'[u] = slot[u]
      /\ pc'[t] \in {"idle", "promoted", "restart"}
      /\ pc'[t] = "restart" => slot'[t] = slot[t]
  BY <1>0 DEF Release, Promote, Return, countVars, runVars, Kinds
<1>2. /\ states'[slot[t]] = "Inactive"
      /\ \A r \in Slots : r # slot[t] =>
           \/ states'[r] = states[r]
           \/ states[r] = "Buffering" /\ states'[r] = "Active"
  <2>1. CASE Release(t)
    BY <1>0, <1>1, <2>1 DEF Release, ReleaseOnly, Kinds
  <2>2. ASSUME NEW n \in Slots, Promote(t, n)
        PROVE  /\ states'[slot[t]] = "Inactive"
               /\ \A r \in Slots : r # slot[t] =>
                    \/ states'[r] = states[r]
                    \/ states[r] = "Buffering" /\ states'[r] = "Active"
    BY <1>0, <1>1, <2>2 DEF Promote, ReleaseAndPromote, Promotable, Kinds
  <2> QED BY <2>1, <2>2
<1>3. \A u \in Threads : u # t /\ pc[u] \in Owning => slot[u] # slot[t] /\ slot[u] \in Slots
  BY <1>0, <1>1 DEF Exact, OwnInv, Owning, Finishing, Kinds
<1>4. ThreadInv'
  BY <1>1, <1>2, <1>3 DEF Exact, ThreadInv, Owning, Finishing, Occupied
<1>5. OwnInv'
  BY <1>1 DEF Exact, OwnInv, Owning, Finishing
<1>6. PrepInv'
  BY <1>1 DEF Exact, PrepInv, Owning, Finishing, Assigning
<1>7. WorkInv'
  <2>1. \A s \in Slots : work[s] = 0 => Runs(s) /\ s # slot[t]
    BY <1>1 DEF Exact, WorkInv, Counted
  <2>2. \A s \in Slots : work[s] = 0 => Runs(s)'
    BY <1>2, <2>1 DEF Runs, Occupied
  <2>3. \A s \in Slots : work[s] = 0 =>
          \A u \in Threads : pc'[u] \in Counted \cup {"restart"} => slot'[u] # s
    BY <1>1, <2>1 DEF Exact, WorkInv, Counted
  <2>4. \A u \in Threads : pc'[u] \in {"reset", "clear"} => work[slot'[u]] = 0
    BY <1>1 DEF Exact, WorkInv
  <2> QED BY <1>1, <2>2, <2>3, <2>4 DEF WorkInv
<1>8. BitInv'
  BY <1>1 DEF Exact, BitInv, HoldsBit
<1> QED BY <1>4, <1>5, <1>6, <1>7, <1>8 DEF Exact

LEMMA ExactRestart ==
  ASSUME IInv, Exact, ~Evicts, NEW t \in Threads, Restart(t)
  PROVE  Exact'
<1>0. Kinds
  BY HaveKinds
<1>1. /\ pc[t] = "restart" /\ slot[t] \in Slots /\ UNCHANGED <<work, bits, initialized>>
      /\ \A u \in Threads : u # t => pc'[u] = pc[u] /\ slot'[u] = slot[u]
      /\ pc'[t] = "idle" /\ states' = [states EXCEPT ![slot[t]] = "Active"]
  BY <1>0 DEF Restart, RestartSlot, Register, Return, countVars, runVars, Kinds
<1>2. /\ states[slot[t]] = "Inactive" /\ states'[slot[t]] = "Active"
      /\ \A r \in Slots : r # slot[t] => states'[r] = states[r]
  BY <1>0, <1>1 DEF Exact, ThreadInv, Occupied, Kinds
<1>3. \A u \in Threads : u # t /\ pc[u] \in Owning => slot[u] # slot[t] /\ slot[u] \in Slots
  BY <1>0, <1>1 DEF Exact, OwnInv, Owning, Kinds
<1>4. ThreadInv'
  BY <1>1, <1>2, <1>3 DEF Exact, ThreadInv, Owning, Finishing, Occupied
<1>5. OwnInv'
  BY <1>1 DEF Exact, OwnInv, Owning, Finishing
<1>6. PrepInv'
  BY <1>1 DEF Exact, PrepInv, Owning, Finishing, Assigning
<1>7. WorkInv'
  BY <1>1, <1>2 DEF Exact, WorkInv, Runs, Occupied, Counted
<1>8. BitInv'
  BY <1>1 DEF Exact, BitInv, HoldsBit
<1> QED BY <1>4, <1>5, <1>6, <1>7, <1>8 DEF Exact

LEMMA ExactStep ==
  ASSUME IInv, [Next]_vars
  PROVE  ExactInv'
<1> SUFFICES ASSUME ~Evicts PROVE Exact'
  BY DEF ExactInv, Evicts
<1>1. Exact
  BY DEF IInv, ExactInv
<1> QED BY <1>1, Steps, ExactCalm, ExactAssign, ExactInitial, ExactWork, ExactBits, ExactConfirm,
           ExactReset, ExactRelease, ExactRestart

-----------------------------------------------------------------------------
(* The invariant holds in every state *)

LEMMA InitIInv == Init => IInv
<1> SUFFICES ASSUME Init PROVE IInv
  OBVIOUS
<1> USE DEF Init, SlotTableInit
<1>1. LocalTypeOK
  <2>1. 0 \in Slots
    BY DEF Slots
  <2>2. initialized \in Seq(Slots)
    <3>1. [i \in 1 .. NumSlots |-> i - 1] \in Seq(Slots)
      <4>1. \A i \in 1 .. NumSlots : i - 1 \in Slots
        BY DEF Slots
      <4> QED BY <4>1, SeqDef
    <3> QED BY <2>1, <3>1
  <2>3. /\ work \in [Slots -> {0, 1}] /\ packet_counters \in [Slots -> Nat]
        /\ packet_complete \in [Slots -> BOOLEAN] /\ taken \in [Stream -> Int]
        /\ bits \in SUBSET Slots /\ dropped \in SUBSET Trackable
    OBVIOUS
  <2>4. pc \in [Threads -> PCs] /\ restart \in [Threads -> BOOLEAN]
    BY DEF PCs
  <2> QED BY <2>1, <2>2, <2>3, <2>4 DEF LocalTypeOK, PCs
<1>2. TableInv
  BY DEF TableInv, SlotTableTypeOK, TableConsistent, CacheCoherent, Occupied, ActiveSlots,
         Slots, SlotState
<1>3. FrameInv
  BY DEF FrameInv, Assigning, Evicting
<1>4. ThreadInv /\ OwnInv /\ PrepInv
  BY DEF ThreadInv, OwnInv, PrepInv, Owning, Finishing, Assigning
<1>5. WorkInv /\ BitInv
  BY DEF WorkInv, BitInv, HoldsBit
<1> QED BY <1>1, <1>2, <1>3, <1>4, <1>5 DEF IInv, ExactInv, Exact

LEMMA StepIInv == IInv /\ [Next]_vars => IInv'
<1> SUFFICES ASSUME IInv, [Next]_vars PROVE IInv'
  OBVIOUS
<1>1. LocalTypeOK'
  <2>1. CASE Next
    BY <2>1, LocalTypeStep
  <2>2. CASE UNCHANGED vars
    BY <2>2 DEF IInv, LocalTypeOK, vars, threadVars, countVars, runVars
  <2> QED BY <2>1, <2>2
<1> QED BY <1>1, TableStep, FrameInvStep, ExactStep DEF IInv

THEOREM InductiveInvariant == Spec => []IInv
BY InitIInv, StepIInv, PTL DEF Spec

\* The slot table and the variables of its threads keep their types, for every
\* number of slots, threads and frames, evictions included.
THEOREM TypeCorrect == Spec => []TypeOK
<1>1. IInv => TypeOK
  BY DEF IInv, TableInv, TypeOK
<1> QED BY <1>1, InductiveInvariant, PTL

\* running_frames, states, frame_id and active_bitmap of slot_management.rs
\* agree in every state, whatever the threads do between two lock scopes and
\* however many of them complete or evict the same slot.
THEOREM TableAlwaysConsistent == Spec => []TableConsistent
<1>1. IInv => TableConsistent
  BY DEF IInv, TableInv
<1> QED BY <1>1, InductiveInvariant, PTL

-----------------------------------------------------------------------------
(***************************************************************************)
(* A frame has one slot, the lock-free lookup agrees with the scan, slot   *)
(* priority runs one frame at a time and in order, and a compute graph     *)
(* with one thread stays within the frames it was asked for.               *)
(***************************************************************************)

(***************************************************************************)
(* A step either leaves the table alone or is one of five.  A quiet step   *)
(* makes nobody finish a slot that is not Active (under slot priority,     *)
(* without eviction) and makes nobody restart.                             *)
(***************************************************************************)
Quiet ==
  /\ UNCHANGED <<states, running_frames, frame_slot_map, frame_id, active_bitmap,
                 last_assigned>>
  /\ \A u \in Threads : pc'[u] \in Finishing =>
       \/ pc[u] \in Finishing /\ slot'[u] = slot[u]
       \/ SlotPriority /\ ~Eviction => slot'[u] \in active_bitmap
  /\ \A u \in Threads : pc'[u] = "restart" => pc[u] = "restart" /\ slot'[u] = slot[u]
  /\ \A u \in Threads : pc'[u] \in Assigning =>
       \/ pc[u] \in Assigning /\ frame'[u] = frame[u]
       \/ frame'[u] \in FrameIds

LEMMA TableSteps ==
  ASSUME IInv, [Next]_vars
  PROVE  \/ Quiet
         \/ \E t \in Threads, s \in Slots : AssignActive(t, s) \/ AssignBuffer(t, s)
         \/ \E t \in Threads : Release(t) \/ Restart(t)
         \/ \E t \in Threads, s \in Slots : Promote(t, s)
<1>0. Kinds /\ DOMAIN frame = Threads
  BY HaveKinds DEF IInv, LocalTypeOK
<1>1. CASE Calm
  BY <1>1 DEF Calm, Quiet, Finishing, Counted
<1> USE DEF Quiet, Finishing, Assigning
<1>2. ASSUME NEW t \in Threads, InitialFrame(t) PROVE Quiet
  <2>1. Head(initialized) \in Slots
    BY <1>2, HeadTailProperties DEF InitialFrame, IInv, LocalTypeOK
  <2>2. Head(initialized) \in FrameIds
    BY <2>1, SlotProtocolAssumption DEF Slots, FrameIds, MaxFrameId
  <2> QED BY <1>0, <1>2, <2>2 DEF InitialFrame, slotVars, Kinds
<1>3. ASSUME NEW t \in Threads, try_complete_slot(t) \/ unmark_slot_completed(t) PROVE Quiet
  BY <1>0, <1>3 DEF try_complete_slot, unmark_slot_completed, Goto, Return, slotVars, Kinds
<1>4. ASSUME NEW t \in Threads, Confirm(t) PROVE Quiet
  <2>1. SlotPriority /\ ~Eviction /\ pc'[t] = "reset" => slot[t] \in active_bitmap
    <3> SUFFICES ASSUME SlotPriority, ~Eviction, pc'[t] = "reset"
                 PROVE  slot[t] \in active_bitmap
      OBVIOUS
    <3>1. work[slot[t]] = 0 /\ slot[t] \in Slots
      BY <1>0, <1>4 DEF Confirm, Goto, Kinds
    <3>2. states[slot[t]] = "Active"
      BY <3>1 DEF IInv, ExactInv, Exact, WorkInv, Evicts, Runs
    <3> QED BY <3>1, <3>2 DEF IInv, TableInv, TableConsistent, ActiveSlots
  <2>2. /\ \A u \in Threads : u # t => pc'[u] = pc[u]
        /\ pc'[t] \in {"reset", "unmark"} /\ UNCHANGED <<slotVars, slot, frame>>
    BY <1>0, <1>4 DEF Confirm, Goto, Kinds
  <2> QED BY <2>1, <2>2 DEF slotVars
<1>5. ASSUME NEW t \in Threads, ResetCounters(t) PROVE Quiet
  <2>1. CASE pc[t] = "clear"
    BY <1>0, <1>5, <2>1 DEF ResetCounters, Goto, Kinds
  <2>2. CASE pc[t] = "wipe"
    <3>1. Eviction
      BY <2>2 DEF IInv, FrameInv, Evicting, Evicts
    <3> QED BY <1>0, <1>5, <2>2, <3>1 DEF ResetCounters, Goto, Kinds
  <2> QED BY <1>5, <2>1, <2>2 DEF ResetCounters
<1>6. ASSUME NEW s \in Slots, FrameWork(s) PROVE Quiet
  BY <1>6 DEF FrameWork, threadVars
<1> QED BY <1>1, <1>2, <1>3, <1>4, <1>5, <1>6, Steps

-----------------------------------------------------------------------------
(* What the five steps do to running_frames *)

\* Assignment and restart append an entry for a free slot.
Appended(f, s, st) ==
  /\ f \in Nat /\ s \in Slots /\ ~Occupied(s)
  /\ Register(f, s, st)
  /\ Len(running_frames') = Len(running_frames) + 1
  /\ running_frames'[Len(running_frames) + 1] = <<f, s>>
  /\ \A i \in 1 .. Len(running_frames) : running_frames'[i] = running_frames[i]

LEMMA RegisterAppends ==
  ASSUME TableInv, NEW f \in Nat, NEW s \in Slots, ~Occupied(s), NEW st, Register(f, s, st)
  PROVE  Appended(f, s, st)
<1>1. running_frames \in Seq(Entries) /\ <<f, s>> \in Entries
  BY DEF TableInv, SlotTableTypeOK, Entries
<1>2. running_frames' = Append(running_frames, <<f, s>>)
  BY DEF Register
<1> QED BY <1>1, <1>2, AppendProperties DEF Appended

LEMMA AssignActiveAppends ==
  ASSUME IInv, NEW t \in Threads, NEW s \in Slots, AssignActive(t, s)
  PROVE  Appended(frame[t], s, "Active") /\ ~InRunning(frame[t])
<1>1. TableInv /\ SlotTableTypeOK /\ frame[t] \in Nat
  BY DEF IInv, TableInv, FrameInv, AssignActive
<1> QED BY <1>1, RegisterAppends, RoundRobinFree
        DEF AssignActive, AssignLastAssigned, AssignParallel

LEMMA AssignBufferAppends ==
  ASSUME IInv, NEW t \in Threads, NEW s \in Slots, AssignBuffer(t, s)
  PROVE  Appended(frame[t], s, "Buffering") /\ ~InRunning(frame[t])
<1>1. TableInv /\ SlotTableTypeOK /\ frame[t] \in Nat
  BY DEF IInv, TableInv, FrameInv, AssignBuffer
<1> QED BY <1>1, RegisterAppends, RoundRobinFree DEF AssignBuffer, AssignBuffering

LEMMA RestartAppends ==
  ASSUME IInv, NEW t \in Threads, Restart(t)
  PROVE  Appended(NextFrameId, slot[t], "Active")
<1>1. TableInv /\ NextFrameId \in Nat /\ slot[t] \in Slots
  BY NextFrameIdType DEF IInv, LocalTypeOK
<1>2. ~Occupied(slot[t])
  BY DEF IInv, FrameInv, Evicts, ExactInv, Exact, ThreadInv, Restart
<1> QED BY <1>1, <1>2, RegisterAppends DEF Restart, RestartSlot

\* Release and promotion take the entry of the thread's slot out, if there is one.
LEMMA ReleaseRemoves ==
  ASSUME IInv, NEW t \in Threads, Release(t) \/ \E s \in Slots : Promote(t, s)
  PROVE  /\ slot[t] \in Slots
         /\ Occupied(slot[t]) => EntryRemoved(slot[t])
         /\ ~Occupied(slot[t]) => UNCHANGED running_frames
<1>1. TableInv /\ slot[t] \in Slots
  BY DEF IInv, LocalTypeOK
<1>2. CASE Release(t)
  BY <1>1, <1>2, ReleaseOnlyKeepsTable, FreeReleaseKeepsTable DEF Release
<1>3. CASE \E s \in Slots : Promote(t, s)
  BY <1>1, <1>3, ReleaseAndPromoteKeepsTable, FreeReleaseKeepsTable DEF Promote
<1> QED BY <1>1, <1>2, <1>3

\* Without evictions the slot that is released has its frame.
LEMMA ReleaseHasFrame ==
  ASSUME IInv, ~Evicts, NEW t \in Threads, pc[t] \in Finishing
  PROVE  slot[t] \in Slots /\ Occupied(slot[t])
BY DEF IInv, LocalTypeOK, ExactInv, Exact, ThreadInv

\* running_frames is a sequence of entries over 1 .. Len, before and after a step.
LEMMA EntriesType ==
  ASSUME TableInv
  PROVE  /\ Len(running_frames) \in Nat
         /\ DOMAIN running_frames = 1 .. Len(running_frames)
         /\ \A i \in 1 .. Len(running_frames) :
              /\ running_frames[i][1] \in Nat
              /\ running_frames[i][2] \in Slots
              /\ Occupied(running_frames[i][2])
<1>1. running_frames \in Seq(Entries)
  BY DEF TableInv, SlotTableTypeOK, Entries
<1>2. /\ Len(running_frames) \in Nat
      /\ DOMAIN running_frames = 1 .. Len(running_frames)
      /\ \A i \in 1 .. Len(running_frames) : running_frames[i] \in Entries
  BY <1>1, LenProperties, ElementOfSeq
<1> QED BY <1>2 DEF TableInv, TableConsistent, Entries

-----------------------------------------------------------------------------
(* First packet wins *)

\* On network graphs every frame in the table or on its way to it is one of
\* FrameIds, and no frame has two entries.
StreamInv ==
  Network =>
    /\ \A i \in DOMAIN running_frames : running_frames[i][1] \in FrameIds
    /\ \A t \in Threads : pc[t] \in Assigning => frame[t] \in FrameIds
    /\ FirstPacketWins

LEMMA StreamStep ==
  ASSUME IInv, StreamInv, [Next]_vars
  PROVE  StreamInv'
<1> SUFFICES ASSUME Network PROVE StreamInv'
  BY DEF StreamInv
<1> USE DEF StreamInv
<1> DEFINE n == Len(running_frames)
<1>1. TableInv /\ TableInv'
  BY StepIInv DEF IInv
<1>2. /\ n \in Nat /\ DOMAIN running_frames = 1 .. n
      /\ Len(running_frames') \in Nat
      /\ DOMAIN running_frames' = 1 .. Len(running_frames')
  <2>1. /\ Len(running_frames) \in Nat /\ DOMAIN running_frames = 1 .. Len(running_frames)
    BY <1>1, EntriesType
  <2>2. running_frames' \in Seq(Entries)
    BY <1>1 DEF TableInv, SlotTableTypeOK, Entries
  <2> QED BY <2>1, <2>2, LenProperties
<1>3. DOMAIN pc = Threads /\ DOMAIN frame = Threads /\ DOMAIN slot = Threads
  BY DEF IInv, LocalTypeOK
<1>4. CASE Quiet
  BY <1>4 DEF Quiet, FirstPacketWins, FrameIds
<1>5. ASSUME NEW t \in Threads, NEW s \in Slots, AssignActive(t, s) \/ AssignBuffer(t, s)
      PROVE  StreamInv'
  <2>1. /\ ~InRunning(frame[t])
        /\ Len(running_frames') = n + 1
        /\ running_frames'[n + 1] = <<frame[t], s>>
        /\ \A i \in 1 .. n : running_frames'[i] = running_frames[i]
    BY <1>5, AssignActiveAppends, AssignBufferAppends DEF Appended
  <2>2. frame[t] \in FrameIds
    BY <1>5 DEF AssignActive, AssignBuffer
  <2>3. \A i \in DOMAIN running_frames' : running_frames'[i][1] \in FrameIds
    BY <1>2, <2>1, <2>2
  <2>4. FirstPacketWins'
    BY <1>2, <2>1 DEF FirstPacketWins, InRunning
  <2>5. \A u \in Threads : pc'[u] \in Assigning => pc[u] \in Assigning /\ frame'[u] = frame[u]
    BY <1>3, <1>5 DEF AssignActive, AssignBuffer, Goto, Return, Assigning
  <2> QED BY <2>3, <2>4, <2>5 DEF FrameIds, MaxFrameId
<1>6. ASSUME NEW t \in Threads, Release(t) \/ \E s \in Slots : Promote(t, s)
      PROVE  StreamInv'
  <2>1. CASE Occupied(slot[t])
    <3>1. PICK p \in 1 .. n :
            /\ Len(running_frames') = n - 1
            /\ \A i \in 1 .. n - 1 :
                 running_frames'[i] = running_frames[IF i < p THEN i ELSE i + 1]
      BY <1>6, <2>1, ReleaseRemoves DEF EntryRemoved
    <3>2. \A i \in 1 .. n - 1 : (IF i < p THEN i ELSE i + 1) \in 1 .. n
      BY <1>2
    <3>3. \A i \in DOMAIN running_frames' : running_frames'[i][1] \in FrameIds
      BY <1>2, <3>1, <3>2
    <3>4. FirstPacketWins'
      <4> SUFFICES ASSUME NEW i \in 1 .. n - 1, NEW j \in 1 .. n - 1,
                          running_frames'[i][1] = running_frames'[j][1]
                   PROVE  i = j
        BY <1>2, <3>1 DEF FirstPacketWins
      <4> DEFINE a == IF i < p THEN i ELSE i + 1
                 b == IF j < p THEN j ELSE j + 1
      <4>1. /\ a \in 1 .. n /\ b \in 1 .. n
            /\ running_frames'[i] = running_frames[a]
            /\ running_frames'[j] = running_frames[b]
        BY <3>1, <3>2
      <4>2. a = b
        BY <1>2, <4>1 DEF FirstPacketWins
      <4> QED BY <1>2, <4>2
    <3>5. \A u \in Threads : pc'[u] \in Assigning => pc[u] \in Assigning /\ frame'[u] = frame[u]
      BY <1>3, <1>6 DEF Release, Promote, Return, Assigning
    <3> QED BY <3>3, <3>4, <3>5 DEF FrameIds, MaxFrameId
  <2>2. CASE ~Occupied(slot[t])
    <3>1. UNCHANGED running_frames
      BY <1>6, <2>2, ReleaseRemoves
    <3>2. \A u \in Threads : pc'[u] \in Assigning => pc[u] \in Assigning /\ frame'[u] = frame[u]
      BY <1>3, <1>6 DEF Release, Promote, Return, Assigning
    <3> QED BY <3>1, <3>2 DEF FirstPacketWins, FrameIds, MaxFrameId
  <2> QED BY <2>1, <2>2
<1>7. ASSUME NEW t \in Threads, Restart(t) PROVE FALSE
  BY <1>7 DEF IInv, FrameInv, Restart
<1> QED BY <1>4, <1>5, <1>6, <1>7, TableSteps

THEOREM StreamInvariant == Spec => []StreamInv
<1>1. Init => StreamInv
  BY DEF Init, SlotTableInit, StreamInv, FirstPacketWins, Assigning
<1>2. IInv /\ StreamInv /\ [Next]_vars => StreamInv'
  BY StreamStep
<1> QED BY <1>1, <1>2, InductiveInvariant, PTL DEF Spec

\* Two resolution threads that race on a frame's first packet never give the
\* frame two slots: the re-scan under running_frames.write() decides.
THEOREM FirstPacketAlwaysWins ==
  ASSUME Network
  PROVE  Spec => []FirstPacketWins
<1>1. StreamInv => FirstPacketWins
  BY DEF StreamInv
<1> QED BY <1>1, StreamInvariant, PTL

-----------------------------------------------------------------------------
(* The lock-free lookup *)

\* As long as frame ids fit the 32-bit tag, a hit of frame_slot_lookup is the
\* answer the locked scan of running_frames gives.
THEOREM LookupAlwaysMatchesScan ==
  ASSUME Network, FramesSent + MaxFrames + NumSlots <= TagSpace
  PROVE  Spec => []LookupMatchesScan
<1>1. ASSUME IInv, StreamInv PROVE LookupMatchesScan
  <2> SUFFICES ASSUME NEW f \in 0 .. MaxFrameId, frame_slot_hit(f)
               PROVE  InRunning(f) /\ frame_slot_lookup(f) = SlotOfFrame(f)
    BY DEF LookupMatchesScan
  <2> DEFINE c == CellIndex(f)
             I == {i \in DOMAIN running_frames : running_frames[i][1] = f}
  <2>1. f \in Nat /\ f \in 0 .. TagSpace - 1 /\ c \in 0 .. MapLen - 1
    BY SlotProtocolAssumption DEF MaxFrameId, CellIndex
  <2>2. PICK i \in DOMAIN running_frames :
          /\ CellIndex(running_frames[i][1]) = c
          /\ frame_slot_map[c] = Cell(running_frames[i][1], running_frames[i][2])
    BY <1>1, <2>1 DEF IInv, TableInv, CacheCoherent, frame_slot_hit
  <2>3. running_frames[i][1] \in 0 .. TagSpace - 1
    BY <1>1, SlotProtocolAssumption DEF StreamInv, FrameIds, MaxFrameId
  <2>4. running_frames[i][1] % TagSpace = f % TagSpace
    BY <2>2 DEF frame_slot_hit, Cell
  <2>5. running_frames[i][1] = f
    BY <2>1, <2>3, <2>4, TagIdentifies
  <2>6. I = {i}
    BY <1>1, <2>5 DEF StreamInv, FirstPacketWins
  <2>7. Min(I) = i
    <3>1. I \in SUBSET Nat
      BY <1>1, EntriesType DEF IInv
    <3>2. Min(I) \in I
      BY <2>6, <3>1, LeastElement
    <3> QED BY <2>6, <3>2
  <2>8. SlotOfFrame(f) = running_frames[i][2]
    BY <2>7 DEF SlotOfFrame
  <2> QED BY <2>2, <2>5, <2>8 DEF InRunning, frame_slot_lookup, Cell
<1> QED BY <1>1, InductiveInvariant, StreamInvariant, PTL

-----------------------------------------------------------------------------
(***************************************************************************)
(* Slot priority.  Without eviction only the oldest frame of               *)
(* running_frames is Active, so only it can finish; last_assigned is free  *)
(* only when the table is empty, so an arriving frame is activated only    *)
(* then.                                                                   *)
(***************************************************************************)
PrioInv ==
  SlotPriority /\ ~Eviction =>
    /\ \A i \in DOMAIN running_frames :
         states[running_frames[i][2]] = IF i = 1 THEN "Active" ELSE "Buffering"
    /\ ~Occupied(last_assigned) => running_frames = <<>>
    /\ \A t \in Threads : pc[t] \in Finishing => states[slot[t]] = "Active"
    /\ \A t \in Threads : pc[t] = "restart" =>
         running_frames = <<>> /\ slot[t] = last_assigned

\* No slot is restarted while a frame is on its way to the table.
LEMMA NoRestartDuringAssign ==
  ASSUME IInv, NEW t \in Threads, pc[t] \in Assigning, NEW u \in Threads
  PROVE  pc[u] # "restart"
BY DEF IInv, FrameInv, Evicts, ExactInv, Exact, PrepInv, Owning

\* The entry of a slot that is Active is the oldest.
LEMMA ActiveIsFirst ==
  ASSUME TableInv, PrioInv, SlotPriority, ~Eviction,
         NEW i \in DOMAIN running_frames, states[running_frames[i][2]] = "Active"
  PROVE  i = 1
BY DEF PrioInv

\* A release takes the oldest entry out.
LEMMA ReleaseTakesFirst ==
  ASSUME IInv, PrioInv, SlotPriority, ~Eviction,
         NEW t \in Threads, Release(t) \/ \E s \in Slots : Promote(t, s)
  PROVE  LET n == Len(running_frames)
         IN  /\ n >= 1 /\ running_frames[1][2] = slot[t] /\ states[slot[t]] = "Active"
             /\ Len(running_frames') = n - 1
             /\ \A i \in 1 .. n - 1 : running_frames'[i] = running_frames[i + 1]
             /\ \A i \in 2 .. n : running_frames[i][2] # slot[t]
<1> DEFINE n == Len(running_frames)
<1>1. TableInv
  BY DEF IInv
<1>2. n \in Nat /\ DOMAIN running_frames = 1 .. n
  BY <1>1, EntriesType
<1>3. states[slot[t]] = "Active"
  BY DEF Release, Promote, PrioInv, Finishing
<1>4. PICK p \in 1 .. n :
        /\ running_frames[p][2] = slot[t]
        /\ Len(running_frames') = n - 1
        /\ \A i \in 1 .. n - 1 :
             running_frames'[i] = running_frames[IF i < p THEN i ELSE i + 1]
  BY <1>3, ReleaseRemoves DEF EntryRemoved, Occupied
<1>5. p = 1
  BY <1>1, <1>2, <1>3, <1>4, ActiveIsFirst
<1>6. \A i \in 2 .. n : running_frames[i][2] # slot[t]
  BY <1>1, <1>2, <1>4, <1>5 DEF TableInv, TableConsistent
<1> QED BY <1>2, <1>3, <1>4, <1>5, <1>6

LEMMA EmptySequence ==
  ASSUME NEW q \in Seq(Entries), Len(q) = 0
  PROVE  q = <<>>
BY EmptySeq, LenProperties

LEMMA PrioStep ==
  ASSUME IInv, PrioInv, [Next]_vars
  PROVE  PrioInv'
<1> SUFFICES ASSUME SlotPriority, ~Eviction PROVE PrioInv'
  BY DEF PrioInv
<1> DEFINE n == Len(running_frames)
<1>1. TableInv /\ TableInv'
  BY StepIInv DEF IInv
<1>2. /\ n \in Nat /\ DOMAIN running_frames = 1 .. n
      /\ \A i \in 1 .. n : running_frames[i][2] \in Slots /\ Occupied(running_frames[i][2])
  BY <1>1, EntriesType
<1>3. /\ running_frames' \in Seq(Entries)
      /\ Len(running_frames') \in Nat
      /\ DOMAIN running_frames' = 1 .. Len(running_frames')
  <2>1. running_frames' \in Seq(Entries)
    BY <1>1 DEF TableInv, SlotTableTypeOK, Entries
  <2> QED BY <2>1, LenProperties
<1>4. /\ DOMAIN pc = Threads /\ DOMAIN slot = Threads
      /\ slot \in [Threads -> Slots] /\ states \in [Slots -> SlotState]
      /\ last_assigned \in Slots /\ running_frames \in Seq(Entries)
  BY <1>1 DEF IInv, LocalTypeOK, TableInv, SlotTableTypeOK, Entries
<1>5. CASE Quiet
  <2>1. \A u \in Threads : pc'[u] \in Finishing => states'[slot'[u]] = "Active"
    BY <1>1, <1>5 DEF Quiet, PrioInv, TableInv, TableConsistent, ActiveSlots
  <2> QED BY <1>5, <2>1 DEF Quiet, PrioInv, Occupied
<1>6. ASSUME NEW t \in Threads, NEW s \in Slots, AssignActive(t, s) PROVE PrioInv'
  <2>1. Appended(frame[t], s, "Active")
    BY <1>6, AssignActiveAppends
  <2>2. s = last_assigned /\ AssignLastAssigned(frame[t])
    BY <1>6 DEF AssignActive, AssignParallel
  <2>3. running_frames = <<>> /\ n = 0
    <3>1. running_frames = <<>>
      BY <2>2 DEF AssignLastAssigned, PrioInv
    <3> QED BY <3>1, EmptySeq
  <2>4. /\ states' = [states EXCEPT ![s] = "Active"] /\ last_assigned' = s
        /\ DOMAIN running_frames' = 1 .. 1 /\ running_frames'[1] = <<frame[t], s>>
    BY <1>2, <1>3, <2>1, <2>2, <2>3 DEF Appended, Register, AssignLastAssigned
  <2>5. \A u \in Threads : pc'[u] # "restart"
    BY <1>4, <1>6, NoRestartDuringAssign DEF AssignActive, Goto
  <2>6. \A u \in Threads : pc'[u] \in Finishing => states'[slot'[u]] = "Active"
    BY <1>4, <1>6, <2>4 DEF AssignActive, Goto, Finishing, PrioInv
  <2> QED BY <1>4, <2>4, <2>5, <2>6 DEF PrioInv, Occupied
<1>7. ASSUME NEW t \in Threads, NEW s \in Slots, AssignBuffer(t, s) PROVE PrioInv'
  <2>1. Appended(frame[t], s, "Buffering")
    BY <1>7, AssignBufferAppends
  <2>2. /\ states' = [states EXCEPT ![s] = "Buffering"] /\ last_assigned' = s
        /\ Occupied(last_assigned) /\ ~Occupied(s)
    BY <1>7, <2>1 DEF AssignBuffer, AssignBuffering, Appended, Register
  <2>3. n >= 1
    BY <1>1, <1>2, <1>4, <2>2 DEF TableInv, TableConsistent
  <2>4. \A i \in DOMAIN running_frames' :
          states'[running_frames'[i][2]] = IF i = 1 THEN "Active" ELSE "Buffering"
    <3> SUFFICES ASSUME NEW i \in 1 .. n + 1
                 PROVE  states'[running_frames'[i][2]] = IF i = 1 THEN "Active" ELSE "Buffering"
      BY <1>3, <2>1 DEF Appended
    <3>1. CASE i = n + 1
      BY <1>2, <1>4, <2>1, <2>2, <2>3, <3>1 DEF Appended
    <3>2. CASE i \in 1 .. n
      <4>1. running_frames'[i] = running_frames[i] /\ running_frames[i][2] # s
        BY <1>2, <2>1, <2>2, <3>2 DEF Appended
      <4> QED BY <1>2, <1>4, <2>2, <3>2, <4>1 DEF PrioInv
    <3> QED BY <1>2, <3>1, <3>2
  <2>5. \A u \in Threads : pc'[u] # "restart"
    BY <1>4, <1>7, NoRestartDuringAssign DEF AssignBuffer, Goto, Return
  <2>6. \A u \in Threads : pc'[u] \in Finishing => states'[slot'[u]] = "Active"
    BY <1>4, <1>7, <2>2 DEF AssignBuffer, Goto, Return, Finishing, PrioInv, Occupied
  <2> QED BY <1>4, <2>2, <2>4, <2>5, <2>6 DEF PrioInv, Occupied
<1>8. ASSUME NEW t \in Threads, Release(t) \/ \E s \in Slots : Promote(t, s)
      PROVE  /\ n >= 1 /\ running_frames[1][2] = slot[t] /\ states[slot[t]] = "Active"
             /\ Len(running_frames') = n - 1
             /\ \A i \in 1 .. n - 1 : running_frames'[i] = running_frames[i + 1]
             /\ \A i \in 2 .. n : running_frames[i][2] # slot[t]
  BY <1>8, ReleaseTakesFirst
<1>9. ASSUME NEW t \in Threads, Release(t) PROVE PrioInv'
  <2>0. /\ n >= 1 /\ running_frames[1][2] = slot[t]
        /\ \A i \in 2 .. n : running_frames[i][2] # slot[t]
    BY <1>8, <1>9
  <2>1. n = 1
    <3> SUFFICES ASSUME n >= 2 PROVE FALSE
      BY <1>2, <2>0
    <3> DEFINE r == running_frames[2][2]
    <3>0. 2 \in 1 .. n /\ 2 \in 2 .. n
      BY <1>2
    <3>1. r \in Slots /\ r # slot[t] /\ states[r] = "Buffering" /\ 2 \in DOMAIN running_frames
      BY <1>2, <2>0, <3>0 DEF PrioInv
    <3>2. \A j \in 1 .. 2 - 1 : running_frames[j][2] = slot[t]
      BY <2>0
    <3>3. Promotable(slot[t], r)
      BY <3>1, <3>2 DEF Promotable
    <3> QED BY <1>9, <3>1, <3>3 DEF Release, ReleaseOnly
  <2>2. running_frames' = <<>>
    BY <1>3, <1>8, <1>9, <2>1, EmptySequence
  <2>3. DOMAIN running_frames' = {}
    BY <2>2
  <2>4. slot[t] = last_assigned
    <3>1. Occupied(last_assigned)
      BY <2>1, EmptySeq DEF PrioInv
    <3>2. PICK i \in 1 .. n : running_frames[i][2] = last_assigned
      BY <1>1, <1>2, <1>4, <3>1 DEF TableInv, TableConsistent
    <3> QED BY <1>8, <1>9, <2>1, <3>2
  <2>5. last_assigned' = last_assigned /\ states' = [states EXCEPT ![slot[t]] = "Inactive"]
    BY <1>9 DEF Release, ReleaseOnly
  <2>6. \A u \in Threads : pc'[u] \in Finishing => states'[slot'[u]] = "Active"
    <3> SUFFICES ASSUME NEW u \in Threads, pc'[u] \in Finishing
                 PROVE  states'[slot'[u]] = "Active"
      OBVIOUS
    <3>1. u # t /\ pc[u] \in Finishing /\ slot'[u] = slot[u]
      BY <1>4, <1>9 DEF Release, Return, Finishing
    <3>2. slot[u] # slot[t]
      BY <1>9, <3>1 DEF Release, IInv, ExactInv, Exact, Evicts, OwnInv, Owning, Finishing
    <3> QED BY <1>4, <2>5, <3>1, <3>2 DEF PrioInv
  <2>7. \A u \in Threads : pc'[u] = "restart" => slot'[u] = last_assigned'
    <3> SUFFICES ASSUME NEW u \in Threads, pc'[u] = "restart"
                 PROVE  slot'[u] = last_assigned
      BY <2>5
    <3>1. CASE u = t
      BY <1>4, <1>9, <2>4, <3>1 DEF Release, Return
    <3>2. CASE u # t
      BY <1>4, <1>9, <2>5, <3>2 DEF Release, Return, PrioInv
    <3> QED BY <3>1, <3>2
  <2> QED BY <2>2, <2>3, <2>6, <2>7 DEF PrioInv
<1>10. ASSUME NEW t \in Threads, NEW next \in Slots, Promote(t, next) PROVE PrioInv'
  <2>1. /\ next # slot[t] /\ states[next] = "Buffering"
        /\ states' = [states EXCEPT ![slot[t]] = "Inactive", ![next] = "Active"]
        /\ last_assigned' = next
    BY <1>10 DEF Promote, ReleaseAndPromote, Promotable
  <2>2. PICK k \in 1 .. n :
          /\ running_frames[k][2] = next
          /\ \A j \in 1 .. k - 1 :
               running_frames[j][2] = slot[t] \/ states[running_frames[j][2]] # "Buffering"
    BY <1>2, <1>10 DEF Promote, ReleaseAndPromote, Promotable
  <2>3. k = 2
    <3>1. k # 1
      BY <1>8, <1>10, <2>1, <2>2
    <3>2. ~(k > 2)
      <4> SUFFICES ASSUME k > 2 PROVE FALSE
        OBVIOUS
      <4>1. 2 \in 1 .. k - 1 /\ 2 \in 2 .. n
        BY <1>2
      <4>2. states[running_frames[2][2]] = "Buffering"
        BY <1>2, <4>1 DEF PrioInv
      <4> QED BY <1>8, <1>10, <2>2, <4>1, <4>2
    <3> QED BY <1>2, <3>1, <3>2
  <2>4. \A i \in DOMAIN running_frames' :
          states'[running_frames'[i][2]] = IF i = 1 THEN "Active" ELSE "Buffering"
    <3> SUFFICES ASSUME NEW i \in 1 .. n - 1
                 PROVE  states'[running_frames'[i][2]] = IF i = 1 THEN "Active" ELSE "Buffering"
      BY <1>3, <1>8, <1>10
    <3>0. i + 1 \in 2 .. n
      BY <1>2
    <3>1. running_frames'[i] = running_frames[i + 1] /\ i + 1 \in 2 .. n
      BY <1>8, <1>10, <3>0
    <3>2. CASE i = 1
      BY <1>4, <2>1, <2>2, <2>3, <3>1, <3>2
    <3>3. CASE i # 1
      <4>1. running_frames[i + 1][2] # next
        BY <1>1, <1>2, <2>2, <2>3, <3>1, <3>3 DEF TableInv, TableConsistent
      <4>2. running_frames[i + 1][2] # slot[t]
        BY <1>8, <1>10, <3>1
      <4>3. states[running_frames[i + 1][2]] = "Buffering"
        BY <1>2, <3>1 DEF PrioInv
      <4>4. running_frames[i + 1][2] \in Slots
        BY <1>2, <3>1
      <4> QED BY <1>4, <2>1, <3>1, <3>3, <4>1, <4>2, <4>3, <4>4
    <3> QED BY <3>2, <3>3
  <2>5. \A u \in Threads : pc'[u] # "restart"
    <3>1. running_frames # <<>>
      BY <1>8, <1>10, EmptySeq
    <3> QED BY <1>4, <1>10, <3>1 DEF Promote, PrioInv
  <2>6. \A u \in Threads : pc'[u] \in Finishing => states'[slot'[u]] = "Active"
    <3> SUFFICES ASSUME NEW u \in Threads, pc'[u] \in Finishing
                 PROVE  states'[slot'[u]] = "Active"
      OBVIOUS
    <3>1. u # t /\ pc[u] \in Finishing /\ slot'[u] = slot[u]
      BY <1>4, <1>10 DEF Promote, Finishing
    <3>2. slot[u] # slot[t]
      BY <1>10, <3>1 DEF Promote, IInv, ExactInv, Exact, Evicts, OwnInv, Owning, Finishing
    <3> QED BY <1>4, <2>1, <3>1, <3>2 DEF PrioInv
  <2>7. Occupied(last_assigned)'
    BY <1>4, <2>1 DEF Occupied
  <2> QED BY <2>4, <2>5, <2>6, <2>7 DEF PrioInv
<1>11. ASSUME NEW t \in Threads, Restart(t) PROVE PrioInv'
  <2>1. Appended(NextFrameId, slot[t], "Active")
    BY <1>11, RestartAppends
  <2>2. running_frames = <<>> /\ n = 0 /\ slot[t] = last_assigned
    <3>1. running_frames = <<>> /\ slot[t] = last_assigned
      BY <1>11 DEF Restart, PrioInv
    <3> QED BY <3>1, EmptySeq
  <2>3. /\ states' = [states EXCEPT ![slot[t]] = "Active"] /\ last_assigned' = last_assigned
        /\ DOMAIN running_frames' = 1 .. 1 /\ running_frames'[1] = <<NextFrameId, slot[t]>>
    BY <1>3, <1>11, <2>1, <2>2 DEF Appended, Register, Restart, RestartSlot
  <2>4. \A u \in Threads : pc'[u] # "restart"
    <3> SUFFICES ASSUME NEW u \in Threads, u # t, pc[u] = "restart" PROVE FALSE
      BY <1>4, <1>11 DEF Restart, Return
    <3>1. slot[u] = last_assigned
      BY DEF PrioInv
    <3> QED BY <1>11, <2>2, <3>1 DEF Restart, IInv, ExactInv, Exact, Evicts, OwnInv, Owning
  <2>5. \A u \in Threads : pc'[u] \in Finishing => states'[slot'[u]] = "Active"
    BY <1>4, <1>11, <2>3 DEF Restart, Return, Finishing, PrioInv
  <2>6. \A i \in DOMAIN running_frames' :
          states'[running_frames'[i][2]] = IF i = 1 THEN "Active" ELSE "Buffering"
    BY <1>4, <2>3
  <2> QED BY <1>4, <2>2, <2>3, <2>4, <2>5, <2>6 DEF PrioInv, Occupied
<1> QED BY <1>5, <1>6, <1>7, <1>9, <1>10, <1>11, TableSteps

THEOREM PriorityInvariant == Spec => []PrioInv
<1>1. Init => PrioInv
  BY DEF Init, SlotTableInit, PrioInv, Finishing
<1>2. IInv /\ PrioInv /\ [Next]_vars => PrioInv'
  BY PrioStep
<1> QED BY <1>1, <1>2, InductiveInvariant, PTL DEF Spec

\* Without incomplete-frame eviction, slot priority has at most one Active slot.
THEOREM PriorityRunsOneFrame ==
  ASSUME ~Eviction
  PROVE  Spec => []AtMostOneActive
<1>1. ASSUME IInv, PrioInv PROVE AtMostOneActive
  <2> SUFFICES ASSUME SlotPriority, NEW r \in ActiveSlots, NEW s \in ActiveSlots PROVE r = s
    BY DEF AtMostOneActive
  <2>1. \A q \in ActiveSlots : q = running_frames[1][2]
    BY <1>1, ActiveIsFirst DEF IInv, TableInv, TableConsistent, ActiveSlots, Occupied
  <2> QED BY <2>1
<1> QED BY <1>1, InductiveInvariant, PriorityInvariant, PTL

\* Without eviction, a frame that buffers waits for one that runs.
THEOREM PriorityNeverStrands ==
  ASSUME ~Eviction
  PROVE  Spec => []BufferedHasRunner
<1>1. ASSUME IInv, PrioInv PROVE BufferedHasRunner
  <2> SUFFICES ASSUME SlotPriority, NEW s \in Slots, states[s] = "Buffering"
               PROVE  ActiveSlots # {}
    BY DEF BufferedHasRunner
  <2>1. PICK i \in DOMAIN running_frames : running_frames[i][2] = s
    BY <1>1 DEF IInv, TableInv, TableConsistent, Occupied
  <2>2. 1 \in DOMAIN running_frames /\ running_frames[1][2] \in Slots
    BY <1>1, <2>1, EntriesType DEF IInv
  <2>3. states[running_frames[1][2]] = "Active"
    BY <1>1, <2>2 DEF PrioInv
  <2> QED BY <2>2, <2>3 DEF ActiveSlots
<1> QED BY <1>1, InductiveInvariant, PriorityInvariant, PTL

\* Without eviction, no frame runs ahead of one that got its slot earlier.
THEOREM PriorityKeepsOrder ==
  ASSUME ~Eviction
  PROVE  Spec => []NoOvertaking
<1>1. ASSUME IInv, PrioInv PROVE NoOvertaking
  BY <1>1, EntriesType DEF IInv, PrioInv, NoOvertaking
<1> QED BY <1>1, InductiveInvariant, PriorityInvariant, PTL

-----------------------------------------------------------------------------
(* Refinement of SlotHandoff *)

\* The state of the handoff: the Active frame is the oldest one.
HeadIsActive ==
  /\ Len(running_frames) \in Nat
  /\ FrameQueue \in Seq(Nat) /\ Len(FrameQueue) = Len(running_frames)
  /\ \A i \in 1 .. Len(running_frames) : FrameQueue[i] = running_frames[i][1]
  /\ Len(running_frames) = 0 => ActiveFrames = {}
  /\ Len(running_frames) # 0 => ActiveFrames = {FrameQueue[1]}

LEMMA ActiveFrameIsHead ==
  TableInv /\ PrioInv /\ SlotPriority /\ ~Eviction => HeadIsActive
<1> SUFFICES ASSUME TableInv, PrioInv, SlotPriority, ~Eviction PROVE HeadIsActive
  OBVIOUS
<1> DEFINE n == Len(running_frames)
<1>1. /\ n \in Nat /\ DOMAIN running_frames = 1 .. n
      /\ \A i \in 1 .. n : running_frames[i][1] \in Nat /\ running_frames[i][2] \in Slots
  BY EntriesType
<1>2. FrameQueue = [i \in 1 .. n |-> running_frames[i][1]]
  BY <1>1 DEF FrameQueue
<1>3. FrameQueue \in Seq(Nat) /\ Len(FrameQueue) = n
  <2>1. FrameQueue \in [1 .. n -> Nat]
    BY <1>1, <1>2
  <2>2. FrameQueue \in Seq(Nat)
    BY <1>1, <2>1, SeqDef
  <2> QED BY <1>1, <2>1, <2>2, LenProperties
<1>4. \A i \in 1 .. n : FrameQueue[i] = running_frames[i][1]
  BY <1>2
<1>5. ASSUME NEW s \in ActiveSlots PROVE n # 0 /\ s = running_frames[1][2]
  <2>1. PICK i \in 1 .. n : running_frames[i][2] = s
    BY <1>1 DEF TableInv, TableConsistent, ActiveSlots, Occupied
  <2>2. i = 1
    BY <1>1, <2>1, ActiveIsFirst DEF ActiveSlots
  <2> QED BY <1>1, <2>1, <2>2
<1>6. ASSUME n = 0 PROVE ActiveFrames = {}
  BY <1>5, <1>6 DEF ActiveFrames
<1>7. ASSUME n # 0 PROVE ActiveFrames = {FrameQueue[1]}
  <2>1. 1 \in 1 .. n
    BY <1>1, <1>7
  <2>2. running_frames[1][2] \in ActiveSlots
    BY <1>1, <2>1 DEF PrioInv, ActiveSlots
  <2>3. ActiveSlots = {running_frames[1][2]}
    BY <1>5, <2>2
  <2>4. frame_id[running_frames[1][2]] = FrameQueue[1]
    BY <1>1, <1>4, <2>1 DEF TableInv, TableConsistent
  <2> QED BY <2>3, <2>4 DEF ActiveFrames
<1> QED BY <1>1, <1>3, <1>4, <1>6, <1>7 DEF HeadIsActive

\* A slot that is free leaves room in running_frames.
LEMMA FreeSlotLeavesRoom ==
  ASSUME TableInv, NEW s \in Slots, ~Occupied(s)
  PROVE  Len(running_frames) < NumSlots
<1> DEFINE n == Len(running_frames)
           T == Slots \ {s}
           g == [i \in 1 .. n |-> running_frames[i][2]]
<1>1. /\ n \in Nat /\ DOMAIN running_frames = 1 .. n
      /\ \A i \in 1 .. n : running_frames[i][2] \in T
  BY EntriesType
<1>2. IsFiniteSet(Slots) /\ Cardinality(Slots) = NumSlots
  BY FS_Interval DEF Slots
<1>3. IsFiniteSet(T) /\ Cardinality(T) = NumSlots - 1
  BY <1>2, FS_RemoveElement
<1>4. IsFiniteSet(1 .. n) /\ Cardinality(1 .. n) = n
  BY <1>1, FS_Interval
<1>5. g \in [1 .. n -> T]
  BY <1>1
<1>6. \A i, j \in 1 .. n : g[i] = g[j] => i = j
  BY <1>1 DEF TableInv, TableConsistent
<1> HIDE DEF T, g
<1>7. ~(Cardinality(T) < Cardinality(1 .. n))
  BY <1>3, <1>4, <1>5, <1>6, FS_PigeonHole
<1> QED BY <1>1, <1>3, <1>4, <1>7

\* Slot-priority mode of a network graph, without eviction, implements the
\* one-at-a-time handoff: every assignment is an arrival and every release of
\* release_and_activate_next, promotion included, is one Finish step.
THEOREM PriorityImplementsHandoff ==
  ASSUME SlotPriority, Network, ~Eviction
  PROVE  Spec => ImplementsHandoff
<1>1. ASSUME Init PROVE Handoff!Init
  <2>1. running_frames = <<>> /\ ActiveSlots = {}
    BY <1>1 DEF Init, SlotTableInit, ActiveSlots
  <2>2. FrameQueue = <<>>
    BY <2>1 DEF FrameQueue
  <2> QED BY <2>1, <2>2 DEF Handoff!Init, ActiveFrames
<1>2. ASSUME IInv, StreamInv, PrioInv, [Next]_vars
      PROVE  [Handoff!Next]_Handoff!vars
  <2> DEFINE n == Len(running_frames)
             m == Len(running_frames')
  <2>1. TableInv /\ IInv' /\ TableInv' /\ PrioInv'
    BY <1>2, StepIInv, PrioStep DEF IInv
  <2>2. /\ n \in Nat
        /\ FrameQueue \in Seq(Nat) /\ Len(FrameQueue) = n
        /\ \A i \in 1 .. n : FrameQueue[i] = running_frames[i][1]
        /\ n = 0 => ActiveFrames = {}
        /\ n # 0 => ActiveFrames = {FrameQueue[1]}
    BY <1>2, <2>1, ActiveFrameIsHead DEF HeadIsActive
  <2>3. /\ m \in Nat
        /\ FrameQueue' \in Seq(Nat) /\ Len(FrameQueue') = m
        /\ \A i \in 1 .. m : FrameQueue'[i] = running_frames'[i][1]
        /\ m = 0 => ActiveFrames' = {}
        /\ m # 0 => ActiveFrames' = {FrameQueue'[1]}
    <3>1. HeadIsActive'
      BY <2>1, ActiveFrameIsHead, PTL
    <3> QED BY <3>1 DEF HeadIsActive
  <2>4. CASE Quiet
    BY <2>4 DEF Quiet, Handoff!vars, FrameQueue, ActiveFrames, ActiveSlots
  <2>5. ASSUME NEW t \in Threads, NEW s \in Slots, AssignActive(t, s) \/ AssignBuffer(t, s)
        PROVE  Handoff!Next
    <3> DEFINE f == frame[t]
    <3>1. /\ ~InRunning(f) /\ f \in Nat /\ s \in Slots /\ ~Occupied(s)
          /\ m = n + 1 /\ running_frames'[n + 1] = <<f, s>>
          /\ \A i \in 1 .. n : running_frames'[i] = running_frames[i]
      BY <1>2, <2>5, AssignActiveAppends, AssignBufferAppends DEF Appended
    <3>2. f \in 0 .. MaxFrameId
      BY <1>2, <2>5, SlotProtocolAssumption
         DEF StreamInv, FrameIds, AssignActive, AssignBuffer, MaxFrameId
    <3>3. FrameQueue' = Append(FrameQueue, f)
      <4> DEFINE q == FrameQueue
                 z == FrameQueue'
                 a == Append(FrameQueue, f)
      <4>1. z \in Seq(Nat) /\ Len(z) = n + 1
        BY <2>3, <3>1
      <4>2. a \in Seq(Nat) /\ Len(a) = n + 1 /\ a[n + 1] = f
            /\ \A i \in 1 .. n : a[i] = q[i]
        BY <2>2, <3>1, AppendProperties
      <4>3. ASSUME NEW i \in 1 .. n + 1 PROVE z[i] = a[i]
        <5>1. z[i] = running_frames'[i][1]
          BY <2>3, <3>1
        <5>2. CASE i = n + 1
          BY <3>1, <4>2, <5>1, <5>2
        <5>3. CASE i \in 1 .. n
          BY <2>2, <3>1, <4>2, <5>1, <5>3
        <5> QED BY <2>2, <5>2, <5>3
      <4> HIDE DEF z, a
      <4>4. z = a
        BY <4>1, <4>2, <4>3, SeqEqual
      <4> QED BY <4>4 DEF z, a
    <3>4. Len(FrameQueue) < NumSlots
      BY <2>1, <2>2, <3>1, FreeSlotLeavesRoom
    <3>5. ~Handoff!Queued(f)
      <4>1. \A i \in 1 .. n : FrameQueue[i] # f
        BY <2>1, <2>2, <3>1, EntriesType DEF InRunning
      <4>2. DOMAIN FrameQueue = 1 .. n
        BY <2>2, LenProperties
      <4> QED BY <4>1, <4>2 DEF Handoff!Queued
    <3>6. ActiveFrames' = IF FrameQueue = <<>> THEN {f} ELSE ActiveFrames
      <4>1. 1 \in 1 .. m /\ m # 0
        BY <2>2, <3>1
      <4>2. ActiveFrames' = {running_frames'[1][1]}
        BY <2>3, <4>1
      <4>3. CASE n = 0
        BY <2>2, <3>1, <4>2, <4>3, EmptySeq, LenProperties
      <4>4. CASE n # 0
        <5>1. 1 \in 1 .. n /\ FrameQueue # <<>>
          BY <2>2, <4>4, EmptySeq
        <5> QED BY <2>2, <3>1, <4>2, <4>4, <5>1
      <4> QED BY <4>3, <4>4
    <3> QED BY <3>2, <3>3, <3>4, <3>5, <3>6 DEF Handoff!Next, Handoff!Arrive
  <2>6. ASSUME NEW t \in Threads, Release(t) \/ \E s \in Slots : Promote(t, s)
        PROVE  Handoff!Next
    <3>1. /\ n >= 1 /\ m = n - 1
          /\ \A i \in 1 .. n - 1 : running_frames'[i] = running_frames[i + 1]
      BY <1>2, <2>6, ReleaseTakesFirst
    <3>2. FrameQueue # <<>> /\ Head(FrameQueue) = FrameQueue[1]
          /\ ActiveFrames = {Head(FrameQueue)}
      <4>1. FrameQueue # <<>>
        BY <2>2, <3>1, EmptySeq
      <4>2. Head(FrameQueue) = FrameQueue[1]
        BY <2>2, <4>1, HeadTailProperties
      <4> QED BY <2>2, <3>1, <4>1, <4>2
    <3> DEFINE z == FrameQueue'
               b == Tail(FrameQueue)
    <3>3. /\ b \in Seq(Nat) /\ Len(b) = n - 1
          /\ \A i \in 1 .. n - 1 : b[i] = FrameQueue[i + 1]
      BY <2>2, <3>2, HeadTailProperties
    <3>4. z = b
      <4>1. z \in Seq(Nat) /\ Len(z) = n - 1
        BY <2>3, <3>1
      <4>2. ASSUME NEW i \in 1 .. n - 1 PROVE z[i] = b[i]
        <5>1. i + 1 \in 1 .. n
          BY <2>2, <3>1
        <5>2. z[i] = running_frames'[i][1] /\ b[i] = FrameQueue[i + 1]
          BY <2>3, <3>1, <3>3
        <5> QED BY <2>2, <3>1, <5>1, <5>2
      <4> HIDE DEF z, b
      <4> QED BY <3>3, <4>1, <4>2, SeqEqual
    <3>5. ActiveFrames' = IF b = <<>> THEN {} ELSE {Head(b)}
      <4> HIDE DEF b
      <4>1. CASE m = 0
        BY <2>3, <3>1, <3>3, <4>1, EmptySeq, LenProperties
      <4>2. CASE m # 0
        <5>1. b # <<>>
          BY <3>1, <3>3, <4>2, EmptySeq
        <5>2. Head(b) = b[1]
          BY <3>3, <5>1, HeadTailProperties
        <5> QED BY <2>3, <3>4, <4>2, <5>1, <5>2
      <4> QED BY <4>1, <4>2
    <3> QED BY <3>2, <3>4, <3>5 DEF Handoff!Next, Handoff!Finish
  <2>7. ASSUME NEW t \in Threads, Restart(t) PROVE FALSE
    BY <1>2, <2>7 DEF IInv, FrameInv, Restart
  <2> QED BY <1>2, <2>4, <2>5, <2>6, <2>7, TableSteps
<1> QED BY <1>1, <1>2, InductiveInvariant, StreamInvariant, PriorityInvariant, PTL
        DEF Spec, ImplementsHandoff, Handoff!Spec

-----------------------------------------------------------------------------
(* The number of frames of a run: compute graphs *)

(***************************************************************************)
(* A compute graph starts a frame per slot and restarts a slot while       *)
(* completed + 1 + others < max_frames.  With one resolution thread the    *)
(* count of the other slots is still right when it is compared, so the     *)
(* frames counted, running and still to be prepared stay within            *)
(* max_frames, and completed + live slots is above every id in use.  A     *)
(* second thread can make both wrong: the overrun run has the trace.       *)
(***************************************************************************)
LiveSlots == {s \in Slots : Occupied(s)}
Live == Cardinality(LiveSlots)

Preparing == pc[InitThread] = "prepare"
Releasing == pc[InitThread] = "release"

\* The frames still to be prepared follow those that have a slot.
PreparedInv ==
  /\ initialized # <<>> \/ Preparing => completed = 0
  /\ \A i \in 1 .. Len(initialized) :
       initialized[i] = Live + i - (IF Preparing THEN 0 ELSE 1)
  /\ Preparing => frame[InitThread] = Live /\ frame[InitThread] \in Slots

\* The ids in use are below the frames counted and running (the frame being
\* released is one frame, not two).
IdBound == completed + Live - (IF Releasing THEN 1 ELSE 0)
IdsInv ==
  /\ \A f \in finished : f < IdBound
  /\ \A s \in Slots : frame_id[s] # NoFrame => frame_id[s] < IdBound

\* The frames of the run, and what a pending restart may add.
BudgetInv ==
  NumSlots <= MaxFrames =>
    /\ completed + Live + Len(initialized) + (IF Preparing THEN 1 ELSE 0)
         <= MaxFrames + (IF Releasing /\ ~restart[InitThread] THEN 1 ELSE 0)
    /\ pc[InitThread] = "restart" => completed + Live < MaxFrames

SoloInv ==
  /\ PreparedInv
  /\ IdsInv
  /\ BudgetInv
  /\ pc[InitThread] = "tally" => others[InitThread] = Live - 1
  /\ pc[InitThread] # "assign"

LEMMA LiveType ==
  IsFiniteSet(LiveSlots) /\ Live \in Nat /\ IsFiniteSet(Slots)
<1>1. IsFiniteSet(Slots) /\ LiveSlots \subseteq Slots
  BY FS_Interval DEF Slots, LiveSlots
<1> QED BY <1>1, FS_Subset, FS_CardinalityType DEF Live

LEMMA LiveTypeNext == (IsFiniteSet(LiveSlots) /\ Live \in Nat /\ IsFiniteSet(Slots))'
BY LiveType, PTL

\* A step that leaves the states of the slots leaves the live ones.
LEMMA LiveSame ==
  ASSUME UNCHANGED states PROVE Live' = Live
BY DEF Live, LiveSlots, Occupied

\* A slot that gets a frame is one more ...
LEMMA LiveAdds ==
  ASSUME TableInv, NEW f, NEW s \in Slots, NEW st \in {"Active", "Buffering"}, Appended(f, s, st)
  PROVE  Live' = Live + 1
<1>1. LiveSlots' = LiveSlots \cup {s} /\ s \notin LiveSlots
  BY DEF TableInv, SlotTableTypeOK, Appended, Register, LiveSlots, Occupied
<1> QED BY <1>1, LiveType, FS_AddElement DEF Live

\* ... one that is released is one less ...
LEMMA LiveDrops ==
  ASSUME TableInv, NEW s \in Slots, Occupied(s),
         ReleaseOnly(s) \/ \E n \in Slots : ReleaseAndPromote(s, n)
  PROVE  Live' = Live - 1
<1>1. LiveSlots' = LiveSlots \ {s} /\ s \in LiveSlots
  BY DEF TableInv, SlotTableTypeOK, ReleaseOnly, ReleaseAndPromote, Promotable, LiveSlots,
         Occupied
<1> QED BY <1>1, LiveType, FS_RemoveElement DEF Live

\* ... and a live slot has one less than all of them for company.
LEMMA LiveOthers ==
  ASSUME NEW s \in Slots, Occupied(s)
  PROVE  Cardinality({r \in Slots \ {s} : Occupied(r)}) = Live - 1 /\ Live >= 1
<1>1. {r \in Slots \ {s} : Occupied(r)} = LiveSlots \ {s} /\ s \in LiveSlots
  BY DEF LiveSlots
<1>2. Cardinality(LiveSlots \ {s}) = Live - 1
  BY <1>1, LiveType, FS_RemoveElement DEF Live
<1>3. Cardinality(LiveSlots \ {s}) \in Nat
  BY <1>1, CountSlots DEF LiveSlots
<1> QED BY <1>1, <1>2, <1>3, LiveType

LEMMA SoloStep ==
  ASSUME IInv, SoloInv, ~Network, Threads = {InitThread}, [Next]_vars
  PROVE  SoloInv'
<1> DEFINE T == InitThread
<1>0. ThreadInv /\ PrepInv /\ FrameInv /\ ~Evicts
  BY DEF IInv, ExactInv, Exact, Evicts
<1>1. /\ TableInv /\ LocalTypeOK /\ ThreadInv /\ PrepInv
      /\ pc \in [Threads -> PCs]
      /\ slot \in [Threads -> Slots] /\ frame \in [Threads -> Nat \cup {NoFrame}]
      /\ others \in [Threads -> Nat] /\ restart \in [Threads -> BOOLEAN]
      /\ frame_id \in [Slots -> Nat \cup {NoFrame}]
      /\ completed \in Nat /\ Live \in Nat /\ NumSlots \in Nat /\ MaxFrames \in Nat
      /\ initialized \in Seq(Slots) /\ Len(initialized) \in Nat
      /\ finished \subseteq Nat \cup {NoFrame}
  BY <1>0, LiveType, LenProperties, SlotProtocolAssumption
     DEF IInv, LocalTypeOK, TableInv, SlotTableTypeOK, PCs
<1>2. /\ PreparedInv /\ IdsInv /\ BudgetInv /\ (pc[T] = "tally" => others[T] = Live - 1)
      /\ pc[T] # "assign"
  BY DEF SoloInv
\* The counts, the ids and what the thread is doing stay the same.
<1>3. ASSUME UNCHANGED <<states, frame_id, completed, initialized, finished>>,
             pc'[T] \notin {"tally", "assign", "prepare", "release", "restart"},
             pc[T] \notin {"tally", "prepare", "release", "restart"}
      PROVE  SoloInv'
  <2>1. Live' = Live
    BY <1>3, LiveSame
  <2>2. ~Preparing /\ ~Preparing' /\ ~Releasing /\ ~Releasing'
    BY <1>3 DEF Preparing, Releasing
  <2>3. PreparedInv'
    BY <1>2, <1>3, <2>1, <2>2 DEF PreparedInv
  <2>4. IdsInv'
    BY <1>2, <1>3, <2>1, <2>2 DEF IdsInv, IdBound
  <2>5. BudgetInv'
    BY <1>2, <1>3, <2>1, <2>2 DEF BudgetInv
  <2> QED BY <1>3, <2>3, <2>4, <2>5 DEF SoloInv
<1>4. CASE AssignBump(T) \/ PromoteBump(T) \/ Exit(T) \/ CountPacket(T) \/ CheckWhole(T)
  BY <1>1, <1>3, <1>4 DEF AssignBump, PromoteBump, Exit, CountPacket, CheckWhole, Bumping, Goto,
     Return, runVars, slotVars, Ready
<1>4a. CASE \/ (\E s \in Slots : Check(T, s)) \/ Load(T) \/ try_complete_slot(T)
            \/ Confirm(T) \/ unmark_slot_completed(T)
  BY <1>1, <1>3, <1>4a DEF Check, Load, try_complete_slot, Confirm, unmark_slot_completed, Goto,
     Return, runVars, slotVars, Ready
<1>4b. CASE ResetGeneration(T) \/ ResetCounters(T)
  <2>1. pc[T] \notin Evicting
    BY <1>0, SlotProtocolAssumption DEF FrameInv
  <2> QED BY <1>1, <1>3, <1>4b, <2>1 DEF ResetGeneration, ResetCounters, Evicting, Goto, runVars
<1>5. CASE UNCHANGED <<states, frame_id, completed, initialized, finished, threadVars>>
  <2>1. Live' = Live
    BY <1>5, LiveSame
  <2>2. (Preparing' <=> Preparing) /\ (Releasing' <=> Releasing)
    BY <1>5 DEF Preparing, Releasing, threadVars
  <2>3. PreparedInv'
    BY <1>2, <1>5, <2>1, <2>2 DEF PreparedInv, threadVars
  <2>4. IdsInv'
    BY <1>2, <1>5, <2>1, <2>2 DEF IdsInv, IdBound
  <2>5. BudgetInv'
    BY <1>2, <1>5, <2>1, <2>2 DEF BudgetInv, threadVars
  <2> QED BY <1>2, <1>5, <2>1, <2>3, <2>4, <2>5 DEF SoloInv, threadVars
<1>6. CASE InitialFrame(T)
  <2>1. /\ pc[T] = "idle" /\ pc'[T] = "prepare" /\ frame'[T] = Head(initialized)
        /\ initialized # <<>> /\ initialized' = Tail(initialized)
        /\ UNCHANGED <<states, frame_id, completed, finished>>
    BY <1>1, <1>6 DEF InitialFrame, slotVars
  <2>2. /\ Len(initialized) >= 1 /\ Head(initialized) = initialized[1]
        /\ Head(initialized) \in Slots
        /\ Len(initialized') = Len(initialized) - 1
        /\ \A i \in 1 .. Len(initialized') : initialized'[i] = initialized[i + 1]
    BY <1>1, <2>1, HeadTailProperties, EmptySeq
  <2>3. Live' = Live /\ ~Preparing /\ Preparing' /\ ~Releasing /\ ~Releasing'
    BY <2>1, LiveSame DEF Preparing, Releasing
  <2>4. PreparedInv'
    <3>1. ASSUME NEW i \in 1 .. Len(initialized') PROVE initialized'[i] = Live + i
      <4>1. i + 1 \in 1 .. Len(initialized)
        BY <1>1, <2>2
      <4>2. initialized[i + 1] = Live + (i + 1) - 1
        BY <1>2, <2>3, <4>1 DEF PreparedInv
      <4> QED BY <1>1, <2>2, <4>2
    <3>2. initialized[1] = Live
      BY <1>1, <1>2, <2>2, <2>3 DEF PreparedInv
    <3> QED BY <1>1, <1>2, <2>1, <2>2, <2>3, <3>1, <3>2 DEF PreparedInv
  <2>5. IdsInv'
    BY <1>2, <2>1, <2>3 DEF IdsInv, IdBound
  <2>6. BudgetInv'
    BY <1>1, <1>2, <2>1, <2>2, <2>3 DEF BudgetInv
  <2> QED BY <2>1, <2>4, <2>5, <2>6 DEF SoloInv
<1>7. ~AssignRegistered(T) /\ ~AssignNoSlot(T)
  <2> SUFFICES ASSUME AssignRegistered(T) PROVE FALSE
    BY <1>2 DEF AssignNoSlot
  <2>1. pc[T] \in Assigning
    BY DEF AssignRegistered
  <2>2. pc[T] # "assign"
    BY <1>2
  <2>3. Preparing /\ InRunning(frame[T])
    BY <2>1, <2>2 DEF AssignRegistered, Assigning, Preparing
  <2>4. frame[T] = Live /\ completed = 0 /\ frame[T] \in Nat
    BY <1>1, <1>2, <2>3 DEF PreparedInv
  <2>5. PICK s \in Slots : frame_id[s] = frame[T]
    BY <1>1, <2>3, <2>4, SlotFrames
  <2> QED BY <1>1, <1>2, <2>3, <2>4, <2>5 DEF IdsInv, IdBound, Preparing, Releasing, NoFrame
<1>8. ~PreparationPanics(T)
  <2> SUFFICES ASSUME PreparationPanics(T) PROVE FALSE
    OBVIOUS
  <2>1. Preparing /\ LiveSlots = Slots
    BY DEF PreparationPanics, Preparing, AllOccupied, LiveSlots
  <2>2. Live = NumSlots
    <3>1. 0 \in Int /\ NumSlots - 1 \in Int /\ ~(0 > NumSlots - 1)
      OBVIOUS
    <3> QED BY <1>1, <2>1, <3>1, FS_Interval DEF Live, Slots
  <2> QED BY <1>1, <1>2, <2>1, <2>2 DEF PreparedInv, Slots
<1>9. ASSUME NEW s \in Slots, AssignActive(T, s) \/ AssignBuffer(T, s) PROVE SoloInv'
  <2>1. Preparing /\ T \in Threads
    BY <1>2, <1>9 DEF AssignActive, AssignBuffer, Assigning, Preparing
  <2>2. PICK st \in {"Active", "Buffering"} : Appended(frame[T], s, st)
    BY <1>9, <2>1, AssignActiveAppends, AssignBufferAppends
  <2>3. Live' = Live + 1
    BY <1>1, <2>2, LiveAdds
  <2>4. /\ frame_id' = [frame_id EXCEPT ![s] = frame[T]]
        /\ UNCHANGED <<completed, initialized, finished>> /\ pc'[T] \in {"bump", "prepbump", "packet", "idle"}
    BY <1>1, <1>9, <2>1, <2>2 DEF Appended, Register, AssignActive, AssignBuffer, Goto, Return, runVars
  <2>5. ~Preparing' /\ ~Releasing' /\ ~Releasing
    BY <2>1, <2>4 DEF Preparing, Releasing
  <2>6. completed = 0 /\ frame[T] = Live
    BY <1>2, <2>1 DEF PreparedInv
  <2>7. PreparedInv'
    <3>1. ASSUME NEW i \in 1 .. Len(initialized) PROVE initialized[i] = Live' + i - 1
      <4>1. initialized[i] = Live + i - 0
        BY <1>2, <2>1 DEF PreparedInv
      <4> QED BY <1>1, <2>3, <4>1
    <3> QED BY <2>4, <2>5, <2>6, <3>1 DEF PreparedInv
  <2>8. IdsInv'
    <3>1. IdBound = Live /\ IdBound' = Live + 1
      BY <1>1, <2>3, <2>4, <2>5, <2>6 DEF IdBound
    <3>2. \A f \in finished : f < Live + 1
      BY <1>1, <1>2, <3>1 DEF IdsInv, NoFrame
    <3>3. ASSUME NEW r \in Slots, frame_id'[r] # NoFrame PROVE frame_id'[r] < Live + 1
      <4>1. CASE r = s
        BY <1>1, <2>4, <2>6, <4>1
      <4>2. CASE r # s
        <5>1. frame_id'[r] = frame_id[r] /\ frame_id[r] < Live /\ frame_id[r] \in Nat
          BY <1>1, <1>2, <2>4, <3>1, <3>3, <4>2 DEF IdsInv
        <5> QED BY <1>1, <5>1
      <4> QED BY <4>1, <4>2
    <3> QED BY <2>4, <3>1, <3>2, <3>3 DEF IdsInv
  <2>9. BudgetInv'
    BY <1>1, <1>2, <2>1, <2>3, <2>4, <2>5 DEF BudgetInv
  <2> QED BY <2>4, <2>7, <2>8, <2>9 DEF SoloInv
<1>10. CASE CountOthers(T)
  <2>1. /\ pc[T] = "count" /\ pc'[T] = "tally" /\ T \in Threads
        /\ UNCHANGED <<states, frame_id, completed, initialized, finished, frame, restart>>
        /\ others'[T] = Cardinality({s \in Slots \ {slot[T]} : Occupied(s)})
    BY <1>1, <1>10 DEF CountOthers, slotVars, runVars
  <2>2. slot[T] \in Slots /\ Occupied(slot[T])
    BY <1>1, <2>1 DEF ThreadInv, Finishing
  <2>3. Live' = Live /\ others'[T] = Live - 1
    BY <2>1, <2>2, LiveSame, LiveOthers
  <2>4. ~Preparing /\ ~Preparing' /\ ~Releasing /\ ~Releasing'
    BY <2>1 DEF Preparing, Releasing
  <2>5. PreparedInv' /\ IdsInv'
    BY <1>2, <2>1, <2>3, <2>4 DEF PreparedInv, IdsInv, IdBound
  <2>6. BudgetInv'
    BY <1>2, <2>1, <2>3, <2>4 DEF BudgetInv
  <2> QED BY <2>1, <2>3, <2>5, <2>6 DEF SoloInv
<1>11. CASE Tally(T)
  <2>1. /\ pc[T] = "tally" /\ pc'[T] = "release" /\ T \in Threads
        /\ completed' = completed + 1 /\ finished' = finished \cup {frame_id[slot[T]]}
        /\ UNCHANGED <<states, frame_id, initialized>>
        /\ restart'[T] = (completed + 1 + others[T] < MaxFrames)
    BY <1>1, <1>11 DEF Tally, slotVars, CanRestart
  <2>2. slot[T] \in Slots /\ Occupied(slot[T]) /\ initialized = <<>>
    BY <1>1, <2>1 DEF ThreadInv, Finishing, PrepInv, Owning
  <2>3. Live' = Live /\ others[T] = Live - 1 /\ Live >= 1
    BY <1>2, <2>1, <2>2, LiveSame, LiveOthers
  <2>4. ~Preparing /\ ~Preparing' /\ ~Releasing /\ Releasing' /\ Len(initialized) = 0
    BY <2>1, <2>2 DEF Preparing, Releasing
  <2>5. PreparedInv'
    BY <1>2, <2>1, <2>2, <2>3, <2>4 DEF PreparedInv
  <2>6. IdsInv'
    <3>1. IdBound' = IdBound
      BY <1>1, <2>1, <2>3, <2>4 DEF IdBound
    <3>2. frame_id[slot[T]] < IdBound
      BY <1>1, <1>2, <2>2, SlotFrames DEF IdsInv
    <3> QED BY <1>2, <2>1, <3>1, <3>2 DEF IdsInv
  <2>7. BudgetInv'
    <3>1. CASE completed + 1 + others[T] < MaxFrames
      BY <1>1, <1>2, <2>1, <2>3, <2>4, <3>1 DEF BudgetInv
    <3>2. CASE ~(completed + 1 + others[T] < MaxFrames)
      BY <1>1, <1>2, <2>1, <2>3, <2>4, <3>2 DEF BudgetInv
    <3> QED BY <3>1, <3>2
  <2> QED BY <2>1, <2>5, <2>6, <2>7 DEF SoloInv
<1>12. CASE Release(T) \/ \E n \in Slots : Promote(T, n)
  <2>1. /\ pc[T] = "release" /\ T \in Threads
        /\ frame_id' = [frame_id EXCEPT ![slot[T]] = NoFrame]
        /\ UNCHANGED <<completed, initialized, finished>>
    BY <1>12 DEF Release, Promote, ReleaseOnly, ReleaseAndPromote, ReleaseCommon, runVars
  <2>2. /\ slot[T] \in Slots /\ Occupied(slot[T]) /\ initialized = <<>>
        /\ ReleaseOnly(slot[T]) \/ \E n \in Slots : ReleaseAndPromote(slot[T], n)
    BY <1>1, <1>12, <2>1 DEF ThreadInv, Finishing, PrepInv, Owning, Release, Promote
  <2>3. Live' = Live - 1
    BY <1>1, <2>2, LiveDrops
  <2>4. pc'[T] \in {"idle", "promoted", "restart"} /\ (pc'[T] = "restart" => restart[T])
    BY <1>1, <1>12, <2>1 DEF Release, Promote, Return
  <2>5. ~Preparing /\ ~Preparing' /\ Releasing /\ ~Releasing' /\ Len(initialized) = 0
    BY <2>1, <2>2, <2>4 DEF Preparing, Releasing
  <2>6. PreparedInv'
    BY <1>2, <2>1, <2>2, <2>5 DEF PreparedInv
  <2>7. IdsInv'
    <3>1. IdBound' = IdBound
      BY <1>1, <2>1, <2>3, <2>5 DEF IdBound
    <3> QED BY <1>1, <1>2, <2>1, <3>1 DEF IdsInv
  <2>8. BudgetInv'
    BY <1>1, <1>2, <2>1, <2>3, <2>4, <2>5 DEF BudgetInv
  <2> QED BY <2>4, <2>6, <2>7, <2>8 DEF SoloInv
<1>13. CASE Restart(T)
  <2>1. /\ pc[T] = "restart" /\ pc'[T] = "idle" /\ T \in Threads
        /\ UNCHANGED <<completed, initialized, finished>>
    BY <1>1, <1>13 DEF Restart, Return, runVars
  <2>2. Appended(NextFrameId, slot[T], "Active") /\ initialized = <<>> /\ slot[T] \in Slots
    BY <1>1, <1>13, <2>1, RestartAppends DEF PrepInv, Owning
  <2>3. Live' = Live + 1 /\ NextFrameId = completed + Live
    BY <1>1, <2>2, LiveAdds DEF NextFrameId, Live, LiveSlots
  <2>4. frame_id' = [frame_id EXCEPT ![slot[T]] = completed + Live]
    BY <2>2, <2>3 DEF Appended, Register
  <2>5. ~Preparing /\ ~Preparing' /\ ~Releasing /\ ~Releasing' /\ Len(initialized) = 0
    BY <2>1, <2>2 DEF Preparing, Releasing
  <2>6. PreparedInv'
    BY <1>2, <2>1, <2>2, <2>5 DEF PreparedInv
  <2>7. IdsInv'
    <3>1. IdBound = completed + Live /\ IdBound' = completed + Live + 1
      BY <1>1, <2>1, <2>3, <2>5 DEF IdBound
    <3>2. \A f \in finished : f < completed + Live + 1
      BY <1>1, <1>2, <3>1 DEF IdsInv, NoFrame
    <3>3. ASSUME NEW r \in Slots, frame_id'[r] # NoFrame PROVE frame_id'[r] < completed + Live + 1
      <4>1. CASE r = slot[T]
        BY <1>1, <2>4, <4>1
      <4>2. CASE r # slot[T]
        <5>1. frame_id'[r] = frame_id[r] /\ frame_id[r] < completed + Live /\ frame_id[r] \in Nat
          BY <1>1, <1>2, <2>4, <3>1, <3>3, <4>2 DEF IdsInv
        <5> QED BY <1>1, <5>1
      <4> QED BY <4>1, <4>2
    <3> QED BY <2>1, <3>1, <3>2, <3>3 DEF IdsInv
  <2>8. BudgetInv'
    BY <1>1, <1>2, <2>1, <2>3, <2>5 DEF BudgetInv
  <2> QED BY <2>1, <2>6, <2>7, <2>8 DEF SoloInv
<1>14. /\ ~(\E f \in Stream : AdmitMiss(T, f) \/ AdmitHit(T, f))
       /\ ~(\E s \in Slots : EvictTest(T, s)) /\ ~EvictSwap(T) /\ ~EvictDrop(T)
  BY <1>0, SlotProtocolAssumption
     DEF AdmitMiss, AdmitHit, Arrives, EvictTest, EvictSwap, EvictDrop, FrameInv, Evicting
<1>15. ASSUME NEW s \in Slots, FrameWork(s) PROVE SoloInv'
  BY <1>5, <1>15 DEF FrameWork, runVars
<1>16. CASE MainPoll \/ Terminated \/ UNCHANGED vars
  BY <1>5, <1>16 DEF MainPoll, Terminated, vars, slotVars, threadVars, runVars
<1>17. CASE \E t \in Threads : ThreadStep(t)
  <2>1. ThreadStep(T)
    BY <1>17
  <2> QED BY <2>1, <1>4, <1>4a, <1>4b, <1>6, <1>7, <1>8, <1>9, <1>10, <1>11, <1>12, <1>13, <1>14
          DEF ThreadStep
<1> QED BY <1>15, <1>16, <1>17 DEF Next

LEMMA SoloInit ==
  ASSUME Init, ~Network, Threads = {InitThread}
  PROVE  SoloInv
<1>1. /\ pc[InitThread] = "idle" /\ completed = 0 /\ finished = {}
      /\ \A s \in Slots : frame_id[s] = NoFrame /\ ~Occupied(s)
  BY DEF Init, SlotTableInit, Occupied
<1>2. ~Preparing /\ ~Releasing
  BY <1>1 DEF Preparing, Releasing
<1>3. Live = 0
  <2>1. LiveSlots = {}
    BY <1>1 DEF LiveSlots
  <2> QED BY <2>1, FS_EmptySet DEF Live
<1>4. /\ Len(initialized) \in Nat /\ Len(initialized) <= NumSlots
      /\ \A i \in 1 .. Len(initialized) : initialized[i] = i - 1
  <2>1. CASE ~InitialNodes
    BY <2>1 DEF Init
  <2>2. CASE InitialNodes /\ SlotPriority
    <3>1. initialized = <<0>>
      BY <2>2 DEF Init
    <3> QED BY <3>1
  <2>3. CASE InitialNodes /\ ~SlotPriority
    <3>1. initialized = [i \in 1 .. NumSlots |-> i - 1] /\ NumSlots \in Nat
      BY <2>3 DEF Init
    <3>2. \A i \in 1 .. NumSlots : i - 1 \in Int
      BY <3>1
    <3> QED BY <3>1, <3>2
  <2> QED BY <2>1, <2>2, <2>3
<1>5. PreparedInv
  BY <1>1, <1>2, <1>3, <1>4 DEF PreparedInv
<1>6. IdsInv
  BY <1>1 DEF IdsInv
<1>7. BudgetInv
  BY <1>1, <1>2, <1>3, <1>4, SlotProtocolAssumption DEF BudgetInv
<1> QED BY <1>1, <1>5, <1>6, <1>7 DEF SoloInv

\* A compute graph with one resolution thread that is asked for at least one
\* frame per slot never completes more than max_frames.
THEOREM ComputeRunsWithinBound ==
  ASSUME ~Network, Threads = {InitThread}, NumSlots <= MaxFrames
  PROVE  Spec => []WithinMaxFrames
<1>1. Init => SoloInv
  BY SoloInit
<1>2. IInv /\ SoloInv /\ [Next]_vars => SoloInv'
  BY SoloStep
<1>3. ASSUME IInv, SoloInv PROVE WithinMaxFrames
  <2>1. completed \in Nat /\ Live \in Nat /\ MaxFrames \in Nat /\ Len(initialized) \in Nat
    BY <1>3, LiveType, LenProperties, SlotProtocolAssumption DEF IInv, LocalTypeOK
  <2>2. Releasing => Live >= 1
    <3> SUFFICES ASSUME Releasing PROVE Live >= 1
      OBVIOUS
    <3>1. slot[InitThread] \in Slots /\ Occupied(slot[InitThread])
      BY <1>3, SlotProtocolAssumption
         DEF IInv, LocalTypeOK, ExactInv, Exact, Evicts, ThreadInv, Releasing, Finishing
    <3> QED BY <3>1, LiveOthers
  <2> QED BY <1>3, <2>1, <2>2 DEF SoloInv, BudgetInv, WithinMaxFrames
<1> QED BY <1>1, <1>2, <1>3, InductiveInvariant, PTL DEF Spec

\* On such a graph a restart numbers its frame above every frame counted or running.
THEOREM RestartsNumberUpwards ==
  ASSUME ~Network, Threads = {InitThread}
  PROVE  Spec => RestartIdsIncrease
<1>1. Init => SoloInv
  BY SoloInit
<1>2. IInv /\ SoloInv /\ [Next]_vars => SoloInv'
  BY SoloStep
<1> DEFINE Above == \A t \in Threads : Restart(t) =>
             \A f \in finished \cup {running_frames[i][1] : i \in DOMAIN running_frames} :
               f < NextFrameId
<1>3. ASSUME IInv, SoloInv PROVE Above
  <2> SUFFICES ASSUME NEW t \in Threads, Restart(t),
                      NEW f \in finished \cup {running_frames[i][1] : i \in DOMAIN running_frames}
               PROVE  f < NextFrameId
    OBVIOUS
  <2>1. NextFrameId = IdBound
    <3>1. ~Releasing /\ completed \in Nat /\ Live \in Nat
      BY <1>3, LiveType DEF Restart, Releasing, IInv, LocalTypeOK
    <3> QED BY <3>1 DEF IdBound, NextFrameId, Live, LiveSlots
  <2>2. CASE f \in finished
    BY <1>3, <2>1, <2>2 DEF SoloInv, IdsInv
  <2>3. CASE f \notin finished
    <3>1. PICK i \in DOMAIN running_frames : f = running_frames[i][1]
      BY <2>3
    <3>2. running_frames[i][2] \in Slots /\ frame_id[running_frames[i][2]] = f /\ f \in Nat
      BY <1>3, <3>1, SlotFrames DEF IInv
    <3> QED BY <1>3, <2>1, <3>2 DEF SoloInv, IdsInv, NoFrame
  <2> QED BY <2>2, <2>3
<1>4. IInv /\ SoloInv /\ [Next]_vars => [Above]_vars
  BY <1>3
<1> QED BY <1>1, <1>2, <1>4, InductiveInvariant, PTL DEF Spec, RestartIdsIncrease
=============================================================================
