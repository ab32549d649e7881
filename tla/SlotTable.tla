----------------------------- MODULE SlotTable -----------------------------
(***************************************************************************)
(* The slot table of the runtime (runtime/slot_management.rs and SlotData  *)
(* of runtime/shared_data.rs): which frame runs in which slot.             *)
(*                                                                         *)
(* This module has the state and the operations, as actions over the slot  *)
(* variables alone; SlotProtocol runs them from the resolution threads.    *)
(*                                                                         *)
(* One action is one lock scope (running_frames.write() together with      *)
(* states.write()) or one lock-free access.  The generation bump that      *)
(* follows a lock scope is an action of its own, as it is in the code.     *)
(***************************************************************************)
EXTENDS Integers, Sequences, SequencesExt

CONSTANTS
  NumSlots,      \* config.slots
  SlotPriority,  \* config.slot_priority_enabled
  Network,       \* graph.network_config().is_some()
  MapLen,        \* frame_slot_map.len()
  TagSpace       \* 2^32: a frame_slot_map cell keeps `frame as u32`

ASSUME SlotTableAssumption ==
  /\ NumSlots \in Nat \ {0}
  /\ SlotPriority \in BOOLEAN
  /\ Network \in BOOLEAN
  /\ MapLen \in Nat \ {0}
  /\ TagSpace \in Nat \ {0}

VARIABLES
  states,          \* SlotState of every slot
  running_frames,  \* Vec<(frame, slot)> in order of assignment
  frame_slot_map,  \* lock-free cache of running_frames
  frame_id,        \* frame of a slot, NoFrame when it has none
  active_bitmap,   \* set of the slots whose bit is set
  last_assigned,
  generation,      \* per-slot generation
  needs_check      \* per-slot "look for completion" flag

slotVars == <<states, running_frames, frame_slot_map, frame_id, active_bitmap,
              last_assigned, generation, needs_check>>

Slots == 0 .. NumSlots - 1
SlotState == {"Inactive", "Active", "Buffering"}

\* usize::MAX in frame_id
NoFrame == -1

\* FRAME_SLOT_EMPTY, and the packed (tag, slot) of an occupied cell
FRAME_SLOT_EMPTY == <<-1, -1>>
Cell(frame, slot) == <<frame % TagSpace, slot>>

Occupied(slot) == states[slot] # "Inactive"
ActiveSlots == {s \in Slots : states[s] = "Active"}

-----------------------------------------------------------------------------
(* frame_slot_map *)

CellIndex(frame) == frame % MapLen

\* A frame has a lock-free hit iff its cell is occupied and carries its tag.
frame_slot_hit(frame) ==
  LET packed == frame_slot_map[CellIndex(frame)]
  IN  packed # FRAME_SLOT_EMPTY /\ packed[1] = frame % TagSpace

frame_slot_lookup(frame) == frame_slot_map[CellIndex(frame)][2]

frame_slot_publish(frame, slot) ==
  [frame_slot_map EXCEPT ![CellIndex(frame)] = Cell(frame, slot)]

\* Mutant: a released frame keeps its cell.
frame_slot_keep(frame) == frame_slot_map

\* Clears the cell only when it still holds this frame's tag.
frame_slot_clear(frame) ==
  IF frame_slot_hit(frame)
  THEN [frame_slot_map EXCEPT ![CellIndex(frame)] = FRAME_SLOT_EMPTY]
  ELSE frame_slot_map

-----------------------------------------------------------------------------
(* assign_frame_to_available_slot *)

InRunning(frame) == \E i \in DOMAIN running_frames : running_frames[i][1] = frame

\* The slot the re-scan of running_frames returns: the first entry of `frame`.
SlotOfFrame(frame) ==
  running_frames[Min({i \in DOMAIN running_frames : running_frames[i][1] = frame})][2]

\* The first Inactive slot after last_assigned, in round-robin order.
RoundRobinSlot(slot) ==
  \E i \in 1 .. NumSlots - 1 :
    /\ slot = (last_assigned + i) % NumSlots
    /\ ~Occupied(slot)
    /\ \A j \in 1 .. i - 1 : Occupied((last_assigned + j) % NumSlots)

\* What every way of giving `slot` to `frame` does under the lock.
Register(frame, slot, st) ==
  /\ states' = [states EXCEPT ![slot] = st]
  /\ running_frames' = Append(running_frames, <<frame, slot>>)
  /\ frame_slot_map' = frame_slot_publish(frame, slot)
  /\ frame_id' = [frame_id EXCEPT ![slot] = frame]

SetActive(slot) ==
  /\ active_bitmap' = active_bitmap \cup {slot}
  /\ needs_check' = [needs_check EXCEPT ![slot] = TRUE]

\* last_assigned is free: activate it.
AssignLastAssigned(frame) ==
  /\ ~InRunning(frame)
  /\ ~Occupied(last_assigned)
  /\ Register(frame, last_assigned, "Active")
  /\ SetActive(last_assigned)
  /\ UNCHANGED <<last_assigned, generation>>

\* Mutant: the mode is not looked at.
AssignParallelAlways(frame, slot) ==
  /\ ~InRunning(frame)
  /\ Occupied(last_assigned)
  /\ Network
  /\ RoundRobinSlot(slot)
  /\ Register(frame, slot, "Active")
  /\ SetActive(slot)
  /\ last_assigned' = slot
  /\ UNCHANGED generation

\* Parallel mode on a network graph: activate the next free slot.
AssignParallel(frame, slot) ==
  /\ ~InRunning(frame)
  /\ Occupied(last_assigned)
  /\ ~SlotPriority /\ Network
  /\ RoundRobinSlot(slot)
  /\ Register(frame, slot, "Active")
  /\ SetActive(slot)
  /\ last_assigned' = slot
  /\ UNCHANGED generation

\* Mutant: the re-scan of running_frames under the lock is left out.
AssignBufferingBlind(frame, slot) ==
  /\ Occupied(last_assigned)
  /\ SlotPriority \/ ~Network
  /\ RoundRobinSlot(slot)
  /\ Register(frame, slot, "Buffering")
  /\ last_assigned' = slot
  /\ UNCHANGED <<active_bitmap, needs_check, generation>>

\* Otherwise the next free slot buffers; its generation is not bumped.
AssignBuffering(frame, slot) ==
  /\ ~InRunning(frame)
  /\ Occupied(last_assigned)
  /\ SlotPriority \/ ~Network
  /\ RoundRobinSlot(slot)
  /\ Register(frame, slot, "Buffering")
  /\ last_assigned' = slot
  /\ UNCHANGED <<active_bitmap, needs_check, generation>>

\* Every slot is occupied: assign_frame_to_available_slot returns None.
AllOccupied == \A s \in Slots : Occupied(s)

-----------------------------------------------------------------------------
(* bump_slot_generation *)

bump_slot_generation(slot) ==
  generation' = [generation EXCEPT ![slot] = @ + 1]

-----------------------------------------------------------------------------
(* release_and_activate_next *)

HasEntry(slot) == \E i \in DOMAIN running_frames : running_frames[i][2] = slot

\* The position of the entry that release removes: the first of `slot`.
EntryOfSlot(slot) == Min({i \in DOMAIN running_frames : running_frames[i][2] = slot})

\* Mutant: any Buffering slot is promoted, not the oldest.
PromotableAny(slot, next) == next # slot /\ states[next] = "Buffering"

\* The slot release promotes: the oldest entry that is Buffering.
Promotable(slot, next) ==
  \E i \in DOMAIN running_frames :
    /\ running_frames[i][2] = next
    /\ next # slot /\ states[next] = "Buffering"
    /\ \A j \in 1 .. i - 1 :
         running_frames[j][2] = slot \/ states[running_frames[j][2]] # "Buffering"

ReleaseCommon(slot) ==
  /\ IF HasEntry(slot)
     THEN LET p == EntryOfSlot(slot)
          IN  /\ running_frames' = RemoveAt(running_frames, p)
              /\ frame_slot_map' = frame_slot_clear(running_frames[p][1])
     ELSE UNCHANGED <<running_frames, frame_slot_map>>
  /\ frame_id' = [frame_id EXCEPT ![slot] = NoFrame]
  /\ UNCHANGED generation

\* Mutant: the slot is released and the buffered frames are left waiting.
ReleaseAlone(slot) ==
  /\ ReleaseCommon(slot)
  /\ states' = [states EXCEPT ![slot] = "Inactive"]
  /\ active_bitmap' = active_bitmap \ {slot}
  /\ UNCHANGED <<last_assigned, needs_check>>

\* Mutant: the bit of the released slot stays in active_bitmap.
ReleaseKeepsBit(slot) ==
  /\ SlotPriority => \A n \in Slots : ~Promotable(slot, n)
  /\ ReleaseCommon(slot)
  /\ states' = [states EXCEPT ![slot] = "Inactive"]
  /\ UNCHANGED <<active_bitmap, last_assigned, needs_check>>

\* Released with nothing to promote (or slot priority off).
ReleaseOnly(slot) ==
  /\ SlotPriority => \A n \in Slots : ~Promotable(slot, n)
  /\ ReleaseCommon(slot)
  /\ states' = [states EXCEPT ![slot] = "Inactive"]
  /\ active_bitmap' = active_bitmap \ {slot}
  /\ UNCHANGED <<last_assigned, needs_check>>

\* Released and `next` promoted in the same lock scope.
ReleaseAndPromote(slot, next) ==
  /\ SlotPriority
  /\ Promotable(slot, next)
  /\ ReleaseCommon(slot)
  /\ states' = [states EXCEPT ![slot] = "Inactive", ![next] = "Active"]
  /\ active_bitmap' = (active_bitmap \ {slot}) \cup {next}
  /\ needs_check' = [needs_check EXCEPT ![next] = TRUE]
  /\ last_assigned' = next

-----------------------------------------------------------------------------
(* restart_slot_nonnetwork: the slot takes the frame numbered `frame`. *)

RestartSlot(frame, slot) ==
  /\ Register(frame, slot, "Active")
  /\ active_bitmap' = active_bitmap \cup {slot}
  /\ UNCHANGED <<last_assigned, generation, needs_check>>

-----------------------------------------------------------------------------

SlotTableInit ==
  /\ states = [s \in Slots |-> "Inactive"]
  /\ running_frames = <<>>
  /\ frame_slot_map = [c \in 0 .. MapLen - 1 |-> FRAME_SLOT_EMPTY]
  /\ frame_id = [s \in Slots |-> NoFrame]
  /\ active_bitmap = {}
  /\ last_assigned = 0
  /\ generation = [s \in Slots |-> 0]
  /\ needs_check = [s \in Slots |-> FALSE]

SlotTableTypeOK ==
  /\ states \in [Slots -> SlotState]
  /\ running_frames \in Seq(Nat \X Slots)
  /\ frame_slot_map \in
       [0 .. MapLen - 1 -> {FRAME_SLOT_EMPTY} \cup ((0 .. TagSpace - 1) \X Slots)]
  /\ frame_id \in [Slots -> Nat \cup {NoFrame}]
  /\ active_bitmap \in SUBSET Slots
  /\ last_assigned \in Slots
  /\ generation \in [Slots -> Nat]
  /\ needs_check \in [Slots -> BOOLEAN]

\* running_frames, states, frame_id and active_bitmap agree: a slot is in
\* running_frames, exactly once and with its frame, iff it is not Inactive.
TableConsistent ==
  /\ \A i, j \in DOMAIN running_frames :
       running_frames[i][2] = running_frames[j][2] => i = j
  /\ \A i \in DOMAIN running_frames :
       frame_id[running_frames[i][2]] = running_frames[i][1]
  /\ \A s \in Slots :
       Occupied(s) <=> \E i \in DOMAIN running_frames : running_frames[i][2] = s
  /\ \A s \in Slots : ~Occupied(s) => frame_id[s] = NoFrame
  /\ active_bitmap = ActiveSlots
=============================================================================
