---------------------------- MODULE SlotProtocol ----------------------------
(***************************************************************************)
(* The slot table under its resolution threads: frames are assigned by     *)
(* the packet path (network graphs) or by the initial preparation and the  *)
(* restart path (compute graphs), and released by check_slots when the     *)
(* frame has completed or has been evicted.                                *)
(*                                                                         *)
(* The tasks of a frame are abstract here: `work` stands for the slot's    *)
(* pending_tasks, pending_cond_tasks and processing_count, and the last    *)
(* batch that is resolved takes it to 0.  FrameLifecycle has the tasks,    *)
(* the late ones of evicted frames included, and the three counters one by *)
(* one.  The parking buffer is Ingest's: here a parked packet is one that  *)
(* is still to come.                                                       *)
(***************************************************************************)
EXTENDS SlotTable, FiniteSets

CONSTANTS
  Threads,    \* resolution threads
  MaxFrames,  \* config.max_frames
  FramesSent, \* the frames a sender streams to a network graph
  FramePackets, \* net.frame_packets
  Eviction,   \* config.frame_timeout_ms > 0
  InitialNodes, \* the graph has compute roots (graph.initial_nodes)
  InitThread, \* thread 0, which runs perform_initial_preparation
  NoThread

ASSUME SlotProtocolAssumption ==
  /\ NoThread \notin Threads
  /\ InitThread \in Threads
  /\ MaxFrames \in Nat \ {0}
  /\ FramesSent \in Nat
  /\ FramePackets \in Nat \ {0}
  /\ Eviction \in BOOLEAN
  /\ InitialNodes \in BOOLEAN

VARIABLES
  pc,             \* where each resolution thread is
  frame,          \* the frame a thread is assigning
  slot,           \* the slot a thread is filling, activating, checking or finishing
  others,         \* process_slot_completion's count of the other live slots
  restart,        \* its answer can_restart
  statesOwner,    \* the thread that keeps states.write() across a bump
  bits,           \* slots whose completion bit is set (resolution_state)
  work,           \* what is left of the slot's frame (0: it can complete)
  packet_counters,
  packet_complete,
  completed,      \* frame_complete_counter
  initialized,    \* frames the initial preparation has still to assign
  taken,          \* packets of a frame that were read and not parked
  dropped,        \* frame_dropped
  finished,       \* frames counted by a completion (history)
  finish          \* the main thread has seen the end of the run

threadVars == <<pc, frame, slot, others, restart, statesOwner>>
countVars == <<bits, work, packet_counters, packet_complete>>
runVars == <<completed, initialized, taken, dropped, finished, finish>>
vars == <<slotVars, threadVars, countVars, runVars>>

\* Frames the packet path may see.  The sender does not know max_frames, and
\* admission does not look at it.
Stream == 0 .. FramesSent - 1

MaxFrameId == FramesSent + MaxFrames + NumSlots - 1

\* frame_dropped.len(): the frames that can be marked as dropped or parked
Trackable == 0 .. MaxFrames + NumSlots - 1

\* Frames are evicted: a network graph with a frame timeout.
Evicts == Eviction /\ Network

\* pcs at which a thread that has won a completion is resetting, counting and
\* releasing the slot
Finishing == {"reset", "clear", "count", "tally", "release"}

\* pcs of check_slots before the completion is won, and of an eviction
Checking == {"load", "take", "confirm", "unmark"}
Evicting == {"evict", "drop", "discard", "wipe"}

\* pcs at which a thread is inside assign_frame_to_available_slot, called by the
\* packet path or by perform_initial_preparation, and has just activated a slot
Assigning == {"assign", "prepare"}
Bumping == {"bump", "prepbump"}

\* A thread's locals when it returns to the top of its loop.
Return(t) ==
  /\ pc' = [pc EXCEPT ![t] = "idle"]
  /\ frame' = [frame EXCEPT ![t] = NoFrame]
  /\ slot' = [slot EXCEPT ![t] = 0]
  /\ others' = [others EXCEPT ![t] = 0]
  /\ restart' = [restart EXCEPT ![t] = FALSE]

\* A thread goes on to `next`; of its locals only the slot may change.
Goto(t, next) ==
  /\ pc' = [pc EXCEPT ![t] = next]
  /\ UNCHANGED <<frame, others, restart>>

StatesLockFree == statesOwner = NoThread

\* A thread at the top of its loop (thread 0 prepares the run first).
Ready(t) == pc[t] = "idle" /\ (t = InitThread => initialized = <<>>)

-----------------------------------------------------------------------------
Init ==
  /\ SlotTableInit
  /\ pc = [t \in Threads |-> "idle"]
  /\ frame = [t \in Threads |-> NoFrame]
  /\ slot = [t \in Threads |-> 0]
  /\ others = [t \in Threads |-> 0]
  /\ restart = [t \in Threads |-> FALSE]
  /\ statesOwner = NoThread
  /\ bits = {}
  /\ work = [s \in Slots |-> 1]
  /\ packet_counters = [s \in Slots |-> 0]
  /\ packet_complete = [s \in Slots |-> FALSE]
  /\ completed = 0
  /\ initialized =
       IF ~InitialNodes THEN <<>>
       ELSE IF SlotPriority THEN <<0>> ELSE [i \in 1 .. NumSlots |-> i - 1]
  /\ taken = [f \in Stream |-> 0]
  /\ dropped = {}
  /\ finished = {}
  /\ finish = FALSE

-----------------------------------------------------------------------------
(* Assignment *)

\* perform_initial_preparation: the next frame of activate_frames.
InitialFrame(t) ==
  /\ t = InitThread
  /\ pc[t] = "idle"
  /\ initialized # <<>>
  /\ pc' = [pc EXCEPT ![t] = "prepare"]
  /\ frame' = [frame EXCEPT ![t] = Head(initialized)]
  /\ initialized' = Tail(initialized)
  /\ UNCHANGED <<slotVars, slot, others, restart, statesOwner, countVars, completed,
                 taken, dropped, finished, finish>>

\* A packet of frame f is read, or taken back from the parking buffer: the frame
\* is inside the window and has not been dropped.
Arrives(t, f) ==
  /\ Network
  /\ Ready(t)
  /\ taken[f] < FramePackets
  /\ f < completed + NumSlots
  /\ f \notin dropped
  /\ taken' = [taken EXCEPT ![f] = @ + 1]
  /\ frame' = [frame EXCEPT ![t] = f]
  /\ UNCHANGED <<slotVars, others, restart, statesOwner, countVars, completed,
                 initialized, dropped, finished, finish>>

\* The lock-free part of assign_frame_to_available_slot misses ...
AdmitMiss(t, f) ==
  /\ Arrives(t, f)
  /\ ~frame_slot_hit(f)
  /\ pc' = [pc EXCEPT ![t] = "assign"]
  /\ UNCHANGED slot

\* ... or answers the slot of the frame.
AdmitHit(t, f) ==
  /\ Arrives(t, f)
  /\ frame_slot_hit(f)
  /\ pc' = [pc EXCEPT ![t] = "packet"]
  /\ slot' = [slot EXCEPT ![t] = frame_slot_lookup(f)]

\* The locked part finds the frame registered meanwhile.
AssignRegistered(t) ==
  /\ pc[t] \in Assigning
  /\ InRunning(frame[t])
  /\ IF pc[t] = "assign"
     THEN /\ Goto(t, "packet")
          /\ slot' = [slot EXCEPT ![t] = SlotOfFrame(frame[t])]
     ELSE Return(t)
  /\ UNCHANGED <<slotVars, statesOwner, countVars, runVars>>

\* The locked part finds no free slot: the packet is parked (or discarded, when
\* the frame cannot be tracked or has been dropped).
AssignNoSlot(t) ==
  /\ pc[t] = "assign"
  /\ ~InRunning(frame[t]) /\ AllOccupied /\ StatesLockFree
  /\ taken' = IF frame[t] \in Trackable \ dropped
              THEN [taken EXCEPT ![frame[t]] = @ - 1] ELSE taken
  /\ Return(t)
  /\ UNCHANGED <<slotVars, statesOwner, countVars, completed, initialized, dropped,
                 finished, finish>>

\* The preparation expects a slot, and panics when there is none.
PreparationPanics(t) ==
  /\ pc[t] = "prepare"
  /\ ~InRunning(frame[t]) /\ AllOccupied /\ StatesLockFree
  /\ pc' = [pc EXCEPT ![t] = "panicked"]
  /\ UNCHANGED <<slotVars, frame, slot, others, restart, statesOwner, countVars, runVars>>

\* The locked part activates slot s; states.write() outlives running_frames.
AssignActive(t, s) ==
  /\ pc[t] \in Assigning
  /\ StatesLockFree
  /\ \/ s = last_assigned /\ AssignLastAssigned(frame[t])
     \/ AssignParallel(frame[t], s)
  /\ Goto(t, IF pc[t] = "assign" THEN "bump" ELSE "prepbump")
  /\ slot' = [slot EXCEPT ![t] = s]
  /\ statesOwner' = t
  /\ UNCHANGED <<countVars, runVars>>

\* bump_slot_generation after the activation, then states.write() is dropped.
AssignBump(t) ==
  /\ pc[t] \in Bumping
  /\ bump_slot_generation(slot[t])
  /\ IF pc[t] = "bump" THEN Goto(t, "packet") /\ UNCHANGED slot ELSE Return(t)
  /\ statesOwner' = NoThread
  /\ UNCHANGED <<states, running_frames, frame_slot_map, frame_id, active_bitmap,
                 last_assigned, needs_check, countVars, runVars>>

\* The locked part leaves the frame buffering in slot s.
AssignBuffer(t, s) ==
  /\ pc[t] \in Assigning
  /\ StatesLockFree
  /\ AssignBuffering(frame[t], s)
  /\ IF pc[t] = "assign"
     THEN Goto(t, "packet") /\ slot' = [slot EXCEPT ![t] = s]
     ELSE Return(t)
  /\ UNCHANGED <<statesOwner, countVars, runVars>>

\* assign_packet_to_slot counts the packet in the slot it was given.
CountPacket(t) ==
  /\ pc[t] = "packet"
  /\ packet_counters' = [packet_counters EXCEPT ![slot[t]] = @ + 1]
  /\ Goto(t, "whole")
  /\ UNCHANGED <<slotVars, slot, statesOwner, bits, work, packet_complete, runVars>>

\* check_frame_completion: the slot has all its packets.
CheckWhole(t) ==
  /\ pc[t] = "whole"
  /\ packet_complete' = IF packet_counters[slot[t]] = FramePackets
                        THEN [packet_complete EXCEPT ![slot[t]] = TRUE]
                        ELSE packet_complete
  /\ Return(t)
  /\ UNCHANGED <<slotVars, statesOwner, bits, work, packet_counters, runVars>>

-----------------------------------------------------------------------------
(* The frame's work and its end *)

\* A slot whose tasks run: Active, or any slot of a compute graph without slot
\* priority (their initial nodes are dispatched whatever the state of the slot).
Runs(s) ==
  IF Network \/ SlotPriority THEN states[s] = "Active" ELSE Occupied(s)

\* The tasks of the slot's frame are under way: its packets are in, or thread 0
\* has assigned all the initial frames.  No thread is still activating the slot
\* or already finishing it, unless evictions put a slot in several hands.
Underway(s) ==
  /\ Runs(s)
  /\ \/ Evicts
     \/ \A t \in Threads :
          pc[t] \in Finishing \cup Bumping \cup {"promoted"} => slot[t] # s
  /\ IF Network THEN packet_counters[s] = FramePackets
     ELSE initialized = <<>> /\ \A t \in Threads : pc[t] \notin Assigning

\* Mutant: the batch does not raise needs_check.
FrameWorkSilent(s) ==
  /\ work[s] > 0
  /\ Underway(s)
  /\ work' = [work EXCEPT ![s] = @ - 1]
  /\ UNCHANGED <<slotVars, threadVars, bits, packet_counters, packet_complete, runVars>>

\* process_batch_resolution, phase 4: the last batch of the frame is resolved and
\* needs_check is raised.
FrameWork(s) ==
  /\ work[s] > 0
  /\ Underway(s)
  /\ work' = [work EXCEPT ![s] = @ - 1]
  /\ needs_check' = [needs_check EXCEPT ![s] = TRUE]
  /\ UNCHANGED <<states, running_frames, frame_slot_map, frame_id, active_bitmap,
                 last_assigned, generation, threadVars, bits, packet_counters,
                 packet_complete, runVars>>

\* check_slots: needs_check of a slot of cached_slots is swapped.  The list and
\* the copy of active_bitmap may be old by then, so it may be any slot.
Check(t, s) ==
  /\ Ready(t)
  /\ needs_check[s]
  /\ needs_check' = [needs_check EXCEPT ![s] = FALSE]
  /\ Goto(t, "load")
  /\ slot' = [slot EXCEPT ![t] = s]
  /\ UNCHANGED <<states, running_frames, frame_slot_map, frame_id, active_bitmap,
                 last_assigned, generation, statesOwner, countVars, runVars>>

\* detect_and_claim_slot_completion: the counters are read, ...
Load(t) ==
  /\ pc[t] = "load"
  /\ IF work[slot[t]] = 0 THEN Goto(t, "take") /\ UNCHANGED slot ELSE Return(t)
  /\ UNCHANGED <<slotVars, statesOwner, countVars, runVars>>

\* ... try_complete_slot sets the bit of the slot unless it is set, ...
try_complete_slot(t) ==
  /\ pc[t] = "take"
  /\ IF slot[t] \in bits THEN Return(t) ELSE Goto(t, "confirm") /\ UNCHANGED slot
  /\ bits' = bits \cup {slot[t]}
  /\ UNCHANGED <<slotVars, statesOwner, work, packet_counters, packet_complete,
                 runVars>>

\* Mutant: the counters are not read again.
ConfirmBlind(t) ==
  /\ pc[t] = "confirm"
  /\ Goto(t, "reset")
  /\ UNCHANGED <<slotVars, slot, statesOwner, countVars, runVars>>

\* ... the counters are read again, ...
Confirm(t) ==
  /\ pc[t] = "confirm"
  /\ Goto(t, IF work[slot[t]] = 0 THEN "reset" ELSE "unmark")
  /\ UNCHANGED <<slotVars, slot, statesOwner, countVars, runVars>>

\* ... and a stale win gives the bit back.
unmark_slot_completed(t) ==
  /\ pc[t] = "unmark"
  /\ bits' = bits \ {slot[t]}
  /\ Return(t)
  /\ UNCHANGED <<slotVars, statesOwner, work, packet_counters, packet_complete,
                 runVars>>

\* reset_slot_state, for a completion ("reset") or an eviction ("discard"): the
\* generation and packet_complete ...
ResetGeneration(t) ==
  /\ pc[t] \in {"reset", "discard"}
  /\ bump_slot_generation(slot[t])
  /\ packet_complete' = [packet_complete EXCEPT ![slot[t]] = FALSE]
  /\ Goto(t, IF pc[t] = "reset" THEN "clear" ELSE "wipe")
  /\ UNCHANGED <<states, running_frames, frame_slot_map, frame_id, active_bitmap,
                 last_assigned, needs_check, slot, statesOwner, bits, work,
                 packet_counters, runVars>>

\* ... and then the counters, needs_check and the completion bit.
ResetCounters(t) ==
  /\ pc[t] \in {"clear", "wipe"}
  /\ packet_counters' = [packet_counters EXCEPT ![slot[t]] = 0]
  /\ work' = [work EXCEPT ![slot[t]] = 1]
  /\ needs_check' = [needs_check EXCEPT ![slot[t]] = FALSE]
  /\ bits' = bits \ {slot[t]}
  /\ Goto(t, IF pc[t] = "clear" THEN "count" ELSE "release")
  /\ UNCHANGED <<states, running_frames, frame_slot_map, frame_id, active_bitmap,
                 last_assigned, generation, slot, statesOwner, packet_complete, runVars>>

\* Mutant: the slot that completes is taken off twice.
CountOthersTwice(t) ==
  /\ pc[t] = "count"
  /\ StatesLockFree
  /\ others' = [others EXCEPT ![t] =
       Cardinality({s \in Slots \ {slot[t]} : Occupied(s)}) - 1]
  /\ pc' = [pc EXCEPT ![t] = "tally"]
  /\ UNCHANGED <<slotVars, frame, slot, restart, statesOwner, countVars, runVars>>

\* process_slot_completion reads the states of the other slots ...
CountOthers(t) ==
  /\ pc[t] = "count"
  /\ StatesLockFree
  /\ others' = [others EXCEPT ![t] =
       Cardinality({s \in Slots \ {slot[t]} : Occupied(s)})]
  /\ pc' = [pc EXCEPT ![t] = "tally"]
  /\ UNCHANGED <<slotVars, frame, slot, restart, statesOwner, countVars, runVars>>

\* Mutant: off by one.
CanRestartOffByOne(t) == completed + 1 + others[t] <= MaxFrames

\* ... and then adds the frame to frame_complete_counter.
CanRestart(t) == completed + 1 + others[t] < MaxFrames

Tally(t) ==
  /\ pc[t] = "tally"
  /\ completed' = completed + 1
  /\ restart' = [restart EXCEPT ![t] = CanRestart(t)]
  /\ finished' = finished \cup {frame_id[slot[t]]}
  /\ pc' = [pc EXCEPT ![t] = "release"]
  /\ UNCHANGED <<slotVars, frame, slot, others, statesOwner, countVars, initialized,
                 taken, dropped, finish>>

\* mark_frame_dropped: a frame is counted when it is dropped for the first time.
mark_frame_dropped(f) ==
  IF f \in Trackable \ dropped
  THEN completed' = completed + 1 /\ dropped' = dropped \cup {f}
  ELSE UNCHANGED <<completed, dropped>>

\* try_evict_stalled_slots looks at a slot of cached_slots that has some of its
\* packets, for the timeout got no more and has no task in hand, ...
EvictTest(t, s) ==
  /\ Evicts
  /\ Ready(t)
  /\ 0 < packet_counters[s] /\ packet_counters[s] < FramePackets
  /\ Goto(t, "evict")
  /\ slot' = [slot EXCEPT ![t] = s]
  /\ UNCHANGED <<slotVars, statesOwner, countVars, runVars>>

\* ... swaps packet_complete, ...
EvictSwap(t) ==
  /\ pc[t] = "evict"
  /\ packet_complete' = [packet_complete EXCEPT ![slot[t]] = TRUE]
  /\ IF packet_complete[slot[t]] THEN Return(t) ELSE Goto(t, "drop") /\ UNCHANGED slot
  /\ UNCHANGED <<slotVars, statesOwner, bits, work, packet_counters, runVars>>

\* ... and drops the frame the slot has by then; its reset follows.
EvictDrop(t) ==
  /\ pc[t] = "drop"
  /\ mark_frame_dropped(frame_id[slot[t]])
  /\ Goto(t, "discard")
  /\ UNCHANGED <<slotVars, slot, statesOwner, countVars, initialized, taken, finished,
                 finish>>

\* release_and_activate_next with nothing to promote.
Release(t) ==
  /\ pc[t] = "release"
  /\ StatesLockFree
  /\ ReleaseOnly(slot[t])
  /\ IF restart[t] /\ ~Network
     THEN /\ pc' = [pc EXCEPT ![t] = "restart"]
          /\ UNCHANGED <<frame, slot, others, restart>>
     ELSE Return(t)
  /\ UNCHANGED <<statesOwner, countVars, runVars>>

\* release_and_activate_next with a promotion; the promoted slot is kept in
\* slot[t] until its generation is bumped, outside the locks.
Promote(t, next) ==
  /\ pc[t] = "release"
  /\ StatesLockFree
  /\ ReleaseAndPromote(slot[t], next)
  /\ pc' = [pc EXCEPT ![t] = "promoted"]
  /\ slot' = [slot EXCEPT ![t] = next]
  /\ UNCHANGED <<frame, others, restart, statesOwner, countVars, runVars>>

PromoteBump(t) ==
  /\ pc[t] = "promoted"
  /\ bump_slot_generation(slot[t])
  /\ Return(t)
  /\ UNCHANGED <<states, running_frames, frame_slot_map, frame_id, active_bitmap,
                 last_assigned, needs_check, statesOwner, countVars, runVars>>

\* Mutant: the frames in the other slots are not counted.
NextFrameIdCompleted == completed

\* restart_slot_nonnetwork numbers the next frame completed + live slots.
NextFrameId == completed + Cardinality({s \in Slots : Occupied(s)})

Restart(t) ==
  /\ pc[t] = "restart"
  /\ StatesLockFree
  /\ RestartSlot(NextFrameId, slot[t])
  /\ Return(t)
  /\ UNCHANGED <<statesOwner, countVars, runVars>>

-----------------------------------------------------------------------------
(* The end of the run *)

\* resolution(): the loop ends once completed >= max_frames or on shutdown.
Exit(t) ==
  /\ Ready(t)
  /\ completed >= MaxFrames \/ finish
  /\ pc' = [pc EXCEPT ![t] = "exited"]
  /\ UNCHANGED <<slotVars, frame, slot, others, restart, statesOwner, countVars, runVars>>

\* run_impl's wait loop (with a predicate that never fires): the counter is
\* polled and compared with max_frames.
MainPoll ==
  /\ ~finish
  /\ completed = MaxFrames
  /\ finish' = TRUE
  /\ UNCHANGED <<slotVars, threadVars, countVars, completed, initialized, taken,
                 dropped, finished>>

\* run_impl has joined the resolution threads.
Terminated ==
  /\ finish
  /\ \A t \in Threads : pc[t] = "exited"
  /\ UNCHANGED vars

ThreadStep(t) ==
  \/ InitialFrame(t)
  \/ \E f \in Stream : AdmitMiss(t, f)
  \/ \E f \in Stream : AdmitHit(t, f)
  \/ AssignRegistered(t)
  \/ AssignNoSlot(t)
  \/ PreparationPanics(t)
  \/ \E s \in Slots : AssignActive(t, s)
  \/ AssignBump(t)
  \/ \E s \in Slots : AssignBuffer(t, s)
  \/ CountPacket(t)
  \/ CheckWhole(t)
  \/ \E s \in Slots : Check(t, s)
  \/ Load(t)
  \/ try_complete_slot(t)
  \/ Confirm(t)
  \/ unmark_slot_completed(t)
  \/ ResetGeneration(t)
  \/ ResetCounters(t)
  \/ CountOthers(t)
  \/ Tally(t)
  \/ \E s \in Slots : EvictTest(t, s)
  \/ EvictSwap(t)
  \/ EvictDrop(t)
  \/ Release(t)
  \/ \E s \in Slots : Promote(t, s)
  \/ PromoteBump(t)
  \/ Restart(t)
  \/ Exit(t)

Next ==
  \/ \E t \in Threads : ThreadStep(t)
  \/ \E s \in Slots : FrameWork(s)
  \/ MainPoll
  \/ Terminated

Spec == Init /\ [][Next]_vars

(***************************************************************************)
(* Fairness, for compute graphs.  A thread never blocks for ever (a lock   *)
(* holder always gets on), so a thread that is inside an operation         *)
(* finishes it, and every iteration of resolution() looks at every slot of *)
(* its list, so a thread that finds the flag of a slot raised again and    *)
(* again swaps it.  The tasks of a frame run and the main thread polls.    *)
(***************************************************************************)
Inside(t) ==
  \/ InitialFrame(t) \/ AssignRegistered(t) \/ PreparationPanics(t)
  \/ (\E s \in Slots : AssignActive(t, s)) \/ AssignBump(t)
  \/ (\E s \in Slots : AssignBuffer(t, s))
  \/ Load(t) \/ try_complete_slot(t) \/ Confirm(t) \/ unmark_slot_completed(t)
  \/ ResetGeneration(t) \/ ResetCounters(t) \/ CountOthers(t) \/ Tally(t)
  \/ Release(t) \/ (\E s \in Slots : Promote(t, s)) \/ PromoteBump(t)
  \/ Restart(t) \/ Exit(t)

Fairness ==
  /\ \A t \in Threads : WF_vars(Inside(t))
  /\ \A t \in Threads, s \in Slots : SF_vars(Check(t, s))
  /\ \A s \in Slots : WF_vars(FrameWork(s))
  /\ WF_vars(MainPoll)

FairSpec == Spec /\ Fairness

-----------------------------------------------------------------------------
(* Properties *)

\* The types of the threads' own variables.
LocalTypeOK ==
  /\ pc \in [Threads -> {"idle", "packet", "whole", "promoted", "restart", "exited",
                          "panicked"}
                          \cup Assigning \cup Bumping \cup Checking \cup Finishing
                          \cup Evicting]
  /\ frame \in [Threads -> Nat \cup {NoFrame}]
  /\ slot \in [Threads -> Slots]
  /\ others \in [Threads -> Nat]
  /\ restart \in [Threads -> BOOLEAN]
  /\ statesOwner \in Threads \cup {NoThread}
  /\ bits \in SUBSET Slots
  /\ work \in [Slots -> {0, 1}]
  /\ packet_counters \in [Slots -> Nat]
  /\ packet_complete \in [Slots -> BOOLEAN]
  /\ completed \in Nat
  /\ initialized \in Seq(Slots)
  /\ taken \in [Stream -> Int]
  /\ dropped \in SUBSET Trackable
  /\ finished \in SUBSET (Nat \cup {NoFrame})
  /\ finish \in BOOLEAN

\* Every variable of the slot table and of its threads keeps its type.
TypeOK == SlotTableTypeOK /\ LocalTypeOK

\* First packet wins: two resolution threads racing on a frame's first packet
\* never give it two slots.
FirstPacketWins ==
  \A i, j \in DOMAIN running_frames :
    running_frames[i][1] = running_frames[j][1] => i = j

\* A lock-free hit answers what the locked re-scan of running_frames would.
LookupMatchesScan ==
  \A f \in 0 .. MaxFrameId :
    frame_slot_hit(f) => InRunning(f) /\ frame_slot_lookup(f) = SlotOfFrame(f)

\* Slot priority runs one frame at a time.
AtMostOneActive == SlotPriority => \A r, s \in ActiveSlots : r = s

\* A buffered frame always waits for a running one, so its promotion is due.
BufferedHasRunner ==
  SlotPriority => ((\E s \in Slots : states[s] = "Buffering") => ActiveSlots # {})

\* No frame runs while a frame assigned before it is still buffered.
NoOvertaking ==
  SlotPriority =>
    \A i, j \in DOMAIN running_frames :
      i < j /\ states[running_frames[j][2]] = "Active"
        => states[running_frames[i][2]] # "Buffering"

\* Without evictions each frame of a network graph is counted in
\* frame_complete_counter once, however the resolution threads race for its
\* completion and whatever they read before another one reset the slot.
CountedOnce == Network /\ ~Eviction => completed = Cardinality(finished)

\* The run never completes more frames than it was asked for.
WithinMaxFrames == completed <= MaxFrames

\* restart_slot_nonnetwork gives its frame an id above every id in use.
RestartIdsIncrease ==
  [][\A t \in Threads : Restart(t) =>
       \A f \in finished \cup {running_frames[i][1] : i \in DOMAIN running_frames} :
         f < NextFrameId]_vars

\* The wait loop of run_impl ends once all frames are complete.
MainSeesTheEnd == (completed >= MaxFrames) ~> finish

\* With one resolution thread a compute run ends: no completion is missed between
\* the swap of needs_check and the reset, every slot restarts while frames are
\* left, and the main thread sees max_frames reached.
OneThreadEnds == Cardinality(Threads) = 1 => <>finish

\* The frames that hold a slot, oldest first, and the ones whose slot is Active.
FrameQueue == [i \in DOMAIN running_frames |-> running_frames[i][1]]
ActiveFrames == {frame_id[s] : s \in ActiveSlots}

Handoff == INSTANCE SlotHandoff WITH
  Frames <- 0 .. MaxFrameId,
  MaxQueue <- NumSlots,
  queue <- FrameQueue,
  active <- ActiveFrames

\* Slot priority implements the one-at-a-time handoff.
ImplementsHandoff == Handoff!Spec
=============================================================================
