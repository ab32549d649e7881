------------------------------- MODULE Ingest -------------------------------
(***************************************************************************)
(* The way of a packet: sockets, receiver threads, the ingest channel, the *)
(* admission window, parking and re-injection, the slot buffers and their  *)
(* promotion, and the hand-over of the sockets to a replacement process    *)
(* (network.rs, handover.rs, runtime/packet_processing.rs, the wait loop   *)
(* of runtime/mod.rs), on top of SlotTable.                                *)
(*                                                                         *)
(* A packet is <<frame, index>>.  Every socket has its own receiver        *)
(* thread.  What the graph does with the packets of a frame is abstract:   *)
(* a slot can be finished when all of its packets have been resolved       *)
(* (FrameLifecycle), and its generation is not looked at here.  The        *)
(* replacement process is its socket reads and its frame-id base.          *)
(***************************************************************************)
EXTENDS SlotTable, FiniteSets

CONSTANTS
  Threads,       \* resolution threads
  Scenarios,     \* what arrives on the sockets, and the options of the run
  ChannelCap     \* capacity of the ingest channel

\* A packet is its frame and its index in it, and arrives once; frame numbers fit
\* the tag of a frame_slot_map cell.  A hand-over meets a sender that finishes one
\* frame before it starts the next.
IsStream(sc) ==
  /\ IsFiniteSet(DOMAIN sc.stream)
  /\ sc.stream \in
       [DOMAIN sc.stream -> Seq((0 .. TagSpace - 1) \X (0 .. sc.frame_packets - 1))]
  /\ \A k, l \in DOMAIN sc.stream : \A i \in DOMAIN sc.stream[k], j \in DOMAIN sc.stream[l] :
       sc.stream[k][i] = sc.stream[l][j] => k = l /\ i = j
  /\ sc.handover => \A k \in DOMAIN sc.stream : \A i, j \in DOMAIN sc.stream[k] :
       i < j => sc.stream[k][i][1] <= sc.stream[k][j][1]

ASSUME IngestAssumption ==
  /\ Network /\ ChannelCap \in Nat \ {0}
  /\ \A sc \in Scenarios :
       /\ sc.frame_packets \in Nat \ {0} /\ sc.max_frames \in Nat \ {0}
       /\ IsStream(sc)

VARIABLES
  scenario,      \* the stream, frame_packets, max_frames, dispatch chunk, resolution
                 \* threads; whether a replacement connects, a receiver is slow, the
                 \* sending fails
  wire,          \* kernel buffers: per socket, the packets not yet read
  channel,
  freeze, frozen, handed_over,
  listener,      \* the thread of spawn_listener
  timed_out,     \* it stopped waiting for the receivers
  packet_counters, packet_complete,
  buffers,       \* per slot, the packets that wait for its promotion
  pending_frames, pending_count,
  frame_dropped,
  frames_receive_counter, receive_finished,
  completed,     \* frame_complete_counter
  finish,        \* shutdown_flag
  pc,
  hand,          \* the packets a thread has drained, with `fresh` or re-injected
  slot,          \* the slot of the packet a thread admits, or finishes
  batch,         \* active_packet_batch: packets with their slots
  resolved,      \* per slot, packets of its frame that were resolved
  finished,      \* history: frames completed
  lost,          \* history: packets discarded with their frame, or by a full channel
  drained_exit,  \* history: the run ended because handover_drained() said so
  b_base, b_got  \* the replacement: frame_id_base and the packets it took

net == <<wire, channel, freeze, frozen, handed_over, listener, timed_out>>
slots == <<packet_counters, packet_complete, buffers, resolved>>
parked == <<pending_frames, pending_count>>
run == <<frame_dropped, frames_receive_counter, receive_finished, completed, finish>>
locals == <<pc, hand, slot, batch>>
history == <<finished, lost, drained_exit>>
takeover == <<b_base, b_got>>
vars == <<slotVars, scenario, net, slots, parked, run, locals, history, takeover>>

Sockets == DOMAIN scenario.stream
FramePackets == scenario.frame_packets
MaxFrames == scenario.max_frames
FrameOf(p) == p[1]
Goto(t, label) == pc' = [pc EXCEPT ![t] = label]

\* frame_dropped.len()
Trackable(f) == f < MaxFrames + NumSlots
window_end == completed + NumSlots

Init ==
  /\ SlotTableInit
  /\ scenario \in Scenarios
  /\ wire = scenario.stream
  /\ channel = <<>>
  /\ freeze = FALSE /\ frozen = {} /\ handed_over = FALSE
  /\ listener = "listen" /\ timed_out = FALSE
  /\ packet_counters = [s \in Slots |-> 0]
  /\ packet_complete = [s \in Slots |-> FALSE]
  /\ buffers = [s \in Slots |-> {}]
  /\ resolved = [s \in Slots |-> {}]
  /\ pending_frames = {} /\ pending_count = 0
  /\ frame_dropped = {} /\ frames_receive_counter = 0 /\ receive_finished = FALSE
  /\ completed = 0 /\ finish = FALSE
  /\ pc = [t \in Threads |-> IF t \in scenario.threads THEN "idle" ELSE "absent"]
  /\ hand = [t \in Threads |-> <<>>]
  /\ slot = [t \in Threads |-> 0]
  /\ batch = [t \in Threads |-> {}]
  /\ finished = {} /\ lost = {} /\ drained_exit = FALSE
  /\ b_base = -1 /\ b_got = {}

-----------------------------------------------------------------------------
(* multi_socket_receiver_loop *)

\* One recv; try_send drops the packet when the channel is full.
Receive(sock) ==
  /\ ~finish /\ sock \notin frozen /\ wire[sock] # <<>>
  /\ wire' = [wire EXCEPT ![sock] = Tail(@)]
  /\ IF Len(channel) < ChannelCap
     THEN channel' = Append(channel, Head(wire[sock])) /\ UNCHANGED lost
     ELSE lost' = lost \cup {Head(wire[sock])} /\ UNCHANGED channel
  /\ UNCHANGED <<slotVars, scenario, freeze, frozen, handed_over, listener, timed_out, slots,
                 parked, run, locals, finished, drained_exit, takeover>>

\* At the top of a sweep the receiver sees the freeze and stops for good.
FreezeAck(sock) ==
  /\ freeze /\ sock \notin frozen
  /\ frozen' = frozen \cup {sock}
  /\ UNCHANGED <<slotVars, scenario, wire, channel, freeze, handed_over, listener, timed_out,
                 slots, parked, run, locals, history, takeover>>

-----------------------------------------------------------------------------
(* poll_and_process_network_packets *)

Looping(t) == pc[t] = "idle" /\ ~finish /\ completed < MaxFrames

\* Mutant: parked packets are never looked at.
PollStarved(t) ==
  /\ Looping(t) /\ ~receive_finished
  /\ channel # <<>>
  /\ hand' = [hand EXCEPT ![t] = [i \in DOMAIN channel |-> [p |-> channel[i], fresh |-> TRUE]]]
  /\ channel' = <<>>
  /\ Goto(t, "packet")
  /\ UNCHANGED <<slotVars, scenario, wire, freeze, frozen, handed_over, listener, timed_out,
                 slots, parked, run, slot, batch, history, takeover>>

\* The channel is drained.
Poll(t) ==
  /\ Looping(t) /\ ~receive_finished
  /\ channel # <<>> \/ pending_count > 0
  /\ hand' = [hand EXCEPT ![t] = [i \in DOMAIN channel |-> [p |-> channel[i], fresh |-> TRUE]]]
  /\ channel' = <<>>
  /\ Goto(t, IF pending_count > 0 THEN "reinject" ELSE "packet")
  /\ UNCHANGED <<slotVars, scenario, wire, freeze, frozen, handed_over, listener, timed_out,
                 slots, parked, run, slot, batch, history, takeover>>

\* The order in which parked packets are taken out: oldest frame first.
Older(p, q) == FrameOf(p) < FrameOf(q) \/ (FrameOf(p) = FrameOf(q) /\ p[2] < q[2])
InOrder(ps) ==
  [k \in 1 .. Cardinality(ps) |->
     CHOOSE p \in ps : Cardinality({q \in ps : Older(q, p)}) = k - 1]
Reinjected(ps) == [k \in 1 .. Cardinality(ps) |-> [p |-> InOrder(ps)[k], fresh |-> FALSE]]

\* Mutant: the packets are copied, not taken.
reinject_copies(t) ==
  /\ pc[t] = "reinject"
  /\ LET ready == {p \in pending_frames : FrameOf(p) < window_end}
     IN  hand' = [hand EXCEPT ![t] = Reinjected(ready) \o @]
  /\ Goto(t, "packet")
  /\ UNCHANGED <<slotVars, scenario, net, slots, parked, run, slot, batch, history, takeover>>

\* Parked packets whose frames have entered the window go first.
reinject_pending_frames(t) ==
  /\ pc[t] = "reinject"
  /\ LET ready == {p \in pending_frames : FrameOf(p) < window_end}
     IN  /\ hand' = [hand EXCEPT ![t] = Reinjected(ready) \o @]
         /\ pending_frames' = pending_frames \ ready
         /\ pending_count' = pending_count - Cardinality(ready)
  /\ Goto(t, "packet")
  /\ UNCHANGED <<slotVars, scenario, net, slots, run, slot, batch, history, takeover>>

Cur(t) == Head(hand[t]).p

\* The window test of a fresh packet, and the drop bit of any.
Packet(t) ==
  /\ pc[t] = "packet" /\ hand[t] # <<>>
  /\ LET f == FrameOf(Cur(t))
         ahead == Head(hand[t]).fresh /\ f >= window_end
     IN  IF ~ahead /\ f \in frame_dropped
         THEN /\ lost' = lost \cup {Cur(t)}
              /\ hand' = [hand EXCEPT ![t] = Tail(@)]
              /\ UNCHANGED pc
         ELSE Goto(t, IF ahead THEN "park" ELSE "assign") /\ UNCHANGED <<lost, hand>>
  /\ UNCHANGED <<slotVars, scenario, net, slots, parked, run, slot, batch, finished,
                 drained_exit, takeover>>

\* assign_frame_to_available_slot.
Assign(t) ==
  LET f == FrameOf(Cur(t)) IN
  /\ pc[t] = "assign"
  /\ \/ /\ frame_slot_hit(f) \/ InRunning(f)
        /\ slot' = [slot EXCEPT ![t] = IF frame_slot_hit(f) THEN frame_slot_lookup(f)
                                       ELSE SlotOfFrame(f)]
        /\ Goto(t, "count")
        /\ UNCHANGED slotVars
     \/ /\ ~frame_slot_hit(f)
        /\ \E s \in Slots :
             /\ \/ s = last_assigned /\ AssignLastAssigned(f)
                \/ AssignParallel(f, s)
                \/ AssignBuffering(f, s)
             /\ slot' = [slot EXCEPT ![t] = s]
        /\ Goto(t, "count")
     \/ /\ ~frame_slot_hit(f) /\ ~InRunning(f) /\ AllOccupied
        /\ Goto(t, "park")
        /\ UNCHANGED <<slotVars, slot>>
  /\ UNCHANGED <<scenario, net, slots, parked, run, hand, batch, history, takeover>>

\* The tail of assign_packet_to_slot.
CountPacket(t) ==
  /\ pc[t] = "count"
  /\ packet_counters' = [packet_counters EXCEPT ![slot[t]] = @ + 1]
  /\ Goto(t, "route")
  /\ UNCHANGED <<slotVars, scenario, net, packet_complete, buffers, resolved, parked, run,
                 hand, slot, batch, history, takeover>>

ToBatch(t) == batch' = [batch EXCEPT ![t] = @ \cup {<<Cur(t), slot[t]>>}]
Routed(t) ==
  /\ hand' = [hand EXCEPT ![t] = Tail(@)]
  /\ Goto(t, "received")

\* admit_packet looks at active_bitmap without a lock.
Route(t) ==
  /\ pc[t] = "route"
  /\ IF slot[t] \in active_bitmap THEN ToBatch(t) /\ Routed(t)
     ELSE Goto(t, "buffer") /\ UNCHANGED <<batch, hand>>
  /\ UNCHANGED <<slotVars, scenario, net, slots, parked, run, slot, history, takeover>>

\* Mutant: the bitmap is not looked at again under the lock.
route_to_buffer_blind(t) ==
  /\ pc[t] = "buffer"
  /\ buffers' = [buffers EXCEPT ![slot[t]] = @ \cup {Cur(t)}]
  /\ Routed(t)
  /\ UNCHANGED <<slotVars, scenario, net, packet_counters, packet_complete, resolved, parked,
                 run, slot, batch, history, takeover>>

\* It looks again under states.read(), which excludes a promotion.
route_to_buffer(t) ==
  /\ pc[t] = "buffer"
  /\ IF slot[t] \in active_bitmap THEN ToBatch(t) /\ UNCHANGED buffers
     ELSE buffers' = [buffers EXCEPT ![slot[t]] = @ \cup {Cur(t)}] /\ UNCHANGED batch
  /\ Routed(t)
  /\ UNCHANGED <<slotVars, scenario, net, packet_counters, packet_complete, resolved, parked,
                 run, slot, history, takeover>>

\* The thread that finds the last packet counted claims the frame's reception.
check_frame_completion(t) ==
  LET s == slot[t]
      claims == packet_counters[s] = FramePackets /\ ~packet_complete[s]
  IN
  /\ pc[t] = "received"
  /\ packet_complete' = [packet_complete EXCEPT ![s] = @ \/ packet_counters[s] = FramePackets]
  /\ frames_receive_counter' = frames_receive_counter + (IF claims THEN 1 ELSE 0)
  /\ receive_finished' = (receive_finished \/ (claims /\ frames_receive_counter' >= MaxFrames))
  /\ slot' = [slot EXCEPT ![t] = 0]
  /\ Goto(t, "packet")
  /\ UNCHANGED <<slotVars, scenario, net, packet_counters, buffers, resolved, parked,
                 frame_dropped, completed, finish, hand, batch, history, takeover>>

\* flush_active_batch, at the end of the drain or of a dispatch chunk.
flush_active_batch(t) ==
  /\ pc[t] \in {"packet", "dispatch"}
  /\ \/ hand[t] = <<>>
     \/ batch[t] # {} /\ scenario.chunk > 0 /\ Cardinality(batch[t]) >= scenario.chunk
  /\ resolved' = [s \in Slots |-> resolved[s] \cup {x[1] : x \in {y \in batch[t] : y[2] = s}}]
  /\ batch' = [batch EXCEPT ![t] = {}]
  /\ Goto(t, IF hand[t] = <<>> THEN "idle" ELSE "packet")
  /\ UNCHANGED <<slotVars, scenario, net, packet_counters, packet_complete, buffers, parked,
                 run, hand, slot, history, takeover>>

-----------------------------------------------------------------------------
(* park_pending_packet *)

Cap == FramePackets * NumSlots

\* Mutant: the drop does not move the window.
mark_dropped_uncounted(f) ==
  /\ frame_dropped' = frame_dropped \cup {f}
  /\ UNCHANGED completed

mark_frame_dropped(f) ==
  /\ frame_dropped' = frame_dropped \cup {f}
  /\ completed' = completed + (IF f \in frame_dropped THEN 0 ELSE 1)

\* The drop bit is read before the lock is taken.
ParkTest(t) ==
  /\ pc[t] = "park"
  /\ LET f == FrameOf(Cur(t))
     IN  IF ~Trackable(f) \/ f \in frame_dropped
         THEN /\ lost' = lost \cup {Cur(t)}
              /\ hand' = [hand EXCEPT ![t] = Tail(@)]
              /\ Goto(t, "packet")
         ELSE Goto(t, "park_locked") /\ UNCHANGED <<lost, hand>>
  /\ UNCHANGED <<slotVars, scenario, net, slots, parked, run, slot, batch, finished,
                 drained_exit, takeover>>

\* A full buffer drops the frame furthest from admission, the incoming packet's included.
Park(t) ==
  LET p == Cur(t)
      full == pending_count >= Cap
      victim == Max({FrameOf(q) : q \in pending_frames \cup {p}})
      evicted == {q \in pending_frames : full /\ FrameOf(q) = victim}
      stays == ~full \/ FrameOf(p) # victim
      kept == (pending_frames \ evicted) \cup (IF stays THEN {p} ELSE {})
  IN
  /\ pc[t] = "park_locked"
  /\ pending_frames' = kept
  /\ pending_count' = pending_count - Cardinality(evicted) + (IF stays THEN 1 ELSE 0)
  /\ IF full THEN mark_frame_dropped(victim) ELSE UNCHANGED <<frame_dropped, completed>>
  /\ lost' = lost \cup evicted \cup (IF stays THEN {} ELSE {p})
  /\ hand' = [hand EXCEPT ![t] = Tail(@)]
  /\ Goto(t, "packet")
  /\ UNCHANGED <<slotVars, scenario, net, slots, frames_receive_counter, receive_finished,
                 finish, slot, batch, finished, drained_exit, takeover>>

-----------------------------------------------------------------------------
(* check_slots *)

\* All of the frame's packets are resolved: the slot is reset and the frame counted.
CompleteFrame(t, s) ==
  /\ Looping(t)
  /\ states[s] = "Active" /\ Cardinality(resolved[s]) = FramePackets
  /\ resolved' = [resolved EXCEPT ![s] = {}]
  /\ packet_counters' = [packet_counters EXCEPT ![s] = 0]
  /\ packet_complete' = [packet_complete EXCEPT ![s] = FALSE]
  /\ completed' = completed + 1
  /\ finished' = finished \cup {frame_id[s]}
  /\ slot' = [slot EXCEPT ![t] = s]
  /\ Goto(t, "release")
  /\ UNCHANGED <<slotVars, scenario, net, buffers, parked, frame_dropped,
                 frames_receive_counter, receive_finished, finish, hand, batch, lost,
                 drained_exit, takeover>>

\* release_and_activate_next: a promoted slot's buffer is drained in the lock scope.
Release(t) ==
  /\ pc[t] = "release"
  /\ \/ ReleaseOnly(slot[t]) /\ UNCHANGED <<buffers, batch>>
     \/ \E next \in Slots :
          /\ ReleaseAndPromote(slot[t], next)
          /\ batch' = [batch EXCEPT ![t] = {<<p, next>> : p \in buffers[next]}]
          /\ buffers' = [buffers EXCEPT ![next] = {}]
  /\ slot' = [slot EXCEPT ![t] = 0]
  /\ Goto(t, "dispatch")
  /\ UNCHANGED <<scenario, net, packet_counters, packet_complete, resolved, parked, run, hand,
                 history, takeover>>

-----------------------------------------------------------------------------
(* spawn_listener, take_over and the wait loop of run_impl *)

\* A replacement connects: the receivers are told to stop.
Connect ==
  /\ scenario.handover /\ listener = "listen" /\ ~finish
  /\ listener' = "waiting" /\ freeze' = TRUE
  /\ UNCHANGED <<slotVars, scenario, wire, channel, frozen, handed_over, timed_out, slots,
                 parked, run, locals, history, takeover>>

\* All receivers have stopped, or the 500 ms are over: the sockets are sent.
send_fds ==
  /\ listener = "waiting" /\ (frozen = Sockets \/ scenario.slow)
  /\ timed_out' = (frozen # Sockets)
  /\ \/ ~scenario.fails /\ handed_over' = TRUE /\ listener' = "sent"
     \/ scenario.fails /\ listener' = "failed" /\ UNCHANGED handed_over
  /\ UNCHANGED <<slotVars, scenario, wire, channel, freeze, frozen, slots, parked, run, locals,
                 history, takeover>>

\* Mutant: numbering starts with the first frame seen.
rebase_at_first(base, raw) == IF base = -1 THEN raw ELSE base

\* rebase_frame_id with join_stream: numbering starts after the first frame seen.
rebase_frame_id(base, raw) == IF base = -1 THEN raw + 1 ELSE base

\* The replacement reads a socket; older frames than its base are skipped.
TakeoverRead(sock) ==
  /\ handed_over /\ wire[sock] # <<>>
  /\ LET p == Head(wire[sock])
     IN  /\ b_base' = rebase_frame_id(b_base, FrameOf(p))
         /\ b_got' = IF FrameOf(p) >= b_base' THEN b_got \cup {p} ELSE b_got
  /\ wire' = [wire EXCEPT ![sock] = Tail(@)]
  /\ UNCHANGED <<slotVars, scenario, channel, freeze, frozen, handed_over, listener, timed_out,
                 slots, parked, run, locals, history>>

\* (frame_packets is published by the first round of any resolution thread.)
handover_drained ==
  /\ channel = <<>> /\ pending_count = 0
  /\ \A s \in active_bitmap : packet_counters[s] < FramePackets

\* One tick of the wait loop; after a hand-over it may also find that no frame
\* completed for HANDOVER_QUIET.
MainPoll ==
  /\ scenario.handover /\ ~finish
  /\ \/ completed = MaxFrames
     \/ completed # MaxFrames /\ handed_over
  /\ finish' = TRUE
  /\ drained_exit' = (completed # MaxFrames /\ handover_drained)
  /\ UNCHANGED <<slotVars, scenario, net, slots, parked, frame_dropped, frames_receive_counter,
                 receive_finished, completed, locals, finished, lost, takeover>>

Done == (finish \/ completed >= MaxFrames) /\ UNCHANGED vars

-----------------------------------------------------------------------------
Admission(t) ==
  \/ reinject_pending_frames(t) \/ Packet(t) \/ Assign(t) \/ CountPacket(t) \/ Route(t)
  \/ route_to_buffer(t) \/ check_frame_completion(t) \/ flush_active_batch(t)
  \/ ParkTest(t) \/ Park(t) \/ Release(t)

Next ==
  \/ \E sock \in Sockets : Receive(sock) \/ FreezeAck(sock) \/ TakeoverRead(sock)
  \/ \E t \in Threads : Poll(t) \/ Admission(t) \/ \E s \in Slots : CompleteFrame(t, s)
  \/ Connect \/ send_fds \/ MainPoll \/ Done

Spec == Init /\ [][Next]_vars

(***************************************************************************)
(* Fairness.  Receivers sweep their sockets; a resolution thread inside an *)
(* operation goes on, and each round of resolution() polls the channel and *)
(* then looks at every slot, so no packet is passed over for ever.  That   *)
(* a finished slot is found in the end is what FrameLifecycle shows for    *)
(* one resolution thread, and for one only: properties under FairSpec say  *)
(* so.  Nothing forces a hand-over.                                        *)
(***************************************************************************)
AllSockets == UNION {DOMAIN sc.stream : sc \in Scenarios}
Fairness ==
  /\ \A sock \in AllSockets : WF_vars(sock \in Sockets /\ Receive(sock))
  /\ \A t \in Threads : WF_vars(Admission(t))
  /\ WF_vars(\E t \in Threads : Poll(t))
  /\ SF_vars(\E t \in Threads, s \in Slots : CompleteFrame(t, s))
FairSpec == Spec /\ Fairness

-----------------------------------------------------------------------------
(* Properties *)

\* A packet counted for a slot is never left in the buffer of a slot that has
\* been promoted: nothing would drain it, and the frame would never complete.
NotStranded == \A s \in Slots : states[s] = "Active" => buffers[s] = {}

Held(p) ==
  (IF p \in Range(channel) THEN 1 ELSE 0)
  + Cardinality({t \in Threads : \E i \in DOMAIN hand[t] : hand[t][i].p = p})
  + (IF p \in pending_frames THEN 1 ELSE 0)
  + Cardinality({s \in Slots : p \in buffers[s]})
  + Cardinality({t \in Threads : \E s \in Slots : <<p, s>> \in batch[t]})
  + Cardinality({s \in Slots : p \in resolved[s]})
  + (IF FrameOf(p) \in finished THEN 1 ELSE 0)
  + (IF p \in lost THEN 1 ELSE 0)

Unread == UNION {Range(wire[sock]) : sock \in Sockets}
TakenOver(p) == handed_over /\ (p \in b_got \/ FrameOf(p) < b_base)

\* Parking, re-injection, buffering and dropping lose and duplicate no packet:
\* one that was read is in exactly one place, resolved, or gone with its frame.
PacketConserved ==
  \A p \in UNION {Range(scenario.stream[sock]) : sock \in Sockets} :
    IF p \in Unread THEN Held(p) = 0 ELSE Held(p) = 1 \/ (Held(p) = 0 /\ TakenOver(p))

\* The admission window moves once per frame, completed or dropped, never both.
WindowCountsFrames ==
  /\ completed = Cardinality(finished) + Cardinality(frame_dropped)
  /\ finished \cap frame_dropped = {}

\* After a clean hand-over of one socket the replacement numbers its frames from
\* the first one it has from the start: it gets every packet of its frames.
JoinsAtWholeFrame ==
  handed_over /\ ~timed_out /\ Cardinality(Sockets) = 1 /\ Unread = {} =>
    \A p \in UNION {Range(scenario.stream[sock]) : sock \in Sockets} :
      b_base # -1 /\ FrameOf(p) >= b_base => p \in b_got

\* park_pending_packet drops a frame "whole, never partially": no slot holds a
\* frame that was dropped.
DroppedWhole == \A s \in Slots : Occupied(s) => frame_id[s] \notin frame_dropped

\* With one resolution thread a run whose sender loses nothing ends, with frames
\* dropped when the parking buffer overflows: parked frames are admitted as the
\* window moves and buffered ones promoted, and no frame waits for ever, unless
\* an overflow dropped a frame that holds a slot.
RunSettles ==
  Cardinality(scenario.threads) = 1 /\ ~scenario.handover =>
    <>(completed >= MaxFrames \/ ~DroppedWhole)
=============================================================================
