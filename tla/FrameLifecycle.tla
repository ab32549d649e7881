--------------------------- MODULE FrameLifecycle ---------------------------
(***************************************************************************)
(* The life of the frames of one slot: tasks run on workers, completions   *)
(* are resolved by the worker itself (worker_resolve_successors) or by a   *)
(* resolution thread (process_batch_resolution), and a resolution thread   *)
(* finds in the per-slot counters that the frame is complete, claims it,   *)
(* resets the slot and starts the next frame                               *)
(* (runtime/task_execution.rs, resolution_loop.rs, batch_resolution.rs,    *)
(* slot_lifecycle.rs, and the completion bit of dependency_counter.rs).    *)
(*                                                                         *)
(* One action is one access to shared memory, or several by one thread     *)
(* that no other thread can tell apart.  A task is one node with one       *)
(* instance; the packets of a network graph are the instances of node 0.   *)
(* The usize counters are integers here: a wrap shows as a negative value. *)
(***************************************************************************)
EXTENDS Integers, Sequences, SequencesExt, FiniteSets, Bags

CONSTANTS
  Graphs,       \* the graphs of the run, each with the threads that run it
  Workers,
  InitThread,   \* thread 0
  MaxFrames,
  BatchSize     \* config.batch.target_size

VARIABLE graph  \* the graph and the configuration, fixed by Init

Tasks == graph.tasks            \* the compute nodes of the graph
Packets == graph.packets        \* instances of the $network node, {} for a compute graph
Succs == graph.succs            \* successor_arena: the successor edges of a task or packet
Roots == graph.roots            \* graph.initial_nodes
Cond == graph.cond              \* nodes of graph.condition_nodes
ArgCond == graph.arg_cond       \* those whose condition is an argument's init_condition
Bulk == graph.bulk              \* nodes that push_ready_chunked dispatches as bulk tasks
ResThreads == graph.threads     \* resolution threads
FlushThreshold == graph.flush   \* config.batch.flush_threshold
InlineContinuation == graph.inline
Eviction == graph.evict         \* config.frame_timeout_ms > 0

\* Graph::add_node lists a node once with each of its predecessors, and makes it
\* an initial node only if it has none.
ASSUME FrameLifecycleAssumption ==
  /\ MaxFrames \in Nat \ {0} /\ BatchSize \in Nat \ {0} /\ IsFiniteSet(Workers)
  /\ \A h \in Graphs :
       /\ h.tasks \cap h.packets = {}
       /\ h.succs \in [h.tasks \cup h.packets -> Seq(h.tasks)]
       /\ h.roots \subseteq h.tasks /\ h.cond \subseteq h.tasks \ h.roots
       /\ h.arg_cond \subseteq h.cond /\ h.bulk \subseteq h.tasks
       /\ \A t \in h.cond : h.succs[t] = <<>>
       /\ \A n \in h.tasks \cup h.packets :
            IsInjective(h.succs[n]) /\ Range(h.succs[n]) \cap h.roots = {}
       /\ IsFiniteSet(h.tasks) /\ IsFiniteSet(h.packets) /\ IsFiniteSet(h.threads)
       /\ InitThread \in h.threads /\ Workers \cap h.threads = {}
       /\ h.flush \in Nat \ {0} /\ h.inline \in BOOLEAN /\ h.evict \in BOOLEAN

VARIABLES
  generation, pending_tasks, pending_cond_tasks, processing_count, needs_check,
  completed_slot,   \* the slot's bit of MultiThreadedCounter.completed_slots
  packet_counter, packet_complete,
  remaining_deps,   \* NodeDependencyEntry: (generation, count), reset lazily
  frame,            \* the frame that runs in the slot, NoFrame between frames
  completed,        \* frame_complete_counter
  dropped,          \* frame_dropped
  pool,             \* bag of the tasks in the scheduler
  batch_queue,
  pc,
  batch,            \* the completions a thread resolves (a worker's own task)
  slot_gen,         \* the generation it loaded to resolve them
  todo,             \* successor edges of the first that are still to be walked
  sched,            \* ready successors not yet sent
  evicting,         \* the reset in progress is an eviction
  prepared,         \* thread 0 is past perform_initial_preparation
  stale_tasks_dropped,
  ran,              \* history: how often a task of a frame ran, a packet was stored
  passed            \* history: conditions of a frame that were found true

counters == <<generation, pending_tasks, pending_cond_tasks, processing_count,
              needs_check, completed_slot>>
packets == <<packet_counter, packet_complete>>
frames == <<frame, completed, dropped, prepared>>
queues == <<pool, batch_queue>>
locals == <<batch, slot_gen, todo, sched>>
history == <<stale_tasks_dropped, ran, passed>>
vars == <<graph, counters, packets, remaining_deps, frames, queues, pc, locals, evicting,
          history>>

NoFrame == -1
Network == Packets # {}
Frames == 0 .. MaxFrames - 1
Nodes == Tasks \cup Packets
Threads == Workers \cup ResThreads

\* Mutant: the roots are left out of the count.
total_tasks_without_roots == Cardinality((Tasks \ (Cond \cup Roots)) \cup Packets)

total_tasks == Cardinality((Tasks \ Cond) \cup Packets)
total_cond_tasks == Cardinality(Cond)

Preds(t) == {p \in Nodes : t \in Range(Succs[p])}

\* A thread is past the bump of reset_slot_state and has not yet released the
\* slot, or restarted it.
Resetting ==
  \E r \in ResThreads : pc[r] \in {"reset_complete", "reset_packets", "reset_pending",
                                  "reset_cond", "reset_check", "reset_mark", "count",
                                  "release", "restart"}

\* For the properties' sake only, a job carries the frame it belongs to and
\* whether it is made too late: while the slot is reset, while it is free, or
\* after it was given to another frame.
Job(t, gen, f) ==
  [task |-> t, gen |-> gen, frame |-> f,
   late |-> Resetting \/ frame = NoFrame \/ f # frame]

\* Mutant: conditions are not looked at.
worker_resolvable_always(t) == t \in Tasks

\* cache[n].worker_resolvable looks at node-level conditions only.
worker_resolvable(t) == Range(Succs[t]) \cap (Cond \ ArgCond) = {}

Goto(a, l) == pc' = [pc EXCEPT ![a] = l]

\* A resolution thread at the top of its loop.
Looping(r) == pc[r] = "idle" /\ completed < MaxFrames /\ (r = InitThread => prepared)

-----------------------------------------------------------------------------
Init ==
  /\ graph \in Graphs
  /\ generation = 0
  /\ pending_tasks = total_tasks
  /\ pending_cond_tasks = total_cond_tasks
  /\ processing_count = 0
  /\ needs_check = FALSE
  /\ completed_slot = FALSE
  /\ packet_counter = 0
  /\ packet_complete = FALSE
  /\ remaining_deps = [t \in Tasks |-> [gen |-> 0, left |-> Cardinality(Preds(t))]]
  /\ frame = NoFrame
  /\ completed = 0
  /\ dropped = {}
  /\ prepared = (Roots = {})
  /\ pool = EmptyBag
  /\ batch_queue = <<>>
  /\ pc = [a \in Threads |-> "idle"]
  /\ batch = [a \in Threads |-> <<>>]
  /\ slot_gen = [a \in Threads |-> 0]
  /\ todo = [a \in Threads |-> <<>>]
  /\ sched = [a \in Threads |-> <<>>]
  /\ evicting = [r \in ResThreads |-> FALSE]
  /\ stale_tasks_dropped = 0
  /\ ran = [x \in (Frames \cup {NoFrame}) \X Nodes |-> 0]
  /\ passed = {}

-----------------------------------------------------------------------------
(* execute_task *)

\* A worker takes a task from the scheduler.
Take(w) ==
  /\ pc[w] = "idle"
  /\ \E j \in BagToSet(pool) :
       /\ pool' = pool (-) SetToBag({j})
       /\ batch' = [batch EXCEPT ![w] = <<j>>]
  /\ Goto(w, "start")
  /\ UNCHANGED <<graph, counters, packets, remaining_deps, frames, batch_queue, slot_gen,
                 todo, sched, evicting, history>>

\* The stale-task guard.
Start(w) ==
  /\ pc[w] = "start"
  /\ batch[w][1].gen = generation
  /\ Goto(w, "run")
  /\ UNCHANGED <<graph, counters, packets, remaining_deps, frames, queues, locals, evicting,
                 history>>

DropStale(w) ==
  /\ pc[w] = "start"
  /\ batch[w][1].gen # generation
  /\ stale_tasks_dropped' = stale_tasks_dropped + 1
  /\ batch' = [batch EXCEPT ![w] = <<>>]
  /\ Goto(w, "idle")
  /\ UNCHANGED <<graph, counters, packets, remaining_deps, frames, queues, slot_gen, todo,
                 sched, evicting, ran, passed>>

\* The node's function runs and its result is stored; the completion is
\* resolved here, or sent to a resolution thread (never by a bulk task).
Run(w) ==
  LET j == batch[w][1] IN
  /\ pc[w] = "run"
  /\ ran' = [ran EXCEPT ![<<j.frame, j.task>>] = @ + 1]
  /\ IF j.task \in Bulk \/ worker_resolvable(j.task)
     THEN /\ Goto(w, "enter")
          /\ UNCHANGED <<batch, batch_queue>>
     ELSE /\ batch_queue' = Append(batch_queue, j)
          /\ batch' = [batch EXCEPT ![w] = <<>>]
          /\ Goto(w, "idle")
  /\ UNCHANGED <<graph, counters, packets, remaining_deps, frames, pool, slot_gen, todo,
                 sched, evicting, stale_tasks_dropped, passed>>

\* Argument collection waits for a result that an eviction has cleared, and
\* gives up when it sees the generation change.
DropInArgs(w) ==
  /\ pc[w] = "run"
  /\ batch[w][1].gen # generation
  /\ batch' = [batch EXCEPT ![w] = <<>>]
  /\ Goto(w, "idle")
  /\ UNCHANGED <<graph, counters, packets, remaining_deps, frames, queues, slot_gen, todo,
                 sched, evicting, history>>

-----------------------------------------------------------------------------
(* Resolution of completions: worker_resolve_successors on a worker, and   *)
(* process_batch_resolution on a resolution thread.                        *)

\* The completions among the first k that carry the slot's generation, in the
\* order of the queue.
FreshAmong(k) == {i \in 1 .. k : batch_queue[i].gen = generation}
Place(i, k) == Cardinality({m \in FreshAmong(k) : m < i}) + 1
Filtered(k) ==
  [n \in 1 .. Cardinality(FreshAmong(k)) |->
     batch_queue[CHOOSE i \in FreshAmong(k) : Place(i, k) = n]]

\* drain_and_process_batch_queue: stale completions are filtered out.
Drain(r) ==
  /\ Looping(r)
  /\ \E k \in 1 .. BatchSize :
       /\ k <= Len(batch_queue)
       /\ batch_queue' = SubSeq(batch_queue, k + 1, Len(batch_queue))
       /\ batch' = [batch EXCEPT ![r] = Filtered(k)]
       /\ Goto(r, IF Filtered(k) = <<>> THEN "idle" ELSE "enter")
  /\ UNCHANGED <<graph, counters, packets, remaining_deps, frames, pool, slot_gen, todo,
                 sched, evicting, history>>

\* processing_count goes up once per batch.
Enter(a) ==
  /\ pc[a] \in {"enter", "admit"}
  /\ processing_count' = processing_count + 1
  /\ Goto(a, IF a \in Workers THEN "verify" ELSE "discharge")
  /\ UNCHANGED <<graph, generation, pending_tasks, pending_cond_tasks, needs_check,
                 completed_slot, packets, remaining_deps, frames, queues, locals,
                 evicting, history>>

\* A worker checks the generation again; on a recycled slot it leaves.
Verify(w) ==
  /\ pc[w] = "verify"
  /\ IF batch[w][1].gen = generation
     THEN Goto(w, "discharge") /\ UNCHANGED batch
     ELSE Goto(w, "leave") /\ batch' = [batch EXCEPT ![w] = <<>>]
  /\ UNCHANGED <<graph, counters, packets, remaining_deps, frames, queues, slot_gen, todo,
                 sched, evicting, history>>

\* Phases 1 and 2: a packet's result is stored; the task counters go down.
Discharge(a) ==
  LET j == batch[a][1] IN
  /\ pc[a] = "discharge"
  /\ IF j.task \in Cond
     THEN pending_cond_tasks' = pending_cond_tasks - 1 /\ UNCHANGED pending_tasks
     ELSE pending_tasks' = pending_tasks - 1 /\ UNCHANGED pending_cond_tasks
  /\ ran' = IF j.task \in Packets THEN [ran EXCEPT ![<<j.frame, j.task>>] = @ + 1] ELSE ran
  /\ Goto(a, "load")
  /\ UNCHANGED <<graph, generation, processing_count, needs_check, completed_slot, packets,
                 remaining_deps, frames, queues, locals, evicting,
                 stale_tasks_dropped, passed>>

\* Phase 3 loads the generation once for all the successors.
Load(a) ==
  /\ pc[a] = "load"
  /\ slot_gen' = [slot_gen EXCEPT ![a] = generation]
  /\ todo' = [todo EXCEPT ![a] = Succs[batch[a][1].task]]
  /\ Goto(a, "resolve")
  /\ UNCHANGED <<graph, counters, packets, remaining_deps, frames, queues, batch, sched,
                 evicting, history>>

\* decrease_and_get_ready_into: what is left of a successor's dependencies as
\* generation g sees it, and whether this decrement makes it ready.
Left(t, g) ==
  IF remaining_deps[t].gen = g THEN remaining_deps[t].left ELSE Cardinality(Preds(t))
Decreased(t, g) == IF Left(t, g) = 0 THEN 0 ELSE Left(t, g) - 1
\* Mutant: off by one, a successor is ready with one dependency left.
FiresEarly(t, g) == Left(t, g) > 0 /\ Decreased(t, g) <= 1
FiresReady(t, g) == Left(t, g) > 0 /\ Decreased(t, g) = 0

\* The batch path evaluates the condition of a ready successor.
Evaluates(a, t) == a \in ResThreads /\ t \in Cond

\* A ready successor, of the frame of the completion that made it ready.
Ready(a, t) == [task |-> t, frame |-> batch[a][1].frame]

\* An edge is walked: the successor waits, or it is ready and goes to sched.
ResolveEdge(a) ==
  LET t == Head(todo[a])
      g == slot_gen[a]
  IN
  /\ pc[a] = "resolve" /\ todo[a] # <<>>
  /\ ~(FiresReady(t, g) /\ Evaluates(a, t))
  /\ remaining_deps' = [remaining_deps EXCEPT ![t] = [gen |-> g, left |-> Decreased(t, g)]]
  /\ sched' = IF FiresReady(t, g) THEN [sched EXCEPT ![a] = Append(@, Ready(a, t))]
              ELSE sched
  /\ todo' = [todo EXCEPT ![a] = Tail(@)]
  /\ UNCHANGED <<graph, counters, packets, frames, queues, pc, batch, slot_gen, evicting,
                 history>>

\* dispatch_condition_successor: the condition holds.
ConditionPasses(a) ==
  LET t == Head(todo[a])
      g == slot_gen[a]
  IN
  /\ pc[a] = "resolve" /\ todo[a] # <<>>
  /\ FiresReady(t, g) /\ Evaluates(a, t)
  /\ remaining_deps' = [remaining_deps EXCEPT ![t] = [gen |-> g, left |-> 0]]
  /\ sched' = [sched EXCEPT ![a] = Append(@, Ready(a, t))]
  /\ passed' = passed \cup {<<batch[a][1].frame, t>>}
  /\ todo' = [todo EXCEPT ![a] = Tail(@)]
  /\ UNCHANGED <<graph, counters, packets, frames, queues, pc, batch, slot_gen, evicting,
                 stale_tasks_dropped, ran>>

\* It does not hold: the instance is discharged and its dependency reopened.
ConditionFails(a) ==
  LET t == Head(todo[a])
      g == slot_gen[a]
  IN
  /\ pc[a] = "resolve" /\ todo[a] # <<>>
  /\ FiresReady(t, g) /\ Evaluates(a, t)
  /\ pending_cond_tasks' = pending_cond_tasks - 1
  /\ remaining_deps' = [remaining_deps EXCEPT ![t] = [gen |-> g, left |-> 1]]
  /\ todo' = [todo EXCEPT ![a] = Tail(@)]
  /\ UNCHANGED <<graph, generation, pending_tasks, processing_count, needs_check,
                 completed_slot, packets, frames, queues, pc, batch, slot_gen, sched,
                 evicting, history>>

\* The node is resolved; ready successors are flushed at the threshold and at
\* the end of the batch.
ItemDone(a) ==
  /\ pc[a] = "resolve" /\ todo[a] = <<>>
  /\ batch' = [batch EXCEPT ![a] = Tail(@)]
  /\ Goto(a, IF Len(batch[a]) = 1 \/ Len(sched[a]) >= FlushThreshold
             THEN "send" ELSE "discharge")
  /\ UNCHANGED <<graph, counters, packets, remaining_deps, frames, queues, slot_gen, todo,
                 sched, evicting, history>>

\* send_to_scheduler stamps every task with the generation of that moment.  A
\* worker may keep the last ready successor for itself (inline continuation).
Stamped(ts) == [i \in DOMAIN ts |-> Job(ts[i].task, generation, ts[i].frame)]
BagOf(s) == [j \in Range(s) |-> Cardinality({i \in DOMAIN s : s[i] = j})]

Keeps(a) == a \in Workers /\ InlineContinuation /\ sched[a] # <<>>

\* Mutant: the kept task is not stamped.
KeptUnstamped(a) == Job(Last(sched[a]).task, 0, Last(sched[a]).frame)

\* The kept task carries the generation that was loaded for the successors.
Kept(a) == Job(Last(sched[a]).task, slot_gen[a], Last(sched[a]).frame)

Send(a) ==
  /\ pc[a] = "send"
  /\ pool' = pool (+) BagOf(Stamped(IF Keeps(a) THEN Front(sched[a]) ELSE sched[a]))
  /\ batch' = IF Keeps(a) THEN [batch EXCEPT ![a] = <<Kept(a)>>] ELSE batch
  /\ sched' = [sched EXCEPT ![a] = <<>>]
  /\ Goto(a, IF a \in ResThreads /\ batch[a] # <<>> THEN "discharge" ELSE "leave")
  /\ UNCHANGED <<graph, counters, packets, remaining_deps, frames, batch_queue, slot_gen,
                 todo, evicting, history>>

\* Phase 4: processing_count goes down, then needs_check is raised.
Leave(a) ==
  /\ pc[a] = "leave"
  /\ processing_count' = processing_count - 1
  /\ Goto(a, "flag")
  /\ UNCHANGED <<graph, generation, pending_tasks, pending_cond_tasks, needs_check,
                 completed_slot, packets, remaining_deps, frames, queues, locals,
                 evicting, history>>

\* Mutant: the flag is not raised.
FlagSilent(a) ==
  /\ pc[a] = "flag"
  /\ Goto(a, IF batch[a] # <<>> THEN "start" ELSE "idle")
  /\ UNCHANGED <<graph, counters, packets, remaining_deps, frames, queues, locals, evicting,
                 history>>

Flag(a) ==
  /\ pc[a] = "flag"
  /\ needs_check' = TRUE
  /\ Goto(a, IF batch[a] # <<>> THEN "start" ELSE "idle")
  /\ UNCHANGED <<graph, generation, pending_tasks, pending_cond_tasks, processing_count,
                 completed_slot, packets, remaining_deps, frames, queues, locals,
                 evicting, history>>

Resolution(a) ==
  \/ Enter(a) \/ Discharge(a) \/ Load(a) \/ ResolveEdge(a) \/ ConditionPasses(a)
  \/ ConditionFails(a) \/ ItemDone(a) \/ Send(a) \/ Leave(a) \/ Flag(a)

-----------------------------------------------------------------------------
(* The start of a frame *)

\* assign_frame_to_available_slot on a free slot: the frame is published under
\* the locks; the generation is bumped after that.
Publish(r, f) ==
  /\ frame' = f
  /\ needs_check' = TRUE
  /\ Goto(r, "assigned")
  /\ UNCHANGED <<graph, generation, pending_tasks, pending_cond_tasks, processing_count,
                 completed_slot>>

\* perform_initial_preparation asks for a slot for frame 0 and dispatches the
\* roots whatever the answer's newly_activated says.
Prepare(r) ==
  /\ r = InitThread /\ ~prepared
  /\ pc[r] = "idle"
  /\ \/ frame = NoFrame /\ Publish(r, 0)
     \/ frame = 0 /\ Goto(r, "roots") /\ UNCHANGED <<counters, frame>>
  /\ prepared' = TRUE
  /\ UNCHANGED <<graph, packets, remaining_deps, completed, dropped, queues, locals,
                 evicting, history>>

\* bump_slot_generation of the newly activated slot.
AssignBump(r) ==
  /\ pc[r] = "assigned"
  /\ generation' = generation + 1
  /\ Goto(r, "roots")
  /\ UNCHANGED <<graph, pending_tasks, pending_cond_tasks, processing_count, needs_check,
                 completed_slot, packets, remaining_deps, frames, queues, locals,
                 evicting, history>>

\* The packet is counted, and check_frame_completion looks at the count.
CountPacket ==
  /\ packet_counter' = packet_counter + 1
  /\ packet_complete' = (packet_complete \/ packet_counter + 1 = Cardinality(Packets))

\* dispatch_nodes of initial_nodes; the packet that opened the frame is counted
\* after that.
DispatchRoots(r) ==
  /\ pc[r] = "roots"
  /\ pool' = pool (+) SetToBag({Job(t, generation, frame) : t \in Roots})
  /\ IF batch[r] # <<>>
     THEN Goto(r, "admit") /\ CountPacket
     ELSE Goto(r, "idle") /\ UNCHANGED packets
  /\ UNCHANGED <<graph, counters, remaining_deps, frames, batch_queue, locals, evicting,
                 history>>

\* admit_packet, with the frame already in the slot.  A thread admits all the
\* packets of a drain before it resolves them (Enter).
Delivered(p) ==
  \/ ran[<<frame, p>>] > 0
  \/ \E a \in ResThreads : \E i \in DOMAIN batch[a] :
       batch[a][i].task = p /\ batch[a][i].frame = frame

AdmitHit(r, p) ==
  /\ Looping(r) \/ pc[r] = "admit"
  /\ frame # NoFrame /\ frame \notin dropped
  /\ frame < completed + 1
  /\ ~Delivered(p)
  /\ CountPacket
  /\ batch' = [batch EXCEPT ![r] = Append(@, Job(p, 0, frame))]
  /\ Goto(r, "admit")
  /\ UNCHANGED <<graph, counters, remaining_deps, frames, queues, slot_gen, todo, sched,
                 evicting, history>>

\* admit_packet for the first packet of the next frame of the window.
AdmitFirst(r, p) ==
  /\ Looping(r)
  /\ frame = NoFrame /\ completed \notin dropped
  /\ Publish(r, completed)
  /\ batch' = [batch EXCEPT ![r] = <<Job(p, 0, completed)>>]
  /\ UNCHANGED <<graph, packets, remaining_deps, completed, dropped, prepared, queues, slot_gen, todo,
                 sched, evicting, history>>

-----------------------------------------------------------------------------
(* check_slots and the end of a frame *)

\* needs_check is swapped.
CheckSwap(r) ==
  /\ Looping(r)
  /\ needs_check
  /\ needs_check' = FALSE
  /\ Goto(r, "load_pending")
  /\ UNCHANGED <<graph, generation, pending_tasks, pending_cond_tasks, processing_count,
                 completed_slot, packets, remaining_deps, frames, queues, locals,
                 evicting, history>>

\* Mutant: the claim does without processing_count.
LoadsWithoutProcessing == <<"load_pending", "load_cond", "try_complete",
                            "reload_pending", "reload_cond", "bump">>

\* detect_and_claim_slot_completion loads the three counters, one by one, and
\* once more after it has won the completion bit.
Loads == <<"load_pending", "load_cond", "load_proc", "try_complete",
           "reload_pending", "reload_cond", "reload_proc", "bump">>
NextLoad(l) == Loads[1 + CHOOSE i \in 1 .. Len(Loads) : Loads[i] = l]

Loaded(l) ==
  CASE l \in {"load_pending", "reload_pending"} -> pending_tasks
    [] l \in {"load_cond", "reload_cond"} -> pending_cond_tasks
    [] l \in {"load_proc", "reload_proc"} -> processing_count

LoadCounter(r) ==
  /\ pc[r] \in Range(Loads) \ {"try_complete", "bump"}
  /\ Goto(r, IF Loaded(pc[r]) = 0 THEN NextLoad(pc[r])
             ELSE IF pc[r] \in {"load_pending", "load_cond", "load_proc"} THEN "idle"
             ELSE "unmark")
  /\ UNCHANGED <<graph, counters, packets, remaining_deps, frames, queues, locals, evicting,
                 history>>

try_complete_slot(r) ==
  /\ pc[r] = "try_complete"
  /\ completed_slot' = TRUE
  /\ Goto(r, IF completed_slot THEN "idle" ELSE "reload_pending")
  /\ UNCHANGED <<graph, generation, pending_tasks, pending_cond_tasks, processing_count,
                 needs_check, packets, remaining_deps, frames, queues, locals,
                 evicting, history>>

unmark_slot_completed(r) ==
  /\ pc[r] = "unmark"
  /\ completed_slot' = FALSE
  /\ Goto(r, "idle")
  /\ UNCHANGED <<graph, generation, pending_tasks, pending_cond_tasks, processing_count,
                 needs_check, packets, remaining_deps, frames, queues, locals,
                 evicting, history>>

\* try_evict_stalled_slots: part of the packets came, nothing is being
\* processed, and the packet_complete flag is won.
Evict(r) ==
  /\ Eviction
  /\ Looping(r)
  /\ frame # NoFrame
  /\ packet_counter > 0 /\ packet_counter < Cardinality(Packets)
  /\ processing_count = 0
  /\ ~packet_complete
  /\ packet_complete' = TRUE
  /\ dropped' = dropped \cup {frame}
  /\ completed' = IF frame \in dropped THEN completed ELSE completed + 1
  /\ evicting' = [evicting EXCEPT ![r] = TRUE]
  /\ Goto(r, "bump")
  /\ UNCHANGED <<graph, counters, packet_counter, remaining_deps, frame, prepared, queues,
                 locals, history>>

\* Mutant: the reset leaves the generation alone.
ResetWithoutBump(r) ==
  /\ pc[r] = "bump"
  /\ Goto(r, "reset_complete")
  /\ UNCHANGED <<graph, counters, packets, remaining_deps, frames, queues, locals, evicting,
                 history>>

\* reset_slot_state, store by store.
ResetBump(r) ==
  /\ pc[r] = "bump"
  /\ generation' = generation + 1
  /\ Goto(r, "reset_complete")
  /\ UNCHANGED <<graph, pending_tasks, pending_cond_tasks, processing_count, needs_check,
                 completed_slot, packets, remaining_deps, frames, queues, locals,
                 evicting, history>>

ResetComplete(r) ==
  /\ pc[r] = "reset_complete"
  /\ packet_complete' = FALSE
  /\ Goto(r, "reset_packets")
  /\ UNCHANGED <<graph, counters, packet_counter, remaining_deps, frames, queues, locals,
                 evicting, history>>

ResetPackets(r) ==
  /\ pc[r] = "reset_packets"
  /\ packet_counter' = 0
  /\ Goto(r, "reset_pending")
  /\ UNCHANGED <<graph, counters, packet_complete, remaining_deps, frames, queues, locals,
                 evicting, history>>

ResetPending(r) ==
  /\ pc[r] = "reset_pending"
  /\ pending_tasks' = total_tasks
  /\ Goto(r, "reset_cond")
  /\ UNCHANGED <<graph, generation, pending_cond_tasks, processing_count, needs_check,
                 completed_slot, packets, remaining_deps, frames, queues, locals,
                 evicting, history>>

ResetCond(r) ==
  /\ pc[r] = "reset_cond"
  /\ pending_cond_tasks' = total_cond_tasks
  /\ Goto(r, "reset_check")
  /\ UNCHANGED <<graph, generation, pending_tasks, processing_count, needs_check,
                 completed_slot, packets, remaining_deps, frames, queues, locals,
                 evicting, history>>

ResetCheck(r) ==
  /\ pc[r] = "reset_check"
  /\ needs_check' = FALSE
  /\ Goto(r, "reset_mark")
  /\ UNCHANGED <<graph, generation, pending_tasks, pending_cond_tasks, processing_count,
                 completed_slot, packets, remaining_deps, frames, queues, locals,
                 evicting, history>>

ResetMark(r) ==
  /\ pc[r] = "reset_mark"
  /\ completed_slot' = FALSE
  /\ evicting' = [evicting EXCEPT ![r] = FALSE]
  /\ Goto(r, IF evicting[r] THEN "release" ELSE "count")
  /\ UNCHANGED <<graph, generation, pending_tasks, pending_cond_tasks, processing_count,
                 needs_check, packets, remaining_deps, frames, queues, locals, history>>

\* process_slot_completion.
CountFrame(r) ==
  /\ pc[r] = "count"
  /\ completed' = completed + 1
  /\ Goto(r, "release")
  /\ UNCHANGED <<graph, counters, packets, remaining_deps, frame, dropped, prepared, queues,
                 locals, evicting, history>>

\* release_and_activate_next; the other slots are SlotProtocol's business.
ReleaseSlot(r) ==
  /\ pc[r] = "release"
  /\ frame' = NoFrame
  /\ Goto(r, IF ~Network /\ completed < MaxFrames THEN "restart" ELSE "idle")
  /\ UNCHANGED <<graph, counters, packets, remaining_deps, completed, dropped, prepared,
                 queues, locals, evicting, history>>

\* restart_slot_nonnetwork; it bumps no generation.
Restart(r) ==
  /\ pc[r] = "restart"
  /\ frame' = completed
  /\ Goto(r, "roots")
  /\ UNCHANGED <<graph, counters, packets, remaining_deps, completed, dropped, prepared,
                 queues, locals, evicting, history>>

Finish(r) ==
  \/ LoadCounter(r) \/ try_complete_slot(r) \/ unmark_slot_completed(r)
  \/ ResetBump(r) \/ ResetComplete(r) \/ ResetPackets(r) \/ ResetPending(r)
  \/ ResetCond(r) \/ ResetCheck(r) \/ ResetMark(r) \/ CountFrame(r) \/ ReleaseSlot(r) \/ Restart(r)

-----------------------------------------------------------------------------
\* run_impl returns once all the frames are counted.
Done == completed >= MaxFrames /\ UNCHANGED vars

WorkerStep(w) ==
  Take(w) \/ Start(w) \/ DropStale(w) \/ Run(w) \/ DropInArgs(w) \/ Verify(w)

StartFrame(r) == Prepare(r) \/ AssignBump(r) \/ DispatchRoots(r)

Next ==
  \/ \E w \in Workers : WorkerStep(w)
  \/ \E a \in Threads : Resolution(a)
  \/ \E r \in ResThreads : StartFrame(r) \/ Drain(r) \/ CheckSwap(r) \/ Finish(r) \/ Evict(r)
  \/ \E r \in ResThreads, p \in Packets : AdmitHit(r, p) \/ AdmitFirst(r, p)
  \/ Done

Spec == Init /\ [][Next]_vars

(***************************************************************************)
(* Fairness.  The operating system runs every thread: a thread inside an   *)
(* operation goes on, a free worker takes work, and every round of         *)
(* resolution() drains the queue and looks at needs_check, however many    *)
(* other rounds happen meanwhile.  Packets are offered until they are      *)
(* admitted.  Eviction is never forced.                                    *)
(***************************************************************************)
Fairness ==
  /\ \A w \in Workers : WF_vars(WorkerStep(w) \/ Resolution(w))
  /\ \A r \in UNION {h.threads : h \in Graphs} :
       /\ WF_vars(r \in ResThreads /\ (Resolution(r) \/ StartFrame(r) \/ Finish(r)))
       /\ SF_vars(r \in ResThreads /\ Drain(r))
       /\ SF_vars(r \in ResThreads /\ CheckSwap(r))
  /\ \A p \in UNION {h.packets : h \in Graphs} :
       SF_vars(p \in Packets /\ \E r \in ResThreads : AdmitHit(r, p) \/ AdmitFirst(r, p))

FairSpec == Spec /\ Fairness

-----------------------------------------------------------------------------
(* Properties *)

Idle(a) == pc[a] \in {"idle", "flag"} /\ batch[a] = <<>>

\* A claim is exact: in a run without evictions, when a resolution thread has
\* confirmed the completion of a frame, every task and packet of it was
\* resolved, each unconditional task ran once, and nothing of the frame is left
\* in the scheduler, in the queue or in a thread's hands.
ClaimIsExact ==
  \A r \in ResThreads :
    pc[r] = "bump" /\ ~Eviction =>
      /\ pool = EmptyBag /\ batch_queue = <<>>
      /\ \A w \in Workers : Idle(w)
      /\ \A n \in Nodes \ Cond : ran[<<frame, n>>] = 1

\* The usize counters never wrap below zero in a run without evictions: every
\* task is counted off exactly once, on the counter of its kind.
NoUnderflow == ~Eviction => pending_tasks >= 0 /\ pending_cond_tasks >= 0

\* No task runs before its predecessors in the same frame, in a run without
\* evictions.
DependencyOrder ==
  ~Eviction =>
    \A f \in Frames, t \in Tasks :
      ran[<<f, t>>] > 0 => \A p \in Preds(t) : ran[<<f, p>>] > 0

\* A task with a condition runs only if its condition was found true.
ConditionsRespected ==
  \A f \in Frames, t \in Cond : ran[<<f, t>>] > 0 => <<f, t>> \in passed

\* No worker resolves a conditional successor by itself: all conditions are node
\* conditions, which worker_resolvable sees, and a bulk node, whose worker
\* resolves always, feeds no conditional one.
PlainConditions ==
  ArgCond = {} /\ \A t \in Bulk : Range(Succs[t]) \cap Cond = {}

\* Where PlainConditions holds, a task with a condition runs only if a
\* resolution thread has found its condition true; elsewhere it runs unasked.
EvaluatedFirst == PlainConditions => ConditionsRespected

\* The tasks in the scheduler and in the workers' hands.
InFlight == BagToSet(pool) \cup UNION {Range(batch[w]) : w \in Workers}

\* No second thread can act on a frame that is published and whose generation is
\* still to be bumped; with one, a task that a packet made ready in between has
\* the old generation and is dropped.
OneOpener == Packets = {} \/ ResThreads = {InitThread}

\* In a run without evictions, with one thread to open frames, the stale-task
\* guard has nothing to do: it drops no task, and no task is made after the
\* reset of its frame has begun.
NoStaleDrops ==
  ~Eviction /\ OneOpener => stale_tasks_dropped = 0 /\ \A j \in InFlight : ~j.late

\* The stale-task guard is sound, evictions or not: a task that was made before
\* the reset of its frame and carries the slot's generation belongs to the
\* frame that is in the slot, wherever it waits or runs.
GenerationNamesFrame ==
  \A j \in InFlight : j.gen = generation /\ ~j.late => j.frame = frame

\* Every frame of the run is completed.
AllFramesComplete == <>(completed >= MaxFrames)

\* With one resolution thread and no lost packet, every frame is completed: no
\* completion of a task goes unnoticed between a worker's last decrement, the
\* needs_check flag and the loop that consumes it.
OneThreadCompletes ==
  (Cardinality(ResThreads) = 1 /\ ~Eviction) => AllFramesComplete
=============================================================================
