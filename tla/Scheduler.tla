------------------------------ MODULE Scheduler ------------------------------
(***************************************************************************)
(* The worker pool: the custom scheduler with its priority channels, shard *)
(* routing, stealing and affinity groups, the Rayon scheduler behind the   *)
(* same interface, and the life of the pool from its build to the drop of  *)
(* the runtime handle, post-nodes included.                                *)
(*                                                                         *)
(* A configuration says how the pool is built and which jobs are handed to *)
(* it.  A job is spawned in three steps (count it, choose a channel, send) *)
(* by threads that run beside the workers, and a worker looks at one       *)
(* channel per step, so a job may arrive behind a worker's scan.           *)
(*                                                                         *)
(* The runtime state is reference counted: the main thread holds it, a     *)
(* boxed job holds it from the moment it is built, and a worker holds it   *)
(* while it runs a job (a typed job upgrades a weak reference and is       *)
(* skipped when there is nothing left to upgrade).  Whoever drops the last *)
(* reference drops the scheduler with it.                                  *)
(*                                                                         *)
(* With inline continuation a worker keeps one of the successors its job   *)
(* has made ready and runs it next, outside every channel and every count. *)
(***************************************************************************)
EXTENDS Placement

CONSTANTS
    Configs,        \* the pools to build and the jobs to run in them
    MaxWorkers,     \* the largest pool any configuration allocates
    MaxJobs         \* the largest number of jobs of a configuration

VARIABLES
    config, pool,   \* the configuration, and the pool built from it
    stage,          \* job -> how far its spawn has come
    route,          \* job -> the group whose channels it is sent to
    queue,          \* <<group, priority>> -> the jobs waiting in that channel
    pc, cursor, task,       \* worker -> its place, its scan, the job it holds
    runs,           \* job -> how often its body has run
    skipped,        \* typed jobs that found the runtime state gone
    pending_tasks, total_completed, in_flight, next_shard,
    executed,       \* worker -> tasks_per_worker of the Rayon metrics
    shutdown,
    phase, post     \* the main thread, and the post-node it is at

vars == <<config, pool, stage, route, queue, pc, cursor, task, runs, skipped, pending_tasks,
          total_completed, in_flight, next_shard, executed, shutdown, phase, post>>

-----------------------------------------------------------------------------
(* The pool a configuration builds.                                        *)

Custom == config.kind = "custom"
Jobs == DOMAIN config.jobs
UseWorkers(j) == config.jobs[j].spec
Typed(j) == Custom /\ config.jobs[j].typed
Posts == UNION {config.posts[k] : k \in DOMAIN config.posts}

(* The successor a job leaves to its own worker; 0 when it leaves none.    *)
Keeps(j) == config.jobs[j].keeps
IsKept(j) == \E i \in Jobs : Keeps(i) = j

SpecsOf(cfg) == {WorkerRangeSpec_parse(t) : t \in cfg.texts}

High == 1  Normal == 2  Low == 3
Priorities == {High, Normal, Low}

(* What the command line and the graph can ask for: a machine with a core, *)
(* at least one worker, and jobs whose ranges are among the `use_workers`  *)
(* of the graph, which is where the affinity groups come from.  A job has  *)
(* one predecessor that can make it ready on a worker.                     *)
IsConfig(cfg) ==
    /\ cfg.kind \in {"custom", "rayon"}
    /\ cfg.cores \in Nat \ {0} /\ cfg.workers \in Nat \ {0}
    /\ {cfg.offset, cfg.sys, cfg.recv, cfg.shard, cfg.spin} \subseteq Nat
    /\ IsFiniteSet(cfg.texts)
    /\ \A t \in cfg.texts : \/ t.kind = "count" /\ t.n \in Nat
                            \/ t.kind = "range" /\ t.first \in Nat /\ t.last \in Nat
    /\ \E n \in 0 .. MaxJobs : DOMAIN cfg.jobs = 1 .. n
    /\ \A j \in DOMAIN cfg.jobs :
           /\ cfg.jobs[j].priority \in Priorities
           /\ cfg.jobs[j].spec.kind = "Range" => cfg.jobs[j].spec \in SpecsOf(cfg)
           /\ cfg.jobs[j].keeps \in {0} \cup DOMAIN cfg.jobs
    /\ \A i, j \in DOMAIN cfg.jobs :
           cfg.jobs[i].keeps = cfg.jobs[j].keeps /\ cfg.jobs[i].keeps # 0 => i = j

ASSUME SchedulerAssumption ==
    MaxJobs \in Nat /\ \A cfg \in Configs : IsConfig(cfg)

(* create_scheduler and build: ranges make affinity groups, otherwise the  *)
(* workers are cut into shards; Rayon has one pool and no groups.  The     *)
(* cores are asked for the sum of the group sizes, which overlapping       *)
(* ranges raise above the number of workers.                               *)
Places(sizes, workers) == {gk \in (DOMAIN sizes) \X (1 .. workers) : gk[2] <= sizes[gk[1]]}

create_scheduler(cfg) ==
    LET custom == cfg.kind = "custom"
        groups == from_worker_ranges(Ranges(SpecsOf(cfg)))
        sizes == CASE ~custom -> <<>>
                   [] custom /\ groups # <<>> -> with_affinity_groups(groups, cfg.workers)
                   [] OTHER -> add_sharded_workers(cfg.workers, cfg.shard)
        requested == IF custom THEN Cardinality(Places(sizes, cfg.workers)) ELSE cfg.workers
        alloc == allocate_cores(cfg.cores, cfg.offset, cfg.sys, cfg.recv, requested)
    IN  [workers |-> 0 .. alloc.workers - 1,
         groups |-> groups,
         num_groups |-> Len(sizes),
         sharded |-> custom /\ groups = <<>>,
         group |-> IF custom THEN worker_to_group_idx(groups, sizes, alloc.workers)
                   ELSE [w \in 0 .. alloc.workers - 1 |-> 0]]

Workers == pool.workers
NumGroups == pool.num_groups
Global == NumGroups
Sharded == pool.sharded
GroupOf(w) == pool.group[w]

-----------------------------------------------------------------------------
(* On one core, or with a range past the last worker, the build panics.    *)
Init ==
    /\ config \in Configs
    /\ config.cores >= 2
    /\ RangesFit(SpecsOf(config), config.workers)
    /\ pool = create_scheduler(config)
    /\ stage = [j \in Jobs |-> "new"]
    /\ route = [j \in Jobs |-> 0]
    /\ queue = [c \in (0 .. NumGroups) \X Priorities |-> <<>>]
    /\ pc = [w \in Workers |-> "start"]
    /\ cursor = [w \in Workers |-> 1]
    /\ task = [w \in Workers |-> 0]
    /\ runs = [j \in Jobs |-> 0]
    /\ skipped = {}
    /\ pending_tasks = 0
    /\ total_completed = 0
    /\ in_flight = [g \in 0 .. NumGroups |-> 0]
    /\ next_shard = 0
    /\ executed = [w \in Workers |-> 0]
    /\ shutdown = FALSE
    /\ phase = "run"
    /\ post = 1

-----------------------------------------------------------------------------
(* Spawning.                                                               *)

get_affinity_group(j) == IF Custom THEN get_group(pool.groups, UseWorkers(j)) ELSE 0

load(g) == Len(queue[<<g, High>>]) + Len(queue[<<g, Normal>>]) + Len(queue[<<g, Low>>])

load_of(g) == load(g) + in_flight[g]

(* The least loaded shard, the first one from the round-robin cursor on    *)
(* among equals.                                                           *)
LeastLoaded ==
    LET At(k) == (next_shard + k) % NumGroups
        best == CHOOSE k \in 0 .. NumGroups - 1 :
                   \A i \in 0 .. NumGroups - 1 :
                       \/ load_of(At(k)) < load_of(At(i))
                       \/ load_of(At(k)) = load_of(At(i)) /\ k <= i
    IN  At(best)

(* spawn_node for a typed job, spawn_to_group_with_meta or                 *)
(* spawn_with_meta_priority for a boxed one: only the typed path shards.   *)
Target(j) ==
    LET g == get_affinity_group(j)
    IN  CASE g > 0 /\ g < NumGroups -> g
          [] ~(g > 0 /\ g < NumGroups) /\ Typed(j) /\ Sharded -> LeastLoaded
          [] OTHER -> Global

(* Jobs come from the resolution threads during the run, post-nodes from   *)
(* the main thread, one post-node after the other.  A kept successor is    *)
(* never spawned.                                                          *)
MaySpawn(j) ==
    /\ ~IsKept(j)
    /\ IF j \in Posts THEN phase = "post" /\ post <= Len(config.posts) /\ j \in config.posts[post]
       ELSE phase \in {"run", "post"}

(* Mutant: a spawn that does not raise pending_tasks.                      *)
CountUncounted(j) ==
    /\ stage[j] = "new"
    /\ MaySpawn(j)
    /\ stage' = [stage EXCEPT ![j] = "counted"]
    /\ UNCHANGED <<config, pool, route, queue, pc, cursor, task, runs, skipped, pending_tasks,
                   total_completed, in_flight, next_shard, executed, shutdown, phase, post>>

Count(j) ==
    /\ stage[j] = "new"
    /\ MaySpawn(j)
    /\ stage' = [stage EXCEPT ![j] = "counted"]
    /\ pending_tasks' = pending_tasks + 1
    /\ UNCHANGED <<config, pool, route, queue, pc, cursor, task, runs, skipped, total_completed,
                   in_flight, next_shard, executed, shutdown, phase, post>>

Route(j) ==
    /\ stage[j] = "counted"
    /\ stage' = [stage EXCEPT ![j] = "routed"]
    /\ route' = [route EXCEPT ![j] = Target(j)]
    /\ next_shard' = IF Sharded /\ NumGroups > 1 /\ Typed(j)
                     THEN (next_shard + 1) % NumGroups ELSE next_shard
    /\ UNCHANGED <<config, pool, queue, pc, cursor, task, runs, skipped, pending_tasks,
                   total_completed, in_flight, executed, shutdown, phase, post>>

Send(j) ==
    /\ stage[j] = "routed"
    /\ stage' = [stage EXCEPT ![j] = "sent"]
    /\ queue' = [queue EXCEPT ![<<route[j], config.jobs[j].priority>>] = Append(@, j)]
    /\ UNCHANGED <<config, pool, route, pc, cursor, task, runs, skipped, pending_tasks,
                   total_completed, in_flight, next_shard, executed, shutdown, phase, post>>

-----------------------------------------------------------------------------
(* References to the runtime state.                                        *)

Holds(w) == pc[w] \in {"run", "release", "dying"}
BoxedInQueue == \E c \in DOMAIN queue : \E i \in DOMAIN queue[c] : ~Typed(queue[c][i])
HeldByOthers(w) ==
    \/ phase \in {"run", "post", "leave"}
    \/ BoxedInQueue
    \/ \E v \in Workers \ {w} : Holds(v) \/ (pc[v] = "taken" /\ ~Typed(task[v]))
Alive == HeldByOthers(MaxWorkers)

-----------------------------------------------------------------------------
(* A worker.                                                               *)

(* Mutants: stealing across affinity groups too, and no stealing at all.   *)
ScanOrderStealing(w) ==
    LET g == GroupOf(w)
    IN  FlattenSeq([k \in 1 .. NumGroups + 1 |->
            LET v == (g + k - 1) % (NumGroups + 1)
            IN  <<<<v, High>>, <<v, Normal>>, <<v, Low>>>>])

ScanOrderOwn(w) ==
    LET g == GroupOf(w)
    IN  <<<<g, High>>, <<g, Normal>>, <<Global, High>>, <<Global, Normal>>,
          <<g, Low>>, <<Global, Low>>>>

(* try_recv_all, then try_steal_shards from the next shard on.             *)
ScanOrder(w) ==
    LET g == GroupOf(w)
        own == <<<<g, High>>, <<g, Normal>>, <<Global, High>>, <<Global, Normal>>,
                 <<g, Low>>, <<Global, Low>>>>
        victim(k) == (g + k) % NumGroups
        steal == [i \in 1 .. 3 * (NumGroups - 1) |->
                     <<victim((i - 1) \div 3 + 1), High + ((i - 1) % 3)>>]
    IN  IF Sharded THEN own \o steal ELSE own

Monitored(w) == {GroupOf(w), Global} \X Priorities

WorkerFrame == <<config, pool, stage, route, runs, skipped, pending_tasks, total_completed,
                 in_flight, next_shard, executed, shutdown, phase, post>>

(* worker_loop up to its loop: pin, thread-locals, recorder, start hook.   *)
Start(w) ==
    /\ pc[w] = "start"
    /\ pc' = [pc EXCEPT ![w] = "top"]
    /\ UNCHANGED <<queue, cursor, task, WorkerFrame>>

(* Mutant: a loop that never looks at the shutdown flag.                   *)
TopDeaf(w) ==
    /\ pc[w] = "top"
    /\ pc' = [pc EXCEPT ![w] = IF Custom THEN "scan" ELSE "idle"]
    /\ cursor' = [cursor EXCEPT ![w] = 1]
    /\ UNCHANGED <<queue, task, WorkerFrame>>

(* The shutdown test at the top of the loop; nothing drains the channels.  *)
Top(w) ==
    /\ pc[w] = "top"
    /\ pc' = [pc EXCEPT ![w] = IF shutdown THEN "exited" ELSE IF Custom THEN "scan" ELSE "idle"]
    /\ cursor' = [cursor EXCEPT ![w] = 1]
    /\ UNCHANGED <<queue, task, WorkerFrame>>

(* Mutant: a receive that leaves the job in its channel.                   *)
TakeCopies(w, c, i) ==
    /\ i \in DOMAIN queue[c]
    /\ task' = [task EXCEPT ![w] = queue[c][i]]
    /\ pc' = [pc EXCEPT ![w] = "taken"]
    /\ cursor' = [cursor EXCEPT ![w] = 1]
    /\ UNCHANGED <<queue, WorkerFrame>>

Take(w, c, i) ==
    /\ i \in DOMAIN queue[c]
    /\ task' = [task EXCEPT ![w] = queue[c][i]]
    /\ queue' = [queue EXCEPT ![c] = RemoveAt(@, i)]
    /\ pc' = [pc EXCEPT ![w] = "taken"]
    /\ cursor' = [cursor EXCEPT ![w] = 1]
    /\ UNCHANGED WorkerFrame

(* One pass over the channels, then `spin` more before the worker parks;   *)
(* the shutdown flag is not looked at in between.                          *)
Scan(w) ==
    /\ pc[w] = "scan"
    /\ LET order == ScanOrder(w)
           c == order[((cursor[w] - 1) % Len(order)) + 1]
       IN  IF queue[c] # <<>> THEN Take(w, c, 1)
           ELSE /\ IF cursor[w] < Len(order) * (1 + config.spin)
                   THEN cursor' = [cursor EXCEPT ![w] = @ + 1] /\ UNCHANGED pc
                   ELSE /\ cursor' = [cursor EXCEPT ![w] = 1]
                        /\ pc' = [pc EXCEPT ![w] = "block"]
                /\ UNCHANGED <<queue, task, WorkerFrame>>

(* select! takes from any of the channels it watches, or times out.        *)
Select(w) ==
    /\ pc[w] = "block"
    /\ \E c \in Monitored(w) : Take(w, c, 1)

Timeout(w) ==
    /\ pc[w] = "block"
    /\ pc' = [pc EXCEPT ![w] = "top"]
    /\ UNCHANGED <<queue, cursor, task, WorkerFrame>>

(* External: a Rayon worker picks a queued job, in order when the spawns   *)
(* are FIFO, and any of them when the pool steals.                         *)
RayonTake(w) ==
    /\ pc[w] = "idle"
    /\ IF shutdown
       THEN pc' = [pc EXCEPT ![w] = "exited"] /\ UNCHANGED <<queue, cursor, task, WorkerFrame>>
       ELSE \E i \in DOMAIN queue[<<Global, Normal>>] :
                (config.fifo => i = 1) /\ Take(w, <<Global, Normal>>, i)

(* run_job marks the shard busy; the executor then upgrades its reference. *)
Begin(w) ==
    /\ pc[w] = "taken"
    /\ in_flight' = IF Sharded THEN [in_flight EXCEPT ![GroupOf(w)] = @ + 1] ELSE in_flight
    /\ IF Typed(task[w]) /\ ~Alive
       THEN pc' = [pc EXCEPT ![w] = "ran"] /\ skipped' = skipped \union {task[w]}
       ELSE pc' = [pc EXCEPT ![w] = "run"] /\ UNCHANGED skipped
    /\ UNCHANGED <<config, pool, stage, route, queue, cursor, task, runs, pending_tasks,
                   total_completed, next_shard, executed, shutdown, phase, post>>

(* The job itself.  Nothing catches a panic: it unwinds the worker.  The   *)
(* trampoline goes on with the successor the job kept, whatever workers    *)
(* that node asks for.                                                     *)
Body(w) ==
    /\ pc[w] = "run"
    /\ runs' = [runs EXCEPT ![task[w]] = @ + 1]
    /\ LET panics == config.jobs[task[w]].panics
           next == Keeps(task[w])
       IN  IF ~panics /\ next # 0
           THEN /\ task' = [task EXCEPT ![w] = next]
                /\ stage' = [stage EXCEPT ![next] = "kept"]
                /\ UNCHANGED pc
           ELSE /\ pc' = [pc EXCEPT ![w] = IF panics THEN "dying" ELSE "release"]
                /\ UNCHANGED <<task, stage>>
    /\ UNCHANGED <<config, pool, route, queue, cursor, skipped, pending_tasks,
                   total_completed, in_flight, next_shard, executed, shutdown, phase, post>>

(* The reference goes.  The last one drops the scheduler on this worker,   *)
(* which raises the flag and then tries to join the worker itself.         *)
Release(w) ==
    /\ pc[w] \in {"release", "dying"}
    /\ LET last == ~HeldByOthers(w)
       IN  /\ shutdown' = (shutdown \/ last)
           /\ pc' = [pc EXCEPT ![w] = CASE last /\ Custom -> "selfjoin"
                                        [] ~(last /\ Custom) /\ pc[w] = "dying" -> "dead"
                                        [] OTHER -> "ran"]
    /\ UNCHANGED <<config, pool, stage, route, queue, cursor, task, runs, skipped, pending_tasks,
                   total_completed, in_flight, next_shard, executed, phase, post>>

(* Handles are joined group by group; joining oneself fails and panics.    *)
SelfJoin(w) ==
    /\ pc[w] = "selfjoin"
    /\ \A v \in Workers : (GroupOf(v) < GroupOf(w) \/ (GroupOf(v) = GroupOf(w) /\ v < w))
                            => pc[v] \in {"exited", "dead"}
    /\ pc' = [pc EXCEPT ![w] = "dead"]
    /\ UNCHANGED <<queue, cursor, task, WorkerFrame>>

(* The counters after a job: pending first, completed after it.            *)
Uncount(w) ==
    /\ pc[w] = "ran"
    /\ pending_tasks' = pending_tasks - 1
    /\ executed' = IF Custom THEN executed ELSE [executed EXCEPT ![w] = @ + 1]
    /\ pc' = [pc EXCEPT ![w] = "uncounted"]
    /\ UNCHANGED <<config, pool, stage, route, queue, cursor, task, runs, skipped, total_completed,
                   in_flight, next_shard, shutdown, phase, post>>

Complete(w) ==
    /\ pc[w] = "uncounted"
    /\ total_completed' = total_completed + 1
    /\ in_flight' = IF Sharded THEN [in_flight EXCEPT ![GroupOf(w)] = @ - 1] ELSE in_flight
    /\ task' = [task EXCEPT ![w] = 0]
    /\ pc' = [pc EXCEPT ![w] = "top"]
    /\ UNCHANGED <<config, pool, stage, route, queue, cursor, runs, skipped, pending_tasks,
                   next_shard, executed, shutdown, phase, post>>

-----------------------------------------------------------------------------
(* The main thread.                                                        *)

(* run_impl.  With a time limit, a predicate or a handover listener the    *)
(* main thread polls, and may end the run at any tick; it then schedules   *)
(* the post-nodes.  Without one it only joins the resolution threads,      *)
(* which leave when every frame is complete.                               *)
EndRun ==
    /\ phase = "run"
    /\ IF config.polls THEN phase' = "post"
       ELSE /\ \A j \in Jobs \ Posts : runs[j] > 0
            /\ phase' = "leave"
    /\ UNCHANGED <<config, pool, stage, route, queue, pc, cursor, task, runs, skipped, pending_tasks,
                   total_completed, in_flight, next_shard, executed, shutdown, post>>

(* schedule_post_nodes waits for the results of one post-node before it    *)
(* spawns the next; a body that panicked left no result.                   *)
result_exists(j) == runs[j] > 0 /\ ~config.jobs[j].panics

schedule_post_nodes ==
    /\ phase = "post"
    /\ IF post <= Len(config.posts)
       THEN /\ \A j \in config.posts[post] : result_exists(j)
            /\ post' = post + 1
            /\ UNCHANGED phase
       ELSE phase' = "leave" /\ UNCHANGED post
    /\ UNCHANGED <<config, pool, stage, route, queue, pc, cursor, task, runs, skipped, pending_tasks,
                   total_completed, in_flight, next_shard, executed, shutdown>>

(* The handle is dropped once the spawning threads have been joined.       *)
Drop ==
    /\ phase = "leave"
    /\ \A j \in Jobs : stage[j] \in {"new", "sent", "kept"}
    /\ LET last == ~BoxedInQueue /\ \A w \in Workers : ~(Holds(w) \/ (pc[w] = "taken" /\ ~Typed(task[w])))
       IN  /\ shutdown' = last
           /\ phase' = CASE ~last -> "left"
                         [] last /\ Custom -> "join"
                         [] OTHER -> "gone"
    /\ UNCHANGED <<config, pool, stage, route, queue, pc, cursor, task, runs, skipped, pending_tasks,
                   total_completed, in_flight, next_shard, executed, post>>

Join ==
    /\ phase = "join"
    /\ \A w \in Workers : pc[w] \in {"exited", "dead"}
    /\ phase' = "gone"
    /\ UNCHANGED <<config, pool, stage, route, queue, pc, cursor, task, runs, skipped, pending_tasks,
                   total_completed, in_flight, next_shard, executed, shutdown, post>>

Spawn(j) == Count(j) \/ Route(j) \/ Send(j)

Worker(w) ==
    \/ Start(w) \/ Top(w) \/ Scan(w) \/ Select(w) \/ Timeout(w) \/ RayonTake(w)
    \/ Begin(w) \/ Body(w) \/ Release(w) \/ SelfJoin(w) \/ Uncount(w) \/ Complete(w)

Main == EndRun \/ schedule_post_nodes \/ Drop \/ Join

Next ==
    \/ \E j \in Jobs : Spawn(j)
    \/ \E w \in Workers : Worker(w)
    \/ Main

(* Every thread keeps taking steps; nothing forces the run to end.         *)
Fairness ==
    /\ \A j \in 1 .. MaxJobs : WF_vars(j \in Jobs /\ (Route(j) \/ Send(j) \/ (j \in Posts /\ Count(j))))
    /\ \A w \in 0 .. MaxWorkers - 1 : WF_vars(w \in Workers /\ Worker(w))
    /\ WF_vars(schedule_post_nodes \/ Drop \/ Join)

Spec == Init /\ [][Next]_vars
FairSpec == Spec /\ Fairness

-----------------------------------------------------------------------------
(* Properties.                                                             *)

Waiting(j) == Cardinality({ci \in {<<c, i>> : c \in DOMAIN queue, i \in 1 .. MaxJobs} :
                              ci[2] \in DOMAIN queue[ci[1]] /\ queue[ci[1]][ci[2]] = j})
InHand(j) == Cardinality({w \in Workers : task[w] = j /\ pc[w] \in {"taken", "run"}})

(* A job that was sent, or kept by a worker, is in exactly one place:      *)
(* waiting in one channel, in the hands of one worker, or over; scanning,  *)
(* stealing, select, inline continuation and the teardown neither lose nor *)
(* repeat one.                                                             *)
JobConserved ==
    \A j \in Jobs :
        Waiting(j) + InHand(j) + runs[j] + (IF j \in skipped THEN 1 ELSE 0)
            = IF stage[j] \in {"sent", "kept"} THEN 1 ELSE 0

(* wait_idle: when pending_tasks reads zero every job whose spawn has      *)
(* begun has run to its end (or met a runtime that is gone), and the count *)
(* never drops below zero.                                                 *)
IdleMeansDone ==
    /\ pending_tasks >= 0
    /\ pending_tasks = 0 =>
           \A j \in Jobs : stage[j] = "new" \/ runs[j] = 1 \/ j \in skipped

Outside(w) == UseWorkers(task[w]).kind = "Range" /\ ~contains(UseWorkers(task[w]), w)

(* A job of a node pinned to a range that went through the channels is     *)
(* never received, let alone run, by a worker outside the range, whatever  *)
(* was allocated, shared, stolen or taken from the global pool.  (A        *)
(* successor that a worker keeps for itself is never sent, and nobody      *)
(* looks at its range: it may run anywhere.)                               *)
SpawnedWithinRange ==
    Custom => \A w \in Workers :
        pc[w] \in {"taken", "run"} /\ stage[task[w]] = "sent" => ~Outside(w)

(* Some worker that is still there receives from the job's channel.        *)
Served(j) ==
    \E w \in Workers : /\ pc[w] \notin {"dead", "selfjoin"}
                       /\ \/ ~Custom
                          \/ route[j] \in {GroupOf(w), Global}
                          \/ Sharded

(* A job that was sent runs, unless the pool is torn down first or every   *)
(* worker that could receive it has died of a panic (or was never there).  *)
EveryJobRuns ==
    \A j \in 1 .. MaxJobs :
        (j \in Jobs /\ stage[j] = "sent") ~> (j \in Jobs => runs[j] > 0 \/ shutdown \/ ~Served(j))

(* Once the main thread has let go of the runtime, every worker leaves,    *)
(* whichever thread dropped the last reference; the exception is a boxed   *)
(* job nobody receives, whose reference keeps the pool alive.              *)
TeardownEnds ==
    (phase \in {"join", "left"})
        ~> \/ \A w \in Workers : pc[w] \in {"exited", "dead"}
           \/ \E j \in Jobs : stage[j] = "sent" /\ ~Typed(j) /\ runs[j] = 0 /\ ~Served(j)
=============================================================================
