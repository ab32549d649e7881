------------------------------ MODULE Dataflow ------------------------------
(***************************************************************************)
(* One node of the graph, its predecessors and the frames of one slot: the *)
(* predecessors' instances complete on workers or arrive as packets, every *)
(* completion decrements the node's generational counters, and instances   *)
(* found ready are dispatched and read their arguments                     *)
(* (buffers/node_dep.rs, runtime/successor.rs, batch_resolution.rs,        *)
(* task_execution.rs, arg_resolution.rs, bump_slot_generation).            *)
(*                                                                         *)
(* The node is any of Shapes (see Edges); n.bulk holds the predecessors    *)
(* whose own instances run as bulk tasks.  One action is one access to     *)
(* shared memory, or several that no other thread can tell apart.  Frames  *)
(* end only when no thread resolves a completion of theirs, as             *)
(* FrameLifecycle establishes; they may end early, by eviction.            *)
(***************************************************************************)
EXTENDS Edges, FiniteSets

CONSTANTS
  Shapes,
  Workers,
  ResThreads,
  GenSpace,            \* generations before the tag repeats: 2^32 in the code
  MaxBumps             \* bound on the frames of a behaviour

ASSUME DataflowAssumption ==
  /\ GenSpace \in Nat \ {0} /\ MaxBumps \in Nat
  /\ IsFiniteSet(Workers) /\ Workers # {} /\ Workers \cap ResThreads = {}
  /\ \A m \in Shapes :
       /\ m.factor \in Nat \ {0} /\ m.group_size \in Nat /\ m.cond \in BOOLEAN
       /\ m.args \in Seq([kind : {"res", "dep", "barrier"}, pred : STRING,
                          indexes : Seq(Nat), group_by : Nat])
       /\ \A p \in PredsOf(m) : m.pf[p] \in Nat
       /\ m.net \subseteq PredsOf(m)
       /\ m.bulk \subseteq PredsOf(m) \ m.net /\ (m.cond => m.bulk = {})

VARIABLES
  n,                   \* the node
  inline_continuation, \* the configuration's flag
  bumps,               \* times the slot's generation was bumped
  remaining_deps,      \* per group, (gen, val)
  instances_sent,      \* per instance, (gen, val)
  cond_instances_to_spawn,
  fanout_bulk_arrived,
  pending_cond_tasks,
  node_results,        \* cells <<p, i>> that are stored
  queue,               \* jobs in the scheduler
  batch_queue,         \* completions for the resolution threads
  pc,
  job,                 \* the job a worker runs, or the completion a thread resolves
  ops,                 \* decrements of the completion still to be made
  claims,              \* instances whose sent flag is still to be tried
  ready,
  evaluated,           \* history: how often a condition of an instance was evaluated
  log                  \* history: of every instance, how often it was dispatched,
                       \* the cells it reads and those not stored by then

counters == <<remaining_deps, instances_sent, cond_instances_to_spawn,
              fanout_bulk_arrived, pending_cond_tasks>>
queues == <<queue, batch_queue>>
locals == <<pc, job, ops, claims, ready>>
history == <<evaluated, log>>
setup == <<n, inline_continuation>>
vars == <<setup, bumps, counters, node_results, queues, locals, history>>

Threads == Workers \cup ResThreads
entry == Entry(n)
slot_gen == bumps % GenSpace
Instances(m) == 0 .. m.factor - 1

NoLog(m) == [i \in Instances(m) |-> [times |-> 0, reads |-> {}, missing |-> {}]]

gen_pack(gen, val) == [gen |-> gen, val |-> val]
Value(packed, init) == IF packed.gen = slot_gen THEN packed.val ELSE init
saturating_sub(a, b) == IF b > a THEN 0 ELSE a - b

\* `total` instances from `start` in `parts` runs, the longer ones first.
Chunks(start, total, parts) ==
  LET base == total \div parts
      extra == total % parts
      count(c) == base + (IF c < extra THEN 1 ELSE 0)
      offset(c) == c * base + Min({c, extra})
  IN  {<<start + offset(c), count(c)>> : c \in 0 .. parts - 1}

\* trigger: the predecessor index a job of the node was released with.
NoJob == [pred |-> "none", trigger |-> 0, start |-> 0, count |-> 0]
PredJob(p, run) == [NoJob EXCEPT !.pred = p, !.start = run[1], !.count = run[2]]
SuccJob(run, pred_index) ==
  [NoJob EXCEPT !.trigger = pred_index, !.start = run[1], !.count = run[2]]
IsPred(j) == j.pred # "none"
CellsOf(j) == {<<j.pred, i>> : i \in j.start .. j.start + j.count - 1}

\* The predecessors' instances as they are handed to the workers.
PredJobs(m) ==
  UNION {{PredJob(p, run) :
            run \in IF p \in m.bulk THEN Chunks(0, m.pf[p], Min({m.pf[p], Cardinality(Workers)}))
                    ELSE {<<i, 1>> : i \in 0 .. m.pf[p] - 1}} :
         p \in PredsOf(m) \ m.net}

InitCounters(m, gen) ==
  /\ remaining_deps = [g \in 0 .. Entry(m).num_groups - 1 |->
                         gen_pack(gen, Entry(m).deps_per_group)]
  /\ instances_sent = [i \in Instances(m) |-> gen_pack(gen, 0)]
  /\ cond_instances_to_spawn = gen_pack(gen, IF m.cond THEN m.factor ELSE 0)
  /\ fanout_bulk_arrived = gen_pack(gen, 0)

Init ==
  /\ n \in Shapes /\ inline_continuation \in BOOLEAN
  /\ bumps = 0
  /\ InitCounters(n, 0)
  /\ pending_cond_tasks = (IF n.cond THEN n.factor ELSE 0)
  /\ node_results = {}
  /\ queue = PredJobs(n)
  /\ batch_queue = {}
  /\ pc = [t \in Threads |-> "idle"]
  /\ job = [t \in Threads |-> NoJob]
  /\ ops = [t \in Threads |-> {}]
  /\ claims = [t \in Threads |-> {}]
  /\ ready = [t \in Threads |-> <<>>]
  /\ evaluated = [i \in Instances(n) |-> 0]
  /\ log = NoLog(n)

-----------------------------------------------------------------------------
(* decrement_and_collect_ready: the decrements a completion amounts to *)

\* [lo, hi) of a completion inside the filter of an edge.
filter_overlap(edge, start, count) ==
  {i \in start .. start + count - 1 : passes_filter(edge, i)}

NoInstance == -1
Specific(edge, i) ==
  IF edge.offset = NoOffset THEN NoInstance ELSE one_to_one_succ_idx(n, edge, i)

\* One call of decrease_and_get_ready_into, for the cell (or the run from it), is one
\* decrement per group.
Op(cell, group, count, specific) ==
  [cell |-> cell, group |-> group, count |-> count, specific |-> specific]
Calls(cell, group, count, specific) ==
  {Op(cell, g, count, specific) :
     g \in {h \in 0 .. entry.num_groups - 1 : group \in {AllGroups, h}}}

\* The order in which the decrements of a completion are made.
Precedes(o, p) == o.cell < p.cell \/ (o.cell = p.cell /\ o.group < p.group)

\* Mutant: an overlapping run is decremented as a whole.
DecrementsWhole(c) ==
  LET edge == Edge(n, c.pred)
  IN  IF filter_overlap(edge, c.start, c.count) = {} THEN {}
      ELSE Calls(c.start,
                 pred_group(edge, Max({c.start} \cup {edge.filter[k] : k \in DOMAIN edge.filter \cap {1}})),
                 c.count, NoInstance)

Decrements(c) ==
  LET edge == Edge(n, c.pred)
  IN  IF edge.filter = NoFilter
      THEN Calls(c.start, pred_group(edge, c.start), c.count,
                 IF c.count > 1 THEN NoInstance ELSE Specific(edge, c.start))
      ELSE UNION {Calls(i, pred_group(edge, i), 1, Specific(edge, i)) :
                    i \in filter_overlap(edge, c.start, c.count)}

\* The batch path tests the first cell of a run against the filter, and drops
\* the completion of a conditional node's predecessor when all instances of
\* the node have been spawned.
BatchSkips(c) ==
  \/ ~passes_filter(Edge(n, c.pred), c.start)
  \/ n.cond /\ Value(cond_instances_to_spawn, n.factor) = 0

\* Thread t resolves completion c.
Resolve(t, c, decrements) ==
  /\ job' = [job EXCEPT ![t] = c]
  /\ ops' = [ops EXCEPT ![t] = decrements]
  /\ pc' = [pc EXCEPT ![t] = "resolve"]
  /\ UNCHANGED <<claims, ready>>

-----------------------------------------------------------------------------
(* Completions *)

Take(w) ==
  /\ pc[w] = "idle"
  /\ \E j \in queue :
       /\ queue' = queue \ {j}
       /\ job' = [job EXCEPT ![w] = j]
  /\ pc' = [pc EXCEPT ![w] = "run"]
  /\ UNCHANGED <<setup, bumps, counters, node_results, batch_queue, ops, claims, ready, history>>

\* execute_task on a predecessor: the results are stored, then the worker
\* resolves the completion itself, or queues it when the node is conditional.
RunPredecessor(w) ==
  /\ pc[w] = "run" /\ IsPred(job[w])
  /\ node_results' = node_results \cup CellsOf(job[w])
  /\ \/ /\ ~n.cond
        /\ Resolve(w, job[w], Decrements(job[w]))
        /\ UNCHANGED batch_queue
     \/ /\ n.cond
        /\ batch_queue' = batch_queue \cup {job[w]}
        /\ pc' = [pc EXCEPT ![w] = "idle"]
        /\ job' = [job EXCEPT ![w] = NoJob]
        /\ UNCHANGED <<ops, claims, ready>>
  /\ UNCHANGED <<setup, bumps, counters, queue, history>>

\* process_batch_inner on a queued completion.
ResolveQueued(r) ==
  /\ pc[r] = "idle"
  /\ \E c \in batch_queue :
       /\ batch_queue' = batch_queue \ {c}
       /\ Resolve(r, c, IF BatchSkips(c) THEN {} ELSE Decrements(c))
  /\ UNCHANGED <<setup, bumps, counters, node_results, queue, history>>

\* Packets that may be resolved as one run.
coalesces == \A p \in n.net : ~n.cond /\ Edge(n, p).offset = NoOffset

\* A run of packets that were drained together: coalesce_network_batch stores
\* their payloads and process_batch_inner resolves them as one completion.
Ingest(r) ==
  /\ pc[r] = "idle"
  /\ \E p \in n.net : \E start \in 0 .. n.pf[p] - 1 : \E count \in 1 .. n.pf[p] - start :
       LET c == PredJob(p, <<start, count>>)
       IN  /\ count = 1 \/ coalesces
           /\ CellsOf(c) \cap node_results = {}
           /\ node_results' = node_results \cup CellsOf(c)
           /\ Resolve(r, c, IF BatchSkips(c) THEN {} ELSE Decrements(c))
  /\ UNCHANGED <<setup, bumps, counters, queues, history>>

-----------------------------------------------------------------------------
(* NodeDependencyEntry::decrease_and_get_ready_into *)

threshold_for_instance_in_group(idx_in_group) ==
  (entry.group_size - idx_in_group - 1) * entry.deps_per_instance

\* Mutant: a barrier fires one dependency early.
CandidatesEarly(op, old, left) ==
  LET group == GroupInstances(n, entry, op.group)
      start == op.group * entry.group_size
  IN  CASE has_barrier(n) -> IF old > 1 /\ left <= 1 THEN group ELSE {}
        [] ~has_barrier(n) /\ op.specific # NoInstance -> {op.specific} \cap Instances(n)
        [] OTHER -> {i \in group : left <= threshold_for_instance_in_group(i - start)}

\* The instances the decrement op may make ready, when it leaves `left` of `old`.
Candidates(op, old, left) ==
  LET group == GroupInstances(n, entry, op.group)
      start == op.group * entry.group_size
  IN  CASE has_barrier(n) -> IF old > 0 /\ left = 0 THEN group ELSE {}
        [] ~has_barrier(n) /\ op.specific # NoInstance -> {op.specific} \cap Instances(n)
        [] OTHER -> {i \in group : left <= threshold_for_instance_in_group(i - start)}

\* A run of instances, as the loops over a group push them.
Run(found) == [k \in 1 .. Cardinality(found) |-> Min(found) + k - 1]

\* fetch_update with lazy reinitialisation.  A barrier's one 0-transition
\* publishes the group without looking at the sent flags, unless the node is
\* conditional.
Decrement(t) ==
  /\ pc[t] = "resolve" /\ claims[t] = {}
  /\ \E op \in ops[t] :
       LET old == Value(remaining_deps[op.group], entry.deps_per_group)
           left == saturating_sub(old, op.count)
           found == Candidates(op, old, left)
       IN  /\ \A o \in ops[t] \ {op} : Precedes(op, o)
           /\ ops' = [ops EXCEPT ![t] = @ \ {op}]
           /\ remaining_deps' = [remaining_deps EXCEPT ![op.group] = gen_pack(slot_gen, left)]
           /\ IF has_barrier(n) /\ ~n.cond
              THEN ready' = [ready EXCEPT ![t] = @ \o Run(found)] /\ UNCHANGED claims
              ELSE claims' = [claims EXCEPT ![t] = found] /\ UNCHANGED ready
  /\ UNCHANGED <<setup, bumps, instances_sent, cond_instances_to_spawn, fanout_bulk_arrived,
                 pending_cond_tasks, node_results, queues, pc, job, history>>

\* Mutant: the flag is set without a look at its old value.
ClaimBlind(t) ==
  /\ pc[t] = "resolve" /\ claims[t] # {}
  /\ instances_sent' = [instances_sent EXCEPT ![Min(claims[t])] = gen_pack(slot_gen, 1)]
  /\ ready' = [ready EXCEPT ![t] = Append(@, Min(claims[t]))]
  /\ claims' = [claims EXCEPT ![t] = @ \ {Min(@)}]
  /\ UNCHANGED <<setup, bumps, remaining_deps, cond_instances_to_spawn, fanout_bulk_arrived,
                 pending_cond_tasks, node_results, queues, pc, job, ops, history>>

\* The compare-exchange loop on one sent flag.
Claim(t) ==
  /\ pc[t] = "resolve" /\ claims[t] # {}
  /\ LET i == Min(claims[t])
     IN  IF Value(instances_sent[i], 0) = 1
         THEN UNCHANGED <<instances_sent, ready>>
         ELSE /\ instances_sent' = [instances_sent EXCEPT ![i] = gen_pack(slot_gen, 1)]
              /\ ready' = [ready EXCEPT ![t] = Append(@, i)]
  /\ claims' = [claims EXCEPT ![t] = @ \ {Min(@)}]
  /\ UNCHANGED <<setup, bumps, remaining_deps, cond_instances_to_spawn, fanout_bulk_arrived,
                 pending_cond_tasks, node_results, queues, pc, job, ops, history>>

-----------------------------------------------------------------------------
(* Dispatch *)

Collected(t) == pc[t] = "resolve" /\ claims[t] = {} /\ ops[t] = {}

\* The predecessor index a task of a job resolves instance i with: a bulk task
\* uses the instance's own, a single one the index that triggered it.
TriggerOf(j, i) == IF j.count > 1 THEN i ELSE j.trigger

JobInstances(j) == j.start .. j.start + j.count - 1

Logged(jobs) ==
  log' = [i \in Instances(n) |->
    LET mine == {j \in jobs : i \in JobInstances(j)}
        reads == UNION {Reads(n, i, TriggerOf(j, i)) : j \in mine}
    IN  [times |-> log[i].times + Cardinality(mine),
         reads |-> log[i].reads \cup reads,
         missing |-> log[i].missing \cup (reads \ node_results)]]

\* Jobs go to the scheduler; a worker keeps one for itself when it may.
Send(t, jobs) ==
  /\ Logged(jobs)
  /\ ready' = [ready EXCEPT ![t] = <<>>]
  /\ \/ /\ inline_continuation /\ t \in Workers /\ jobs # {}
        /\ \E j \in jobs :
             /\ \A k \in jobs : k.start <= j.start
             /\ queue' = queue \cup (jobs \ {j})
             /\ job' = [job EXCEPT ![t] = j]
        /\ pc' = [pc EXCEPT ![t] = "run"]
     \/ /\ ~inline_continuation \/ t \notin Workers \/ jobs = {}
        /\ queue' = queue \cup jobs
        /\ job' = [job EXCEPT ![t] = NoJob]
        /\ pc' = [pc EXCEPT ![t] = "idle"]

fanout_bulk_eligible ==
  is_fanout_bulk(n) /\ (~inline_continuation \/ Cardinality(Workers) = 1)

\* push_ready_chunked on the worker path, one job per instance on the batch path.
push_ready_chunked(t) ==
  LET r == ready[t]
      contiguous == \A k \in DOMAIN r : r[k] = r[1] + k - 1
      workers == Cardinality(Workers)
  IN  IF t \in Workers /\ contiguous /\ Len(r) > workers
      THEN {SuccJob(run, job[t].start) : run \in Chunks(r[1], Len(r), workers)}
      ELSE {SuccJob(<<i, 1>>, job[t].start) : i \in Range(r)}

Dispatch(t) ==
  /\ Collected(t)
  /\ ~n.cond
  /\ ~fanout_bulk_eligible \/ ready[t] = <<>>
  /\ Send(t, push_ready_chunked(t))
  /\ UNCHANGED <<setup, bumps, counters, node_results, batch_queue, ops, claims, evaluated>>

\* fanout_bulk_increment; the arrival that completes the factor sends them all.
DispatchFanout(t) ==
  /\ Collected(t)
  /\ fanout_bulk_eligible /\ ready[t] # <<>>
  /\ LET arrived == Value(fanout_bulk_arrived, 0) + Len(ready[t])
     IN  /\ fanout_bulk_arrived' = gen_pack(slot_gen, arrived)
         /\ Send(t, IF arrived >= n.factor
                    THEN {SuccJob(run, job[t].start) :
                            run \in Chunks(0, n.factor, Min({Cardinality(Workers), n.factor}))}
                    ELSE {})
  /\ UNCHANGED <<setup, bumps, remaining_deps, instances_sent, cond_instances_to_spawn,
                 pending_cond_tasks, node_results, batch_queue, ops, claims, evaluated>>

\* dispatch_condition_successor on the first ready instance; the outcome of
\* the condition is the plugin's.
ConditionPasses(t) ==
  /\ Collected(t) /\ n.cond /\ ready[t] # <<>>
  /\ LET i == Head(ready[t])
     IN  /\ evaluated' = [evaluated EXCEPT ![i] = @ + 1]
         /\ Logged({SuccJob(<<i, 1>>, job[t].start)})
         /\ queue' = queue \cup {SuccJob(<<i, 1>>, job[t].start)}
  /\ cond_instances_to_spawn' =
       gen_pack(slot_gen, saturating_sub(Value(cond_instances_to_spawn, n.factor), 1))
  /\ ready' = [ready EXCEPT ![t] = Tail(@)]
  /\ UNCHANGED <<setup, bumps, remaining_deps, instances_sent, fanout_bulk_arrived,
                 pending_cond_tasks, node_results, batch_queue, pc, job, ops, claims>>

\* pending_cond_tasks is discharged, the dependency is reopened by one ...
ConditionFails(t) ==
  /\ Collected(t) /\ n.cond /\ ready[t] # <<>>
  /\ LET i == Head(ready[t])
         g == Min({i \div entry.group_size, entry.num_groups - 1})
         old == Value(remaining_deps[g], entry.deps_per_group)
     IN  /\ evaluated' = [evaluated EXCEPT ![i] = @ + 1]
         /\ remaining_deps' = [remaining_deps EXCEPT ![g] = gen_pack(slot_gen, old + 1)]
  /\ pending_cond_tasks' = pending_cond_tasks - 1
  /\ pc' = [pc EXCEPT ![t] = "reset_sent"]
  /\ UNCHANGED <<setup, bumps, instances_sent, cond_instances_to_spawn, fanout_bulk_arrived,
                 node_results, queues, job, ops, claims, ready, log>>

\* ... and the sent flag is cleared.
ResetSent(t) ==
  /\ pc[t] = "reset_sent"
  /\ instances_sent' = [instances_sent EXCEPT ![Head(ready[t])] = gen_pack(slot_gen, 0)]
  /\ ready' = [ready EXCEPT ![t] = Tail(@)]
  /\ pc' = [pc EXCEPT ![t] = "resolve"]
  /\ UNCHANGED <<setup, bumps, remaining_deps, cond_instances_to_spawn, fanout_bulk_arrived,
                 pending_cond_tasks, node_results, queues, job, ops, claims, history>>

ConditionsDone(t) ==
  /\ Collected(t) /\ n.cond /\ ready[t] = <<>>
  /\ pc' = [pc EXCEPT ![t] = "idle"]
  /\ job' = [job EXCEPT ![t] = NoJob]
  /\ UNCHANGED <<setup, bumps, counters, node_results, queues, ops, claims, ready, history>>

-----------------------------------------------------------------------------
(* The node's own tasks *)

JobReads(j) ==
  UNION {Reads(n, i, TriggerOf(j, i)) : i \in JobInstances(j)}

\* collect_res_from_cache spins until the results are there (spin_wait_for_result).
RunSuccessor(w) ==
  /\ pc[w] = "run" /\ ~IsPred(job[w])
  /\ JobReads(job[w]) \subseteq node_results
  /\ pending_cond_tasks' = pending_cond_tasks - (IF n.cond THEN job[w].count ELSE 0)
  /\ pc' = [pc EXCEPT ![w] = "idle"]
  /\ job' = [job EXCEPT ![w] = NoJob]
  /\ UNCHANGED <<setup, bumps, remaining_deps, instances_sent, cond_instances_to_spawn,
                 fanout_bulk_arrived, node_results, queues, ops, claims, ready, history>>

Quiet == \A t \in Threads : pc[t] = "idle" \/ (pc[t] = "run" /\ ~IsPred(job[t]))

\* Mutant: the tags are not swept when they wrap.
sweep_nothing ==
  UNCHANGED <<remaining_deps, instances_sent, cond_instances_to_spawn, fanout_bulk_arrived>>

\* reset_slot_epoch and the two slot counters: every tag is rewritten.
sweep_slot_generational_entries ==
  /\ remaining_deps' = [g \in DOMAIN remaining_deps |-> gen_pack(0, entry.deps_per_group)]
  /\ instances_sent' = [i \in Instances(n) |-> gen_pack(0, 0)]
  /\ cond_instances_to_spawn' = gen_pack(0, IF n.cond THEN n.factor ELSE 0)
  /\ fanout_bulk_arrived' = gen_pack(0, 0)

\* The frame ends, completed or evicted, and the next one starts:
\* bump_slot_generation.  Tasks of the old frame are dropped as stale.
NextFrame ==
  /\ Quiet
  /\ bumps < MaxBumps
  /\ bumps' = bumps + 1
  /\ IF bumps % GenSpace = GenSpace - 1 THEN sweep_slot_generational_entries
     ELSE UNCHANGED <<remaining_deps, instances_sent, cond_instances_to_spawn,
                      fanout_bulk_arrived>>
  /\ pending_cond_tasks' = (IF n.cond THEN n.factor ELSE 0)
  /\ node_results' = {}
  /\ queue' = PredJobs(n)
  /\ batch_queue' = {}
  /\ pc' = [t \in Threads |-> "idle"]
  /\ job' = [t \in Threads |-> NoJob]
  /\ evaluated' = [i \in Instances(n) |-> 0]
  /\ log' = NoLog(n)
  /\ UNCHANGED <<setup, ops, claims, ready>>

Next ==
  \/ \E w \in Workers : Take(w) \/ RunPredecessor(w) \/ RunSuccessor(w)
  \/ \E r \in ResThreads : ResolveQueued(r) \/ Ingest(r)
  \/ \E t \in Threads :
       \/ Decrement(t) \/ Claim(t) \/ Dispatch(t) \/ DispatchFanout(t)
       \/ ConditionPasses(t) \/ ConditionFails(t) \/ ResetSent(t) \/ ConditionsDone(t)
  \/ NextFrame

Spec == Init /\ [][Next]_vars

-----------------------------------------------------------------------------
(* Properties *)

AllCells == UNION {{<<p, i>> : i \in 0 .. n.pf[p] - 1} : p \in PredsOf(n)}
Settled ==
  /\ node_results = AllCells /\ batch_queue = {}
  /\ \A t \in Threads : pc[t] \notin {"resolve", "reset_sent"}

\* An instance is dispatched at most once in a frame, whatever tags earlier
\* frames left in its counters and sent flags, the generation wrap included.
FiresOnce == \A i \in Instances(n) : log[i].times <= 1

\* The instances of a conditional node are released by the number of
\* completions (threshold_for_instance_in_group), not each by its own.
OrdinalCondition ==
  n.cond /\ ~has_barrier(n) /\ \E p \in PredsOf(n) : Edge(n, p).offset = NoOffset

\* When every cell of every predecessor has been resolved, every instance has
\* been dispatched, or its condition evaluated: the counts of
\* dependency_count_vec are what the edges of the successor arena deliver.
\* OrdinalCondition is excepted: there the count that a failed condition
\* reopens is the next instance's.
EveryInstanceFires ==
  Settled /\ ~OrdinalCondition =>
    \A i \in Instances(n) : log[i].times + evaluated[i] > 0

\* dispatch_condition_successor: "in a non-loop DAG no future trigger can fire"
\* an instance whose condition failed.  With OrdinalCondition one can: the count
\* it reopens lets the next completion evaluate the same instance again.
ConditionOnce == \A i \in Instances(n) : evaluated[i] <= 1

\* A failed condition reopens the count and the sent flag, but outside
\* OrdinalCondition no later decrement evaluates it again, so that
\* pending_cond_tasks is discharged once per instance.
ConditionDischargedOnce ==
  ~OrdinalCondition => ConditionOnce /\ pending_cond_tasks >= 0

\* The cells argument a declares for instance i.
DeclaredCells(a, i) ==
  IF Len(a.indexes) = n.factor /\ n.factor > 1 THEN {a.indexes[i + 1] % n.pf[a.pred]}
  ELSE IF Len(a.indexes) = 1 /\ n.group_size # None
       THEN {single_index_dep_idx(n, a, i)}
       ELSE {(i + k) % n.pf[a.pred] : k \in Range(a.indexes)}

\* However an instance was released - one-to-one, by a barrier another
\* predecessor emptied, or as part of a bulk task - it reads the cells its
\* arguments declare.
ReadsDeclaredCells ==
  \A i \in Instances(n) : log[i].times > 0 =>
    log[i].reads = UNION {{<<a.pred, c>> : c \in DeclaredCells(a, i)} :
                            a \in {b \in Arg(n) : b.kind = "res"}}

\* The groups dependency_count_vec multiplies by are those the counter is split
\* into, when a scattered list makes a grouped barrier count for all groups.
\* They are not when the node has no group_size, and then a group fires early.
GroupsCounted ==
  \A p \in PredsOf(n) :
    (has_scattered_per_instance_res(n, p) /\ \E a \in BarriersOn(n, p) : a.group_by # None)
      => num_groups(n) = entry.num_groups

\* per_instance_dep_idx: behind a barrier "the shared counter cannot reach zero
\* until every declared cell on every predecessor has completed".  A node that
\* has a barrier over GroupsCounted, or one one-to-one predecessor completing
\* cell by cell, never finds a result missing.
ReadsStored ==
  \/ has_barrier(n) /\ GroupsCounted
  \/ \E p \in PredsOf(n) : PredsOf(n) = {p} /\ Edge(n, p).offset # NoOffset /\ n.bulk = {}
  => \A i \in Instances(n) : log[i].missing = {}
=============================================================================
