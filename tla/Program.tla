------------------------------ MODULE Program ------------------------------
(***************************************************************************)
(* The process, from its command line to its exit (bin/main.rs,            *)
(* TomiiRtBuilder::build and run_impl in runtime/mod.rs): the plugin is    *)
(* loaded, the graph file parsed and compiled, the scheduler and the       *)
(* runtime built, the frames served, the statistics written and the        *)
(* helper threads joined.  The frames are served by workers that build the *)
(* arguments of every task (ArgBuffer) and report its times and records    *)
(* (Telemetry).                                                            *)
(*                                                                         *)
(* Which instance of a predecessor releases which instance of a node, and  *)
(* when, is what Dataflow is about; here an instance may start as soon as  *)
(* one predecessor instance that can release it has ended.  The slots hand *)
(* over from frame to frame as in SlotProtocol, in one step.               *)
(***************************************************************************)
EXTENDS ArgBuffer, Telemetry

CONSTANTS
  CommandLines,         \* the command lines, with the files they name and the machine
  AbiVersion            \* the plugin ABI this binary was built with

\* The numbers of a command line are usizes, and so are the factors of the nodes.
ASSUME ProgramAssumption ==
  \A a \in CommandLines :
    /\ a.cores \in Nat /\ a.core_offset \in Nat /\ a.workers \in Nat
    /\ a.system_threads \in Nat /\ a.receiver_threads \in Nat
    /\ a.slots \in Nat /\ a.max_frames \in Nat /\ a.record \in BOOLEAN
    /\ LET g == from_json_str(a.file, a.workers)
       IN  g # Refused => \A id \in 0 .. Len(g.nodes) - 1 :
                            g.nodes[id + 1].name \in STRING /\ g.nodes[id + 1].factor \in Nat

VARIABLES
  args,                 \* the command line of this process
  phase,                \* how far main is
  graph,
  config,               \* RuntimeConfig as build leaves it, with the cores of the threads
  clock,
  slot,                 \* per slot: the frame it serves and the tasks of it by progress
  served,               \* per slot: the frames it has served, in order
  worker,               \* per worker: what it is doing
  completed,            \* frame_complete_counter
  next_frame,
  stats, report, csv,   \* what was written: <<>> or the one value
  submitted             \* not in the code: the records submitted before the flag

procVars == <<args, phase, graph, config, clock, slot, served, worker, completed, next_frame,
              stats, report, csv, submitted>>
vars == <<procVars, argVars, teleVars>>

NoGraph == EmptyGraph
Free == [frame |-> -1, state |-> "free", todo |-> {}, done |-> {}]
Idle == [state |-> "idle", slot |-> 0, frame |-> 0, id |-> 0, chunk |-> {}, left |-> <<>>,
         since |-> NoTime]

Slots == DOMAIN slot
Workers == DOMAIN worker

Init ==
  /\ args \in CommandLines
  /\ phase = "registry"
  /\ graph = NoGraph /\ config = <<>>
  /\ clock = 0
  /\ slot = <<>> /\ served = <<>> /\ worker = <<>>
  /\ completed = 0 /\ next_frame = 0
  /\ stats = <<>> /\ report = NoReport /\ csv = <<>> /\ submitted = {}
  /\ registry = <<>> /\ node_cache = <<>> /\ calls = <<>>
  /\ templates = <<>>
  /\ time_buffer = TimeBuffer_new(0, 0)
  /\ requests = <<>> /\ controller = "run" /\ responses = {}
  /\ recorder = AsyncRecorder_new(0)

-----------------------------------------------------------------------------
(* main up to run_graph *)

\* An exit(1) and a panic of main end the process alike.
Proceed(ok, next) == phase' = IF ok THEN next ELSE "failed"

InitRegistry ==
  LET table == load_table(args.plugin, AbiVersion)
  IN  /\ phase = "registry"
      /\ Proceed(table # Refused, "load")
      /\ registry' = IF table = Refused THEN <<>> ELSE table.map
      /\ UNCHANGED <<args, graph, config, clock, slot, served, worker, completed, next_frame,
                     stats, report, csv, submitted, node_cache, templates, calls, teleVars>>

LoadGraph ==
  LET parsed == from_json_str(args.file, args.workers)
  IN  /\ phase = "load"
      /\ Proceed(parsed # Refused /\ args.strategy = "multi-slot-batch", "scheduler")
      /\ graph' = IF parsed = Refused THEN NoGraph ELSE parsed
      /\ UNCHANGED <<args, config, clock, slot, served, worker, completed, next_frame,
                     stats, report, csv, submitted, argVars, teleVars>>

-----------------------------------------------------------------------------
(* run_graph: recorder, scheduler, compile, build *)

receiver_threads == IF graph.net = <<>> THEN 0 ELSE args.receiver_threads
worker_specs == {n.use_workers : n \in Range(graph.nodes \o graph.post_nodes)} \ {NoSpec}

CreateScheduler ==
  LET wanted == args.system_threads + receiver_threads + args.workers
      alloc == allocate_cores(args.cores, args.core_offset, args.system_threads,
                              receiver_threads, args.workers)
  IN  /\ phase = "scheduler"
      /\ Proceed(args.cores >= 2 /\ RangesFit(worker_specs, args.workers), "compile")
      /\ config' = alloc
      /\ recorder' = AsyncRecorder_new(IF args.record THEN wanted ELSE 0)
      /\ UNCHANGED <<args, graph, clock, slot, served, worker, completed, next_frame,
                     stats, report, csv, submitted, argVars, time_buffer, requests, controller, responses>>

Objects ==
  [x \in {o.name : o \in Range(args.file.inits)} |->
     (CHOOSE o \in Range(args.file.inits) : o.name = x).variants]

Compile ==
  /\ phase = "compile"
  /\ Proceed(KernelsKnown(graph), "build")
  /\ node_cache' = IF KernelsKnown(graph) THEN build_node_cache(graph, Objects) ELSE <<>>
  /\ UNCHANGED <<args, graph, config, clock, slot, served, worker, completed, next_frame,
                 stats, report, csv, submitted, registry, templates, calls, teleVars>>

check_receiver_threads == graph.net = <<>> \/ receiver_threads > 0

MAX_SLOTS == 64
slots_used == Least(args.slots, args.max_frames)

timing_collection_enabled == args.timing \/ args.report

Build ==
  LET ok == /\ slots_used \in 1 .. MAX_SLOTS
            /\ args.batch_queue_capacity > 0
            /\ check_receiver_threads
      ids == 0 .. (IF ok THEN slots_used ELSE 0) - 1
  IN  /\ phase = "build"
      /\ Proceed(ok, "start")
      /\ slot' = [s \in ids |-> Free]
      /\ served' = [s \in ids |-> <<>>]
      /\ worker' = [w \in 0 .. config.workers - 1 |-> Idle]
      /\ templates' = [w \in 0 .. config.workers - 1 |-> [id \in DOMAIN node_cache |-> <<>>]]
      /\ time_buffer' = IF ok /\ timing_collection_enabled
                        THEN TimeBuffer_new(slots_used + config.sys, config.sys)
                        ELSE time_buffer
      /\ UNCHANGED <<args, graph, config, clock, completed, next_frame, stats, report, csv, submitted,
                     registry, node_cache, calls, requests, controller, responses, recorder>>

-----------------------------------------------------------------------------
(* run_impl and the threads it starts *)

Tick == clock' = clock + 1

StartRun ==
  /\ phase = "start"
  /\ phase' = "run"
  /\ Tick
  /\ send([t \in 1 .. config.sys |-> Start(slots_used + t - 1, clock)])
  /\ UNCHANGED <<args, graph, config, slot, served, worker, completed, next_frame,
                 stats, report, csv, submitted, argVars, time_buffer, controller, responses, recorder>>

\* Every instance of every node; packets are not tasks.
FrameTasks ==
  UNION {{<<id, i>> : i \in 0 .. graph.nodes[id + 1].factor - 1} :
         id \in {x \in DOMAIN node_cache : ~IsNetwork(graph.nodes[x + 1])}}

\* A resolution thread gives a slot the next frame and times its own work.
AssignFrame(s) ==
  /\ phase = "run" /\ slot[s] = Free /\ next_frame < args.max_frames
  /\ slot' = [slot EXCEPT ![s] = [frame |-> next_frame, state |-> "open",
                                  todo |-> FrameTasks, done |-> {}]]
  /\ served' = [served EXCEPT ![s] = Append(@, next_frame)]
  /\ next_frame' = next_frame + 1
  /\ Tick
  /\ send(<<Start(s, clock),
            Add(slots_used, [name |-> "Slot Assignment", worker |-> NoWorker, took |-> 1,
                             task |-> <<next_frame>>])>>)
  /\ UNCHANGED <<args, phase, graph, config, worker, completed, stats, report, csv, submitted,
                 argVars, time_buffer, controller, responses, recorder>>

core_of(w) == config.worker_start + w
channel_index(w) == core_of(w) - config.sys_start

should_record_slot(s) == args.record_frame = -1 \/ args.record_frame = slot[s].frame

\* The instances of predecessors whose end can release instance i of node id.
Releases(s, id, i) ==
  LET n == node_cache[id].edges
  IN  IF PredsOf(n) = {} THEN {0}
      ELSE UNION {LET e == Edge(n, p)
                  IN  {j \in 0 .. n.pf[p] - 1 :
                         /\ IsNetwork(graph.nodes[p + 1]) \/ <<p, j>> \in slot[s].done
                         /\ passes_filter(e, j)
                         /\ e.offset # NoOffset => one_to_one_succ_idx(n, e, j) = i} :
                  p \in PredsOf(n)}

ExecRecord(s, id, i) == [kind |-> "exec", frame |-> slot[s].frame, id |-> id, index |-> i]
JobRecord(me) == [kind |-> "job", frame |-> me.frame, id |-> me.id, index |-> Min(me.chunk)]

Submit(w, record) ==
  /\ recorder' = submit_record(recorder, channel_index(w), record)
  /\ submitted' = IF recorder.shutdown THEN submitted ELSE submitted \cup {record}

\* execute_task up to the first kernel.  `left` are the instances to be timed.
Begin(w, s, id, chunk, left) ==
  /\ phase = "run"
  /\ worker[w] = Idle
  /\ slot[s].state = "open"
  /\ slot' = [slot EXCEPT ![s].todo = @ \ {<<id, i>> : i \in chunk}]
  /\ worker' = [worker EXCEPT ![w] = [state |-> "task", slot |-> s, frame |-> slot[s].frame,
                                      id |-> id, chunk |-> chunk, left |-> left,
                                      since |-> IF timing_on THEN clock ELSE NoTime]]
  /\ IF timing_on THEN Tick ELSE UNCHANGED clock
  /\ UNCHANGED <<args, phase, graph, config, served, completed, next_frame, stats, report, csv,
                 time_buffer, requests, controller, responses>>

BeginTask(w, s, id, i) ==
  /\ \E pred_index \in Releases(s, id, i) : execute_single_task(w, graph, id, i, pred_index)
  /\ Begin(w, s, id, {i}, <<i>>)
  /\ IF args.record /\ should_record_slot(s) THEN Submit(w, ExecRecord(s, id, i))
     ELSE UNCHANGED <<recorder, submitted>>

\* Instances released together, by a barrier or along a fan-out, are one task.
\* A bulk kernel is not timed.
BeginBulk(w, s, id, start, count) ==
  LET n == node_cache[id].edges
      chunk == start .. start + count - 1
  IN  /\ is_fanout_bulk(n) \/ \E p \in PredsOf(n) : BarriersOn(n, p) # {}
      /\ \A i \in chunk : <<id, i>> \in slot[s].todo /\ Releases(s, id, i) # {}
      /\ execute_bulk_task(w, graph, id, start, count)
      /\ Begin(w, s, id, chunk, IF UsesBulkKernel(graph, id) THEN <<>>
                               ELSE [k \in 1 .. count |-> start + k - 1])
      /\ UNCHANGED <<recorder, submitted>>

\* record_timing and the result store of one instance
EndKernel(w) ==
  LET me == worker[w]
      entry == [name |-> graph.nodes[me.id + 1].name, worker |-> core_of(w),
                took |-> clock - me.since, task |-> <<me.frame, me.id, me.left[1]>>]
  IN  /\ me.state = "task" /\ me.left # <<>>
      /\ worker' = [worker EXCEPT ![w].left = Tail(@),
                                  ![w].since = IF timing_on THEN clock ELSE NoTime]
      /\ send(<<Add(me.slot, entry)>>)
      /\ IF timing_on THEN Tick ELSE UNCHANGED clock
      /\ UNCHANGED <<args, phase, graph, config, slot, served, completed, next_frame,
                     stats, report, csv, submitted, argVars, time_buffer, controller, responses,
                     recorder>>

CountTask(w) ==
  LET me == worker[w]
  IN  /\ me.state = "task" /\ me.left = <<>>
      /\ slot' = [slot EXCEPT ![me.slot].done = @ \cup {<<me.id, i>> : i \in me.chunk}]
      /\ worker' = [worker EXCEPT ![w] = IF args.record THEN [me EXCEPT !.state = "job"] ELSE Idle]
      /\ UNCHANGED <<args, phase, graph, config, clock, served, completed, next_frame,
                     stats, report, csv, submitted, argVars, teleVars>>

\* execute_node and execute_boxed: the job's own record, when it is over.
RecordJob(w) ==
  LET me == worker[w]
  IN  /\ me.state = "job"
      /\ worker' = [worker EXCEPT ![w] = Idle]
      /\ IF args.record_frame \in {-1, me.frame} THEN Submit(w, JobRecord(me))
         ELSE UNCHANGED <<recorder, submitted>>
      /\ UNCHANGED <<args, phase, graph, config, clock, slot, served, completed, next_frame,
                     stats, report, csv, argVars, time_buffer, requests, controller, responses>>

\* process_slot_completion: the request, and what follows its answer
FinishFrame(s) ==
  /\ slot[s].state = "open" /\ slot[s].done = FrameTasks
  /\ slot' = [slot EXCEPT ![s].state = "finishing"]
  /\ Tick
  /\ send(<<Finish(s, clock)>>)
  /\ responses' = responses \ {s}
  /\ UNCHANGED <<args, phase, graph, config, served, worker, completed, next_frame,
                 stats, report, csv, submitted, argVars, time_buffer, controller, recorder>>

ReleaseFrame(s) ==
  /\ slot[s].state = "finishing" /\ Answered(s)
  /\ slot' = [slot EXCEPT ![s] = Free]
  /\ completed' = completed + 1
  /\ UNCHANGED <<args, phase, graph, config, clock, served, worker, next_frame,
                 stats, report, csv, submitted, argVars, teleVars>>

\* The resolution threads have ended: the system slots are finished.
EndRun ==
  /\ phase = "run" /\ completed = args.max_frames
  /\ phase' = "ending"
  /\ send([t \in 1 .. config.sys |-> Finish(slots_used + t - 1, clock)])
  /\ UNCHANGED <<args, graph, config, clock, slot, served, worker, completed, next_frame,
                 stats, report, csv, submitted, argVars, time_buffer, controller, responses, recorder>>

-----------------------------------------------------------------------------
(* main after the run *)

PrintStatistics ==
  /\ phase = "ending"
  /\ \A t \in 1 .. config.sys : Answered(slots_used + t - 1)
  /\ phase' = IF args.record THEN "record" ELSE "report"
  /\ stats' = IF args.timing /\ controller # "dead"
              THEN <<print_stats(time_buffer, args.exclude_frames)>> ELSE stats
  /\ UNCHANGED <<args, graph, config, clock, slot, served, worker, completed, next_frame,
                 report, csv, submitted, argVars, teleVars>>

\* write_to_csv: raise the flag, sleep, take what the collector has published
RaiseFlag ==
  /\ phase = "record"
  /\ phase' = "csv"
  /\ recorder' = [recorder EXCEPT !.shutdown = TRUE]
  /\ UNCHANGED <<args, graph, config, clock, slot, served, worker, completed, next_frame,
                 stats, report, csv, submitted, argVars, time_buffer, requests, controller, responses>>

WriteCsv ==
  /\ phase = "csv"
  /\ phase' = "report"
  /\ csv' = IF recorder.taken \in {<<>>, <<<<>>>>} THEN csv ELSE recorder.taken
  /\ recorder' = [recorder EXCEPT !.taken = <<>>]
  /\ UNCHANGED <<args, graph, config, clock, slot, served, worker, completed, next_frame,
                 stats, report, submitted, argVars, time_buffer, requests, controller, responses>>

\* The edges of the report: (name, names of the successors).
graph_edges ==
  [k \in DOMAIN graph.nodes |->
     [name |-> graph.nodes[k].name,
      succs |-> [j \in 1 .. Cardinality(graph.successors[k]) |->
                   graph.nodes[SetToSortSeq(graph.successors[k], <)[j] + 1].name]]]

WriteReport ==
  /\ phase = "report"
  /\ phase' = "drop"
  /\ report' = IF args.report /\ controller # "dead"
               THEN write_json_report(time_buffer, graph_edges, args.exclude_frames, 0)
               ELSE report
  /\ UNCHANGED <<args, graph, config, clock, slot, served, worker, completed, next_frame,
                 stats, csv, submitted, argVars, teleVars>>

\* The drops at the end of main: the controller is told to stop, both helper
\* threads are joined.
DropRuntime ==
  /\ phase = "drop"
  /\ phase' = "join"
  /\ send(<<Shutdown>>)
  /\ recorder' = [recorder EXCEPT !.shutdown = TRUE]
  /\ UNCHANGED <<args, graph, config, clock, slot, served, worker, completed, next_frame,
                 stats, report, csv, submitted, argVars, time_buffer, controller, responses>>

Join ==
  /\ phase = "join"
  /\ ~timing_on \/ controller # "run"
  /\ ~args.record \/ recorder.at = "done"
  /\ phase' = "exit"
  /\ UNCHANGED <<args, graph, config, clock, slot, served, worker, completed, next_frame,
                 stats, report, csv, submitted, argVars, teleVars>>

-----------------------------------------------------------------------------
Controller == ControllerLoop /\ UNCHANGED <<procVars, argVars>>
Collector == args.record /\ config # <<>> /\ CollectorLoop /\ UNCHANGED <<procVars, argVars>>

Startup == InitRegistry \/ LoadGraph \/ CreateScheduler \/ Compile \/ Build \/ StartRun
Worker(w) ==
  \/ \E s \in Slots : \/ \E task \in slot[s].todo : BeginTask(w, s, task[1], task[2])
                      \/ \E task \in slot[s].todo :
                           \E count \in 2 .. node_cache[task[1]].edges.factor - task[2] :
                             BeginBulk(w, s, task[1], task[2], count)
  \/ EndKernel(w) \/ CountTask(w) \/ RecordJob(w)
Resolution(s) == AssignFrame(s) \/ FinishFrame(s) \/ ReleaseFrame(s)
Shutdowns == EndRun \/ PrintStatistics \/ RaiseFlag \/ WriteCsv \/ WriteReport \/ DropRuntime \/ Join

Next ==
  \/ Startup
  \/ \E w \in Workers : Worker(w)
  \/ \E s \in Slots : Resolution(s)
  \/ Shutdowns
  \/ Controller
  \/ Collector

Spec == Init /\ [][Next]_vars

-----------------------------------------------------------------------------
(* Properties *)

\* Every kernel call finds the values of each argument of its instance at that
\* argument's slot, although buffers are kept from task to task, patched in place,
\* and grow where a result is spliced into several slots (the layout
\* validate_res_arg_layout guards).
ArgsInPlace ==
  \A k \in DOMAIN calls :
    InPlace(graph, node_cache[calls[k].id], calls[k].index, calls[k].buf)

\* A wrapper that does not look at the variants is only called with the variants
\* its kernel was written for (the SAFETY contract of select_unchecked_wrappers).
UncheckedSound ==
  \A k \in DOMAIN calls :
    LET spec == registry[graph.nodes[calls[k].id + 1].func].spec
    IN  calls[k].unchecked =>
          \A a \in DOMAIN spec : spec[a] \in {"*", calls[k].buf[a].variant}

\* The times of a finished frame are those of its own timed tasks, each once:
\* none is lost to, or taken from, the frame before or after it in the slot.
TimesBelongToFrame ==
  \A s \in worker_slots(time_buffer) : \A k \in DOMAIN time_buffer.statistics[s] :
    LET tasks == time_buffer.statistics[s][k].tasks
        timed == {t \in FrameTasks : ~UsesBulkKernel(graph, t[1])}
    IN  /\ {<<served[s][k], t[1], t[2]>> : t \in timed} \subseteq {e.task : e \in Range(tasks)}
        /\ \A e \in Range(tasks) : e.task[1] = served[s][k]
        /\ Cardinality({e.task : e \in Range(tasks)}) = Len(tasks)

\* No worker is reported busier than the reported wall-clock span is long, with
\* frames that overlap in several slots and with warm-up frames left out.
BusyWithinWall ==
  \A k \in DOMAIN report : \A w \in DOMAIN report[k].busy :
    report[k].busy[w].num <= report[k].wall

\* The paths through the graph: node sets in which each node is followed by one of
\* its successors (a successor always has the higher id).
Follows(nodes, a, b) == a < b /\ \A c \in nodes : c <= a \/ c >= b
Paths(adj) ==
  {nodes \in SUBSET DOMAIN adj : \A a, b \in nodes : Follows(nodes, a, b) => b \in Range(adj[a])}
PathWeight(nodes, weights) == FoldFunction(+, 0, [i \in nodes |-> weights[i]])

\* The reported critical path is a path of the graph, has the reported latency,
\* and no path of the graph is longer.
CriticalPathIsLongest ==
  \A k \in DOMAIN report :
    LET cp == report[k].critical_path
        adj == adjacency(graph_edges)
        weights == mean_weights(graph_edges, collect_report_frame_data(time_buffer, args.exclude_frames))
    IN  /\ Range(cp.nodes) \in Paths(adj)
        /\ PathWeight(Range(cp.nodes), weights) = cp.latency
        /\ \A nodes \in Paths(adj) : PathWeight(nodes, weights) <= cp.latency

\* A record file that is written holds every record submitted before the collector
\* was told to stop, and no record twice.
CsvComplete ==
  \A k \in DOMAIN csv :
    submitted \subseteq Range(csv[k]) /\ Cardinality(Range(csv[k])) = Len(csv[k])
=============================================================================
