----------------------------- MODULE Telemetry -----------------------------
(***************************************************************************)
(* What a run leaves behind about itself.                                  *)
(*                                                                         *)
(* Task times travel through one channel to a controller thread that keeps *)
(* them per slot and frame (time_buffer/buffer.rs); the text statistics    *)
(* and the JSON report are computed from its tables under their lock       *)
(* (time_buffer/report.rs).  Scheduler records travel through one channel  *)
(* per thread to a collector thread, which hands them over when its flag   *)
(* is raised (async_recorder.rs).                                          *)
(*                                                                         *)
(* Times are ticks of one clock.  An entry of a slot is [name, worker,     *)
(* took] and a mark that is not in the code: the task it is about.         *)
(***************************************************************************)
EXTENDS Integers, Sequences, FiniteSets, SequencesExt

VARIABLES
  time_buffer,          \* TimeBuffer; with no slots when timing is off
  requests,             \* the channel to the controller
  controller,           \* "run", "dead" after a panic, "stopped"
  responses,            \* slots whose finish request has been answered
  recorder              \* AsyncRecorder with its collector thread

teleVars == <<time_buffer, requests, controller, responses, recorder>>

NoTime == -1
NoWorker == -1          \* usize::MAX: not on a worker

-----------------------------------------------------------------------------
(* TimeBuffer *)

TimeBuffer_new(slots, system_threads) ==
  LET ids == 0 .. slots - 1
  IN  [slots |-> slots, system_threads |-> system_threads,
       start_times |-> [s \in ids |-> NoTime],
       current |-> [s \in ids |-> <<>>],
       statistics |-> [s \in ids |-> <<>>]]

start_slot_processing_with_time(tb, r) == [tb EXCEPT !.start_times[r.slot] = r.at]
add_task_time(tb, r) == [tb EXCEPT !.current[r.slot] = Append(@, r.entry)]

\* Mutant: the times of the slot are kept for its next frame.
finish_without_clear(tb, r) ==
  LET stats == [start |-> tb.start_times[r.slot], end |-> r.at,
                tasks |-> tb.current[r.slot]]
  IN  [tb EXCEPT !.start_times[r.slot] = NoTime,
                 !.statistics[r.slot] = Append(@, stats)]

finish_slot_processing_with_time(tb, r) ==
  LET stats == [start |-> tb.start_times[r.slot], end |-> r.at,
                tasks |-> tb.current[r.slot]]
  IN  [tb EXCEPT !.start_times[r.slot] = NoTime,
                 !.statistics[r.slot] = Append(@, stats),
                 !.current[r.slot] = <<>>]

(* The panics of the three: a slot out of bounds, a finish without start.  *)
Panics(tb, r) ==
  r.slot >= tb.slots \/ (r.op = "finish" /\ tb.start_times[r.slot] = NoTime)

-----------------------------------------------------------------------------
(* AsyncTimeBuffer.  A send to a controller that is gone is a warning; the *)
(* caller of finish waits for the answer, or for its sender to be dropped. *)

NoEntry == <<>>
Request(op, slot, at, entry) == [op |-> op, slot |-> slot, at |-> at, entry |-> entry]
Start(slot, now) == Request("start", slot, now, NoEntry)
Add(slot, entry) == Request("add", slot, NoTime, entry)
Finish(slot, now) == Request("finish", slot, now, NoEntry)
Shutdown == Request("shutdown", 0, NoTime, NoEntry)

timing_on == time_buffer.slots > 0

send(rs) ==
  requests' = IF timing_on /\ controller = "run" THEN requests \o rs ELSE requests

Answered(slot) == ~timing_on \/ controller # "run" \/ slot \in responses

ControllerLoop ==
  /\ controller = "run"
  /\ requests # <<>>
  /\ LET r == Head(requests)
         stays == r.op # "shutdown" /\ ~Panics(time_buffer, r)
     IN  /\ controller' = CASE r.op = "shutdown" -> "stopped"
                            [] r.op # "shutdown" /\ Panics(time_buffer, r) -> "dead"
                            [] OTHER -> "run"
         /\ requests' = IF stays THEN Tail(requests) ELSE <<>>
         /\ time_buffer' =
              IF ~stays THEN time_buffer
              ELSE CASE r.op = "start" -> start_slot_processing_with_time(time_buffer, r)
                     [] r.op = "add" -> add_task_time(time_buffer, r)
                     [] r.op = "finish" -> finish_slot_processing_with_time(time_buffer, r)
         /\ responses' = responses \cup (IF stays /\ r.op = "finish" THEN {r.slot} ELSE {})
  /\ UNCHANGED recorder

-----------------------------------------------------------------------------
(* What both outputs start from: the frames of the worker slots in the     *)
(* order of their start, without the first `exclude` of them.              *)

Sum(numbers) == FoldLeft(LAMBDA a, b : a + b, 0, numbers)
SumBy(seq, F(_)) == Sum([k \in DOMAIN seq |-> F(seq[k])])
Quot(num, den) == [num |-> num, den |-> den]
Above(q, percent) == q.den > 0 /\ q.num * 100 > percent * q.den
Below(q, percent) == q.den = 0 \/ q.num * 100 < percent * q.den

worker_slots(tb) == 0 .. tb.slots - tb.system_threads - 1
system_slots(tb) == tb.slots - tb.system_threads .. tb.slots - 1

AllFrames(tb) ==
  SetToSortSeq(UNION {Range(tb.statistics[s]) : s \in worker_slots(tb)},
               LAMBDA f, g : f.start < g.start)

collect_report_frame_data(tb, exclude) ==
  LET frames == AllFrames(tb) IN SubSeq(frames, exclude + 1, Len(frames))

Latency(f) == f.end - f.start
Took(e) == e.took
Entries(frames) == FlattenSeq([k \in DOMAIN frames |-> frames[k].tasks])
EntriesOf(frames, name) == SelectSeq(Entries(frames), LAMBDA e : e.name = name)
EntriesOn(frames, worker) == SelectSeq(Entries(frames), LAMBDA e : e.worker = worker)
NamesIn(frames) == {e.name : e \in Range(Entries(frames))}
WorkersIn(frames) == {e.worker : e \in Range(Entries(frames))} \ {NoWorker}

\* Mutant: the span ends with the frame that was started last.
span_to_last_start(frames) ==
  IF frames = <<>> THEN 0 ELSE frames[Len(frames)].end - frames[1].start

compute_wall_span_us(frames) ==
  IF frames = <<>> THEN 0
  ELSE Max({f.end : f \in Range(frames)}) - Min({f.start : f \in Range(frames)})

total_wall_us(frames) ==
  LET span == compute_wall_span_us(frames)
  IN  IF span > 0 THEN span ELSE SumBy(frames, Latency)

-----------------------------------------------------------------------------
(* print_stats: the sums behind the text.                                  *)

\* format_per_task_analysis over aggregate_task_data
PerTask(frames, name) ==
  LET mine == EntriesOf(frames, name)
  IN  [executions |-> Len(mine), total |-> SumBy(mine, Took),
       per_worker |-> [w \in {e.worker : e \in Range(mine)} |->
                         LET on == SelectSeq(mine, LAMBDA e : e.worker = w)
                         IN  [count |-> Len(on), total |-> SumBy(on, Took)]]]

\* format_system_thread_stats
PerSystemThread(tb) ==
  [s \in system_slots(tb) |->
     [name \in NamesIn(tb.statistics[s]) |->
        SumBy(EntriesOf(tb.statistics[s], name), Took)]]

format_timing_summary(tb, exclude) ==
  LET all == AllFrames(tb)
      steady == collect_report_frame_data(tb, exclude)
      \* With every frame excluded the averages fall back to all of them.
      shown == IF steady = <<>> THEN all ELSE steady
      span == compute_wall_span_us(steady)
  IN  [total_frames |-> Len(all),
       per_slot |-> [s \in worker_slots(tb) |-> Len(tb.statistics[s])],
       runtime |-> IF span > 0 THEN span ELSE SumBy(all, Latency),
       average |-> Quot(SumBy(shown, Latency), Len(shown)),
       least |-> Min({Latency(f) : f \in Range(shown)}),
       most |-> Max({Latency(f) : f \in Range(shown)}),
       compute |-> SumBy(Entries(steady), Took)]

print_stats(tb, exclude) ==
  LET steady == collect_report_frame_data(tb, exclude)
  IN  [summary |-> IF AllFrames(tb) = <<>> THEN <<>> ELSE <<format_timing_summary(tb, exclude)>>,
       per_task |-> [name \in NamesIn(steady) |-> PerTask(steady, name)],
       system |-> PerSystemThread(tb)]

-----------------------------------------------------------------------------
(* compute_critical_path_report.  `edges` lists the nodes with the names   *)
(* of their successors; a name stands for the last node that has it.       *)

name_to_idx(edges, name) == Max({i \in DOMAIN edges : edges[i].name = name})

adjacency(edges) ==
  [i \in DOMAIN edges |->
     [k \in DOMAIN edges[i].succs |-> name_to_idx(edges, edges[i].succs[k])]]

topo_order(adj) ==
  LET ids == [i \in DOMAIN adj |-> i]
      in_degree == [v \in DOMAIN adj |->
                      Sum([u \in DOMAIN adj |-> Len(SelectSeq(adj[u], LAMBDA x : x = v))])]
      Visit(acc, v) ==
        [acc EXCEPT !.deg[v] = @ - 1,
                    !.queue = IF acc.deg[v] = 1 THEN Append(@, v) ELSE @]
      PopFront(acc, step) ==
        IF acc.queue = <<>> THEN acc
        ELSE FoldLeft(Visit, [acc EXCEPT !.queue = Tail(@), !.order = Append(@, Head(acc.queue))],
                      adj[Head(acc.queue)])
  IN  FoldLeft(PopFront, [queue |-> SelectSeq(ids, LAMBDA v : in_degree[v] = 0),
                          order |-> <<>>, deg |-> in_degree], ids).order

\* Mutant: a longer way is looked for without the weight of the node it leads to.
relax_unweighted(best, u, v, weights) ==
  IF best.dist[u] > best.dist[v]
  THEN [best EXCEPT !.dist[v] = best.dist[u], !.prev[v] = u] ELSE best

relax(best, u, v, weights) ==
  IF best.dist[u] + weights[v] > best.dist[v]
  THEN [best EXCEPT !.dist[v] = best.dist[u] + weights[v], !.prev[v] = u] ELSE best

longest_paths(adj, weights) ==
  FoldLeft(LAMBDA best, u :
             FoldLeft(LAMBDA b, v : relax(b, u, v, weights), best, adj[u]),
           [dist |-> weights, prev |-> [v \in DOMAIN adj |-> 0]],
           topo_order(adj))

compute_critical_path_report(edges, weights) ==
  LET best == longest_paths(adjacency(edges), weights)
      latency == Max(Range(best.dist))
      end_node == Max({v \in DOMAIN edges : best.dist[v] = latency})
      Back(path, step) ==
        IF best.prev[path[1]] = 0 THEN path ELSE <<best.prev[path[1]]>> \o path
  IN  IF edges = <<>> THEN [latency |-> 0, nodes |-> <<>>]
      ELSE [latency |-> latency, nodes |-> FoldLeft(Back, <<end_node>>, edges)]

-----------------------------------------------------------------------------
(* write_json_report.  A mean is a total over a count; Scale is a common   *)
(* multiple of the counts, so that mean weights stay whole numbers.        *)

Scale(frames) ==
  FoldLeft(LAMBDA a, b : a * b, 1,
           [k \in DOMAIN SetToSeq(NamesIn(frames)) |->
              Len(EntriesOf(frames, SetToSeq(NamesIn(frames))[k]))])

mean_exec_us(frames, name) ==
  IF name \notin NamesIn(frames) THEN 0
  ELSE LET mine == EntriesOf(frames, name)
       IN  (SumBy(mine, Took) * Scale(frames)) \div Len(mine)

mean_weights(edges, frames) == [i \in DOMAIN edges |-> mean_exec_us(frames, edges[i].name)]

\* The workers between the lowest and the highest core that ran something.
worker_id_range(frames) ==
  IF WorkersIn(frames) = {} THEN {} ELSE Min(WorkersIn(frames)) .. Max(WorkersIn(frames))

worker_busy_pct(frames) ==
  [w \in IF WorkersIn(frames) = {} THEN {0} ELSE worker_id_range(frames) |->
     Quot(SumBy(EntriesOn(frames, w), Took), total_wall_us(frames))]

\* The value at round(percent * (n - 1)) of the sorted numbers, in per mille.
percentile(numbers, permille) ==
  SortSeq(numbers, LAMBDA a, b : a < b)[((permille * (Len(numbers) - 1) + 500) \div 1000) + 1]

compute_node_stats(frames) ==
  LET denominator == total_wall_us(frames) * Max({1, Cardinality(worker_id_range(frames))})
  IN  [name \in NamesIn(frames) |->
         LET mine == EntriesOf(frames, name)
         IN  [invocations |-> Len(mine), total |-> SumBy(mine, Took),
              p99 |-> percentile([k \in DOMAIN mine |-> mine[k].took], 990),
              share |-> Quot(SumBy(mine, Took), denominator),
              factor |-> Len(mine) \div Len(frames)]]

bottleneck_hints(stats, busy, on_path, cp, avg) ==
  LET top == IF DOMAIN busy = {} THEN 0 ELSE Max({busy[w].num : w \in DOMAIN busy})
  IN  {<<"node", name>> : name \in {x \in DOMAIN stats : x \in on_path /\ Above(stats[x].share, 20)}}
      \cup {<<"imbalance", w>> :
              w \in {x \in DOMAIN busy : Above(Quot(top - busy[x].num, busy[x].den), 10)}}
      \cup (IF Above(Quot(cp * avg.den, avg.num), 80) THEN {<<"limited_parallelism">>} ELSE {})

generate_optimization_suggestions(overhead, max_cp_factor, tasks, length, busy) ==
  LET idle == \A w \in DOMAIN busy : Below(busy[w], 50)
      below60 == Below(overhead, 60)
  IN  (IF Above(overhead, 60) /\ max_cp_factor >= 64 THEN {"coarsen"} ELSE {})
      \cup (IF Above(overhead, 60) /\ max_cp_factor < 16 /\ tasks > 200 /\ length > 50
            THEN {"graph_structure"} ELSE {})
      \cup (IF Above(overhead, 20) /\ below60 /\ max_cp_factor \in 1 .. 7 /\ length >= 4
            THEN {"factor"} ELSE {})
      \cup (IF Above(overhead, 40) /\ max_cp_factor >= 8 THEN {"coalesce_barriers"} ELSE {})
      \cup (IF Above(overhead, 40) /\ tasks > 10000 THEN {"batching_size"} ELSE {})
      \cup (IF max_cp_factor > 8 /\ below60 /\ idle /\ length > 10 THEN {"tile_size"} ELSE {})

NoReport == <<>>

write_json_report(tb, edges, exclude, stale_drops) ==
  LET frames == collect_report_frame_data(tb, exclude)
      latencies == [k \in DOMAIN frames |-> Latency(frames[k])]
      scale == Scale(frames)
      avg == Quot(Sum(latencies) * scale, Len(frames))
      stats == compute_node_stats(frames)
      busy == worker_busy_pct(frames)
      cp == compute_critical_path_report(edges, mean_weights(edges, frames))
      on_path == {edges[i].name : i \in Range(cp.nodes)}
      factors == {stats[x].factor : x \in on_path \cap DOMAIN stats}
      max_cp_factor == IF factors = {} THEN 0 ELSE Max(factors)
      tasks == FoldFunction(+, 0, [x \in DOMAIN stats |-> stats[x].factor])
      overhead == Quot(Max({0, avg.num - cp.latency * avg.den}), avg.num)
  IN  IF frames = <<>> THEN NoReport
      ELSE <<[frames |-> Len(frames), wall |-> total_wall_us(frames),
              p50 |-> percentile(latencies, 500), p99 |-> percentile(latencies, 990),
              p999 |-> percentile(latencies, 999),
              per_node |-> stats, busy |-> busy, critical_path |-> cp,
              tasks_per_frame |-> tasks, overhead |-> overhead, stale_drops |-> stale_drops,
              hints |-> bottleneck_hints(stats, busy, on_path, cp.latency, avg),
              suggestions |-> generate_optimization_suggestions(
                                overhead, max_cp_factor, tasks, Len(cp.nodes), busy)]>>

-----------------------------------------------------------------------------
(* AsyncRecorder.  `taken` is the FINAL_RECORDS cell: <<>> until the       *)
(* collector has ended, then the one sequence it collected.                *)

AsyncRecorder_new(num) ==
  [channels |-> [c \in 0 .. num - 1 |-> <<>>], shutdown |-> FALSE,
   at |-> "check", next |-> 0, got |-> <<>>, taken |-> <<>>]

\* submit_record: a thread that found no sender for its index drops the record.
submit_record(rec, channel, record) ==
  IF channel \in DOMAIN rec.channels
  THEN [rec EXCEPT !.channels[channel] = Append(@, record)] ELSE rec

\* Mutant: the collector leaves as soon as it sees the flag.
CheckShutdownLeaves ==
  /\ recorder.at = "check"
  /\ recorder' = IF recorder.shutdown
                 THEN [recorder EXCEPT !.at = "done", !.taken = <<recorder.got>>]
                 ELSE [recorder EXCEPT !.at = "collect", !.next = 0]

CheckShutdown ==
  /\ recorder.at = "check"
  /\ recorder' = [recorder EXCEPT !.at = IF recorder.shutdown THEN "final" ELSE "collect",
                                  !.next = 0]

\* collect_all_records, one channel
CollectChannel ==
  /\ recorder.at \in {"collect", "final"}
  /\ recorder.next \in DOMAIN recorder.channels
  /\ recorder' = [recorder EXCEPT !.got = @ \o recorder.channels[recorder.next],
                                  !.channels[recorder.next] = <<>>, !.next = @ + 1]

PassEnds ==
  /\ recorder.at \in {"collect", "final"}
  /\ recorder.next \notin DOMAIN recorder.channels
  /\ recorder' = IF recorder.at = "final"
                 THEN [recorder EXCEPT !.at = "done", !.taken = <<recorder.got>>]
                 ELSE [recorder EXCEPT !.at = "check"]

CollectorLoop ==
  /\ CheckShutdown \/ CollectChannel \/ PassEnds
  /\ UNCHANGED <<time_buffer, requests, controller, responses>>
=============================================================================
