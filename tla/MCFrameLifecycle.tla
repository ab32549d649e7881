-------------------------- MODULE MCFrameLifecycle --------------------------
(***************************************************************************)
(* Graphs for FrameLifecycle.                                              *)
(***************************************************************************)
EXTENDS FrameLifecycle, TLC

CONSTANTS a, b, c, d, p1, p2, r1, r2

\* A configuration with one resolution thread that stands for the others.
Config(succs, net, roots) ==
  [tasks |-> DOMAIN succs \ net, packets |-> net, succs |-> succs, roots |-> roots,
   cond |-> {}, arg_cond |-> {}, bulk |-> {}, threads |-> {r1}, flush |-> 2,
   inline |-> FALSE, evict |-> FALSE]

\* a feeds b and c, which both feed d; workers keep one successor for themselves.
Diamond ==
  [Config(a :> <<b, c>> @@ b :> <<d>> @@ c :> <<d>> @@ d :> <<>>, {}, {a})
     EXCEPT !.inline = TRUE]

\* Two packets feed the barrier b; the conditional c hangs off b.
IngestCond ==
  [Config(p1 :> <<b>> @@ p2 :> <<b>> @@ b :> <<c>> @@ c :> <<>>, {p1, p2}, {})
     EXCEPT !.cond = {c}]

\* The same with a compute root a among the predecessors of the barrier.
IngestBranch ==
  [Config(p1 :> <<b>> @@ p2 :> <<b>> @@ a :> <<b>> @@ b :> <<c>> @@ c :> <<>>, {p1, p2}, {a})
     EXCEPT !.cond = {c}]

\* A packet feeds a chain of two tasks, which a worker goes down by itself; a frame
\* that lost the other packet is evicted, whatever the worker is doing.
Lossy ==
  [Config(p1 :> <<b>> @@ p2 :> <<>> @@ b :> <<d>> @@ d :> <<>>, {p1, p2}, {})
     EXCEPT !.evict = TRUE, !.flush = 1, !.inline = TRUE]

\* One task, two resolution threads.
Single == [Config(a :> <<>>, {}, {a}) EXCEPT !.threads = {r1, r2}]

\* A task feeds one whose condition is an argument's, and a bulk task one with a
\* condition of its own: the worker resolves both by itself.
ArgChecked == [Config(a :> <<c>> @@ c :> <<>>, {}, {a}) EXCEPT !.cond = {c}, !.arg_cond = {c}]
BulkChecked == [Config(a :> <<c>> @@ c :> <<>>, {}, {a}) EXCEPT !.cond = {c}, !.bulk = {a}]

\* A packet that feeds a task by itself, and two threads that resolve packets.
Fed == [Config(p1 :> <<>> @@ p2 :> <<b>> @@ b :> <<>>, {p1, p2}, {}) EXCEPT !.threads = {r1, r2}]

LiveGraphs == {Diamond, IngestBranch, ArgChecked, BulkChecked}
RaceGraphs == {[IngestCond EXCEPT !.threads = {r1, r2}], Lossy, Fed}
AllGraphs == LiveGraphs \cup RaceGraphs
OneTask == {Single}
=============================================================================
