---------------------------- MODULE MCScheduler ----------------------------
EXTENDS Scheduler

Job(spec, priority, typed, panics) ==
    [spec |-> spec, priority |-> priority, typed |-> typed, panics |-> panics, keeps |-> 0]

(* The first of the jobs leaves the k-th to its worker.                    *)
Keeping(jobs, k) == [jobs EXCEPT ![1].keeps = k]

Pool(kind, cores, workers, texts, jobs, posts, polls) ==
    [kind |-> kind, fifo |-> FALSE, cores |-> cores, offset |-> 0, sys |-> 1, recv |-> 0,
     workers |-> workers, shard |-> 1, spin |-> 0, texts |-> texts, jobs |-> jobs, posts |-> posts,
     polls |-> polls]

P(first, last) == WorkerRangeSpec_parse(RangeText(first, last))

(* Two shards of one worker, a typed and a boxed job.                      *)
Shards == Pool("custom", 4, 2, {},
    <<Job(NoSpec, High, TRUE, FALSE), Job(NoSpec, Low, FALSE, FALSE)>>, <<>>, TRUE)

(* Two shards requested on a machine with room for one worker: the second  *)
(* shard is served by stealing only.                                       *)
ScaledDown == Pool("custom", 2, 2, {},
    <<Job(NoSpec, Normal, TRUE, FALSE), Job(NoSpec, Low, TRUE, FALSE)>>, <<>>, TRUE)

(* One worker pinned, one in the global group; a count spec is global.     *)
Pinned == Pool("custom", 4, 2, {RangeText(1, 1), CountText(1)},
    <<Job(P(1, 1), Normal, TRUE, FALSE), Job([kind |-> "Count", n |-> 1], High, TRUE, FALSE),
      Job(NoSpec, Normal, FALSE, FALSE)>>, <<{3}>>, TRUE)

(* Overlapping ranges: each worker listens on the first range only, and    *)
(* the sizes of the groups ask for a third worker.                         *)
Overlap == Pool("custom", 4, 2, {RangeText(0, 1), RangeText(1, 1)},
    <<Job(P(0, 1), Normal, TRUE, FALSE), Job(P(1, 1), Normal, TRUE, FALSE)>>, <<>>, TRUE)

(* A job that panics takes its worker with it.                             *)
Panics == Pool("custom", 4, 2, {},
    <<Job(NoSpec, Normal, TRUE, TRUE), Job(NoSpec, Normal, TRUE, FALSE)>>, <<>>, TRUE)

PanicPost == Pool("custom", 3, 1, {}, <<Job(NoSpec, Normal, FALSE, TRUE)>>, <<{1}>>, TRUE)

(* No time limit: the main thread joins the resolution threads and leaves. *)
NoLimit == Pool("custom", 3, 1, {},
    <<Job(NoSpec, Normal, TRUE, FALSE), Job(NoSpec, Normal, FALSE, FALSE)>>, <<{2}>>, FALSE)

Rayon == Pool("rayon", 4, 2, {},
    <<Job(NoSpec, Normal, FALSE, FALSE), Job(NoSpec, Normal, FALSE, FALSE), Job(NoSpec, Normal, FALSE, FALSE)>>,
    <<{3}>>, TRUE)

Fifo == [Rayon EXCEPT !.fifo = TRUE]

(* Inline continuation: a typed job with a successor it keeps, beside a    *)
(* boxed one; and a kept successor that panics.                            *)
Chain == Pool("custom", 4, 2, {},
    Keeping(<<Job(NoSpec, Normal, TRUE, FALSE), Job(NoSpec, Normal, FALSE, FALSE),
              Job(NoSpec, Normal, TRUE, FALSE)>>, 3), <<>>, TRUE)

ChainPanics == Pool("custom", 3, 1, {},
    Keeping(<<Job(NoSpec, Normal, FALSE, FALSE), Job(NoSpec, Normal, TRUE, TRUE)>>, 2), <<>>, TRUE)

(* The kept successor is pinned to a worker, its predecessor is not.       *)
ChainPinned == Pool("custom", 4, 2, {RangeText(1, 1)},
    Keeping(<<Job(NoSpec, Normal, TRUE, FALSE), Job(P(1, 1), Normal, TRUE, FALSE)>>, 2), <<>>, TRUE)

(* The small pools also spin once more before they park.                   *)
Spinning(cfg) == [cfg EXCEPT !.spin = 1]

AllPools == {Shards, ScaledDown, Pinned, Overlap, Panics, Spinning(NoLimit),
             PanicPost, Rayon, Fifo, Chain, ChainPanics, ChainPinned}

=============================================================================
