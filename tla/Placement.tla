------------------------------ MODULE Placement ------------------------------
(***************************************************************************)
(* Which core every thread of a run is pinned to, and which worker serves  *)
(* which queue group.  These are the pure functions behind the scheduler:  *)
(* the parser of a node's `use_workers`, the affinity configuration built  *)
(* from all of them, the core allocator with its five branches, and the    *)
(* three ways the builder forms worker groups.  Workers, cores and groups  *)
(* are numbered from 0 as in the code.                                     *)
(***************************************************************************)
EXTENDS Naturals, Sequences, FiniteSets, SequencesExt

Err == [kind |-> "Err"]
NoSpec == [kind |-> "None"]

(* What a `use_workers` string says once it is split at '-': one number or *)
(* an inclusive pair.                                                      *)
CountText(n) == [kind |-> "count", n |-> n]
RangeText(first, last) == [kind |-> "range", first |-> first, last |-> last]

(* WorkerRange::parse: the end the user writes is inclusive, the end that  *)
(* is stored is exclusive.                                                 *)
WorkerRange_parse(first, last) ==
    IF first > last THEN Err
    ELSE [kind |-> "Range", start |-> first, end |-> last + 1]

WorkerRangeSpec_parse(text) ==
    CASE text.kind = "range" -> WorkerRange_parse(text.first, text.last)
      [] text.kind = "count" /\ text.n > 0 -> [kind |-> "Count", n |-> text.n]
      [] OTHER -> Err

contains(range, w) == range.start <= w /\ w < range.end
Members(range) == {w \in 0 .. range.end : contains(range, w)}

-----------------------------------------------------------------------------
(* Affinity: one group per distinct range, numbered from 1 in the order of *)
(* (start, end).  Counts, and nodes without a spec, stay in group 0.       *)

Before(r, s) == r.start < s.start \/ (r.start = s.start /\ r.end < s.end)

Ranges(specs) == {s \in specs : s.kind = "Range"}

Rank(r, ranges) == Cardinality({s \in ranges : Before(s, r)})
from_worker_ranges(ranges) ==
    [g \in 1 .. Cardinality(ranges) |-> CHOOSE r \in ranges : Rank(r, ranges) = g - 1]

(* A range past the last worker panics while the scheduler is built.       *)
RangesFit(specs, total) == \A r \in Ranges(specs) : r.end <= total

get_group(groups, spec) ==
    IF \E g \in DOMAIN groups : groups[g] = spec
    THEN CHOOSE g \in DOMAIN groups : groups[g] = spec
    ELSE 0

(* The groups that hold a worker; the code lists them in ascending order.  *)
get_worker_groups(groups, w) == {g \in DOMAIN groups : contains(groups[g], w)}

-----------------------------------------------------------------------------
(* Core allocation.  `main` is a set: the reserved core, or no core.       *)

Layout(offset, sys, recv, workers, main) ==
    [sys_start |-> offset, sys |-> sys, recv_start |-> offset + sys, recv |-> recv,
     worker_start |-> offset + sys + recv, workers |-> workers, main |-> main]

Least(a, b) == IF a < b THEN a ELSE b
Most(a, b) == IF a < b THEN b ELSE a

allocate_cores(available, offset, sys, recv, workers) ==
    LET needed == sys + recv + workers
        receivers == Least(recv, (available - 1) \div 2)
    IN  CASE offset + needed < available -> Layout(offset + 1, sys, recv, workers, {offset})
          [] offset + needed = available -> Layout(offset, sys, recv, workers, {})
          [] offset + needed > available /\ needed <= available -> Layout(0, sys, recv, workers, {})
          [] OTHER -> Layout(0, 1, receivers, Most(available - 1 - receivers, 1), {})

-----------------------------------------------------------------------------
(* Worker groups.  A sequence of sizes, group g of the code at g + 1.      *)

CeilDiv(a, b) == (a + b - 1) \div b

(* The g-th of n even shares of a total, the larger shares first.          *)
Share(total, n, g) == total \div n + IF g < total % n THEN 1 ELSE 0

(* Empty shards, which come last, are left out.                            *)
add_sharded_workers(workers, shard_size) ==
    LET shards == Most(CeilDiv(workers, Most(shard_size, 1)), 1)
        manned == {g \in 0 .. shards - 1 : Share(workers, shards, g) > 0}
    IN  [g \in 1 .. Cardinality(manned) |-> Share(workers, shards, g - 1)]

(* Group 0 holds the workers outside every range, and is kept when there   *)
(* are none so that the group ids stay the indices.                        *)
with_affinity_groups(groups, workers) ==
    LET assigned == UNION {Members(groups[g]) : g \in DOMAIN groups}
        global == IF workers > Cardinality(assigned) THEN workers - Cardinality(assigned) ELSE 0
    IN  <<global>> \o [g \in DOMAIN groups |-> groups[g].end - groups[g].start]

(* The group every spawned worker listens on: with ranges, the first range *)
(* that holds it; otherwise consecutive even shares of the workers that    *)
(* were really allocated, which may be fewer or more than requested.       *)
worker_to_group_idx(groups, sizes, actual) ==
    [w \in 0 .. actual - 1 |->
        IF groups # <<>>
        THEN LET mine == get_worker_groups(groups, w)
             IN  IF mine = {} THEN 0 ELSE Min(mine)
        ELSE LET n == Len(sizes)
                 UpTo(g) == g * (actual \div n) + Least(g, actual % n)
             IN  CHOOSE g \in 0 .. n - 1 : UpTo(g) <= w /\ w < UpTo(g + 1)]
=============================================================================
