--------------------------- MODULE SchedulerProofs ---------------------------
(***************************************************************************)
(* Proofs about Scheduler: for every set of configurations, that is for    *)
(* every machine, number of workers, shard size, set of worker ranges and  *)
(* list of jobs.                                                           *)
(***************************************************************************)
EXTENDS Scheduler, DataLemmas

-----------------------------------------------------------------------------
(* Placement *)

RangeRecords == [kind : {"Range"}, start : Nat, end : Nat]

\* The range of a node is one of the affinity groups: from_worker_ranges numbers
\* every range it is given.
LEMMA EveryRangeHasGroup ==
  ASSUME NEW ranges \in SUBSET RangeRecords, IsFiniteSet(ranges), NEW r \in ranges
  PROVE  \E g \in 1 .. Cardinality(ranges) : from_worker_ranges(ranges)[g] = r
<1> DEFINE Below(x) == {s \in ranges : Before(s, x)}
<1>1. ASSUME NEW x \in ranges
      PROVE  IsFiniteSet(Below(x)) /\ Rank(x, ranges) \in 0 .. Cardinality(ranges) - 1
  <2>1. x \notin Below(x) /\ Below(x) \in SUBSET ranges
    BY DEF Before, RangeRecords
  <2>2. IsFiniteSet(Below(x)) /\ Cardinality(Below(x)) \in Nat /\ Cardinality(ranges) \in Nat
    BY <2>1, FS_Subset, FS_CardinalityType
  <2>3. Cardinality(Below(x)) <= Cardinality(ranges) /\ Cardinality(Below(x)) # Cardinality(ranges)
    BY <2>1, FS_Subset
  <2> QED BY <2>2, <2>3 DEF Rank
<1>2. ASSUME NEW x \in ranges, NEW y \in ranges, Before(x, y)
      PROVE  Rank(x, ranges) # Rank(y, ranges)
  <2>1. Below(x) \in SUBSET Below(y)
    BY <1>2 DEF Before, RangeRecords
  <2>2. x \in Below(y) /\ x \notin Below(x)
    BY <1>2 DEF Before, RangeRecords
  <2> QED BY <1>1, <2>1, <2>2, FS_Subset DEF Rank
<1>3. ASSUME NEW x \in ranges, Rank(x, ranges) = Rank(r, ranges) PROVE x = r
  <2>1. x # r => Before(x, r) \/ Before(r, x)
    BY DEF Before, RangeRecords
  <2> QED BY <1>2, <1>3, <2>1
<1> DEFINE g == Rank(r, ranges) + 1
<1>4. g \in 1 .. Cardinality(ranges) /\ g - 1 = Rank(r, ranges)
  <2>1. Rank(r, ranges) \in 0 .. Cardinality(ranges) - 1
    BY <1>1
  <2>2. Cardinality(ranges) \in Nat
    BY FS_CardinalityType
  <2> QED BY <2>1, <2>2
<1>5. from_worker_ranges(ranges)[g] = CHOOSE x \in ranges : Rank(x, ranges) = g - 1
  BY <1>4 DEF from_worker_ranges
<1> QED BY <1>3, <1>4, <1>5

\* A pool of at least one worker is cut into at least one shard.
LEMMA ShardsExist ==
  ASSUME NEW workers \in Nat \ {0}, NEW shard \in Nat
  PROVE  \E n \in Nat \ {0} : DOMAIN add_sharded_workers(workers, shard) = 1 .. n
<1> DEFINE shards == Most(CeilDiv(workers, Most(shard, 1)), 1)
           manned == {g \in 0 .. shards - 1 : Share(workers, shards, g) > 0}
<1>1. shards \in Nat \ {0}
  <2>1. Most(shard, 1) \in Nat \ {0}
    BY DEF Most
  <2>2. \A a \in Nat \ {0} : (workers + a - 1) \div a \in Nat
    OBVIOUS
  <2> QED BY <2>1, <2>2 DEF CeilDiv, Most
<1>2. 0 \in manned
  <2>1. workers = shards * (workers \div shards) + (workers % shards)
        /\ workers \div shards \in Nat /\ workers % shards \in 0 .. shards - 1
    <3> HIDE DEF shards
    <3> QED BY <1>1
  <2>2. workers \div shards = 0 => workers % shards > 0
    <3> HIDE DEF shards
    <3> QED BY <1>1, <2>1
  <2>3. Share(workers, shards, 0) > 0
    <3> HIDE DEF shards
    <3> QED BY <2>1, <2>2 DEF Share
  <2> HIDE DEF shards
  <2> QED BY <1>1, <2>3
<1>3. IsFiniteSet(manned) /\ Cardinality(manned) \in Nat \ {0}
  <2>1. IsFiniteSet(0 .. shards - 1)
    BY <1>1, FS_Interval
  <2>2. manned \in SUBSET (0 .. shards - 1)
    OBVIOUS
  <2> HIDE DEF manned
  <2> QED BY <1>2, <2>1, <2>2, FS_Subset, FS_CardinalityType, FS_EmptySet
<1>4. DOMAIN add_sharded_workers(workers, shard) = 1 .. Cardinality(manned)
  BY DEF add_sharded_workers
<1> HIDE DEF manned
<1> QED BY <1>3, <1>4

\* Consecutive even shares leave no worker out: every worker has a group.
LEMMA ShareHoldsWorker ==
  ASSUME NEW actual \in Nat, NEW n \in Nat \ {0}, NEW w \in 0 .. actual - 1
  PROVE  LET UpTo(g) == g * (actual \div n) + Least(g, actual % n)
         IN  \E g \in 0 .. n - 1 : UpTo(g) <= w /\ w < UpTo(g + 1)
<1> DEFINE UpTo(g) == g * (actual \div n) + Least(g, actual % n)
           past == {g \in Nat : w < UpTo(g)}
<1>1. /\ actual \div n \in Nat /\ actual % n \in 0 .. n - 1
      /\ actual = n * (actual \div n) + (actual % n)
  OBVIOUS
<1>2. \A g \in Nat : UpTo(g) \in Nat
  BY <1>1 DEF Least
<1>3. UpTo(0) = 0 /\ UpTo(n) = actual
  BY <1>1 DEF Least
<1>4. n \in past /\ 0 \notin past /\ past \in SUBSET Nat
  BY <1>3
<1> HIDE DEF UpTo
<1>5. PICK m \in past : \A k \in past : m <= k
  BY <1>4, LeastElement
<1>6. m \in 1 .. n /\ m - 1 \notin past
  BY <1>4, <1>5
<1>7. m - 1 \in 0 .. n - 1 /\ UpTo(m - 1) <= w /\ w < UpTo((m - 1) + 1)
  BY <1>2, <1>5, <1>6
<1> QED BY <1>7 DEF UpTo

\* What the core allocator grants is a number of workers.
LEMMA AllocatedWorkers ==
  ASSUME NEW available \in Nat \ {0}, NEW offset \in Nat, NEW sys \in Nat, NEW recv \in Nat,
         NEW workers \in Nat
  PROVE  allocate_cores(available, offset, sys, recv, workers).workers \in Nat
<1>1. Most(available - 1 - Least(recv, (available - 1) \div 2), 1) \in Nat
  <2>1. (available - 1) \div 2 \in Nat
    OBVIOUS
  <2> QED BY <2>1 DEF Most, Least
<1> QED BY <1>1 DEF allocate_cores, Layout

\* What the groups ask the core allocator for is a number.
LEMMA PlacesAreCounted ==
  ASSUME NEW sizes, IsFiniteSet(DOMAIN sizes), NEW workers \in Nat
  PROVE  Cardinality(Places(sizes, workers)) \in Nat
<1>1. IsFiniteSet(1 .. workers)
  BY FS_Interval
<1>2. IsFiniteSet((DOMAIN sizes) \X (1 .. workers))
  BY <1>1, FS_Product
<1>3. Places(sizes, workers) \in SUBSET ((DOMAIN sizes) \X (1 .. workers))
  BY DEF Places
<1> QED BY <1>2, <1>3, FS_Subset, FS_CardinalityType

\* The ranges of a configuration are finitely many records.
LEMMA ConfigRanges ==
  ASSUME NEW cfg, IsConfig(cfg)
  PROVE  Ranges(SpecsOf(cfg)) \in SUBSET RangeRecords /\ IsFiniteSet(Ranges(SpecsOf(cfg)))
<1> DEFINE f == [t \in cfg.texts |-> WorkerRangeSpec_parse(t)]
<1>1. ASSUME NEW t \in cfg.texts, WorkerRangeSpec_parse(t).kind = "Range"
      PROVE  WorkerRangeSpec_parse(t) \in RangeRecords
  <2>1. CASE t.kind = "range" /\ t.first \in Nat /\ t.last \in Nat
    BY <1>1, <2>1 DEF WorkerRangeSpec_parse, WorkerRange_parse, Err, RangeRecords
  <2>2. CASE t.kind = "count" /\ t.n \in Nat
    BY <1>1, <2>2 DEF WorkerRangeSpec_parse, Err
  <2> QED BY <2>1, <2>2 DEF IsConfig
<1>2. f \in Surjection(cfg.texts, SpecsOf(cfg))
  BY DEF SpecsOf, Surjection
<1>3. IsFiniteSet(SpecsOf(cfg))
  <2> HIDE DEF f
  <2> QED BY <1>2, FS_Surjection DEF IsConfig
<1>4. Ranges(SpecsOf(cfg)) \in SUBSET SpecsOf(cfg)
  BY DEF Ranges
<1>5. Ranges(SpecsOf(cfg)) \in SUBSET RangeRecords
  BY <1>1 DEF Ranges, SpecsOf
<1> QED BY <1>3, <1>4, <1>5, FS_Subset

PoolBuilt == config \in Configs /\ pool = create_scheduler(config)

\* With worker ranges there is one group per range and group 0 for the others.
LEMMA AffinityGroupCount ==
  ASSUME NEW groups, NEW n \in Nat, DOMAIN groups = 1 .. n, NEW workers
  PROVE  /\ Len(with_affinity_groups(groups, workers)) = n + 1
         /\ DOMAIN with_affinity_groups(groups, workers) = 1 .. n + 1
<1> DEFINE assigned == UNION {Members(groups[g]) : g \in DOMAIN groups}
           global == IF workers > Cardinality(assigned) THEN workers - Cardinality(assigned) ELSE 0
           sizes == [g \in DOMAIN groups |-> groups[g].end - groups[g].start]
           S == {global} \cup {groups[g].end - groups[g].start : g \in DOMAIN groups}
<1>1. with_affinity_groups(groups, workers) = <<global>> \o sizes
  BY DEF with_affinity_groups
<1>2. sizes \in Seq(S) /\ Len(sizes) = n
  <2>1. sizes \in [1 .. n -> S]
    OBVIOUS
  <2> HIDE DEF sizes, S
  <2> QED BY <2>1
<1>3. <<global>> \in Seq(S) /\ Len(<<global>>) = 1
  <2>1. global \in S
    OBVIOUS
  <2> HIDE DEF global, S
  <2> QED BY <2>1
<1> HIDE DEF global, sizes, S
<1>4. /\ <<global>> \o sizes \in Seq(S)
      /\ Len(<<global>> \o sizes) = n + 1
  BY <1>2, <1>3, ConcatProperties
<1> QED BY <1>1, <1>4

\* The pool a configuration builds: its workers are finitely many, every worker
\* listens on a group that exists, and a sharded pool has a shard.
LEMMA PoolShape ==
  ASSUME PoolBuilt
  PROVE  /\ IsFiniteSet(Workers)
         /\ NumGroups \in Nat
         /\ Sharded => Custom /\ NumGroups # 0
         /\ \A w \in Workers : GroupOf(w) \in 0 .. NumGroups /\ (Custom => GroupOf(w) # NumGroups)
<1> DEFINE cfg == config
           ranges == Ranges(SpecsOf(cfg))
           groups == from_worker_ranges(ranges)
           affine == with_affinity_groups(groups, cfg.workers)
           shards == add_sharded_workers(cfg.workers, cfg.shard)
           sizes == CASE ~Custom -> <<>>
                      [] Custom /\ groups # <<>> -> affine
                      [] OTHER -> shards
           requested == IF Custom THEN Cardinality(Places(sizes, cfg.workers)) ELSE cfg.workers
           alloc == allocate_cores(cfg.cores, cfg.offset, cfg.sys, cfg.recv, requested)
<1>1. IsConfig(cfg)
  BY SchedulerAssumption DEF PoolBuilt
<1>2. /\ Workers = 0 .. alloc.workers - 1
      /\ NumGroups = Len(sizes)
      /\ Sharded = (Custom /\ groups = <<>>)
      /\ pool.group = IF Custom THEN worker_to_group_idx(groups, sizes, alloc.workers)
                      ELSE [w \in 0 .. alloc.workers - 1 |-> 0]
  BY DEF PoolBuilt, create_scheduler, Workers, NumGroups, Sharded, Custom
<1>3. ranges \in SUBSET RangeRecords /\ IsFiniteSet(ranges) /\ Cardinality(ranges) \in Nat
  BY <1>1, ConfigRanges, FS_CardinalityType
<1>4. DOMAIN groups = 1 .. Cardinality(ranges)
  BY DEF from_worker_ranges
<1>5. Len(affine) = Cardinality(ranges) + 1 /\ DOMAIN affine = 1 .. Cardinality(ranges) + 1
  <2> HIDE DEF groups, ranges
  <2> QED BY <1>3, <1>4, AffinityGroupCount
<1>6. PICK n \in Nat \ {0} : DOMAIN shards = 1 .. n
  BY <1>1, ShardsExist DEF IsConfig
<1>7. Len(shards) = n
  BY <1>6
<1>8. alloc.workers \in Nat
  <2>1. IsFiniteSet(DOMAIN affine) /\ IsFiniteSet(DOMAIN shards)
    <3> HIDE DEF affine, shards, ranges
    <3> QED BY <1>3, <1>5, <1>6, FS_Interval
  <2>2. Custom => IsFiniteSet(DOMAIN sizes)
    <3> HIDE DEF affine, shards, groups
    <3> QED BY <2>1
  <2>3. requested \in Nat
    <3> HIDE DEF sizes
    <3> QED BY <1>1, <2>2, PlacesAreCounted DEF IsConfig
  <2> HIDE DEF requested
  <2> QED BY <1>1, <2>3, AllocatedWorkers DEF IsConfig
<1>9. IsFiniteSet(Workers)
  <2> HIDE DEF alloc, requested, sizes, affine, shards, groups
  <2>1. Workers = 0 .. alloc.workers - 1 /\ 0 \in Int /\ alloc.workers - 1 \in Int
    BY <1>2, <1>8
  <2> QED BY <2>1, FS_Interval
<1>10. CASE ~Custom
  <2>1. NumGroups = 0 /\ ~Sharded
    <3> HIDE DEF groups, affine, shards, alloc, requested
    <3> QED BY <1>2, <1>10
  <2>2. \A w \in Workers : GroupOf(w) = 0
    <3> HIDE DEF groups, affine, shards, alloc, requested
    <3> QED BY <1>2, <1>10 DEF GroupOf
  <2> QED BY <1>9, <1>10, <2>1, <2>2
<1>11. CASE Custom /\ groups # <<>>
  <2>1. NumGroups = Cardinality(ranges) + 1 /\ ~Sharded
    <3> HIDE DEF groups, affine, shards, alloc, requested
    <3> QED BY <1>2, <1>5, <1>11
  <2>2. ASSUME NEW w \in Workers PROVE GroupOf(w) \in 0 .. Cardinality(ranges)
    <3> DEFINE mine == get_worker_groups(groups, w)
    <3>1. GroupOf(w) = IF mine = {} THEN 0 ELSE Min(mine)
      <4> HIDE DEF groups, affine, shards, alloc, requested, sizes
      <4> QED BY <1>2, <1>11 DEF GroupOf, worker_to_group_idx
    <3>2. mine \in SUBSET (1 .. Cardinality(ranges))
      <4> HIDE DEF groups
      <4> QED BY <1>4 DEF get_worker_groups
    <3>3. mine # {} => Min(mine) \in mine
      <4> HIDE DEF mine
      <4> QED BY <1>3, <3>2, LeastElement
    <3>4. CASE mine = {}
      <4> HIDE DEF mine, ranges
      <4> QED BY <1>3, <3>1, <3>4
    <3>5. CASE mine # {}
      <4>1. Min(mine) \in 1 .. Cardinality(ranges)
        <5> HIDE DEF mine, ranges
        <5> QED BY <3>2, <3>3, <3>5
      <4>2. GroupOf(w) = Min(mine)
        <5> HIDE DEF mine
        <5> QED BY <3>1, <3>5
      <4> HIDE DEF mine, ranges
      <4> QED BY <4>1, <4>2
    <3> QED BY <3>4, <3>5
  <2> QED BY <1>9, <1>3, <1>11, <2>1, <2>2
<1>12. CASE Custom /\ groups = <<>>
  <2>1. NumGroups = n /\ Sharded /\ sizes = shards
    <3> HIDE DEF groups, affine, shards, alloc, requested
    <3> QED BY <1>2, <1>7, <1>12
  <2>2. ASSUME NEW w \in Workers PROVE GroupOf(w) \in 0 .. n - 1
    <3> DEFINE UpTo(g) == g * (alloc.workers \div n) + Least(g, alloc.workers % n)
    <3>1. GroupOf(w) = CHOOSE g \in 0 .. n - 1 : UpTo(g) <= w /\ w < UpTo(g + 1)
      <4> HIDE DEF groups, affine, shards, alloc, requested, sizes
      <4> QED BY <1>2, <1>7, <1>12, <2>1 DEF GroupOf, worker_to_group_idx
    <3>2. \E g \in 0 .. n - 1 : UpTo(g) <= w /\ w < UpTo(g + 1)
      <4> HIDE DEF alloc
      <4> QED BY <1>2, <1>8, ShareHoldsWorker
    <3> HIDE DEF UpTo
    <3> QED BY <3>1, <3>2
  <2> QED BY <1>9, <1>12, <2>1, <2>2
<1> QED BY <1>10, <1>11, <1>12

\* A node pinned to a range has a group of its own, whose workers are in it.
LEMMA PoolAffinity ==
  ASSUME PoolBuilt, Custom, NEW j \in Jobs, UseWorkers(j).kind = "Range"
  PROVE  /\ ~Sharded
         /\ get_affinity_group(j) \in 1 .. NumGroups - 1
         /\ \A w \in Workers : GroupOf(w) = get_affinity_group(j) => contains(UseWorkers(j), w)
<1> DEFINE cfg == config
           ranges == Ranges(SpecsOf(cfg))
           groups == from_worker_ranges(ranges)
           affine == with_affinity_groups(groups, cfg.workers)
           requested == Cardinality(Places(affine, cfg.workers))
           alloc == allocate_cores(cfg.cores, cfg.offset, cfg.sys, cfg.recv, requested)
           spec == UseWorkers(j)
           g == get_affinity_group(j)
<1>1. IsConfig(cfg)
  BY SchedulerAssumption DEF PoolBuilt
<1>2. spec \in ranges
  BY <1>1 DEF Ranges, IsConfig, Jobs, UseWorkers
<1>3. ranges \in SUBSET RangeRecords /\ IsFiniteSet(ranges) /\ Cardinality(ranges) \in Nat
  BY <1>1, ConfigRanges, FS_CardinalityType
<1>4. DOMAIN groups = 1 .. Cardinality(ranges)
  BY DEF from_worker_ranges
<1>5. \E k \in DOMAIN groups : groups[k] = spec
  <2> HIDE DEF ranges, spec
  <2> QED BY <1>2, <1>3, <1>4, EveryRangeHasGroup
<1>6. groups # <<>>
  <2> HIDE DEF groups, spec
  <2> QED BY <1>5
<1>7. /\ pool.groups = groups
      /\ NumGroups = Len(affine)
      /\ ~Sharded
      /\ pool.group = worker_to_group_idx(groups, affine, alloc.workers)
      /\ Workers = 0 .. alloc.workers - 1
  <2>1. pool = create_scheduler(cfg) /\ cfg.kind = "custom"
    BY DEF PoolBuilt, Custom
  <2> HIDE DEF groups, affine, requested, alloc
  <2> QED BY <1>6, <2>1 DEF create_scheduler, NumGroups, Sharded, Workers, groups, affine,
                            requested, alloc
<1>8. g \in DOMAIN groups /\ groups[g] = spec
  <2>1. g = get_group(groups, spec)
    BY <1>7 DEF get_affinity_group
  <2> HIDE DEF groups, spec, g
  <2> QED BY <1>5, <2>1 DEF get_group
<1>9. NumGroups = Cardinality(ranges) + 1
  <2> HIDE DEF groups, ranges
  <2> QED BY <1>3, <1>4, <1>7, AffinityGroupCount
<1>10. ASSUME NEW w \in Workers, GroupOf(w) = g PROVE contains(spec, w)
  <2> DEFINE mine == get_worker_groups(groups, w)
  <2>1. GroupOf(w) = IF mine = {} THEN 0 ELSE Min(mine)
    <3> HIDE DEF groups, affine, requested, alloc
    <3> QED BY <1>6, <1>7 DEF GroupOf, worker_to_group_idx
  <2>2. mine \in SUBSET (1 .. Cardinality(ranges))
    <3> HIDE DEF groups
    <3> QED BY <1>4 DEF get_worker_groups
  <2>3. mine # {} => Min(mine) \in mine
    <3> HIDE DEF mine
    <3> QED BY <1>3, <2>2, LeastElement
  <2>4. g # 0
    <3> HIDE DEF g, groups
    <3> QED BY <1>3, <1>4, <1>8
  <2>5. g \in mine
    <3> HIDE DEF mine, g
    <3> QED BY <1>10, <2>1, <2>3, <2>4
  <2> HIDE DEF groups, g, spec
  <2> QED BY <1>8, <2>5 DEF get_worker_groups
<1> HIDE DEF groups, g, ranges
<1> QED BY <1>3, <1>4, <1>7, <1>8, <1>9, <1>10 DEF g

-----------------------------------------------------------------------------
(***************************************************************************)
(* The inductive invariant.                                                *)
(***************************************************************************)

Channels == (0 .. NumGroups) \X Priorities
PcLabels == {"start", "top", "scan", "block", "idle", "taken", "run", "release", "dying", "ran",
             "uncounted", "selfjoin", "exited", "dead"}

StateTypeOK ==
  /\ PoolBuilt
  /\ stage \in [Jobs -> {"new", "counted", "routed", "sent", "kept"}]
  /\ route \in [Jobs -> 0 .. NumGroups]
  /\ queue \in [Channels -> Seq(Jobs)]
  /\ pc \in [Workers -> PcLabels]
  /\ cursor \in [Workers -> Nat \ {0}]
  /\ task \in [Workers -> Jobs \cup {0}]
  /\ runs \in [Jobs -> {0, 1}]
  /\ skipped \in SUBSET Jobs
  /\ pending_tasks \in Int
  /\ in_flight \in [0 .. NumGroups -> Int]
  /\ next_shard \in Nat

Hand(w) == pc[w] \in {"taken", "run"}

\* A waiting job was sent, to the channel of its route, has not run, and waits
\* in one place.
WaitingOnce ==
  /\ \A c \in Channels : \A i \in DOMAIN queue[c] :
       LET j == queue[c][i]
       IN  stage[j] = "sent" /\ route[j] = c[1] /\ runs[j] = 0 /\ j \notin skipped
  /\ \A c, d \in Channels : \A i \in DOMAIN queue[c], k \in DOMAIN queue[d] :
       queue[c][i] = queue[d][k] => c = d /\ i = k

\* A job whose spawn is over: it went into a channel, or a worker kept it.
Handed(j) == stage[j] \in {"sent", "kept"}

\* A job in a worker's hands was sent or kept, has not run, and is nowhere else.
HeldOnce ==
  /\ \A w \in Workers : Hand(w) =>
       /\ task[w] \in Jobs /\ Handed(task[w]) /\ (pc[w] = "taken" => stage[task[w]] = "sent")
       /\ runs[task[w]] = 0 /\ task[w] \notin skipped
       /\ \A c \in Channels : \A i \in DOMAIN queue[c] : queue[c][i] # task[w]
  /\ \A v, w \in Workers : Hand(v) /\ Hand(w) /\ task[v] = task[w] => v = w

\* A job that was sent or kept waits, is held, has run or was skipped; no other has.
Accounted ==
  /\ \A j \in Jobs : runs[j] = 1 \/ j \in skipped => Handed(j)
  /\ \A j \in skipped : runs[j] = 0
  /\ \A j \in Jobs : Handed(j) =>
       \/ \E c \in Channels : \E i \in DOMAIN queue[c] : queue[c][i] = j
       \/ \E w \in Workers : Hand(w) /\ task[w] = j
       \/ runs[j] = 1 \/ j \in skipped

\* A successor that a job keeps is untouched until that job has run.
KeptLater == \A j \in Jobs : Keeps(j) # 0 /\ runs[j] = 0 => stage[Keeps(j)] = "new"

\* A pinned job goes to the group of its range and, from a channel, to a worker
\* in the range.
IsPinned(j) == Custom /\ UseWorkers(j).kind = "Range"
RoutedToRange ==
  /\ \A j \in Jobs : IsPinned(j) /\ stage[j] \in {"routed", "sent"} =>
       route[j] = get_affinity_group(j)
  /\ \A w \in Workers : Hand(w) /\ IsPinned(task[w]) /\ stage[task[w]] = "sent"
                          => contains(UseWorkers(task[w]), w)

\* Jobs whose spawn has begun and whose body has not run, and workers that have
\* run a body and not yet counted it off.
Owed == {j \in Jobs : stage[j] # "new" /\ runs[j] = 0 /\ j \notin skipped}
Late == {w \in Workers : pc[w] \in {"release", "dying", "ran"}}
PendingCovers == pending_tasks >= Cardinality(Owed) + Cardinality(Late)

\* Workers of a group that are inside run_job.
Inside(g) == {w \in Workers : /\ GroupOf(w) = g
                              /\ pc[w] \in {"run", "release", "dying", "ran", "uncounted"}}
FlightCovers == Sharded => \A g \in 0 .. NumGroups : in_flight[g] >= Cardinality(Inside(g))

IInv ==
  /\ StateTypeOK /\ WaitingOnce /\ HeldOnce /\ Accounted
  /\ KeptLater /\ RoutedToRange /\ PendingCovers /\ FlightCovers

-----------------------------------------------------------------------------
(* Facts about the invariant's parts. *)

\* What is built stays: a step that leaves config and pool leaves all of this.
LEMMA BuiltStays ==
  ASSUME UNCHANGED <<config, pool>>
  PROVE  /\ Jobs' = Jobs /\ Workers' = Workers /\ NumGroups' = NumGroups
         /\ Channels' = Channels /\ Custom' = Custom /\ Sharded' = Sharded
         /\ PoolBuilt' = PoolBuilt
         /\ \A w : GroupOf(w)' = GroupOf(w)
         /\ \A j : /\ UseWorkers(j)' = UseWorkers(j)
                   /\ Keeps(j)' = Keeps(j)
                   /\ IsPinned(j)' = IsPinned(j)
                   /\ get_affinity_group(j)' = get_affinity_group(j)
BY DEF Jobs, Workers, NumGroups, Channels, Custom, Sharded, PoolBuilt, GroupOf, UseWorkers,
       IsPinned, Keeps, get_affinity_group

\* Jobs and workers can be counted.
LEMMA FiniteParts ==
  ASSUME StateTypeOK
  PROVE  /\ IsFiniteSet(Jobs) /\ IsFiniteSet(Workers)
         /\ Cardinality(Jobs) \in 0 .. MaxJobs
         /\ \A S \in SUBSET Jobs : IsFiniteSet(S) /\ Cardinality(S) \in Nat
         /\ \A S \in SUBSET Workers : IsFiniteSet(S) /\ Cardinality(S) \in Nat
<1>1. IsFiniteSet(Jobs) /\ Cardinality(Jobs) \in 0 .. MaxJobs
  <2>1. PICK n \in 0 .. MaxJobs : Jobs = 1 .. n
    BY SchedulerAssumption DEF StateTypeOK, PoolBuilt, IsConfig, Jobs
  <2>2. n \in Nat
    BY SchedulerAssumption
  <2>3. IsFiniteSet(1 .. n) /\ Cardinality(1 .. n) = n
    BY <2>2, FS_Interval
  <2> QED BY <2>1, <2>3
<1>2. IsFiniteSet(Workers)
  BY PoolShape DEF StateTypeOK
<1>3. \A S \in SUBSET Jobs : IsFiniteSet(S) /\ Cardinality(S) \in Nat
  BY <1>1, FS_Subset, FS_CardinalityType
<1>4. \A S \in SUBSET Workers : IsFiniteSet(S) /\ Cardinality(S) \in Nat
  BY <1>2, FS_Subset, FS_CardinalityType
<1> QED BY <1>1, <1>2, <1>3, <1>4

\* What a job keeps is a job, and no other keeps it.
LEMMA KeptIsJob ==
  ASSUME StateTypeOK, NEW j \in Jobs, Keeps(j) # 0
  PROVE  /\ Keeps(j) \in Jobs
         /\ \A i \in Jobs : Keeps(i) = Keeps(j) => i = j
BY SchedulerAssumption DEF StateTypeOK, PoolBuilt, IsConfig, Jobs, Keeps

QuietPc == {"start", "top", "scan", "block", "idle", "selfjoin", "exited", "dead"}

\* A step that moves workers between labels at which they hold no job, and
\* nothing else of the invariant.
LEMMA QuietStep ==
  ASSUME IInv,
         UNCHANGED <<config, pool, stage, route, queue, task, runs, skipped, pending_tasks,
                     in_flight, next_shard>>,
         cursor' \in [Workers -> Nat \ {0}], pc' \in [Workers -> PcLabels],
         \A w \in Workers : pc'[w] = pc[w] \/ (pc[w] \in QuietPc /\ pc'[w] \in QuietPc)
  PROVE  IInv'
<1>1. /\ Jobs' = Jobs /\ Workers' = Workers /\ NumGroups' = NumGroups /\ Channels' = Channels
      /\ Sharded' = Sharded /\ PoolBuilt' = PoolBuilt
      /\ \A w : GroupOf(w)' = GroupOf(w)
      /\ \A j : IsPinned(j)' = IsPinned(j) /\ get_affinity_group(j)' = get_affinity_group(j)
      /\ \A j : UseWorkers(j)' = UseWorkers(j) /\ Keeps(j)' = Keeps(j)
  BY BuiltStays
<1>2. \A w \in Workers : Hand(w)' <=> Hand(w)
  BY DEF Hand, QuietPc
<1>3. Owed' = Owed /\ Late' = Late
  BY <1>1 DEF Owed, Late, QuietPc
<1>4. \A g : Inside(g)' = Inside(g)
  BY <1>1 DEF Inside, QuietPc
<1>5. StateTypeOK'
  BY <1>1 DEF IInv, StateTypeOK
<1>6. WaitingOnce' /\ Accounted' /\ KeptLater'
  BY <1>1, <1>2 DEF IInv, WaitingOnce, Accounted, Handed, KeptLater
<1>7. HeldOnce' /\ RoutedToRange'
  BY <1>1, <1>2 DEF IInv, HeldOnce, RoutedToRange, Handed, Hand, QuietPc
<1>8. PendingCovers' /\ FlightCovers'
  BY <1>1, <1>3, <1>4 DEF IInv, PendingCovers, FlightCovers
<1> QED BY <1>5, <1>6, <1>7, <1>8 DEF IInv

-----------------------------------------------------------------------------
(* Spawning *)

\* The load of a shard is a number.
LEMMA LoadIsNat ==
  ASSUME StateTypeOK, FlightCovers, Sharded, NEW g \in 0 .. NumGroups
  PROVE  load_of(g) \in Nat
<1>1. /\ Len(queue[<<g, High>>]) \in Nat
      /\ Len(queue[<<g, Normal>>]) \in Nat
      /\ Len(queue[<<g, Low>>]) \in Nat
  BY DEF StateTypeOK, Channels, Priorities
<1>2. load(g) \in Nat
  <2>1. \A a, b, c \in Nat : a + b + c \in Nat
    OBVIOUS
  <2> QED BY <1>1, <2>1, Zenon DEF load
<1>3. Inside(g) \in SUBSET Workers
  BY DEF Inside
<1>4. Cardinality(Inside(g)) \in Nat
  BY <1>3, FiniteParts
<1>5. in_flight[g] \in Int
  BY DEF StateTypeOK
<1>6. in_flight[g] >= Cardinality(Inside(g))
  BY DEF FlightCovers
<1>7. in_flight[g] \in Nat
  BY <1>4, <1>5, <1>6
<1> QED BY <1>2, <1>7 DEF load_of

\* The least loaded shard is one of the shards.
LEMMA LeastLoadedIsShard ==
  ASSUME StateTypeOK, FlightCovers, Sharded
  PROVE  LeastLoaded \in 0 .. NumGroups - 1
<1> DEFINE n == NumGroups
           K == 0 .. n - 1
           Place(k) == (next_shard + k) % n
           L(k) == load_of(Place(k))
           best == CHOOSE k \in K : \A i \in K : L(k) < L(i) \/ (L(k) = L(i) /\ k <= i)
<1>1. n \in Nat \ {0}
  BY PoolShape DEF StateTypeOK
<1>2. ASSUME NEW k \in K PROVE Place(k) \in K /\ L(k) \in Nat
  <2>1. Place(k) \in K
    BY <1>1 DEF StateTypeOK
  <2>2. L(k) \in Nat
    <3> HIDE DEF Place
    <3> QED BY <1>1, <2>1, LoadIsNat
  <2> QED BY <2>1, <2>2
<1> HIDE DEF Place, L
<1>3. PICK least \in Nat : /\ \E k \in K : L(k) = least
                           /\ \A k \in K : least <= L(k)
  <2> DEFINE I == {m \in Nat : \E k \in K : L(k) = m}
  <2>1. 0 \in K
    BY <1>1
  <2>2. I \in SUBSET Nat /\ L(0) \in I
    BY <1>2, <2>1
  <2>3. Min(I) \in I /\ \A m \in I : Min(I) <= m
    BY <2>2, LeastElement
  <2> QED BY <1>2, <2>3
<1>4. PICK first \in K : L(first) = least /\ \A k \in K : L(k) = least => first <= k
  <2> DEFINE I == {k \in K : L(k) = least}
  <2>1. I \in SUBSET Nat /\ I # {}
    BY <1>1, <1>3
  <2>2. Min(I) \in I /\ \A k \in I : Min(I) <= k
    BY <2>1, LeastElement
  <2> QED BY <2>2
<1>5. \A i \in K : L(first) < L(i) \/ (L(first) = L(i) /\ first <= i)
  BY <1>2, <1>3, <1>4
<1>6. best \in K
  BY <1>5
<1>7. LeastLoaded = Place(best)
  BY DEF LeastLoaded, Place, L
<1> HIDE DEF best
<1> QED BY <1>2, <1>6, <1>7

\* A job is routed to a group that exists, a pinned one to the group of its range.
LEMMA TargetExists ==
  ASSUME IInv, NEW j \in Jobs
  PROVE  /\ Target(j) \in 0 .. NumGroups
         /\ IsPinned(j) => Target(j) = get_affinity_group(j)
<1>1. NumGroups \in Nat
  BY PoolShape DEF IInv, StateTypeOK
<1>2. Sharded => LeastLoaded \in 0 .. NumGroups
  BY <1>1, LeastLoadedIsShard DEF IInv
<1>3. get_affinity_group(j) \in Nat
  <2>1. CASE Custom
    <3>1. DOMAIN pool.groups = 1 .. Cardinality(Ranges(SpecsOf(config)))
      BY DEF IInv, StateTypeOK, PoolBuilt, create_scheduler, from_worker_ranges
    <3>2. IsFiniteSet(Ranges(SpecsOf(config)))
      BY SchedulerAssumption, ConfigRanges DEF IInv, StateTypeOK, PoolBuilt
    <3> QED BY <2>1, <3>1, <3>2, FS_CardinalityType DEF get_affinity_group, get_group
  <2> QED BY <2>1 DEF get_affinity_group
<1>4. IsPinned(j) => get_affinity_group(j) \in 1 .. NumGroups - 1
  BY PoolAffinity DEF IsPinned, IInv, StateTypeOK
<1> QED BY <1>1, <1>2, <1>3, <1>4 DEF Target, Global

\* Counting the spawn of a job covers it.
LEMMA CountStep ==
  ASSUME IInv, NEW j \in Jobs, Count(j)
  PROVE  IInv'
<1>1. /\ Jobs' = Jobs /\ Workers' = Workers /\ NumGroups' = NumGroups /\ Channels' = Channels
      /\ Sharded' = Sharded /\ PoolBuilt' = PoolBuilt
      /\ \A w : GroupOf(w)' = GroupOf(w)
      /\ \A k : IsPinned(k)' = IsPinned(k) /\ get_affinity_group(k)' = get_affinity_group(k)
      /\ \A k : UseWorkers(k)' = UseWorkers(k) /\ Keeps(k)' = Keeps(k)
  BY BuiltStays DEF Count
<1>2. \A w \in Workers : Hand(w)' <=> Hand(w)
  BY DEF Hand, Count
<1>3. StateTypeOK
  BY DEF IInv
<1>4. stage[j] = "new" /\ runs[j] = 0 /\ j \notin skipped /\ ~IsKept(j)
  BY DEF Count, MaySpawn, IInv, Accounted, Handed, StateTypeOK
<1>5. /\ stage' = [stage EXCEPT ![j] = "counted"]
      /\ pending_tasks' = pending_tasks + 1
      /\ UNCHANGED <<route, queue, pc, cursor, task, runs, skipped, in_flight, next_shard>>
  BY DEF Count
<1>6. StateTypeOK'
  BY <1>1, <1>3, <1>5 DEF StateTypeOK
<1>7. WaitingOnce' /\ HeldOnce' /\ Accounted'
  <2>1. \A k \in Jobs : /\ stage'[k] = IF k = j THEN "counted" ELSE stage[k]
                        /\ k # j => route'[k] = route[k]
    BY <1>3, <1>5 DEF StateTypeOK
  <2>2. \A d \in Channels : \A i \in DOMAIN queue[d] : queue[d][i] \in Jobs
    BY <1>3 DEF StateTypeOK
  <2>3. WaitingOnce'
    BY <1>1, <1>4, <1>5, <2>1, <2>2 DEF IInv, WaitingOnce
  <2>4. HeldOnce'
    BY <1>1, <1>2, <1>4, <1>5, <2>1 DEF IInv, HeldOnce, Handed
  <2>5. Accounted'
    <3>1. \A k \in Jobs : Handed(k)' <=> Handed(k)
      BY <1>4, <2>1 DEF Handed
    <3>2. skipped \in SUBSET Jobs
      BY <1>3 DEF StateTypeOK
    <3> QED BY <1>1, <1>2, <1>5, <3>1, <3>2 DEF IInv, Accounted
  <2> QED BY <2>3, <2>4, <2>5
<1>8. RoutedToRange'
  BY <1>1, <1>2, <1>4, <1>5 DEF IInv, StateTypeOK, RoutedToRange, HeldOnce
<1>9. PendingCovers'
  <2>1. Owed' = Owed \cup {j} /\ j \notin Owed /\ Owed \in SUBSET Jobs
    BY <1>1, <1>3, <1>4, <1>5 DEF Owed, StateTypeOK
  <2>2. Late' = Late /\ Late \in SUBSET Workers
    BY <1>1, <1>5 DEF Late
  <2>3. IsFiniteSet(Owed) /\ Cardinality(Owed) \in Nat /\ Cardinality(Late) \in Nat
    BY <1>3, <2>1, <2>2, FiniteParts
  <2>4. Cardinality(Owed') = Cardinality(Owed) + 1
    BY <2>1, <2>3, FS_AddElement
  <2> QED BY <1>3, <1>5, <2>2, <2>3, <2>4 DEF IInv, PendingCovers, StateTypeOK
<1>10. FlightCovers'
  BY <1>1, <1>5 DEF IInv, FlightCovers, Inside
<1>11. KeptLater'
  <2>1. ASSUME NEW i \in Jobs, Keeps(i) # 0, runs[i] = 0 PROVE stage'[Keeps(i)] = "new"
    <3>1. Keeps(i) \in Jobs /\ Keeps(i) # j /\ stage[Keeps(i)] = "new"
      BY <1>3, <1>4, <2>1, KeptIsJob DEF IsKept, IInv, KeptLater
    <3> QED BY <1>3, <1>5, <3>1 DEF StateTypeOK
  <2> QED BY <1>1, <1>5, <2>1 DEF KeptLater
<1> QED BY <1>6, <1>7, <1>8, <1>9, <1>10, <1>11 DEF IInv

\* Choosing the channel of a job.
LEMMA RouteStep ==
  ASSUME IInv, NEW j \in Jobs, Route(j)
  PROVE  IInv'
<1>1. /\ Jobs' = Jobs /\ Workers' = Workers /\ NumGroups' = NumGroups /\ Channels' = Channels
      /\ Sharded' = Sharded /\ PoolBuilt' = PoolBuilt
      /\ \A w : GroupOf(w)' = GroupOf(w)
      /\ \A k : IsPinned(k)' = IsPinned(k) /\ get_affinity_group(k)' = get_affinity_group(k)
      /\ \A k : UseWorkers(k)' = UseWorkers(k) /\ Keeps(k)' = Keeps(k)
  BY BuiltStays DEF Route
<1>2. \A w \in Workers : Hand(w)' <=> Hand(w)
  BY DEF Hand, Route
<1>3. StateTypeOK
  BY DEF IInv
<1>4. stage[j] = "counted" /\ runs[j] = 0 /\ j \notin skipped
  BY DEF Route, IInv, Accounted, Handed, StateTypeOK
<1>5. /\ stage' = [stage EXCEPT ![j] = "routed"]
      /\ route' = [route EXCEPT ![j] = Target(j)]
      /\ UNCHANGED <<queue, pc, cursor, task, runs, skipped, pending_tasks, in_flight>>
  BY DEF Route
<1>6. /\ Target(j) \in 0 .. NumGroups
      /\ IsPinned(j) => Target(j) = get_affinity_group(j)
  BY TargetExists
<1>7. next_shard' \in Nat
  <2>1. NumGroups \in Nat /\ next_shard \in Nat
    BY <1>3, PoolShape DEF StateTypeOK
  <2>2. NumGroups > 1 => (next_shard + 1) % NumGroups \in Nat
    BY <2>1
  <2> QED BY <2>1, <2>2 DEF Route
<1>8. StateTypeOK'
  BY <1>1, <1>3, <1>5, <1>6, <1>7 DEF StateTypeOK
<1>9. WaitingOnce' /\ HeldOnce' /\ Accounted'
  <2>1. \A k \in Jobs : /\ stage'[k] = IF k = j THEN "routed" ELSE stage[k]
                        /\ k # j => route'[k] = route[k]
    BY <1>3, <1>5 DEF StateTypeOK
  <2>2. \A d \in Channels : \A i \in DOMAIN queue[d] : queue[d][i] \in Jobs
    BY <1>3 DEF StateTypeOK
  <2>3. WaitingOnce'
    BY <1>1, <1>4, <1>5, <2>1, <2>2 DEF IInv, WaitingOnce
  <2>4. HeldOnce'
    BY <1>1, <1>2, <1>4, <1>5, <2>1 DEF IInv, HeldOnce, Handed
  <2>5. Accounted'
    <3>1. \A k \in Jobs : Handed(k)' <=> Handed(k)
      BY <1>4, <2>1 DEF Handed
    <3>2. skipped \in SUBSET Jobs
      BY <1>3 DEF StateTypeOK
    <3> QED BY <1>1, <1>2, <1>5, <3>1, <3>2 DEF IInv, Accounted
  <2> QED BY <2>3, <2>4, <2>5
<1>10. RoutedToRange'
  BY <1>1, <1>2, <1>4, <1>5, <1>6 DEF IInv, StateTypeOK, RoutedToRange, HeldOnce
<1>11. Owed' = Owed /\ Late' = Late /\ \A g : Inside(g)' = Inside(g)
  BY <1>1, <1>3, <1>4, <1>5 DEF Owed, Late, Inside, StateTypeOK
<1>12. PendingCovers' /\ FlightCovers'
  BY <1>1, <1>5, <1>11 DEF IInv, PendingCovers, FlightCovers
<1>13. KeptLater'
  <2>1. ASSUME NEW i \in Jobs, Keeps(i) # 0, runs[i] = 0 PROVE stage'[Keeps(i)] = "new"
    <3>1. Keeps(i) \in Jobs /\ Keeps(i) # j /\ stage[Keeps(i)] = "new"
      BY <1>3, <1>4, <2>1, KeptIsJob DEF IInv, KeptLater
    <3> QED BY <1>3, <1>5, <3>1 DEF StateTypeOK
  <2> QED BY <1>1, <1>5, <2>1 DEF KeptLater
<1> QED BY <1>8, <1>9, <1>10, <1>12, <1>13 DEF IInv

\* A job enters the channel it was routed to; it was in no other.
LEMMA SendStep ==
  ASSUME IInv, NEW j \in Jobs, Send(j)
  PROVE  IInv'
<1> DEFINE c == <<route[j], config.jobs[j].priority>>
<1>1. /\ Jobs' = Jobs /\ Workers' = Workers /\ NumGroups' = NumGroups /\ Channels' = Channels
      /\ Sharded' = Sharded /\ PoolBuilt' = PoolBuilt
      /\ \A w : GroupOf(w)' = GroupOf(w)
      /\ \A k : IsPinned(k)' = IsPinned(k) /\ get_affinity_group(k)' = get_affinity_group(k)
      /\ \A k : UseWorkers(k)' = UseWorkers(k) /\ Keeps(k)' = Keeps(k)
  BY BuiltStays DEF Send
<1>2. \A w \in Workers : Hand(w)' <=> Hand(w)
  BY DEF Hand, Send
<1>3. StateTypeOK
  BY DEF IInv
<1>4. stage[j] = "routed" /\ runs[j] = 0 /\ j \notin skipped
  BY DEF Send, IInv, Accounted, Handed, StateTypeOK
<1>5. c \in Channels
  BY <1>3, SchedulerAssumption DEF StateTypeOK, Channels, PoolBuilt, IsConfig, Jobs
<1>6. /\ stage' = [stage EXCEPT ![j] = "sent"]
      /\ queue' = [queue EXCEPT ![c] = Append(queue[c], j)]
      /\ UNCHANGED <<route, pc, cursor, task, runs, skipped, pending_tasks, in_flight, next_shard>>
  BY DEF Send
<1>7. c[1] = route[j]
  OBVIOUS
<1> HIDE DEF c
<1>8. /\ queue[c] \in Seq(Jobs) /\ Len(queue[c]) \in Nat /\ DOMAIN queue[c] = 1 .. Len(queue[c])
      /\ Append(queue[c], j) \in Seq(Jobs)
      /\ DOMAIN Append(queue[c], j) = 1 .. Len(queue[c]) + 1
      /\ \A i \in DOMAIN queue[c] : Append(queue[c], j)[i] = queue[c][i]
      /\ Append(queue[c], j)[Len(queue[c]) + 1] = j
  BY <1>3, <1>5 DEF StateTypeOK
<1>9. StateTypeOK'
  <2>1. queue' \in [Channels -> Seq(Jobs)]
    BY <1>3, <1>5, <1>6, <1>8 DEF StateTypeOK
  <2>2. stage' \in [Jobs -> {"new", "counted", "routed", "sent", "kept"}]
    BY <1>3, <1>6 DEF StateTypeOK
  <2> QED BY <1>1, <1>3, <1>6, <2>1, <2>2 DEF StateTypeOK
\* Every position of the new queues is an old one, or the new one.
<1>10. ASSUME NEW d \in Channels, NEW i \in DOMAIN queue'[d]
       PROVE  \/ i \in DOMAIN queue[d] /\ queue'[d][i] = queue[d][i]
              \/ d = c /\ i = Len(queue[c]) + 1 /\ queue'[d][i] = j
  BY <1>3, <1>5, <1>6, <1>8 DEF StateTypeOK
<1>11. \A d \in Channels : \A i \in DOMAIN queue[d] : queue[d][i] # j
  BY <1>4 DEF IInv, WaitingOnce
<1>12. \A d \in Channels : \A i \in DOMAIN queue[d] :
         i \in DOMAIN queue'[d] /\ queue'[d][i] = queue[d][i]
  BY <1>3, <1>5, <1>6, <1>8 DEF StateTypeOK
<1>13. Len(queue[c]) + 1 \in DOMAIN queue'[c] /\ queue'[c][Len(queue[c]) + 1] = j
  BY <1>3, <1>5, <1>6, <1>8 DEF StateTypeOK
<1>14. \A k \in Jobs : stage'[k] = IF k = j THEN "sent" ELSE stage[k]
  BY <1>3, <1>6 DEF StateTypeOK
<1>15. \A d \in Channels : \A i \in DOMAIN queue[d] : queue[d][i] \in Jobs
  BY <1>3 DEF StateTypeOK
<1>16. WaitingOnce'
  <2>1. ASSUME NEW d \in Channels, NEW i \in DOMAIN queue'[d]
        PROVE  LET k == queue'[d][i]
               IN  stage'[k] = "sent" /\ route'[k] = d[1] /\ runs'[k] = 0 /\ k \notin skipped'
    BY <1>4, <1>6, <1>7, <1>10, <1>14, <1>15 DEF IInv, WaitingOnce
  <2>2. ASSUME NEW d \in Channels, NEW e \in Channels, NEW i \in DOMAIN queue'[d],
               NEW k \in DOMAIN queue'[e], queue'[d][i] = queue'[e][k]
        PROVE  d = e /\ i = k
    BY <1>10, <1>11, <2>2 DEF IInv, WaitingOnce
  <2> QED BY <1>1, <2>1, <2>2 DEF WaitingOnce
<1>17. HeldOnce'
  <2>1. \A w \in Workers : Hand(w) => task[w] # j
    BY <1>4 DEF IInv, HeldOnce, Handed
  <2> QED BY <1>1, <1>2, <1>6, <1>10, <1>14, <2>1 DEF IInv, HeldOnce, Handed
<1>18. Accounted'
  <2>1. ASSUME NEW k \in Jobs, Handed(k)'
        PROVE  \/ \E d \in Channels : \E i \in DOMAIN queue'[d] : queue'[d][i] = k
               \/ \E w \in Workers : Hand(w) /\ task[w] = k
               \/ runs[k] = 1 \/ k \in skipped
    <3>1. CASE k = j
      BY <1>5, <1>13, <3>1
    <3>2. CASE k # j
      BY <1>12, <1>14, <2>1, <3>2 DEF IInv, Accounted, Handed
    <3> QED BY <3>1, <3>2
  <2>2. \A k \in Jobs : runs[k] = 1 \/ k \in skipped => Handed(k)'
    BY <1>14 DEF IInv, Accounted, Handed
  <2> QED BY <1>1, <1>2, <1>6, <2>1, <2>2 DEF IInv, Accounted
<1>19. RoutedToRange'
  <2>1. \A w \in Workers : Hand(w) => task[w] \in Jobs /\ task[w] # j
    BY <1>4 DEF IInv, HeldOnce, Handed
  <2> QED BY <1>1, <1>2, <1>4, <1>6, <1>14, <2>1 DEF IInv, RoutedToRange
<1>20. Owed' = Owed /\ Late' = Late /\ \A g : Inside(g)' = Inside(g)
  BY <1>1, <1>3, <1>4, <1>6 DEF Owed, Late, Inside, StateTypeOK
<1>21. PendingCovers' /\ FlightCovers'
  BY <1>1, <1>6, <1>20 DEF IInv, PendingCovers, FlightCovers
<1>22. KeptLater'
  <2>1. ASSUME NEW i \in Jobs, Keeps(i) # 0, runs[i] = 0 PROVE stage'[Keeps(i)] = "new"
    <3>1. Keeps(i) \in Jobs /\ Keeps(i) # j /\ stage[Keeps(i)] = "new"
      BY <1>3, <1>4, <2>1, KeptIsJob DEF IInv, KeptLater
    <3> QED BY <1>14, <3>1
  <2> QED BY <1>1, <1>6, <2>1 DEF KeptLater
<1> QED BY <1>9, <1>16, <1>17, <1>18, <1>19, <1>21, <1>22 DEF IInv

-----------------------------------------------------------------------------
(* Workers *)

\* A receive moves one job from its channel into one worker's hands.
LEMMA TakeStep ==
  ASSUME IInv, NEW w \in Workers, pc[w] \in QuietPc, NEW c \in Channels, NEW i,
         Take(w, c, i), Custom => Sharded \/ c[1] \in {GroupOf(w), Global}
  PROVE  IInv'
<1> DEFINE j == queue[c][i]
           q == RemoveAt(queue[c], i)
<1>1. /\ Jobs' = Jobs /\ Workers' = Workers /\ NumGroups' = NumGroups /\ Channels' = Channels
      /\ Sharded' = Sharded /\ PoolBuilt' = PoolBuilt
      /\ \A v : GroupOf(v)' = GroupOf(v)
      /\ \A k : IsPinned(k)' = IsPinned(k) /\ get_affinity_group(k)' = get_affinity_group(k)
      /\ \A k : UseWorkers(k)' = UseWorkers(k) /\ Keeps(k)' = Keeps(k)
  BY BuiltStays DEF Take, WorkerFrame
<1>2. StateTypeOK
  BY DEF IInv
<1>3. /\ task' = [task EXCEPT ![w] = j]
      /\ queue' = [queue EXCEPT ![c] = q]
      /\ pc' = [pc EXCEPT ![w] = "taken"]
      /\ cursor' = [cursor EXCEPT ![w] = 1]
      /\ UNCHANGED <<stage, route, runs, skipped, pending_tasks, in_flight, next_shard>>
  BY DEF Take, WorkerFrame
<1>4. /\ queue[c] \in Seq(Jobs) /\ i \in DOMAIN queue[c] /\ i \in 1 .. Len(queue[c])
      /\ Len(queue[c]) \in Nat /\ DOMAIN queue[c] = 1 .. Len(queue[c])
  BY <1>2 DEF StateTypeOK, Take
<1>5. /\ q \in Seq(Jobs) /\ DOMAIN q = 1 .. Len(queue[c]) - 1
      /\ \A k \in 1 .. Len(queue[c]) - 1 : q[k] = IF k < i THEN queue[c][k] ELSE queue[c][k + 1]
  <2>1. q \in Seq(Jobs) /\ Len(q) = Len(queue[c]) - 1
    BY <1>4, RemoveAtLemma
  <2>2. \A k \in 1 .. Len(queue[c]) - 1 : q[k] = IF k < i THEN queue[c][k] ELSE queue[c][k + 1]
    BY <1>4, RemoveAtLemma
  <2> HIDE DEF q
  <2> QED BY <2>1, <2>2
<1>6. j \in Jobs /\ stage[j] = "sent" /\ route[j] = c[1] /\ runs[j] = 0 /\ j \notin skipped
  BY <1>2, <1>4 DEF IInv, WaitingOnce, StateTypeOK
<1>7. \A d \in Channels : \A k \in DOMAIN queue[d] : queue[d][k] = j => d = c /\ k = i
  BY <1>4 DEF IInv, WaitingOnce
<1> HIDE DEF j, q
<1>8. StateTypeOK'
  <2>1. queue' \in [Channels -> Seq(Jobs)]
    BY <1>2, <1>3, <1>5 DEF StateTypeOK
  <2>2. /\ pc' \in [Workers -> PcLabels] /\ task' \in [Workers -> Jobs \cup {0}]
        /\ cursor' \in [Workers -> Nat \ {0}]
    BY <1>2, <1>3, <1>6 DEF StateTypeOK, PcLabels
  <2> QED BY <1>1, <1>2, <1>3, <2>1, <2>2 DEF StateTypeOK
\* Where an entry of the new queues was before: its index, shifted behind i.
<1> DEFINE old(d, k) == IF d = c /\ k >= i THEN k + 1 ELSE k
<1>9. ASSUME NEW d \in Channels, NEW k \in DOMAIN queue'[d]
      PROVE  /\ k \in Nat
             /\ old(d, k) \in DOMAIN queue[d] /\ queue'[d][k] = queue[d][old(d, k)]
             /\ ~(d = c /\ old(d, k) = i)
  <2>1. CASE d = c
    <3>1. queue'[d] = q /\ k \in 1 .. Len(queue[c]) - 1
      BY <1>2, <1>3, <1>5, <2>1 DEF StateTypeOK
    <3>2. CASE k < i
      BY <1>4, <1>5, <2>1, <3>1, <3>2
    <3>3. CASE k >= i
      BY <1>4, <1>5, <2>1, <3>1, <3>3
    <3> QED BY <1>4, <3>1, <3>2, <3>3
  <2>2. CASE d # c
    <3>1. queue'[d] = queue[d] /\ queue[d] \in Seq(Jobs)
      BY <1>2, <1>3, <2>2 DEF StateTypeOK
    <3> QED BY <2>2, <3>1
  <2> QED BY <2>1, <2>2
<1>10. ASSUME NEW d \in Channels, NEW k \in DOMAIN queue[d], queue[d][k] # j
       PROVE  \E m \in DOMAIN queue'[d] : queue'[d][m] = queue[d][k]
  <2>1. CASE d = c
    <3>1. k \in 1 .. Len(queue[c]) /\ k # i /\ queue'[c] = q
      BY <1>2, <1>3, <1>4, <1>10, <2>1 DEF StateTypeOK, j
    <3>2. CASE k < i
      BY <1>4, <1>5, <2>1, <3>1, <3>2
    <3>3. CASE k > i
      <4>1. k - 1 \in DOMAIN q /\ q[k - 1] = queue[c][k]
        BY <1>4, <1>5, <3>1, <3>3
      <4> QED BY <2>1, <3>1, <4>1
    <3> QED BY <1>4, <3>1, <3>2, <3>3
  <2>2. CASE d # c
    BY <1>2, <1>3, <2>2 DEF StateTypeOK
  <2> QED BY <2>1, <2>2
<1>11. \A d \in Channels : \A k \in DOMAIN queue'[d] : queue'[d][k] # j
  BY <1>7, <1>9
<1>12. \A v \in Workers : /\ Hand(v)' <=> (v = w \/ Hand(v))
                          /\ task'[v] = IF v = w THEN j ELSE task[v]
  BY <1>2, <1>3 DEF Hand, StateTypeOK
<1>13. ~Hand(w)
  BY DEF Hand, QuietPc
<1>14. WaitingOnce'
  <2>1. ASSUME NEW d \in Channels, NEW k \in DOMAIN queue'[d]
        PROVE  LET m == queue'[d][k]
               IN  stage[m] = "sent" /\ route[m] = d[1] /\ runs[m] = 0 /\ m \notin skipped
    BY <1>9 DEF IInv, WaitingOnce
  <2>2. ASSUME NEW d \in Channels, NEW e \in Channels, NEW k \in DOMAIN queue'[d],
               NEW m \in DOMAIN queue'[e], queue'[d][k] = queue'[e][m]
        PROVE  d = e /\ k = m
    <3>1. d = e /\ old(d, k) = old(e, m)
      BY <1>9, <2>2 DEF IInv, WaitingOnce
    <3> QED BY <1>4, <1>9, <3>1
  <2> QED BY <1>1, <1>3, <2>1, <2>2 DEF WaitingOnce
<1>15. HeldOnce'
  <2>1. ASSUME NEW v \in Workers, Hand(v)'
        PROVE  /\ task'[v] \in Jobs /\ Handed(task'[v])
               /\ pc'[v] = "taken" => stage[task'[v]] = "sent"
               /\ runs[task'[v]] = 0 /\ task'[v] \notin skipped
               /\ \A d \in Channels : \A k \in DOMAIN queue'[d] : queue'[d][k] # task'[v]
    <3>1. CASE v = w
      BY <1>6, <1>11, <1>12, <3>1 DEF Handed
    <3>2. CASE v # w
      <4>1. pc'[v] = pc[v] /\ Hand(v) /\ task'[v] = task[v]
        BY <1>2, <1>3, <1>12, <2>1, <3>2 DEF StateTypeOK
      <4> QED BY <1>9, <4>1 DEF IInv, HeldOnce
    <3> QED BY <3>1, <3>2
  <2>2. ASSUME NEW u \in Workers, NEW v \in Workers, Hand(u)', Hand(v)', task'[u] = task'[v]
        PROVE  u = v
    <3>1. \A x \in Workers : Hand(x) => task[x] # j
      BY <1>4, <1>6 DEF IInv, HeldOnce, j
    <3> QED BY <1>12, <1>13, <2>2, <3>1 DEF IInv, HeldOnce
  <2> QED BY <1>1, <1>3, <2>1, <2>2 DEF HeldOnce, Handed
<1>16. Accounted'
  <2>1. ASSUME NEW k \in Jobs, Handed(k)
        PROVE  \/ \E d \in Channels : \E m \in DOMAIN queue'[d] : queue'[d][m] = k
               \/ \E v \in Workers : Hand(v)' /\ task'[v] = k
               \/ runs[k] = 1 \/ k \in skipped
    <3>1. CASE k = j
      BY <1>12, <3>1
    <3>2. CASE k # j
      BY <1>10, <1>12, <1>13, <2>1, <3>2 DEF IInv, Accounted
    <3> QED BY <3>1, <3>2
  <2> QED BY <1>1, <1>3, <2>1 DEF IInv, Accounted, Handed
<1>17. RoutedToRange'
  <2>1. IsPinned(j) => contains(UseWorkers(j), w)
    <3>1. SUFFICES ASSUME IsPinned(j) PROVE contains(UseWorkers(j), w)
      OBVIOUS
    <3>2. /\ ~Sharded /\ get_affinity_group(j) \in 1 .. NumGroups - 1
          /\ GroupOf(w) = get_affinity_group(j) => contains(UseWorkers(j), w)
      BY <1>2, <1>6, <3>1, PoolAffinity DEF IsPinned, StateTypeOK
    <3>3. route[j] = get_affinity_group(j)
      BY <1>6, <3>1 DEF IInv, RoutedToRange
    <3>4. NumGroups \in Nat
      BY <1>2, PoolShape DEF StateTypeOK
    <3>5. c[1] \in {GroupOf(w), Global}
      BY <3>1, <3>2 DEF IsPinned
    <3> QED BY <1>6, <3>2, <3>3, <3>4, <3>5 DEF Global
  <2> QED BY <1>1, <1>3, <1>12, <2>1 DEF IInv, RoutedToRange
<1>18. Owed' = Owed /\ Late' = Late /\ \A g : Inside(g)' = Inside(g)
  BY <1>1, <1>2, <1>3 DEF Owed, Late, Inside, StateTypeOK, QuietPc
<1>19. PendingCovers' /\ FlightCovers' /\ KeptLater'
  BY <1>1, <1>3, <1>18 DEF IInv, PendingCovers, FlightCovers, KeptLater
<1> QED BY <1>8, <1>14, <1>15, <1>16, <1>17, <1>19 DEF IInv

\* A worker enters run_job, and finds the runtime alive or gone.
LEMMA BeginStep ==
  ASSUME IInv, NEW w \in Workers, Begin(w)
  PROVE  IInv'
<1> DEFINE j == task[w]
<1>1. /\ Jobs' = Jobs /\ Workers' = Workers /\ NumGroups' = NumGroups /\ Channels' = Channels
      /\ Sharded' = Sharded /\ PoolBuilt' = PoolBuilt
      /\ \A v : GroupOf(v)' = GroupOf(v)
      /\ \A k : IsPinned(k)' = IsPinned(k) /\ get_affinity_group(k)' = get_affinity_group(k)
      /\ \A k : UseWorkers(k)' = UseWorkers(k) /\ Keeps(k)' = Keeps(k)
  BY BuiltStays DEF Begin
<1>2. StateTypeOK
  BY DEF IInv
<1>3. /\ pc[w] = "taken"
      /\ in_flight' = IF Sharded THEN [in_flight EXCEPT ![GroupOf(w)] = @ + 1] ELSE in_flight
      /\ UNCHANGED <<stage, route, queue, cursor, task, runs, pending_tasks, next_shard>>
  BY DEF Begin
<1>4. \/ pc' = [pc EXCEPT ![w] = "ran"] /\ skipped' = skipped \cup {j}
      \/ pc' = [pc EXCEPT ![w] = "run"] /\ skipped' = skipped
  BY DEF Begin
<1>5. /\ j \in Jobs /\ stage[j] = "sent" /\ runs[j] = 0 /\ j \notin skipped
      /\ \A c \in Channels : \A i \in DOMAIN queue[c] : queue[c][i] # j
      /\ \A v \in Workers : Hand(v) /\ task[v] = j => v = w
  BY <1>3 DEF IInv, HeldOnce, Hand
<1> HIDE DEF j
<1>6. GroupOf(w) \in 0 .. NumGroups
  BY <1>2, PoolShape DEF StateTypeOK
<1>7. StateTypeOK'
  <2>1. in_flight' \in [0 .. NumGroups -> Int]
    BY <1>2, <1>3, <1>6 DEF StateTypeOK
  <2>2. pc' \in [Workers -> PcLabels] /\ skipped' \in SUBSET Jobs
    BY <1>2, <1>4, <1>5 DEF StateTypeOK, PcLabels
  <2> QED BY <1>1, <1>2, <1>3, <2>1, <2>2 DEF StateTypeOK
<1>11. KeptLater'
  BY <1>1, <1>3 DEF IInv, KeptLater
<1>8. FlightCovers'
  <2>1. SUFFICES ASSUME Sharded, NEW g \in 0 .. NumGroups
                 PROVE  in_flight'[g] >= Cardinality(Inside(g)')
    BY <1>1 DEF FlightCovers
  <2>2. Inside(g) \in SUBSET Workers
    BY DEF Inside
  <2>3. IsFiniteSet(Inside(g)) /\ Cardinality(Inside(g)) \in Nat
    BY <1>2, <2>2, FiniteParts
  <2>4. in_flight[g] \in Int /\ in_flight[g] >= Cardinality(Inside(g))
    BY <1>2, <2>1 DEF IInv, FlightCovers, StateTypeOK
  <2>5. CASE g = GroupOf(w)
    <3>1. Inside(g)' = Inside(g) \cup {w} /\ w \notin Inside(g)
      BY <1>1, <1>2, <1>3, <1>4, <2>5 DEF Inside, StateTypeOK
    <3>2. Cardinality(Inside(g)') = Cardinality(Inside(g)) + 1
      BY <2>3, <3>1, FS_AddElement
    <3>3. in_flight'[g] = in_flight[g] + 1
      BY <1>2, <1>3, <2>1, <2>5 DEF StateTypeOK
    <3> QED BY <2>3, <2>4, <3>2, <3>3
  <2>6. CASE g # GroupOf(w)
    <3>1. Inside(g)' = Inside(g)
      BY <1>1, <1>2, <1>3, <1>4, <2>6 DEF Inside, StateTypeOK
    <3>2. in_flight'[g] = in_flight[g]
      BY <1>2, <1>3, <2>1, <2>6 DEF StateTypeOK
    <3> QED BY <2>4, <3>1, <3>2
  <2> QED BY <2>5, <2>6
<1>9. CASE pc' = [pc EXCEPT ![w] = "run"] /\ skipped' = skipped
  <2>1. \A v \in Workers : Hand(v)' <=> Hand(v)
    BY <1>2, <1>3, <1>9 DEF Hand, StateTypeOK
  <2>2. WaitingOnce' /\ Accounted'
    BY <1>1, <1>3, <1>9, <2>1 DEF IInv, WaitingOnce, Accounted, Handed
  <2>3. HeldOnce' /\ RoutedToRange'
    BY <1>1, <1>2, <1>3, <1>9, <2>1 DEF IInv, HeldOnce, RoutedToRange, Handed, StateTypeOK
  <2>4. Owed' = Owed /\ Late' = Late
    BY <1>1, <1>2, <1>3, <1>9 DEF Owed, Late, StateTypeOK
  <2>5. PendingCovers'
    BY <1>3, <2>4 DEF IInv, PendingCovers
  <2> QED BY <1>7, <1>8, <1>11, <2>2, <2>3, <2>5 DEF IInv
<1>10. CASE pc' = [pc EXCEPT ![w] = "ran"] /\ skipped' = skipped \cup {j}
  <2>1. \A v \in Workers : Hand(v)' <=> (Hand(v) /\ v # w)
    BY <1>2, <1>3, <1>10 DEF Hand, StateTypeOK
  <2>2. WaitingOnce'
    BY <1>1, <1>3, <1>5, <1>10 DEF IInv, WaitingOnce
  <2>3. HeldOnce'
    BY <1>1, <1>2, <1>3, <1>5, <1>10, <2>1 DEF IInv, HeldOnce, Handed, StateTypeOK
  <2>4. Accounted'
    BY <1>1, <1>3, <1>5, <1>10, <2>1 DEF IInv, Accounted, Handed, j
  <2>5. RoutedToRange'
    BY <1>1, <1>3, <2>1 DEF IInv, RoutedToRange
  <2>6. PendingCovers'
    <3>1. Owed' = Owed \ {j} /\ j \in Owed /\ Owed \in SUBSET Jobs
      BY <1>1, <1>2, <1>3, <1>5, <1>10 DEF Owed, StateTypeOK
    <3>2. Late' = Late \cup {w} /\ w \notin Late /\ Late \in SUBSET Workers
      BY <1>1, <1>2, <1>3, <1>10 DEF Late, StateTypeOK
    <3>3. /\ IsFiniteSet(Owed) /\ Cardinality(Owed) \in Nat
          /\ IsFiniteSet(Late) /\ Cardinality(Late) \in Nat
      BY <1>2, <3>1, <3>2, FiniteParts
    <3>4. Cardinality(Owed') = Cardinality(Owed) - 1
      BY <3>1, <3>3, FS_RemoveElement
    <3>5. Cardinality(Late') = Cardinality(Late) + 1
      BY <3>2, <3>3, FS_AddElement
    <3> QED BY <1>2, <1>3, <3>3, <3>4, <3>5 DEF IInv, PendingCovers, StateTypeOK
  <2> QED BY <1>7, <1>8, <1>11, <2>2, <2>3, <2>4, <2>5, <2>6 DEF IInv
<1> QED BY <1>4, <1>9, <1>10

\* The body runs once; the worker then lets go, or goes on with what it kept.
LEMMA BodyStep ==
  ASSUME IInv, NEW w \in Workers, Body(w)
  PROVE  IInv'
<1> DEFINE j == task[w]
           n == Keeps(j)
<1>1. /\ Jobs' = Jobs /\ Workers' = Workers /\ NumGroups' = NumGroups /\ Channels' = Channels
      /\ Sharded' = Sharded /\ PoolBuilt' = PoolBuilt
      /\ \A v : GroupOf(v)' = GroupOf(v)
      /\ \A k : IsPinned(k)' = IsPinned(k) /\ get_affinity_group(k)' = get_affinity_group(k)
      /\ \A k : UseWorkers(k)' = UseWorkers(k) /\ Keeps(k)' = Keeps(k)
  BY BuiltStays DEF Body
<1>2. StateTypeOK
  BY DEF IInv
<1>3. /\ pc[w] = "run"
      /\ runs' = [runs EXCEPT ![j] = @ + 1]
      /\ UNCHANGED <<route, queue, cursor, skipped, pending_tasks, in_flight, next_shard>>
  BY DEF Body
<1>4. \/ /\ pc' = [pc EXCEPT ![w] = "release"] \/ pc' = [pc EXCEPT ![w] = "dying"]
         /\ UNCHANGED <<task, stage>>
      \/ /\ n # 0 /\ pc' = pc
         /\ task' = [task EXCEPT ![w] = n] /\ stage' = [stage EXCEPT ![n] = "kept"]
  BY DEF Body
<1>5. /\ j \in Jobs /\ Handed(j) /\ runs[j] = 0 /\ j \notin skipped
      /\ \A c \in Channels : \A i \in DOMAIN queue[c] : queue[c][i] # j
      /\ \A v \in Workers : Hand(v) /\ task[v] = j => v = w
  BY <1>3 DEF IInv, HeldOnce, Hand
\* The kept successor is a job that nobody has touched.
<1>6. n # 0 => /\ n \in Jobs /\ n # j /\ stage[n] = "new" /\ runs[n] = 0 /\ n \notin skipped
               /\ \A i \in Jobs : Keeps(i) = n => i = j
               /\ \A c \in Channels : \A i \in DOMAIN queue[c] : queue[c][i] # n
               /\ \A v \in Workers : Hand(v) => task[v] # n
  <2>1. SUFFICES ASSUME n # 0
                 PROVE  /\ n \in Jobs /\ n # j /\ stage[n] = "new" /\ runs[n] = 0 /\ n \notin skipped
                        /\ \A i \in Jobs : Keeps(i) = n => i = j
                        /\ \A c \in Channels : \A i \in DOMAIN queue[c] : queue[c][i] # n
                        /\ \A v \in Workers : Hand(v) => task[v] # n
    OBVIOUS
  <2>2. n \in Jobs /\ \A i \in Jobs : Keeps(i) = n => i = j
    BY <1>2, <1>5, <2>1, KeptIsJob
  <2>3. stage[n] = "new"
    BY <1>5, <2>1 DEF IInv, KeptLater
  <2> HIDE DEF j, n
  <2>4. ~Handed(n) /\ n # j
    BY <1>5, <2>3 DEF Handed
  <2>5. runs[n] = 0 /\ n \notin skipped
    BY <1>2, <2>2, <2>4 DEF IInv, Accounted, StateTypeOK
  <2>6. \A c \in Channels : \A i \in DOMAIN queue[c] : queue[c][i] # n
    BY <2>3 DEF IInv, WaitingOnce
  <2>7. \A v \in Workers : Hand(v) => task[v] # n
    BY <2>4 DEF IInv, HeldOnce
  <2> QED BY <2>2, <2>3, <2>4, <2>5, <2>6, <2>7
<1> HIDE DEF j, n
<1>7. runs' = [runs EXCEPT ![j] = 1] /\ \A k \in Jobs : runs'[k] = IF k = j THEN 1 ELSE runs[k]
  BY <1>2, <1>3, <1>5 DEF StateTypeOK
<1>8. StateTypeOK'
  <2>1. pc' \in [Workers -> PcLabels] /\ runs' \in [Jobs -> {0, 1}]
    BY <1>2, <1>4, <1>5, <1>7 DEF StateTypeOK, PcLabels
  <2>2. /\ task' \in [Workers -> Jobs \cup {0}]
        /\ stage' \in [Jobs -> {"new", "counted", "routed", "sent", "kept"}]
    <3>1. n # 0 => n \in Jobs
      BY <1>6
    <3>2. \/ UNCHANGED <<task, stage>>
          \/ /\ n # 0 /\ task' = [task EXCEPT ![w] = n]
             /\ stage' = [stage EXCEPT ![n] = "kept"]
      BY <1>4
    <3> QED BY <1>2, <3>1, <3>2 DEF StateTypeOK
  <2> QED BY <1>1, <1>2, <1>3, <2>1, <2>2 DEF StateTypeOK
\* Jobs in the channels are neither of the two.
<1>9. WaitingOnce'
  <2>1. \A c \in Channels : \A i \in DOMAIN queue[c] : queue[c][i] \in Jobs
    BY <1>2 DEF StateTypeOK
  <2>2. \A c \in Channels : \A i \in DOMAIN queue[c] : stage'[queue[c][i]] = stage[queue[c][i]]
    BY <1>2, <1>4, <1>6, <2>1 DEF StateTypeOK
  <2> QED BY <1>1, <1>3, <1>5, <1>7, <2>1, <2>2 DEF IInv, WaitingOnce
<1>10. FlightCovers'
  <2>1. \A g : Inside(g)' = Inside(g)
    BY <1>1, <1>2, <1>3, <1>4 DEF Inside, StateTypeOK
  <2> QED BY <1>1, <1>3, <2>1 DEF IInv, FlightCovers
<1>11. KeptLater'
  <2>1. ASSUME NEW i \in Jobs, Keeps(i) # 0, runs'[i] = 0 PROVE stage'[Keeps(i)] = "new"
    <3>1. i # j /\ runs[i] = 0
      BY <1>7, <2>1
    <3>2. Keeps(i) \in Jobs /\ stage[Keeps(i)] = "new"
      BY <1>2, <2>1, <3>1, KeptIsJob DEF IInv, KeptLater
    <3>3. n # 0 => Keeps(i) # n
      BY <1>6, <3>1
    <3> QED BY <1>2, <1>4, <3>2, <3>3 DEF StateTypeOK
  <2> QED BY <1>1, <2>1 DEF KeptLater
<1>12. CASE UNCHANGED <<task, stage>>
            /\ (pc' = [pc EXCEPT ![w] = "release"] \/ pc' = [pc EXCEPT ![w] = "dying"])
  <2>1. \A v \in Workers : Hand(v)' <=> (Hand(v) /\ v # w)
    BY <1>2, <1>3, <1>12 DEF Hand, StateTypeOK
  <2>2. \A v \in Workers : v # w => pc'[v] = pc[v]
    BY <1>2, <1>12 DEF StateTypeOK
  <2>3. HeldOnce'
    BY <1>1, <1>3, <1>5, <1>7, <1>12, <2>1, <2>2 DEF IInv, HeldOnce, Handed
  <2>4. Accounted'
    <3>1. skipped \in SUBSET Jobs
      BY <1>2 DEF StateTypeOK
    <3> QED BY <1>1, <1>3, <1>5, <1>7, <1>12, <2>1, <3>1 DEF IInv, Accounted, Handed, j
  <2>5. RoutedToRange'
    BY <1>1, <1>3, <1>12, <2>1 DEF IInv, RoutedToRange
  <2>6. PendingCovers'
    <3>1. Owed' = Owed \ {j} /\ j \in Owed /\ Owed \in SUBSET Jobs
      BY <1>1, <1>2, <1>3, <1>5, <1>7, <1>12 DEF Owed, Handed, StateTypeOK
    <3>2. Late' = Late \cup {w} /\ w \notin Late /\ Late \in SUBSET Workers
      BY <1>1, <1>2, <1>3, <1>12 DEF Late, StateTypeOK
    <3>3. /\ IsFiniteSet(Owed) /\ Cardinality(Owed) \in Nat
          /\ IsFiniteSet(Late) /\ Cardinality(Late) \in Nat
      BY <1>2, <3>1, <3>2, FiniteParts
    <3>4. Cardinality(Owed') = Cardinality(Owed) - 1
      BY <3>1, <3>3, FS_RemoveElement
    <3>5. Cardinality(Late') = Cardinality(Late) + 1
      BY <3>2, <3>3, FS_AddElement
    <3> QED BY <1>2, <1>3, <3>3, <3>4, <3>5 DEF IInv, PendingCovers, StateTypeOK
  <2> QED BY <1>8, <1>9, <1>10, <1>11, <2>3, <2>4, <2>5, <2>6 DEF IInv
<1>13. CASE /\ n # 0 /\ pc' = pc
            /\ task' = [task EXCEPT ![w] = n] /\ stage' = [stage EXCEPT ![n] = "kept"]
  <2>1. \A v \in Workers : Hand(v)' <=> Hand(v)
    BY <1>13 DEF Hand
  <2>2. \A v \in Workers : task'[v] = IF v = w THEN n ELSE task[v]
    BY <1>2, <1>13 DEF StateTypeOK
  <2>3. \A k \in Jobs : stage'[k] = IF k = n THEN "kept" ELSE stage[k]
    BY <1>2, <1>13 DEF StateTypeOK
  <2>4. HeldOnce'
    <3>1. ASSUME NEW v \in Workers, Hand(v)
          PROVE  /\ task'[v] \in Jobs /\ stage'[task'[v]] \in {"sent", "kept"}
                 /\ pc[v] = "taken" => stage'[task'[v]] = "sent"
                 /\ runs'[task'[v]] = 0 /\ task'[v] \notin skipped
                 /\ \A c \in Channels : \A i \in DOMAIN queue[c] : queue[c][i] # task'[v]
      <4>1. CASE v = w
        BY <1>3, <1>6, <1>7, <1>13, <2>2, <2>3, <4>1 DEF Handed
      <4>2. CASE v # w
        <5>1. task'[v] = task[v] /\ task[v] # n /\ task[v] # j /\ task[v] \in Jobs
          BY <1>5, <1>6, <1>13, <2>2, <3>1, <4>2 DEF IInv, HeldOnce
        <5> QED BY <1>7, <2>3, <3>1, <5>1 DEF IInv, HeldOnce, Handed
      <4> QED BY <4>1, <4>2
    <3>2. ASSUME NEW u \in Workers, NEW v \in Workers, Hand(u), Hand(v), task'[u] = task'[v]
          PROVE  u = v
      BY <1>6, <1>13, <2>2, <3>2 DEF IInv, HeldOnce
    <3> QED BY <1>1, <1>3, <1>13, <2>1, <3>1, <3>2 DEF HeldOnce, Handed
  <2>5. Accounted'
    <3>1. ASSUME NEW k \in Jobs, Handed(k)'
          PROVE  \/ \E c \in Channels : \E i \in DOMAIN queue[c] : queue[c][i] = k
                 \/ \E v \in Workers : Hand(v) /\ task'[v] = k
                 \/ runs'[k] = 1 \/ k \in skipped
      <4>1. CASE k = n
        BY <1>3, <2>2, <4>1 DEF Hand
      <4>2. CASE k = j
        BY <1>7, <4>2
      <4>3. CASE k # n /\ k # j
        <5>1. Handed(k)
          BY <2>3, <3>1, <4>3 DEF Handed
        <5>2. \A v \in Workers : task[v] = k => task'[v] = k
          BY <2>2, <4>3 DEF j
        <5> QED BY <1>7, <4>3, <5>1, <5>2 DEF IInv, Accounted
      <4> QED BY <4>1, <4>2, <4>3
    <3>2. \A k \in Jobs : runs'[k] = 1 \/ k \in skipped => Handed(k)'
      BY <1>5, <1>7, <2>3 DEF IInv, Accounted, Handed
    <3>3. \A k \in skipped : runs'[k] = 0
      BY <1>2, <1>5, <1>7 DEF IInv, Accounted, StateTypeOK
    <3> QED BY <1>1, <1>3, <2>1, <3>1, <3>2, <3>3 DEF Accounted
  <2>6. RoutedToRange'
    <3>1. \A v \in Workers : Hand(v) /\ stage'[task'[v]] = "sent" =>
            task'[v] = task[v] /\ stage[task[v]] = "sent"
      BY <1>6, <1>13, <2>2, <2>3 DEF IInv, HeldOnce
    <3> QED BY <1>1, <1>3, <2>1, <2>3, <3>1 DEF IInv, RoutedToRange
  <2>7. PendingCovers'
    <3> DEFINE rest == Owed \ {j}
    <3>1. Owed' = rest \cup {n} /\ n \notin rest /\ j \in Owed /\ Owed \in SUBSET Jobs
      BY <1>1, <1>2, <1>3, <1>5, <1>6, <1>7, <1>13, <2>3 DEF Owed, Handed, StateTypeOK
    <3>2. Late' = Late
      BY <1>1, <1>13 DEF Late
    <3>3. IsFiniteSet(Owed) /\ Cardinality(Owed) \in Nat
      BY <1>2, <3>1, FiniteParts
    <3>4. IsFiniteSet(rest) /\ Cardinality(rest) = Cardinality(Owed) - 1
      BY <3>1, <3>3, FS_RemoveElement
    <3> HIDE DEF rest
    <3>5. Cardinality(Owed') = Cardinality(rest) + 1
      BY <3>1, <3>4, FS_AddElement
    <3>6. Cardinality(Owed') = Cardinality(Owed)
      BY <3>3, <3>4, <3>5
    <3> QED BY <1>3, <3>2, <3>6 DEF IInv, PendingCovers
  <2> QED BY <1>8, <1>9, <1>10, <1>11, <2>4, <2>5, <2>6, <2>7 DEF IInv
<1> QED BY <1>4, <1>12, <1>13

\* A worker past the body of its job: it lets go of the runtime state, counts
\* the job off, and leaves run_job.
LEMMA AfterBodyStep ==
  ASSUME IInv, NEW w \in Workers, Release(w) \/ Uncount(w) \/ Complete(w)
  PROVE  IInv'
<1>1. /\ Jobs' = Jobs /\ Workers' = Workers /\ NumGroups' = NumGroups /\ Channels' = Channels
      /\ Sharded' = Sharded /\ PoolBuilt' = PoolBuilt
      /\ \A v : GroupOf(v)' = GroupOf(v)
      /\ \A k : IsPinned(k)' = IsPinned(k) /\ get_affinity_group(k)' = get_affinity_group(k)
      /\ \A k : UseWorkers(k)' = UseWorkers(k) /\ Keeps(k)' = Keeps(k)
  BY BuiltStays DEF Release, Uncount, Complete
<1>2. StateTypeOK
  BY DEF IInv
<1>3. UNCHANGED <<stage, route, queue, cursor, runs, skipped, next_shard>>
  BY DEF Release, Uncount, Complete
<1>4. /\ pc[w] \in {"release", "dying", "ran", "uncounted"}
      /\ \/ pc' = [pc EXCEPT ![w] = "selfjoin"] \/ pc' = [pc EXCEPT ![w] = "dead"]
         \/ pc' = [pc EXCEPT ![w] = "ran"] \/ pc' = [pc EXCEPT ![w] = "uncounted"]
         \/ pc' = [pc EXCEPT ![w] = "top"]
      /\ task' = task \/ task' = [task EXCEPT ![w] = 0]
  BY DEF Release, Uncount, Complete
<1>5. \A v \in Workers : /\ Hand(v)' <=> Hand(v)
                         /\ Hand(v) => task'[v] = task[v]
  BY <1>2, <1>4 DEF Hand, StateTypeOK
<1>6. GroupOf(w) \in 0 .. NumGroups
  BY <1>2, PoolShape DEF StateTypeOK
<1>7. StateTypeOK'
  <2>1. pc' \in [Workers -> PcLabels] /\ task' \in [Workers -> Jobs \cup {0}]
    BY <1>2, <1>4 DEF StateTypeOK, PcLabels
  <2>2. pending_tasks' \in Int
    BY <1>2 DEF StateTypeOK, Release, Uncount, Complete
  <2>3. in_flight' \in [0 .. NumGroups -> Int]
    <3>1. \/ in_flight' = in_flight
          \/ in_flight' = [in_flight EXCEPT ![GroupOf(w)] = in_flight[GroupOf(w)] - 1]
      BY DEF Release, Uncount, Complete
    <3> QED BY <1>2, <1>6, <3>1 DEF StateTypeOK
  <2> QED BY <1>1, <1>2, <1>3, <2>1, <2>2, <2>3 DEF StateTypeOK
<1>8. WaitingOnce' /\ Accounted' /\ KeptLater'
  BY <1>1, <1>3, <1>5 DEF IInv, WaitingOnce, Accounted, Handed, KeptLater
<1>9. HeldOnce' /\ RoutedToRange'
  <2>1. \A v \in Workers : Hand(v) => pc'[v] = pc[v]
    BY <1>2, <1>4 DEF Hand, StateTypeOK
  <2> QED BY <1>1, <1>3, <1>5, <2>1 DEF IInv, HeldOnce, RoutedToRange, Handed
<1>10. PendingCovers'
  <2>1. Owed' = Owed /\ Owed \in SUBSET Jobs
    BY <1>1, <1>3 DEF Owed
  <2>2. Late \in SUBSET Workers
    BY DEF Late
  <2>3. /\ IsFiniteSet(Late) /\ Cardinality(Late) \in Nat /\ Cardinality(Owed) \in Nat
    BY <1>2, <2>1, <2>2, FiniteParts
  <2>4. CASE Release(w) \/ Complete(w)
    <3>1. Late' \in SUBSET Late /\ pending_tasks' = pending_tasks
      BY <1>1, <1>2, <2>4 DEF Late, Release, Complete, StateTypeOK
    <3>2. Cardinality(Late') \in Nat /\ Cardinality(Late') <= Cardinality(Late)
      BY <2>3, <3>1, FS_Subset, FS_CardinalityType
    <3> QED BY <1>2, <2>1, <2>3, <3>1, <3>2 DEF IInv, PendingCovers, StateTypeOK
  <2>5. CASE Uncount(w)
    <3>1. Late' = Late \ {w} /\ w \in Late /\ pending_tasks' = pending_tasks - 1
      BY <1>1, <1>2, <2>5 DEF Late, Uncount, StateTypeOK
    <3>2. Cardinality(Late') = Cardinality(Late) - 1
      BY <2>3, <3>1, FS_RemoveElement
    <3> QED BY <1>2, <2>1, <2>3, <3>1, <3>2 DEF IInv, PendingCovers, StateTypeOK
  <2> QED BY <2>4, <2>5
<1>11. FlightCovers'
  <2>1. SUFFICES ASSUME Sharded, NEW g \in 0 .. NumGroups
                 PROVE  in_flight'[g] >= Cardinality(Inside(g)')
    BY <1>1 DEF FlightCovers
  <2>2. Inside(g) \in SUBSET Workers
    BY DEF Inside
  <2>3. IsFiniteSet(Inside(g)) /\ Cardinality(Inside(g)) \in Nat
    BY <1>2, <2>2, FiniteParts
  <2>4. in_flight[g] \in Int /\ in_flight[g] >= Cardinality(Inside(g))
    BY <1>2, <2>1 DEF IInv, FlightCovers, StateTypeOK
  <2>5. Inside(g)' \in SUBSET Inside(g)
    BY <1>1, <1>2, <1>4 DEF Inside, StateTypeOK
  <2>6. Cardinality(Inside(g)') \in Nat /\ Cardinality(Inside(g)') <= Cardinality(Inside(g))
    BY <2>3, <2>5, FS_Subset, FS_CardinalityType
  <2>7. CASE Complete(w) /\ g = GroupOf(w)
    <3>1. Inside(g)' = Inside(g) \ {w} /\ w \in Inside(g)
      BY <1>1, <1>2, <2>7 DEF Inside, Complete, StateTypeOK
    <3>2. Cardinality(Inside(g)') = Cardinality(Inside(g)) - 1
      BY <2>3, <3>1, FS_RemoveElement
    <3>3. in_flight'[g] = in_flight[g] - 1
      BY <1>2, <2>1, <2>7 DEF Complete, StateTypeOK
    <3> QED BY <2>3, <2>4, <3>2, <3>3
  <2>8. CASE ~(Complete(w) /\ g = GroupOf(w))
    <3>1. in_flight'[g] = in_flight[g]
      BY <1>2, <1>6, <2>1, <2>8 DEF Release, Uncount, Complete, StateTypeOK
    <3> QED BY <2>3, <2>4, <2>6, <3>1
  <2> QED BY <2>7, <2>8
<1> QED BY <1>7, <1>8, <1>9, <1>10, <1>11 DEF IInv

\* Every channel of a worker's scan exists, and outside a sharded pool it is one
\* of the worker's own group or of the global one.
LEMMA ScanOrderReads ==
  ASSUME StateTypeOK, NEW w \in Workers
  PROVE  /\ Len(ScanOrder(w)) \in Nat \ {0}
         /\ \A k \in 1 .. Len(ScanOrder(w)) :
              /\ ScanOrder(w)[k] \in Channels
              /\ Sharded \/ ScanOrder(w)[k][1] \in {GroupOf(w), Global}
<1> DEFINE g == GroupOf(w)
           own == <<<<g, High>>, <<g, Normal>>, <<Global, High>>, <<Global, Normal>>,
                    <<g, Low>>, <<Global, Low>>>>
           victim(k) == (g + k) % NumGroups
           steal == [i \in 1 .. 3 * (NumGroups - 1) |->
                       <<victim((i - 1) \div 3 + 1), High + ((i - 1) % 3)>>]
<1>1. ScanOrder(w) = IF Sharded THEN own \o steal ELSE own
  BY DEF ScanOrder
<1>2. NumGroups \in Nat /\ g \in 0 .. NumGroups /\ (Sharded => NumGroups # 0)
  BY PoolShape DEF StateTypeOK
<1>3. \A p \in Priorities : <<g, p>> \in Channels /\ <<Global, p>> \in Channels
  BY <1>2 DEF Channels, Global
<1>4. /\ own \in Seq(Channels) /\ Len(own) = 6
      /\ \A k \in 1 .. 6 : own[k][1] \in {g, Global}
  <2>1. /\ <<g, High>> \in Channels /\ <<g, Normal>> \in Channels /\ <<g, Low>> \in Channels
        /\ <<Global, High>> \in Channels /\ <<Global, Normal>> \in Channels
        /\ <<Global, Low>> \in Channels
    BY <1>3 DEF Priorities
  <2> HIDE DEF g
  <2> QED BY <2>1
<1>5. CASE ~Sharded
  <2>1. ScanOrder(w) = own
    BY <1>1, <1>5
  <2> HIDE DEF own, steal
  <2>2. \A k \in 1 .. 6 : own[k] \in Channels
    BY <1>4, ElementOfSeq
  <2>3. \A k \in 1 .. 6 : own[k][1] \in {GroupOf(w), Global}
    BY <1>4 DEF g
  <2>4. Len(ScanOrder(w)) = 6
    BY <1>4, <2>1
  <2> QED BY <2>1, <2>2, <2>3, <2>4
<1>6. CASE Sharded
  <2> DEFINE n == 3 * (NumGroups - 1)
  <2>1. n \in Nat
    BY <1>2, <1>6
  <2>2. ASSUME NEW i \in 1 .. n PROVE steal[i] \in Channels
    <3>1. victim((i - 1) \div 3 + 1) \in 0 .. NumGroups
      <4>1. (i - 1) \div 3 \in Nat
        BY <2>1
      <4>2. \A k \in Nat : (g + k) % NumGroups \in 0 .. NumGroups
        <5> HIDE DEF g
        <5> QED BY <1>2, <1>6
      <4> HIDE DEF g
      <4> QED BY <4>1, <4>2
    <3>2. High + ((i - 1) % 3) \in Priorities
      <4>1. (i - 1) % 3 \in {0, 1, 2}
        BY <2>1
      <4> QED BY <4>1 DEF High, Normal, Low, Priorities
    <3> HIDE DEF victim
    <3> QED BY <2>1, <3>1, <3>2 DEF Channels
  <2>3. steal \in Seq(Channels) /\ Len(steal) = n
    <3>1. steal \in [1 .. n -> Channels]
      BY <2>2
    <3> HIDE DEF steal, n
    <3> QED BY <2>1, <3>1
  <2> HIDE DEF own, steal, n
  <2>4. own \o steal \in Seq(Channels) /\ Len(own \o steal) = 6 + n
    <3>1. own \in Seq(Channels) /\ steal \in Seq(Channels)
      BY <1>4, <2>3
    <3>2. own \o steal \in Seq(Channels) /\ Len(own \o steal) = Len(own) + Len(steal)
      BY <3>1, ConcatProperties
    <3> QED BY <1>4, <2>3, <3>2
  <2>5. ScanOrder(w) = own \o steal
    BY <1>1, <1>6
  <2>6. \A k \in 1 .. Len(own \o steal) : (own \o steal)[k] \in Channels
    BY <2>4, ElementOfSeq
  <2>7. Len(own \o steal) \in Nat \ {0}
    BY <2>1, <2>4
  <2> QED BY <1>6, <2>5, <2>6, <2>7
<1> QED BY <1>5, <1>6

\* One look of a scanning worker.
LEMMA ScanStep ==
  ASSUME IInv, NEW w \in Workers, Scan(w)
  PROVE  IInv'
<1> DEFINE order == ScanOrder(w)
           k == ((cursor[w] - 1) % Len(order)) + 1
           c == order[k]
<1>1. StateTypeOK /\ pc[w] = "scan" /\ cursor[w] \in Nat \ {0}
  BY DEF IInv, StateTypeOK, Scan
<1>2. Len(order) \in Nat \ {0}
  BY <1>1, ScanOrderReads
<1>3. k \in 1 .. Len(order)
  <2> HIDE DEF order
  <2> QED BY <1>1, <1>2
<1>4. c \in Channels /\ (Sharded \/ c[1] \in {GroupOf(w), Global})
  <2> HIDE DEF k
  <2> QED BY <1>1, <1>3, ScanOrderReads
<1>5. CASE queue[c] # <<>>
  <2>1. Take(w, c, 1)
    BY <1>5 DEF Scan
  <2> HIDE DEF c
  <2> QED BY <1>1, <1>4, <2>1, TakeStep DEF QuietPc
<1>6. CASE ~(queue[c] # <<>>)
  <2>1. /\ \/ cursor' = [cursor EXCEPT ![w] = @ + 1] /\ pc' = pc
           \/ cursor' = [cursor EXCEPT ![w] = 1] /\ pc' = [pc EXCEPT ![w] = "block"]
        /\ UNCHANGED <<queue, task, WorkerFrame>>
    BY <1>6 DEF Scan
  <2> HIDE DEF order, k, c
  <2>2. /\ cursor \in [Workers -> Nat \ {0}] /\ pc \in [Workers -> PcLabels]
        /\ "block" \in PcLabels
    BY <1>1 DEF StateTypeOK, PcLabels
  <2>3. cursor' \in [Workers -> Nat \ {0}]
    <3>1. cursor[w] + 1 \in Nat \ {0} /\ 1 \in Nat \ {0}
      BY <1>1
    <3> QED BY <2>1, <2>2, <3>1
  <2>4. pc' \in [Workers -> PcLabels]
    BY <2>1, <2>2
  <2>5. \A v \in Workers : pc'[v] = pc[v] \/ (pc[v] \in QuietPc /\ pc'[v] \in QuietPc)
    BY <1>1, <2>1, <2>2 DEF QuietPc
  <2> QED BY <2>1, <2>3, <2>4, <2>5, QuietStep DEF WorkerFrame
<1> QED BY <1>5, <1>6

\* A parked worker, and a Rayon worker, receives.
LEMMA ReceiveStep ==
  ASSUME IInv, NEW w \in Workers, Select(w) \/ RayonTake(w)
  PROVE  IInv'
<1>1. StateTypeOK /\ NumGroups \in Nat /\ GroupOf(w) \in 0 .. NumGroups
  BY PoolShape DEF IInv, StateTypeOK
<1>2. CASE Select(w)
  <2>1. PICK c \in Monitored(w) : Take(w, c, 1)
    BY <1>2 DEF Select
  <2>2. c \in Channels /\ c[1] \in {GroupOf(w), Global}
    BY <1>1 DEF Monitored, Channels, Global
  <2> QED BY <1>2, <2>1, <2>2, TakeStep DEF Select, QuietPc
<1>3. CASE RayonTake(w) /\ shutdown
  <2>1. /\ pc[w] = "idle" /\ pc' = [pc EXCEPT ![w] = "exited"]
        /\ UNCHANGED <<queue, cursor, task, WorkerFrame>>
    BY <1>3 DEF RayonTake
  <2>2. cursor' \in [Workers -> Nat \ {0}] /\ pc' \in [Workers -> PcLabels]
    BY <1>1, <2>1 DEF StateTypeOK, PcLabels
  <2>3. \A v \in Workers : pc'[v] = pc[v] \/ (pc[v] \in QuietPc /\ pc'[v] \in QuietPc)
    BY <1>1, <2>1 DEF StateTypeOK, QuietPc
  <2> QED BY <2>1, <2>2, <2>3, QuietStep DEF WorkerFrame
<1>4. CASE RayonTake(w) /\ ~shutdown
  <2>1. pc[w] = "idle" /\ \E i \in DOMAIN queue[<<Global, Normal>>] : Take(w, <<Global, Normal>>, i)
    BY <1>4 DEF RayonTake
  <2>2. <<Global, Normal>> \in Channels /\ <<Global, Normal>>[1] = Global
    BY <1>1 DEF Channels, Global, Priorities
  <2> QED BY <2>1, <2>2, TakeStep DEF QuietPc
<1> QED BY <1>2, <1>3, <1>4

\* The other steps of a worker hold no job.
LEMMA OtherWorkerStep ==
  ASSUME IInv, NEW w \in Workers, Start(w) \/ Top(w) \/ Timeout(w) \/ SelfJoin(w)
  PROVE  IInv'
<1>1. StateTypeOK
  BY DEF IInv
<1>2. /\ pc[w] \in QuietPc
      /\ \E l \in QuietPc : pc' = [pc EXCEPT ![w] = l]
      /\ cursor' = cursor \/ cursor' = [cursor EXCEPT ![w] = 1]
      /\ UNCHANGED <<queue, task, WorkerFrame>>
  <2>1. CASE Start(w)
    BY <2>1 DEF Start, QuietPc
  <2>2. CASE Top(w)
    BY <2>2 DEF Top, QuietPc
  <2>3. CASE Timeout(w)
    BY <2>3 DEF Timeout, QuietPc
  <2>4. CASE SelfJoin(w)
    BY <2>4 DEF SelfJoin, QuietPc
  <2> QED BY <2>1, <2>2, <2>3, <2>4
<1>3. cursor' \in [Workers -> Nat \ {0}] /\ pc' \in [Workers -> PcLabels]
  BY <1>1, <1>2 DEF StateTypeOK, PcLabels, QuietPc
<1>4. \A v \in Workers : pc'[v] = pc[v] \/ (pc[v] \in QuietPc /\ pc'[v] \in QuietPc)
  BY <1>1, <1>2 DEF StateTypeOK
<1> QED BY <1>2, <1>3, <1>4, QuietStep DEF WorkerFrame

-----------------------------------------------------------------------------
(* The invariant is inductive. *)

LEMMA InitInv ==
  ASSUME Init
  PROVE  IInv
<1> USE DEF Init
<1>1. PoolBuilt
  BY DEF PoolBuilt
<1>2. NumGroups \in Nat /\ IsFiniteSet(Workers)
  BY <1>1, PoolShape
<1>3. StateTypeOK
  BY <1>1, <1>2 DEF StateTypeOK, Channels, PcLabels
<1>4. \A c \in Channels : queue[c] = <<>>
  BY DEF Channels
<1>5. WaitingOnce /\ HeldOnce /\ Accounted /\ RoutedToRange
  BY <1>4 DEF WaitingOnce, HeldOnce, Accounted, RoutedToRange, Hand, Handed
<1>12. KeptLater
  BY <1>3, KeptIsJob DEF KeptLater
<1>6. Owed = {} /\ Late = {} /\ \A g : Inside(g) = {}
  BY DEF Owed, Late, Inside
<1>7. Cardinality({}) = 0 /\ IsFiniteSet({})
  BY FS_EmptySet
<1>8. Cardinality(Owed) = 0 /\ Cardinality(Late) = 0 /\ IsFiniteSet(Owed) /\ IsFiniteSet(Late)
  BY <1>6, <1>7
<1>9. pending_tasks = 0 /\ total_completed = 0 /\ in_flight = [g \in 0 .. NumGroups |-> 0]
  OBVIOUS
<1>10. PendingCovers
  <2> HIDE DEF Init
  <2> QED BY <1>8, <1>9 DEF PendingCovers
<1>11. FlightCovers
  <2> HIDE DEF Init
  <2> QED BY <1>2, <1>6, <1>7, <1>9 DEF FlightCovers
<1> QED BY <1>3, <1>5, <1>10, <1>11, <1>12 DEF IInv

LEMMA NextInv ==
  ASSUME IInv, [Next]_vars
  PROVE  IInv'
<1>1. StateTypeOK
  BY DEF IInv
<1>2. ASSUME UNCHANGED <<config, pool, stage, route, queue, pc, cursor, task, runs, skipped,
                         pending_tasks, in_flight, next_shard>>
      PROVE  IInv'
  BY <1>1, <1>2, QuietStep DEF StateTypeOK
<1>3. ASSUME NEW j \in Jobs, Spawn(j) PROVE IInv'
  BY <1>3, CountStep, RouteStep, SendStep DEF Spawn
<1>4. ASSUME NEW w \in Workers, Worker(w) PROVE IInv'
  BY <1>4, OtherWorkerStep, ScanStep, ReceiveStep, BeginStep, BodyStep, AfterBodyStep DEF Worker
<1>5. CASE Main
  BY <1>2, <1>5 DEF Main, EndRun, schedule_post_nodes, Drop, Join
<1>6. CASE UNCHANGED vars
  BY <1>2, <1>6 DEF vars
<1> QED BY <1>3, <1>4, <1>5, <1>6 DEF Next

LEMMA InvHolds == Spec => []IInv
BY InitInv, NextInv, PTL DEF Spec

-----------------------------------------------------------------------------
(* The theorems. *)

\* No channel is longer than the list of jobs.
LEMMA ChannelBound ==
  ASSUME IInv, NEW c \in Channels
  PROVE  DOMAIN queue[c] \in SUBSET (1 .. MaxJobs)
<1> DEFINE q == queue[c]
<1>1. q \in Seq(Jobs) /\ Len(q) \in Nat /\ DOMAIN q = 1 .. Len(q)
  BY DEF IInv, StateTypeOK
<1>2. q \in Injection(1 .. Len(q), Jobs)
  <2>1. \A i, k \in 1 .. Len(q) : q[i] = q[k] => i = k
    BY <1>1 DEF IInv, WaitingOnce
  <2>2. q \in [1 .. Len(q) -> Jobs]
    <3> HIDE DEF q
    <3> QED BY <1>1
  <2> HIDE DEF q
  <2> QED BY <2>1, <2>2 DEF Injection, IsInjective
<1>3. IsFiniteSet(Jobs) /\ Cardinality(Jobs) \in 0 .. MaxJobs
  BY FiniteParts DEF IInv
<1>4. Cardinality(1 .. Len(q)) = Len(q)
  <2> HIDE DEF q
  <2> QED BY <1>1, FS_Interval
<1>5. Len(q) <= Cardinality(Jobs)
  <2> HIDE DEF q
  <2> QED BY <1>2, <1>3, <1>4, FS_Injection
<1> HIDE DEF q
<1>6. DOMAIN q \in SUBSET (1 .. MaxJobs)
  BY <1>1, <1>3, <1>5, SchedulerAssumption
<1> QED BY <1>6 DEF q

LEMMA InvConserves ==
  ASSUME IInv
  PROVE  JobConserved
<1>1. SUFFICES ASSUME NEW j \in Jobs
               PROVE  Waiting(j) + InHand(j) + runs[j] + (IF j \in skipped THEN 1 ELSE 0)
                        = IF Handed(j) THEN 1 ELSE 0
  BY DEF JobConserved, Handed
<1> DEFINE P == {ci \in {<<c, i>> : c \in DOMAIN queue, i \in 1 .. MaxJobs} :
                    ci[2] \in DOMAIN queue[ci[1]] /\ queue[ci[1]][ci[2]] = j}
           H == {w \in Workers : task[w] = j /\ pc[w] \in {"taken", "run"}}
<1>2. DOMAIN queue = Channels
  BY DEF IInv, StateTypeOK
<1>3. ASSUME NEW x \in P
      PROVE  /\ x[1] \in Channels /\ x[2] \in DOMAIN queue[x[1]] /\ queue[x[1]][x[2]] = j
             /\ x = <<x[1], x[2]>>
  BY <1>2
<1>4. \A x, y \in P : x = y
  BY <1>3 DEF IInv, WaitingOnce
<1>5. \A v, w \in H : v = w
  BY DEF IInv, HeldOnce, Hand
<1>6. P # {} => Handed(j) /\ H = {} /\ runs[j] = 0 /\ j \notin skipped
  <2>1. SUFFICES ASSUME NEW x \in P
                 PROVE  Handed(j) /\ H = {} /\ runs[j] = 0 /\ j \notin skipped
    OBVIOUS
  <2>2. x[1] \in Channels /\ x[2] \in DOMAIN queue[x[1]] /\ queue[x[1]][x[2]] = j
    BY <1>3
  <2>3. Handed(j) /\ runs[j] = 0 /\ j \notin skipped
    BY <2>2 DEF IInv, WaitingOnce, Handed
  <2>4. H = {}
    BY <2>2 DEF IInv, HeldOnce, Hand
  <2> QED BY <2>3, <2>4
<1>7. H # {} => Handed(j) /\ runs[j] = 0 /\ j \notin skipped
  BY DEF IInv, HeldOnce, Hand
<1>8. /\ runs[j] \in {0, 1}
      /\ runs[j] = 1 => Handed(j) /\ j \notin skipped
      /\ j \in skipped => Handed(j) /\ runs[j] = 0
  BY DEF IInv, Accounted, StateTypeOK
<1>9. Handed(j) => P # {} \/ H # {} \/ runs[j] = 1 \/ j \in skipped
  <2>1. ASSUME NEW c \in Channels, NEW i \in DOMAIN queue[c], queue[c][i] = j PROVE P # {}
    <3>1. i \in 1 .. MaxJobs
      BY ChannelBound
    <3>2. <<c, i>> \in P
      BY <1>2, <2>1, <3>1
    <3> QED BY <3>2
  <2>2. ASSUME NEW w \in Workers, Hand(w), task[w] = j PROVE H # {}
    BY <2>2 DEF Hand
  <2> HIDE DEF P, H
  <2> QED BY <2>1, <2>2 DEF IInv, Accounted
<1>10. Waiting(j) = IF P = {} THEN 0 ELSE 1
  <2>1. Waiting(j) = Cardinality(P)
    BY DEF Waiting
  <2> HIDE DEF P
  <2> QED BY <1>4, <2>1, CountAtMostOne
<1>11. InHand(j) = IF H = {} THEN 0 ELSE 1
  <2>1. InHand(j) = Cardinality(H)
    BY DEF InHand
  <2> HIDE DEF H
  <2> QED BY <1>5, <2>1, CountAtMostOne
<1> HIDE DEF P, H
<1> QED BY <1>6, <1>7, <1>8, <1>9, <1>10, <1>11

\* Scanning, stealing, select, a panic and the teardown neither lose nor repeat
\* a job that was sent: it waits in one channel, is in one worker's hands, or is
\* over, whatever the pool, the jobs and the interleaving.
THEOREM JobsAreConserved == Spec => []JobConserved
BY InvHolds, InvConserves, PTL

\* wait_idle is sound for every pool: when pending_tasks reads zero, every job
\* whose spawn has begun has run or met a runtime that is gone, and the counter
\* never wraps below zero.
THEOREM IdleIsSound == Spec => []IdleMeansDone
<1>1. IInv => IdleMeansDone
  <2>1. SUFFICES ASSUME IInv PROVE IdleMeansDone
    OBVIOUS
  <2>2. Owed \in SUBSET Jobs /\ Late \in SUBSET Workers
    BY DEF Owed, Late
  <2>3. IsFiniteSet(Owed) /\ Cardinality(Owed) \in Nat /\ Cardinality(Late) \in Nat
    BY <2>1, <2>2, FiniteParts DEF IInv
  <2>4. pending_tasks \in Int /\ pending_tasks >= Cardinality(Owed) + Cardinality(Late)
    BY <2>1 DEF IInv, StateTypeOK, PendingCovers
  <2>5. pending_tasks >= 0 /\ (pending_tasks = 0 => Cardinality(Owed) = 0)
    BY <2>3, <2>4
  <2>6. pending_tasks = 0 => Owed = {}
    BY <2>3, <2>5, FS_EmptySet
  <2>7. \A j \in Jobs : runs[j] \in {0, 1}
    BY <2>1 DEF IInv, StateTypeOK
  <2> QED BY <2>5, <2>6, <2>7 DEF IdleMeansDone, Owed
<1> QED BY <1>1, InvHolds, PTL

\* A job of a pinned node that went through the channels is received and run
\* within its range, for every set of ranges, overlapping or not, every
\* allocation and every other node; inline continuation is the one way around.
THEOREM ChannelsRespectRanges == Spec => []SpawnedWithinRange
<1>1. IInv => SpawnedWithinRange
  BY DEF IInv, RoutedToRange, SpawnedWithinRange, Outside, Hand, IsPinned
<1> QED BY <1>1, InvHolds, PTL
=============================================================================
