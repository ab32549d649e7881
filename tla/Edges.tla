------------------------------- MODULE Edges -------------------------------
(***************************************************************************)
(* What the graph compiler derives from the declared arguments of a node:  *)
(* how many decrements the node waits for (graph.rs), which instances of a *)
(* predecessor send them and to whom (init.rs, successor_arena.rs), how    *)
(* its counter is split into groups (node_dep.rs), and which predecessor   *)
(* cells an instance reads (arg_resolution.rs).  The four are computed in  *)
(* four files from the same declaration; Dataflow runs them together.      *)
(*                                                                         *)
(* A node n is a record: factor, group_size, cond (it has a condition),    *)
(* args, and for each predecessor p its factor n.pf[p] and group size      *)
(* n.pgs[p]; n.net is the set of predecessors that are $network and        *)
(* n.resolvable its own worker_resolvable flag.  An argument is            *)
(* [kind, pred, indexes, group_by] with kind "res", "dep" or "barrier".    *)
(* An Option that is None is None (0): group sizes and group_by divisors   *)
(* are positive.  Declared indexes are natural numbers.                    *)
(***************************************************************************)
EXTENDS Integers, Sequences, SequencesExt

None == 0
NoFilter == <<>>
NoOffset == -1

Arg(n) == Range(n.args)
PredsOf(n) == {a.pred : a \in Arg(n)}
ArgsOn(n, p) == {a \in Arg(n) : a.pred = p}
IsBarrier(a) == a.kind = "barrier"
BarriersOn(n, p) == {a \in ArgsOn(n, p) : IsBarrier(a)}

\* The first argument of n, in declaration order, that is in `args`.
FirstOf(n, args) == n.args[Min({i \in DOMAIN n.args : n.args[i] \in args})]

-----------------------------------------------------------------------------
(* Predecessor::index_filter and contributing_instances *)

index_filter(indexes, group_by, pred_factor, succ_factor) ==
  LET lo == Min(Range(indexes))
      hi == Max(Range(indexes))
      range_len == hi - lo + 1
      exact == /\ range_len < pred_factor
               /\ range_len = Len(indexes)
               /\ range_len = succ_factor \/ succ_factor = 1
  IN  IF indexes # <<>> /\ (group_by # None \/ exact) THEN <<lo, hi + 1>> ELSE NoFilter

contributing_instances(indexes, pred_factor, succ_factor) ==
  IF index_filter(indexes, None, pred_factor, succ_factor) # NoFilter
  THEN Len(indexes) ELSE pred_factor

\* Two arguments on one predecessor that differ, none of them a barrier.
pred_is_ambiguous_multi_arg(n, p) ==
  /\ BarriersOn(n, p) = {}
  /\ \E a, b \in ArgsOn(n, p) : <<a.indexes, a.group_by>> # <<b.indexes, b.group_by>>

node_has_ambiguous_multi_res_args(n) ==
  \E p \in PredsOf(n) : pred_is_ambiguous_multi_arg(n, p)

\* A per-instance list of cells of p that is not the one-to-one fan-out.
has_scattered_per_instance_res(n, p) ==
  /\ n.pf[p] # n.factor
  /\ \E a \in ArgsOn(n, p) : a.kind = "res" /\ Len(a.indexes) = n.factor

barrier_group_by_for_dependency(n, a) ==
  IF has_scattered_per_instance_res(n, a.pred) THEN None ELSE a.group_by

union_pred_indexes(n, p) == SetToSeq(UNION {Range(a.indexes) : a \in ArgsOn(n, p)})

-----------------------------------------------------------------------------
(* Graph::dependency_count_vec, the entry of one node *)

num_groups(n) ==
  IF n.group_size # None /\ n.group_size < n.factor THEN n.factor \div n.group_size ELSE 1

\* Pass 1 looks at the first barrier on a predecessor and at no other.
CountedAsGroup(n, p) ==
  /\ BarriersOn(n, p) # {}
  /\ barrier_group_by_for_dependency(n, FirstOf(n, BarriersOn(n, p))) # None

GroupedCount(n, p) ==
  LET a == FirstOf(n, BarriersOn(n, p)) IN (Len(a.indexes) \div a.group_by) * a.group_by

UnionCount(n, p) ==
  LET ambiguous == pred_is_ambiguous_multi_arg(n, p)
      contributing ==
        IF ambiguous THEN n.pf[p]
        ELSE contributing_instances(union_pred_indexes(n, p), n.pf[p], n.factor)
  IN  IF BarriersOn(n, p) # {} \/ ambiguous THEN contributing * num_groups(n)
      ELSE contributing

dependency_count(n) ==
  FoldFunction(+, 0, [p \in PredsOf(n) |->
    IF CountedAsGroup(n, p) THEN GroupedCount(n, p) ELSE UnionCount(n, p)])

-----------------------------------------------------------------------------
(* build_predecessor_tables and SuccessorArena::build: the edge p -> n *)

\* One argument, or several copies of it: filter from its own indexes, and the
\* one-to-one offset when instance j reads cell offset + j.
SingleArgEdge(n, p, a) ==
  LET contiguous == \A i \in 1 .. Len(a.indexes) - 1 : a.indexes[i + 1] = a.indexes[i] + 1
      one_to_one == \/ Len(a.indexes) = 1 /\ n.factor = n.pf[p]
                    \/ Len(a.indexes) = n.factor /\ contiguous
  IN  [filter |-> index_filter(a.indexes, a.group_by, n.pf[p], n.factor),
       group_by |-> None,
       offset |-> IF ~IsBarrier(a) /\ a.group_by = None /\ one_to_one /\ n.factor > 1
                  THEN a.indexes[1] ELSE NoOffset]

\* Arguments that differ: route from their union behind a barrier, from all
\* instances otherwise; never one-to-one.
MixedEdge(n, p) ==
  [filter |-> IF BarriersOn(n, p) # {}
              THEN index_filter(union_pred_indexes(n, p), None, n.pf[p], n.factor)
              ELSE NoFilter,
   group_by |-> None,
   offset |-> NoOffset]

Edge(n, p) ==
  LET grouped == {a \in BarriersOn(n, p) : barrier_group_by_for_dependency(n, a) # None}
      first == FirstOf(n, ArgsOn(n, p))
      copies == \A a \in ArgsOn(n, p) :
                  <<a.indexes, a.group_by>> = <<first.indexes, first.group_by>>
  IN  CASE grouped # {} ->
             LET a == FirstOf(n, grouped)
             IN  [filter |-> index_filter(a.indexes, a.group_by, n.pf[p], n.factor),
                  group_by |-> a.group_by,
                  offset |-> NoOffset]
        [] grouped = {} /\ copies -> SingleArgEdge(n, p, first)
        [] OTHER -> MixedEdge(n, p)

passes_filter(edge, i) ==
  edge.filter = NoFilter \/ (edge.filter[1] <= i /\ i < edge.filter[2])

\* The counter group a cell decrements; AllGroups when the edge has none.
AllGroups == -1
pred_group(edge, i) ==
  IF edge.group_by = None THEN AllGroups
  ELSE (i - (IF edge.filter = NoFilter THEN 0 ELSE edge.filter[1])) \div edge.group_by

one_to_one_succ_idx(n, edge, i) == (i - edge.offset) % n.factor

\* build_node_cache: ready instances are held back and sent as chunks.
is_fanout_bulk(n) ==
  LET res == SelectSeq(n.args, LAMBDA a : a.kind = "res")
  IN  /\ ~n.cond /\ n.resolvable
      /\ \A a \in Arg(n) : ~IsBarrier(a)
      /\ Len(res) = 1
      /\ n.pf[res[1].pred] = n.factor /\ n.factor > 1
      /\ res[1].pred \notin n.net

-----------------------------------------------------------------------------
(* NodeDepMap::new and NodeDependencyEntry::new *)

has_barrier(n) == (\E a \in Arg(n) : IsBarrier(a)) \/ node_has_ambiguous_multi_res_args(n)

\* Instances per counter group: from the group_by of the barriers if there is
\* one, else the node's own group_size.
effective_group_size(n) ==
  LET grouped == {a \in Arg(n) : IsBarrier(a) /\ a.group_by # None}
      packets == Max({Len(a.indexes) : a \in grouped})
      groups == packets \div Max({a.group_by : a \in grouped})
  IN  IF has_barrier(n) /\ grouped # {}
      THEN IF groups = 0 THEN n.factor ELSE n.factor \div groups
      ELSE n.group_size

Entry(n) ==
  LET gs == effective_group_size(n)
      split == gs # None /\ gs < n.factor
      size == IF split THEN gs ELSE n.factor
      groups == IF split THEN n.factor \div gs ELSE 1
      per_group == dependency_count(n) \div groups
  IN  [group_size |-> size, num_groups |-> groups, deps_per_group |-> per_group,
       deps_per_instance |-> per_group \div size]

\* The instances of group g.
GroupInstances(n, e, g) ==
  (g * e.group_size) .. (Min({(g + 1) * e.group_size, n.factor}) - 1)

-----------------------------------------------------------------------------
(* fetch_res_results: the cells an instance reads through one argument.     *)
(* `pred_index` is the instance whose completion triggered the dispatch.    *)

find_pred_index(node_index, pred_idx, pred_factor) == (node_index + pred_idx) % pred_factor

single_index_dep_idx(n, a, i) ==
  LET declared == a.indexes[1]
      group == IF n.pgs[a.pred] # None THEN n.pgs[a.pred] ELSE Edge(n, a.pred).group_by
  IN  CASE n.group_size = None -> find_pred_index(i, declared, n.pf[a.pred])
        [] n.group_size # None /\ group # None -> (i \div n.group_size) * group + declared
        [] OTHER -> declared % n.pf[a.pred]

\* Mutant: the triggering index is used whatever released the instance.
per_instance_trigger(n, a, i, pred_index) == pred_index % n.pf[a.pred]

per_instance_dep_idx(n, a, i, pred_index) ==
  IF n.pf[a.pred] = n.factor /\ ~has_barrier(n)
  THEN pred_index % n.pf[a.pred]
  ELSE a.indexes[i + 1] % n.pf[a.pred]

\* The cells in the order they are put into the argument buffer.  An empty
\* list yields no value at all.
fetch_res_results(n, a, i, pred_index) ==
  CASE a.indexes = <<>> -> <<>>
    [] Len(a.indexes) = 1 -> <<single_index_dep_idx(n, a, i)>>
    [] Len(a.indexes) > 1 /\ Len(a.indexes) = n.factor ->
         <<per_instance_dep_idx(n, a, i, pred_index)>>
    [] OTHER -> [k \in DOMAIN a.indexes |-> find_pred_index(i, a.indexes[k], n.pf[a.pred])]

Reads(n, i, pred_index) ==
  UNION {{<<a.pred, c>> : c \in Range(fetch_res_results(n, a, i, pred_index))} :
           a \in {b \in Arg(n) : b.kind = "res"}}
=============================================================================
