----------------------------- MODULE ArgBuffer -----------------------------
(***************************************************************************)
(* How a task's argument buffer is built.  The compiler derives from the   *)
(* arguments of a node a cache of slots (node_cache.rs), decides which     *)
(* nodes keep a buffer per thread from task to task, and which may call    *)
(* the wrapper that does not look at the variants (init.rs).  A thread     *)
(* then patches the slots for one instance, and splices the results of a   *)
(* collect-all argument in place (arg_resolution.rs, task_execution.rs).   *)
(*                                                                         *)
(* A value is its variant, where it comes from and which one it is there.  *)
(* A kernel is [name, spec, ret, twin, bulk]: the variants it wants ("*"   *)
(* for any), the one it returns ("?" if unknown), and whether it has an    *)
(* unchecked twin, with a spec, and a bulk form.                           *)
(***************************************************************************)
EXTENDS GraphFile

VARIABLES
  registry,             \* the kernels of the loaded plugin, by name
  node_cache,           \* per node, see build_node_cache
  templates,            \* NODE_ARG_TEMPLATES: per thread and node, <<>> when not yet made
  calls                 \* the kernel calls of the last task

argVars == <<registry, node_cache, templates, calls>>

Value(variant, source, index) == [variant |-> variant, source |-> source, index |-> index]
Hole == Value("None", "", 0)

(* load_table: the export table of the plugin, or a refusal; of two        *)
(* entries of one name the later one stays.                                *)
load_table(plugin, expected_version) ==
  LET names == {plugin.entries[k].name : k \in DOMAIN plugin.entries}
  IN  IF ~plugin.exports \/ plugin.abi_version # expected_version THEN Refused
      ELSE [kind |-> "table",
            map |-> [x \in names |-> plugin.entries[
                       Max({k \in DOMAIN plugin.entries : plugin.entries[k].name = x})]]]

-----------------------------------------------------------------------------
(* build_arg_cache.  Condition arguments take no slot, but the buffer is   *)
(* as long as the argument list, so their room is left at the end.         *)

SlotOf(arg, objects) ==
  LET values == objects[arg.obj]
      how == CASE arg.kind # "ref" -> arg.kind
               [] arg.kind = "ref" /\ arg.obj \in {"$index", "$workers"} -> arg.obj
               [] OTHER -> IF Len(values) > 1 THEN "buffer" ELSE "static"
  IN  [how |-> how, arg |-> arg,
       values |-> CASE how \in {"buffer", "static"} ->
                         [k \in DOMAIN values |-> Value(values[k], arg.obj, k - 1)]
                    [] how = "literal" -> <<Value(arg.obj, "literal", 0)>>
                    [] OTHER -> <<>>]

EmptySlot == [how |-> "none", arg |-> <<>>, values |-> <<>>]

build_arg_cache(args, objects) ==
  LET kept == BufferArgs(args)
  IN  [k \in DOMAIN args |-> IF k <= Len(kept) THEN SlotOf(kept[k], objects) ELSE EmptySlot]

Template(slots) ==
  [k \in DOMAIN slots |-> IF slots[k].how \in {"static", "literal"} THEN slots[k].values[1] ELSE Hole]

SlotsThat(slots, kinds) == {k \in DOMAIN slots : slots[k].how \in kinds}

(* template_stable: every result resolves to one value, or to none.        *)
template_stable(node, slots) ==
  /\ ~IsNetwork(node)
  /\ \A k \in SlotsThat(slots, {"res"}) :
       Len(slots[k].arg.indexes) <= 1 \/ Len(slots[k].arg.indexes) = node.factor

-----------------------------------------------------------------------------
(* provable_variant and select_unchecked_wrappers *)

Unprovable == "?"

Grouped(g, id, arg) ==
  \/ g.nodes[id + 1].group_size # None
  \/ g.nodes[arg.pred + 1].group_size # None
  \/ Edge(EdgeNode(g, id), arg.pred).group_by # None

ret_variant(node) == IF node.func \in DOMAIN registry THEN registry[node.func].ret ELSE Unprovable

\* Mutant: a buffer that rotates is taken to hold what its first value is.
provable_first(g, id, slot) ==
  CASE slot.how = "dep" -> "None"
    [] slot.how = "res" -> IF Grouped(g, id, slot.arg) THEN Unprovable
                           ELSE ret_variant(g.nodes[slot.arg.pred + 1])
    [] slot.how \in {"$index", "$workers"} -> "Usize"
    [] slot.how = "buffer" -> slot.values[1].variant
    [] slot.how \in {"static", "literal"} -> slot.values[1].variant
    [] OTHER -> "None"

provable_variant(g, id, slot) ==
  LET variants == {v.variant : v \in Range(slot.values)}
  IN  CASE slot.how = "dep" -> "None"
        [] slot.how = "res" -> IF Grouped(g, id, slot.arg) THEN Unprovable
                               ELSE ret_variant(g.nodes[slot.arg.pred + 1])
        [] slot.how \in {"$index", "$workers"} -> "Usize"
        [] slot.how \in {"buffer", "static", "literal"} ->
             IF Cardinality(variants) = 1 THEN slot.values[1].variant ELSE Unprovable
        [] OTHER -> "None"

select_unchecked_wrapper(g, id, slots) ==
  LET node == g.nodes[id + 1]
      kernel == registry[node.func]
  IN  /\ template_stable(node, slots)
      /\ kernel.twin
      /\ Len(kernel.spec) <= Len(slots)
      /\ \A k \in DOMAIN kernel.spec :
           kernel.spec[k] = "*" \/ provable_variant(g, id, slots[k]) = kernel.spec[k]

(* build_node_cache; a kernel that is not registered panics (resolve_func). *)
KernelsKnown(g) ==
  \A k \in DOMAIN g.nodes : IsNetwork(g.nodes[k]) \/ g.nodes[k].func \in DOMAIN registry

node_cache_entry(g, id, objects) ==
  LET node == g.nodes[id + 1]
      slots == build_arg_cache(node.args, objects)
  IN  [edges |-> EdgeNode(g, id),
       slots |-> slots,
       template_stable |-> template_stable(node, slots),
       needs_result_store |-> needs_result_store(g, id),
       uses_unchecked |-> ~IsNetwork(node) /\ select_unchecked_wrapper(g, id, slots)]

build_node_cache(g, objects) ==
  [id \in 0 .. Len(g.nodes) - 1 |-> node_cache_entry(g, id, objects)]

-----------------------------------------------------------------------------
(* Patching a buffer *)

\* get_object_value, process_buffer_refs and process_runtime_refs
PatchRefs(buf, slots, index) ==
  [k \in DOMAIN buf |->
     IF k \notin DOMAIN slots THEN buf[k]
     ELSE CASE slots[k].how = "buffer" ->
                 slots[k].values[(index % Len(slots[k].values)) + 1]
            [] slots[k].how = "$index" -> Value("Usize", "$index", index)
            [] slots[k].how = "$workers" -> Value("Usize", "$workers", 0)
            [] OTHER -> buf[k]]

Cell(g, pred, i) == Value(ret_variant(g.nodes[pred + 1]), g.nodes[pred + 1].name, i)

\* collect_res_from_cache: the values of one slot.
Collected(g, entry, slot, index, pred_index) ==
  IF slot.how = "dep" THEN <<Hole>>
  ELSE LET cells == fetch_res_results(entry.edges, slot.arg, index, pred_index)
       IN  [k \in DOMAIN cells |-> Cell(g, slot.arg.pred, cells[k])]

Splice(buf, k, values) == SubSeq(buf, 1, k - 1) \o values \o SubSeq(buf, k + 1, Len(buf))

populate_dynamic_args_into(g, entry, buf, index, pred_index) ==
  FoldLeft(LAMBDA b, k :
             LET values == Collected(g, entry, entry.slots[k], index, pred_index)
             IN  IF values = <<>> THEN b ELSE Splice(b, k, values),
           PatchRefs(buf, entry.slots, index),
           SetToSortSeq(SlotsThat(entry.slots, {"res", "dep"}), <))

populate_cached_args_into(g, entry, index, pred_index) ==
  populate_dynamic_args_into(g, entry, Template(entry.slots), index, pred_index)

Call(id, index, buf, unchecked) == [id |-> id, index |-> index, buf |-> buf, unchecked |-> unchecked]

(* execute_single_task on instance `index` of node id, released by instance *)
(* pred_index of a predecessor.                                             *)
execute_single_task(t, g, id, index, pred_index) ==
  LET entry == node_cache[id]
      old == IF templates[t][id] = <<>> THEN Template(entry.slots) ELSE templates[t][id]
      kept == populate_dynamic_args_into(g, entry, old, index, pred_index)
      buf == IF entry.template_stable THEN kept
             ELSE populate_cached_args_into(g, entry, index, pred_index)
  IN  /\ templates' = [templates EXCEPT ![t][id] = IF entry.template_stable THEN buf ELSE @]
      /\ calls' = <<Call(id, index, buf, entry.uses_unchecked)>>
      /\ UNCHANGED <<registry, node_cache>>

(* execute_bulk_task: one buffer is patched for instance after instance,   *)
(* its shared statics held for the whole range first.  A bulk kernel, when *)
(* its results need no store, gets the template.                           *)
Held(v) == IF v.variant = "Any" THEN [v EXCEPT !.variant = "AnyHeld"] ELSE v

HeldTemplate(slots) == [k \in DOMAIN slots |-> Held(Template(slots)[k])]

BulkCalls(g, id, start, count) ==
  LET entry == node_cache[id]
      Step(acc, i) ==
        LET buf == populate_dynamic_args_into(g, entry, acc.buf, i, i)
        IN  [buf |-> buf, made |-> Append(acc.made, Call(id, i, buf, entry.uses_unchecked))]
  IN  FoldLeft(Step, [buf |-> HeldTemplate(entry.slots), made |-> <<>>],
               [k \in 1 .. count |-> start + k - 1]).made

UsesBulkKernel(g, id) ==
  registry[g.nodes[id + 1].func].bulk /\ ~node_cache[id].needs_result_store

execute_bulk_task(t, g, id, start, count) ==
  /\ calls' = IF UsesBulkKernel(g, id) THEN <<>> ELSE BulkCalls(g, id, start, count)
  /\ UNCHANGED <<registry, node_cache, templates>>

-----------------------------------------------------------------------------
(* What the buffer of a call should hold *)

DeclaredValues(g, entry, slot, index) ==
  CASE slot.how \in {"static", "literal"} -> <<slot.values[1]>>
    [] slot.how = "buffer" -> <<slot.values[(index % Len(slot.values)) + 1]>>
    [] slot.how = "$index" -> <<Value("Usize", "$index", index)>>
    [] slot.how = "$workers" -> <<Value("Usize", "$workers", 0)>>
    [] slot.how = "res" /\ slot.arg.indexes # <<>> ->
         LET a == slot.arg
             pf == entry.edges.pf[a.pred]
             cells == IF Len(a.indexes) = entry.edges.factor /\ Len(a.indexes) > 1
                      THEN <<a.indexes[index + 1] % pf>>
                      ELSE IF Len(a.indexes) = 1
                           THEN <<single_index_dep_idx(entry.edges, a, index)>>
                           ELSE [k \in DOMAIN a.indexes |-> (index + a.indexes[k]) % pf]
         IN  [k \in DOMAIN cells |-> Cell(g, a.pred, cells[k])]
    [] OTHER -> <<Hole>>

\* Every argument starts at its own slot, whatever is spliced in before it; a
\* held static is the static.
InPlace(g, entry, index, buf) ==
  \A k \in DOMAIN entry.slots \ SlotsThat(entry.slots, {"none"}) :
    LET values == DeclaredValues(g, entry, entry.slots[k], index)
    IN  \A i \in DOMAIN values : k + i - 1 \in DOMAIN buf /\ buf[k + i - 1] \in {values[i], Held(values[i])}
=============================================================================
