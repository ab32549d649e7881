----------------------------- MODULE GraphFile -----------------------------
(***************************************************************************)
(* From a graph file to the graph the compiler works on: initial objects   *)
(* (obj_gen.rs), factors and index texts, nodes and post-nodes             *)
(* (graph_gen.rs, json_structs.rs), and the successor lists (graph.rs).    *)
(*                                                                         *)
(* A file has the fields inits, net (<<>> or the one network block), nodes *)
(* and post_nodes.  Numbers in it are a literal or the name of an object;  *)
(* an index text is a comma list, a range "a-b" or a single entry.  A file *)
(* that is refused, with an error or a panic, is Refused: main ends on     *)
(* both.  Node ids count from 0, node id is at nodes[id + 1].              *)
(***************************************************************************)
EXTENDS Edges, Placement

Literal(k) == [kind |-> "num", n |-> k, name |-> ""]
Named(name) == [kind |-> "ref", n |-> 0, name |-> name]
Absent == [kind |-> "absent", n |-> 0, name |-> ""]

Refused == [kind |-> "Refused"]
NotANumber == -1

-----------------------------------------------------------------------------
(* Factor::resolve.  A name that is no object, or an object that holds no  *)
(* number, panics.  $workers is itself an object, so its own branch is     *)
(* never taken.                                                            *)

Factor_resolve(f, objects, workers) ==
  CASE f.kind = "num" -> f.n
    [] f.kind = "ref" /\ f.name \in DOMAIN objects -> objects[f.name]
    [] f.kind = "ref" /\ f.name \notin DOMAIN objects /\ f.name = "$workers" -> workers
    [] OTHER -> NotANumber

OrElse(f, default, objects, workers) ==
  IF f = Absent THEN default ELSE Factor_resolve(f, objects, workers)

(* init_objects: the first value of every object; what the functions that  *)
(* build them return is the plugin's, held in the file as `value`.  An     *)
(* object of factor 0 has no first value.                                  *)
init_objects(inits, workers) ==
  FoldLeft(LAMBDA objects, o :
             LET factor == OrElse(o.factor, 1, objects, workers)
             IN  IF objects = <<>> \/ factor = NotANumber \/ ~o.known THEN <<>>
                 ELSE [x \in DOMAIN objects \cup {o.name} |->
                         IF x # o.name THEN objects[x]
                         ELSE IF factor = 0 THEN NotANumber ELSE o.value],
           [x \in {"$index", "$workers"} |-> IF x = "$index" THEN 0 ELSE 1], inits)

-----------------------------------------------------------------------------
(* parse_predecessor: the indexes of one argument.  A literal range end is *)
(* inclusive, one given by name exclusive.                                 *)

BadIndexes == <<NotANumber>>

IndexEntry(f, objects) == Factor_resolve(f, objects, NotANumber)

parse_indexes(text, objects) ==
  LET first == IndexEntry(text.first, objects)
      last == IndexEntry(text.last, objects)
      end == last + (IF text.last.kind = "num" THEN 1 ELSE 0)
  IN  CASE text.form = "list" -> text.items
        [] text.form = "range" -> IF NotANumber \in {first, last} THEN BadIndexes
                                  ELSE [k \in 1 .. end - first |-> first + k - 1]
        [] text.form = "single" -> <<first>>

(* parse_arg.  `obj` is the object of a $ref, or the literal's variant.    *)
parse_arg(a, ids, objects, workers) ==
  [kind |-> a.kind, cond |-> a.cond, obj |-> a.obj,
   pred |-> IF a.pred \in DOMAIN ids THEN ids[a.pred] ELSE NotANumber,
   indexes |-> IF a.pred = "" THEN <<>> ELSE parse_indexes(a.indexes, objects),
   group_by |-> OrElse(a.group_by, None, objects, workers)]

HasPred(arg) == arg.kind \in {"res", "dep", "barrier"}
ArgRefused(arg) ==
  /\ HasPred(arg)
  /\ arg.pred = NotANumber \/ arg.indexes = BadIndexes \/ arg.group_by = NotANumber

(* validate_res_arg_layout: an ungrouped argument that resolves to several *)
(* values must be the last one in the buffer.                              *)
BufferArgs(args) == SelectSeq(args, LAMBDA a : ~a.cond)

\* Mutant: the literal range end is taken for the number of indexes.
layout_by_last_index(args, factor) ==
  LET layout == BufferArgs(args)
  IN  \A k \in DOMAIN layout :
        LET a == layout[k]
        IN  a.kind = "res" /\ a.group_by = None /\ Len(a.indexes) > 1
              /\ a.indexes[Len(a.indexes)] # factor => k = Len(layout)

validate_res_arg_layout(args, factor) ==
  LET layout == BufferArgs(args)
  IN  \A k \in DOMAIN layout :
        LET a == layout[k]
        IN  a.kind = "res" /\ a.group_by = None /\ Len(a.indexes) > 1 /\ Len(a.indexes) # factor
              => k = Len(layout)

NodePriority_parse(text) == IF text \in {"high", "low"} THEN text ELSE "normal"

(* parse_single_node.  A node-level condition has arguments of its own.    *)
parse_single_node(j, ids, objects, workers) ==
  LET Parsed(args) == [k \in DOMAIN args |-> parse_arg(args[k], ids, objects, workers)]
      node == [kind |-> "node", name |-> j.name, func |-> j.func,
               args |-> Parsed(j.args),
               cond |-> j.cond,
               cond_args |-> Parsed(j.cond_args),
               factor |-> OrElse(j.factor, 1, objects, workers),
               group_size |-> OrElse(j.group_size, None, objects, workers),
               priority |-> NodePriority_parse(j.priority),
               use_workers |-> IF j.use_workers = NoSpec THEN NoSpec
                               ELSE WorkerRangeSpec_parse(j.use_workers)]
  IN  IF \/ \E k \in DOMAIN node.args : ArgRefused(node.args[k])
         \/ \E k \in DOMAIN node.cond_args : ArgRefused(node.cond_args[k])
         \/ NotANumber \in {node.factor, node.group_size}
         \/ ~validate_res_arg_layout(node.args, node.factor)
         \/ node.use_workers = Err
      THEN Refused ELSE node

-----------------------------------------------------------------------------
(* Graph::add_node.  Condition arguments of the node-level form are no     *)
(* edges: only node.args is looked at.                                     *)

EmptyGraph == [kind |-> "graph", nodes |-> <<>>, successors |-> <<>>, initial_nodes |-> {},
               condition_nodes |-> {}, post_nodes |-> <<>>, net |-> <<>>]

IsNetwork(node) == node.name = "$network"
PredArgs(node) == SelectSeq(node.args, HasPred)
PredIds(node) == {a.pred : a \in Range(PredArgs(node))}

add_node(g, node) ==
  LET id == Len(g.nodes)
  IN  [g EXCEPT
        !.nodes = Append(@, node),
        !.successors = Append([p \in DOMAIN @ |->
                                 IF p - 1 \in PredIds(node) THEN @[p] \cup {id} ELSE @[p]], {}),
        !.initial_nodes = IF PredIds(node) = {} /\ ~IsNetwork(node) THEN @ \cup {id} ELSE @,
        !.condition_nodes =
          IF node.cond \/ \E a \in Range(node.args) : a.cond THEN @ \cup {id} ELSE @]

(* parse_network_config: its numbers, and the virtual node that stands for *)
(* the packets of a frame.                                                 *)
NetworkNode(frame_packets) ==
  [kind |-> "node", name |-> "$network", func |-> "", args |-> <<>>, cond |-> FALSE,
   cond_args |-> <<>>, factor |-> frame_packets, group_size |-> None, priority |-> "normal",
   use_workers |-> NoSpec]

parse_network_config(nc, objects, workers) ==
  LET parsed == [num_sockets |-> Factor_resolve(nc.num_sockets, objects, workers),
                 frame_packets |-> Factor_resolve(nc.frame_packets, objects, workers)]
  IN  IF NotANumber \in Range(parsed) \/ ~nc.udp THEN <<>> ELSE <<parsed>>

(* from_json_str.  A name stands for the latest node of that name so far,  *)
(* so every edge leads to a later node.                                    *)
Names(g) == {g.nodes[k].name : k \in DOMAIN g.nodes}
IdOf(g) == [name \in Names(g) |-> Max({k \in DOMAIN g.nodes : g.nodes[k].name = name}) - 1]

AddParsed(g, j, objects, workers) ==
  LET node == IF g = Refused THEN Refused ELSE parse_single_node(j, IdOf(g), objects, workers)
  IN  IF node = Refused THEN Refused ELSE add_node(g, node)

parse_post_nodes(g, post, objects, workers) ==
  LET parsed == [k \in DOMAIN post |-> parse_single_node(post[k], IdOf(g), objects, workers)]
  IN  IF Refused \in Range(parsed) THEN Refused ELSE [g EXCEPT !.post_nodes = parsed]

from_json_str(file, workers) ==
  LET objects == init_objects(file.inits, workers)
      net == IF file.net = <<>> THEN <<>> ELSE parse_network_config(file.net[1], objects, workers)
      start == IF net = <<>> THEN EmptyGraph
               ELSE add_node([EmptyGraph EXCEPT !.net = net], NetworkNode(net[1].frame_packets))
      g == FoldLeft(LAMBDA acc, j : AddParsed(acc, j, objects, workers), start, file.nodes)
  IN  IF objects = <<>> \/ (file.net # <<>> /\ net = <<>>) \/ g = Refused THEN Refused
      ELSE parse_post_nodes(g, file.post_nodes, objects, workers)

-----------------------------------------------------------------------------
(* build_node_cache: the node as Edges sees it, with what it needs to know *)
(* of its predecessors.                                                    *)

worker_resolvable(g, id) == \A s \in g.successors[id + 1] : ~g.nodes[s + 1].cond

needs_result_store(g, id) ==
  \E s \in g.successors[id + 1] :
    \E a \in Range(g.nodes[s + 1].args \o g.nodes[s + 1].cond_args) :
      a.kind = "res" /\ a.pred = id

EdgeNode(g, id) ==
  LET node == g.nodes[id + 1]
      preds == PredIds(node)
  IN  [factor |-> node.factor, group_size |-> node.group_size,
       cond |-> id \in g.condition_nodes, args |-> PredArgs(node),
       pf |-> [p \in preds |-> g.nodes[p + 1].factor],
       pgs |-> [p \in preds |-> g.nodes[p + 1].group_size],
       net |-> {p \in preds : IsNetwork(g.nodes[p + 1])},
       resolvable |-> worker_resolvable(g, id)]
=============================================================================
