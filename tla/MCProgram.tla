----------------------------- MODULE MCProgram -----------------------------
(***************************************************************************)
(* Command lines, graph files and plugins for Program.                     *)
(***************************************************************************)
EXTENDS Program

NoIndexes == [form |-> "single", first |-> Literal(0), last |-> Absent, items |-> <<>>]
Single(f) == [NoIndexes EXCEPT !.first = f]
List(items) == [NoIndexes EXCEPT !.form = "list", !.items = items]
Upto(a, b) == [NoIndexes EXCEPT !.form = "range", !.first = a, !.last = b]

JArg(kind, pred, indexes, obj) ==
  [kind |-> kind, pred |-> pred, indexes |-> indexes, group_by |-> Absent, cond |-> FALSE, obj |-> obj]
Res(pred, indexes) == JArg("res", pred, indexes, "")
Dep(pred) == JArg("dep", pred, Single(Literal(0)), "")
Barrier(pred, indexes) == JArg("barrier", pred, indexes, "")
Ref(obj) == JArg("ref", "", NoIndexes, obj)
Lit(variant) == JArg("literal", "", NoIndexes, variant)

Node(name, func, factor, arguments) ==
  [name |-> name, func |-> func, factor |-> factor, group_size |-> Absent, args |-> arguments,
   cond |-> FALSE, cond_args |-> <<>>, priority |-> "", use_workers |-> NoSpec]
Object(name, value, variants) ==
  [name |-> name, factor |-> Literal(Len(variants)), known |-> TRUE, value |-> value,
   variants |-> variants]

File(inits, nodes) == [inits |-> inits, net |-> <<>>, nodes |-> nodes, post_nodes |-> <<>>]

Kernel(name, spec, ret) ==
  [name |-> name, spec |-> spec, ret |-> ret, twin |-> TRUE, bulk |-> FALSE]
Plugin ==
  [exports |-> TRUE, abi_version |-> AbiVersion,
   entries |-> <<Kernel("make", <<>>, "F64"), Kernel("tag", <<>>, "String"),
                 Kernel("scale", <<"F64", "Usize">>, "F64"),
                 Kernel("join", <<"F64", "*", "F64">>, "F64"),
                 [Kernel("sink", <<"*">>, "None") EXCEPT !.bulk = TRUE]>>]

CommandLine(file) ==
  [file |-> file, plugin |-> Plugin, strategy |-> "multi-slot-batch",
   cores |-> 4, core_offset |-> 0, workers |-> 1, system_threads |-> 1, receiver_threads |-> 1,
   slots |-> 1, max_frames |-> 1, batch_queue_capacity |-> 1,
   timing |-> FALSE, report |-> FALSE, exclude_frames |-> 0, record |-> FALSE, record_frame |-> -1]

-----------------------------------------------------------------------------
(* Files whose arguments take every path through the argument buffer.      *)

TwoCoeff == Object("coeff", 0, <<"F64", "F64">>)
Mixed == Object("mixed", 0, <<"F64", "String">>)
N == Object("n", 2, <<"Usize">>)
Table == Object("table", 0, <<"Any">>)

Source == Node("a", "make", Named("n"), <<>>)

\* One result per instance, then the instance's number, a static and a literal.
OneToOneArgs == File(<<N, TwoCoeff>>, <<Source,
  Node("b", "scale", Named("n"), <<Res("a", Single(Literal(0))), Ref("$index"), Ref("coeff"), Lit("F64")>>)>>)
\* A buffer that holds two variants in turn.
RotatingArgs == File(<<N, Mixed>>, <<Source,
  Node("b", "scale", Named("n"), <<Ref("mixed"), Ref("$index"), Dep("a")>>)>>)
\* All results of a predecessor, spliced in at the end, over a barrier.
CollectArgs == File(<<N, TwoCoeff>>, <<Source,
  Node("b", "join", Literal(1),
       <<Ref("coeff"), Ref("$workers"), Barrier("a", Upto(Literal(0), Named("n"))),
         Res("a", Upto(Literal(0), Named("n")))>>)>>)
\* The same before another argument: refused.
CollectFirst == File(<<N, TwoCoeff>>, <<Source,
  Node("b", "join", Literal(1),
       <<Res("a", Upto(Literal(0), Literal(1))), Ref("coeff"), Lit("String")>>)>>)
\* As many indexes as instances: every instance has one of its own.
OwnIndexArgs == File(<<N, TwoCoeff>>, <<Source,
  Node("b", "join", Named("n"), <<Res("a", List(<<0, 1>>)), Ref("$index"), Ref("coeff")>>)>>)
\* Chunks behind a barrier, with and without a bulk kernel, one with an object
\* that the plugin shares.
BarrierChunk == File(<<N, TwoCoeff, Table>>, <<Source,
  Node("b", "scale", Literal(3), <<Ref("coeff"), Ref("$index"), Ref("table"),
                                   Barrier("a", Upto(Literal(0), Named("n")))>>),
  Node("c", "sink", Named("n"), <<Res("b", Single(Literal(0))), Barrier("a", Upto(Literal(0), Named("n")))>>)>>)
\* Three instances that all collect the same two results.
CollectChunk == File(<<N, TwoCoeff>>, <<Source,
  Node("b", "join", Literal(3), <<Ref("coeff"), Ref("$index"), Barrier("a", Single(Literal(0))),
                                  Res("a", Upto(Literal(0), Named("n")))>>)>>)
\* A condition argument takes no room in the buffer.
ConditionArg == File(<<N>>, <<Source,
  Node("b", "scale", Named("n"),
       <<[Res("a", Single(Literal(0))) EXCEPT !.cond = TRUE], Res("a", Single(Literal(0))), Ref("$index")>>)>>)

ArgFiles == {OneToOneArgs, RotatingArgs, CollectArgs, CollectFirst, OwnIndexArgs, BarrierChunk,
             CollectChunk, ConditionArg}

-----------------------------------------------------------------------------
(* Command lines that are refused on the way to the run.                   *)

Chain == File(<<>>, <<Node("a", "make", Absent, <<>>), Node("b", "sink", Absent, <<Res("a", NoIndexes)>>)>>)
Base == CommandLine(Chain)
NetBlock == [udp |-> TRUE, num_sockets |-> Literal(1), frame_packets |-> Literal(2)]
Network == [File(<<>>, <<Node("r", "sink", Literal(2), <<Res("$network", NoIndexes)>>)>>)
              EXCEPT !.net = <<NetBlock>>]
Pinned(text) == [Chain EXCEPT !.nodes[2].use_workers = text]

Startups ==
  {[Base EXCEPT !.plugin.exports = FALSE], [Base EXCEPT !.plugin.abi_version = AbiVersion + 1],
   [Base EXCEPT !.strategy = "other"], [Base EXCEPT !.cores = 1], [Base EXCEPT !.cores = 2],
   [Base EXCEPT !.slots = 0], [Base EXCEPT !.max_frames = 0], [Base EXCEPT !.batch_queue_capacity = 0],
   CommandLine([Chain EXCEPT !.nodes[2].func = "missing"]),
   CommandLine([Chain EXCEPT !.nodes[2].args[1].pred = "nobody"]),
   CommandLine([Chain EXCEPT !.nodes[2].factor = Named("nothing")]),
   CommandLine([Chain EXCEPT !.post_nodes = <<Node("z", "sink", Absent, <<Res("b", NoIndexes)>>)>>]),
   CommandLine(Network), [CommandLine(Network) EXCEPT !.receiver_threads = 0],
   CommandLine([Network EXCEPT !.net[1].udp = FALSE])}
  \cup {CommandLine(Pinned(t)) : t \in {CountText(1), RangeText(0, 0), RangeText(1, 0), RangeText(0, 1)}}

-----------------------------------------------------------------------------
(* Command lines that write statistics and records.                        *)

OneTask == File(<<>>, <<Node("a", "make", Absent, <<>>)>>)
Diamond == File(<<>>, <<Node("a", "make", Absent, <<>>),
                        Node("b", "sink", Absent, <<Res("a", NoIndexes)>>),
                        Node("c", "make", Absent, <<>>),
                        Node("d", "join", Absent, <<Res("a", NoIndexes), Lit("F64"), Res("c", NoIndexes)>>)>>)
Timed(file) == [CommandLine(file) EXCEPT !.timing = TRUE, !.report = TRUE, !.workers = 2]

Reports ==
  {[Timed(OneTask) EXCEPT !.slots = 2, !.max_frames = 3, !.exclude_frames = 1],
   [Timed(Chain) EXCEPT !.slots = 2, !.max_frames = 2],
   [Timed(Chain) EXCEPT !.max_frames = 2, !.timing = FALSE],
   Timed(Diamond)}

Recorded ==
  {[Base EXCEPT !.record = TRUE, !.workers = 2, !.max_frames = 2],
   [Base EXCEPT !.record = TRUE, !.cores = 2, !.workers = 3],
   [Base EXCEPT !.record = TRUE, !.max_frames = 2, !.record_frame = 1]}

Lines == {[CommandLine(f) EXCEPT !.max_frames = 2] : f \in ArgFiles} \cup Startups \cup Reports \cup Recorded
=============================================================================
