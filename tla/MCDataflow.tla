----------------------------- MODULE MCDataflow -----------------------------
(***************************************************************************)
(* Shapes of nodes for Dataflow.  p, q are compute predecessors, x is      *)
(* $network.                                                               *)
(***************************************************************************)
EXTENDS Dataflow, TLC

Res(pred, indexes) == [kind |-> "res", pred |-> pred, indexes |-> indexes, group_by |-> None]
Barrier(pred, indexes, group_by) ==
  [kind |-> "barrier", pred |-> pred, indexes |-> indexes, group_by |-> group_by]
Dep(pred, indexes) == [Res(pred, indexes) EXCEPT !.kind = "dep"]

Shape(factor, group_size, args, pf) ==
  [factor |-> factor, group_size |-> group_size, cond |-> FALSE, args |-> args,
   pf |-> pf, pgs |-> [p \in DOMAIN pf |-> None], net |-> DOMAIN pf \cap {"x"},
   resolvable |-> TRUE, bulk |-> {}]
Cond(shape) == [shape EXCEPT !.cond = TRUE]
BulkPreds(shape) == [shape EXCEPT !.bulk = DOMAIN shape.pf \ {"x"}]

OneToOne == Shape(2, None, <<Res("p", <<0>>)>>, "p" :> 2)
\* An all-to-one barrier beside the result of one cell.
Fuse == Shape(1, None, <<Res("p", <<0>>), Barrier("p", <<1>>, None)>>, "p" :> 2)
\* Two arguments on one predecessor, no barrier.
Stencil == Shape(2, None, <<Res("p", <<0>>), Res("p", <<1>>)>>, "p" :> 2)
\* Every instance reads its own cell behind a barrier of another predecessor.
Gate == Shape(2, None, <<Res("p", <<0, 1>>), Barrier("q", <<0>>, None)>>, "p" :> 2 @@ "q" :> 1)
\* Two groups of two cells release one instance each.
Grouped == Shape(2, 1, <<Res("p", <<0>>), Barrier("p", <<0, 1, 2, 3>>, 2)>>, "p" :> 4)
\* A window of a wider predecessor, cell by cell.
Window == Shape(2, None, <<Res("p", <<1, 2>>)>>, "p" :> 4)
\* A single instance that waits for a window.
Collect == Shape(1, None, <<Barrier("p", <<1, 2>>, None), Res("p", <<1, 2>>)>>, "p" :> 3)
\* More instances than workers, released together or one by one.
Spread == Shape(3, None, <<Barrier("p", <<0>>, None), Res("p", <<0>>)>>, "p" :> 1)
Wide == Shape(3, None, <<Res("p", <<1>>)>>, "p" :> 3)
\* The same fed by packets.
PacketBarrier == Shape(2, None, <<Barrier("x", <<0, 1, 2>>, None), Dep("q", <<0>>)>>,
                       "x" :> 3 @@ "q" :> 1)
PacketOwn == Shape(2, None, <<Res("x", <<0, 1>>)>>, "x" :> 2)
\* Two scalar inputs of a parallel node.
TwoScalars == Shape(2, None, <<Res("p", <<0>>), Res("q", <<0>>)>>, "p" :> 1 @@ "q" :> 1)

\* A grouped barrier beside one cell of its own per instance, anywhere: the
\* barrier counts for all groups, when the node declares its groups.
ScatteredGroups(group_size) ==
  Shape(2, group_size, <<Res("p", <<0, 3>>), Barrier("p", <<0, 1, 2, 3>>, 2)>>, "p" :> 4)

PassShapes ==
  {ScatteredGroups(1), ScatteredGroups(None), OneToOne, Wide, Spread, Fuse, Stencil, Gate, Grouped, Window, Collect, PacketBarrier, PacketOwn,
   BulkPreds(OneToOne), BulkPreds(Collect), BulkPreds(Grouped), TwoScalars,
   Cond(OneToOne), Cond(Collect), Cond(Gate), Cond(TwoScalars)}

\* As Gate, with a result of q in place of the barrier.
Mixed == Shape(2, None, <<Res("p", <<0, 1>>), Res("q", <<0>>)>>, "p" :> 2 @@ "q" :> 1)
MixedShapes == {Mixed}

\* A window of the packets: a coalesced run may start before it.
PacketWindow == Shape(1, None, <<Barrier("x", <<1, 2>>, None)>>, "x" :> 3)
PacketWindowShapes == {PacketWindow}

=============================================================================
