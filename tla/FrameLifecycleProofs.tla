------------------------ MODULE FrameLifecycleProofs ------------------------
(***************************************************************************)
(* Proofs about FrameLifecycle, for every graph and every number of        *)
(* workers and resolution threads: first with evictions, then, from "Lists *)
(* of tasks" on, without them: the counters of the slot are exact, and     *)
(* with them the claim of a frame's completion; and no task goes stale.    *)
(***************************************************************************)
EXTENDS FrameLifecycle, DataLemmas

-----------------------------------------------------------------------------
(* What the graph fixes *)

ResetLabels == {"reset_complete", "reset_packets", "reset_pending", "reset_cond",
                "reset_check", "reset_mark", "count", "release", "restart"}

LoadLabels == {"load_pending", "load_cond", "load_proc",
               "reload_pending", "reload_cond", "reload_proc"}

\* The counters are loaded in this order, twice.
LEMMA NextLoads ==
  /\ Range(Loads) \ {"try_complete", "bump"} = LoadLabels
  /\ NextLoad("load_pending") = "load_cond" /\ NextLoad("load_cond") = "load_proc"
  /\ NextLoad("load_proc") = "try_complete" /\ NextLoad("reload_pending") = "reload_cond"
  /\ NextLoad("reload_cond") = "reload_proc" /\ NextLoad("reload_proc") = "bump"
<1>1. Len(Loads) = 8
  BY DEF Loads
<1>2. /\ Loads[1] = "load_pending" /\ Loads[2] = "load_cond" /\ Loads[3] = "load_proc"
      /\ Loads[4] = "try_complete" /\ Loads[5] = "reload_pending" /\ Loads[6] = "reload_cond"
      /\ Loads[7] = "reload_proc" /\ Loads[8] = "bump" /\ DOMAIN Loads = 1 .. 8
  BY DEF Loads
<1>3. Range(Loads) \ {"try_complete", "bump"} = LoadLabels
  BY <1>2 DEF Range, LoadLabels
<1>4. ASSUME NEW k \in 1 .. 8, NEW l, Loads[k] = l,
             \A i \in 1 .. 8 : Loads[i] = l => i = k
      PROVE  NextLoad(l) = Loads[1 + k]
  <2>1. (CHOOSE i \in 1 .. 8 : Loads[i] = l) = k
    BY <1>4
  <2> QED BY <1>1, <2>1 DEF NextLoad
<1>5. \A i, k \in 1 .. 8 : Loads[i] = Loads[k] => i = k
  BY <1>2
<1>6. \A k \in 1 .. 7 : NextLoad(Loads[k]) = Loads[1 + k]
  BY <1>4, <1>5
<1> QED BY <1>2, <1>3, <1>6

-----------------------------------------------------------------------------
(* The stale-task guard *)

\* A worker holds one task at most.
WorkerHolds == \A w \in Workers : batch[w] = <<>> \/ \E j : batch[w] = <<j>>

Shape ==
  /\ graph \in Graphs
  /\ DOMAIN pc = Threads /\ DOMAIN batch = Threads /\ DOMAIN slot_gen = Threads
  /\ DOMAIN todo = Threads /\ DOMAIN sched = Threads
  /\ WorkerHolds

(***************************************************************************)
(* The invariant of the guard.  No task is ahead of its slot's generation; *)
(* and a frame keeps its generation until its reset begins, so that a task *)
(* that was made in time and has the slot's generation finds its frame in  *)
(* the slot, and nobody resetting it.                                      *)
(***************************************************************************)
GenInv ==
  /\ Shape
  /\ generation \in Nat
  /\ \A a \in Threads : slot_gen[a] \in Nat /\ slot_gen[a] <= generation
  /\ \A j \in InFlight : j.gen \in Nat /\ j.gen <= generation
  /\ \A j \in InFlight : j.gen = generation /\ ~j.late =>
       j.frame = frame /\ frame # NoFrame /\ ~Resetting

\* The pool after something was put in or taken out.
LEMMA PoolLemma ==
  ASSUME NEW B1, NEW B2
  PROVE  /\ BagToSet(B1 (+) B2) = BagToSet(B1) \cup BagToSet(B2)
         /\ BagToSet(B1 (-) B2) \subseteq BagToSet(B1)
BY DEF BagToSet, (+), (-)

\* Nothing new is in flight, and the frame stays as it is.
LEMMA GenQuiet ==
  ASSUME GenInv, UNCHANGED <<graph, generation, frame, slot_gen>>, Shape',
         InFlight' \subseteq InFlight, Resetting' => Resetting
  PROVE  GenInv'
<1>1. Threads' = Threads
  BY DEF Threads, ResThreads
<1>2. \A j \in InFlight' : j.gen \in Nat /\ j.gen <= generation
  BY DEF GenInv
<1>3. \A j \in InFlight' : j.gen = generation /\ ~j.late =>
        j.frame = frame /\ frame # NoFrame /\ ~Resetting
  BY DEF GenInv
<1> QED BY <1>1, <1>2, <1>3 DEF GenInv

\* What the actions of a worker do to what is in flight.
LEMMA WorkerFlight ==
  ASSUME GenInv, NEW w \in Workers, WorkerStep(w)
  PROVE  /\ UNCHANGED <<graph, generation, frame, slot_gen, todo, sched>>
         /\ \A a \in Threads \ {w} : pc'[a] = pc[a] /\ batch'[a] = batch[a]
         /\ DOMAIN pc' = Threads /\ DOMAIN batch' = Threads
         /\ batch'[w] = <<>> \/ batch'[w] = batch[w] \/ \E j : batch'[w] = <<j>>
         /\ InFlight' \subseteq InFlight
<1>1. /\ Shape /\ Workers \cap ResThreads = {} /\ w \in Threads
      /\ batch[w] = <<>> \/ \E j : batch[w] = <<j>>
  BY FrameLifecycleAssumption DEF GenInv, Shape, WorkerHolds, ResThreads, Threads
<1>2. /\ UNCHANGED <<graph, generation, frame, slot_gen, todo, sched>>
      /\ \A a \in Threads \ {w} : pc'[a] = pc[a] /\ batch'[a] = batch[a]
      /\ DOMAIN pc' = Threads /\ DOMAIN batch' = Threads
  BY <1>1 DEF WorkerStep, Take, Start, DropStale, Run, DropInArgs, Verify, Goto, Shape,
       counters, frames, locals
<1>3. /\ BagToSet(pool') \subseteq BagToSet(pool)
      /\ batch'[w] \in {<<>>, batch[w]} \/ \E j \in BagToSet(pool) : batch'[w] = <<j>>
  <2>1. CASE Take(w)
    BY <1>1, <2>1, PoolLemma DEF Take, Shape
  <2>2. CASE Start(w)
    BY <2>2 DEF Start, queues, locals
  <2>3. CASE DropStale(w)
    BY <1>1, <2>3 DEF DropStale, queues, Shape
  <2>4. CASE Run(w)
    BY <1>1, <2>4 DEF Run, Shape
  <2>5. CASE DropInArgs(w)
    BY <1>1, <2>5 DEF DropInArgs, queues, Shape
  <2>6. CASE Verify(w)
    BY <1>1, <2>6 DEF Verify, queues, Shape
  <2> QED BY <2>1, <2>2, <2>3, <2>4, <2>5, <2>6 DEF WorkerStep
<1>4. InFlight' \subseteq InFlight
  <2>1. ASSUME NEW j, j \in Range(batch'[w]) PROVE j \in InFlight
    <3>1. CASE batch'[w] = <<>>
      BY <2>1, <3>1 DEF Range
    <3>2. CASE batch'[w] = batch[w]
      BY <2>1, <3>2 DEF InFlight
    <3>3. CASE \E i \in BagToSet(pool) : batch'[w] = <<i>>
      BY <2>1, <3>3 DEF InFlight, Range
    <3> QED BY <1>3, <3>1, <3>2, <3>3
  <2> QED BY <1>2, <1>3, <2>1 DEF InFlight, Threads
<1> QED BY <1>2, <1>3, <1>4

LEMMA GenWorker ==
  ASSUME GenInv, NEW w \in Workers, WorkerStep(w)
  PROVE  GenInv'
<1>1. /\ Shape /\ Workers \cap ResThreads = {} /\ w \in Threads
      /\ batch[w] = <<>> \/ \E j : batch[w] = <<j>>
  BY FrameLifecycleAssumption DEF GenInv, Shape, WorkerHolds, ResThreads, Threads
<1>2. /\ UNCHANGED <<graph, generation, frame, slot_gen, todo, sched>>
      /\ \A a \in Threads \ {w} : pc'[a] = pc[a] /\ batch'[a] = batch[a]
      /\ DOMAIN pc' = Threads /\ DOMAIN batch' = Threads
      /\ batch'[w] = <<>> \/ batch'[w] = batch[w] \/ \E j : batch'[w] = <<j>>
      /\ InFlight' \subseteq InFlight
  BY WorkerFlight
<1>3. Shape'
  <2>1. WorkerHolds'
    BY <1>1, <1>2 DEF WorkerHolds, Shape, Threads
  <2> QED BY <1>1, <1>2, <2>1 DEF Shape, Threads, ResThreads
<1>4. Resetting' => Resetting
  BY <1>1, <1>2 DEF Resetting, ResThreads, Threads
<1> QED BY <1>2, <1>3, <1>4, GenQuiet

\* A step by one thread that hands nothing on: it may change its own locals, of
\* which a worker keeps no more than it had.
LEMMA GenLocal ==
  ASSUME GenInv, NEW a \in Threads, UNCHANGED <<graph, generation, frame, slot_gen>>,
         BagToSet(pool') \subseteq BagToSet(pool),
         DOMAIN pc' = Threads, DOMAIN batch' = Threads, DOMAIN todo' = Threads,
         DOMAIN sched' = Threads,
         \A u \in Threads \ {a} : pc'[u] = pc[u] /\ batch'[u] = batch[u],
         a \in Workers => batch'[a] = batch[a] \/ batch'[a] = <<>>,
         a \in ResThreads /\ pc'[a] \in ResetLabels => pc[a] \in ResetLabels
  PROVE  GenInv'
<1>1. /\ Shape /\ Workers \cap ResThreads = {} /\ Workers \subseteq Threads
      /\ ResThreads \subseteq Threads /\ Threads' = Threads /\ ResThreads' = ResThreads
  BY FrameLifecycleAssumption DEF GenInv, Shape, ResThreads, Threads
<1>2. \A w \in Workers : batch'[w] = batch[w] \/ batch'[w] = <<>>
  BY <1>1
<1>3. InFlight' \subseteq InFlight
  <2>1. ASSUME NEW w \in Workers PROVE Range(batch'[w]) \subseteq Range(batch[w])
    BY <1>2 DEF Range
  <2> QED BY <2>1 DEF InFlight
<1>4. Shape'
  BY <1>1, <1>2 DEF Shape, WorkerHolds
<1>5. Resetting' => Resetting
  BY <1>1 DEF Resetting, ResetLabels
<1> QED BY <1>3, <1>4, <1>5, GenQuiet

\* New tasks are made with the slot's generation, and are late or of its frame.
LEMMA GenMakes ==
  ASSUME GenInv, UNCHANGED <<graph, generation, frame, slot_gen>>, Shape',
         Resetting' => Resetting,
         \A j \in InFlight' \ InFlight : \E t, f : \E g \in Nat :
            g <= generation /\ j = Job(t, g, f)
  PROVE  GenInv'
<1>1. Threads' = Threads
  BY DEF Threads, ResThreads
<1>2. ASSUME NEW j \in InFlight'
      PROVE  /\ j.gen \in Nat /\ j.gen <= generation
             /\ j.gen = generation /\ ~j.late => j.frame = frame /\ frame # NoFrame /\ ~Resetting
  <2>1. CASE j \in InFlight
    BY <2>1 DEF GenInv
  <2>2. CASE j \notin InFlight
    <3>1. PICK t, f : \E g \in Nat : g <= generation /\ j = Job(t, g, f)
      BY <1>2, <2>2
    <3>2. PICK g \in Nat : g <= generation /\ j = Job(t, g, f)
      BY <3>1
    <3>3. j.gen = g /\ j.frame = f
      BY <3>2 DEF Job
    <3>4. j.late <=> Resetting \/ frame = NoFrame \/ f # frame
      BY <3>2, Zenon DEF Job
    <3> QED BY <3>2, <3>3, <3>4
  <2> QED BY <2>1, <2>2
<1> QED BY <1>1, <1>2 DEF GenInv

\* ItemDone takes the first completion off the batch.
LEMMA TailOfOne ==
  ASSUME NEW j PROVE Tail(<<j>>) = <<>>
OBVIOUS

LEMMA GenSend ==
  ASSUME GenInv, NEW a \in Threads, Send(a)
  PROVE  GenInv'
<1>1. /\ Shape /\ Workers \cap ResThreads = {} /\ Workers \subseteq Threads
      /\ ResThreads \subseteq Threads /\ Threads' = Threads /\ ResThreads' = ResThreads
  BY FrameLifecycleAssumption DEF GenInv, Shape, ResThreads, Threads, Send
<1>2. /\ UNCHANGED <<graph, generation, frame, slot_gen, todo>> /\ pc[a] = "send"
      /\ DOMAIN pc' = Threads /\ DOMAIN batch' = Threads /\ DOMAIN sched' = Threads
      /\ \A u \in Threads \ {a} : pc'[u] = pc[u] /\ batch'[u] = batch[u]
      /\ pc'[a] \in {"discharge", "leave"}
      /\ batch'[a] = batch[a] \/ batch'[a] = <<Kept(a)>>
  BY <1>1 DEF Send, Goto, Shape, counters, frames, Keeps
<1> DEFINE ts == IF Keeps(a) THEN Front(sched[a]) ELSE sched[a]
<1>3. BagToSet(pool') = BagToSet(pool) \cup Range(Stamped(ts))
  <2>1. pool' = pool (+) BagOf(Stamped(ts))
    BY DEF Send
  <2>2. BagToSet(BagOf(Stamped(ts))) = Range(Stamped(ts))
    BY DEF BagOf, BagToSet
  <2> HIDE DEF ts
  <2> QED BY <2>1, <2>2, PoolLemma
<1>4. \A j \in Range(Stamped(ts)) : \E t, f : j = Job(t, generation, f)
  <2> HIDE DEF ts
  <2> QED BY DEF Range, Stamped
<1> HIDE DEF ts
<1>5. \E t, f : Kept(a) = Job(t, slot_gen[a], f)
  BY DEF Kept
<1>6. generation \in Nat /\ slot_gen[a] \in Nat /\ slot_gen[a] <= generation
  BY DEF GenInv
<1>7. ASSUME NEW j \in InFlight' \ InFlight
      PROVE  \E t, f : \E g \in Nat : g <= generation /\ j = Job(t, g, f)
  <2>1. CASE j \in Range(Stamped(ts))
    BY <1>4, <1>6, <2>1
  <2>2. CASE j \notin Range(Stamped(ts))
    <3>1. PICK w \in Workers : j \in Range(batch'[w])
      BY <1>3, <1>7, <2>2 DEF InFlight
    <3>2. j \notin Range(batch[w])
      BY <1>7 DEF InFlight
    <3>3. w = a /\ batch'[a] = <<Kept(a)>>
      BY <1>1, <1>2, <3>1, <3>2
    <3>4. j = Kept(a)
      BY <3>1, <3>3 DEF Range
    <3> QED BY <1>5, <1>6, <3>4
  <2> QED BY <2>1, <2>2
<1>8. Shape'
  BY <1>1, <1>2 DEF Shape, WorkerHolds
<1>9. Resetting' => Resetting
  BY <1>1, <1>2 DEF Resetting
<1> QED BY <1>2, <1>7, <1>8, <1>9, GenMakes

LEMMA GenResolution ==
  ASSUME GenInv, NEW a \in Threads, Resolution(a)
  PROVE  GenInv'
<1>1. /\ Shape /\ Workers \cap ResThreads = {}
      /\ a \in Workers => batch[a] = <<>> \/ \E j : batch[a] = <<j>>
  BY FrameLifecycleAssumption DEF GenInv, Shape, ResThreads, WorkerHolds
<1>2. CASE Enter(a) \/ Discharge(a) \/ Leave(a) \/ Flag(a)
  BY <1>1, <1>2, GenLocal DEF Enter, Discharge, Leave, Flag, Goto, Shape, queues, locals, frames,
       ResetLabels
<1>3. CASE ResolveEdge(a) \/ ConditionPasses(a) \/ ConditionFails(a)
  BY <1>1, <1>3, GenLocal DEF ResolveEdge, ConditionPasses, ConditionFails, Shape, queues,
       counters, frames
<1>4. CASE ItemDone(a)
  <2>1. a \in Workers => batch'[a] = batch[a] \/ batch'[a] = <<>>
    <3>1. batch'[a] = Tail(batch[a])
      BY <1>1, <1>4 DEF ItemDone, Shape
    <3>2. CASE batch[a] = <<>>
      BY <1>1, <1>4, <3>1, <3>2 DEF ItemDone, Shape
    <3>3. CASE \E j : batch[a] = <<j>>
      BY <3>1, <3>3, TailOfOne
    <3> QED BY <1>1, <3>2, <3>3
  <2> QED BY <1>1, <1>4, <2>1, GenLocal DEF ItemDone, Goto, Shape, queues, counters, frames,
            ResetLabels
<1>5. CASE Load(a)
  <2>1. /\ UNCHANGED <<graph, generation, frame, batch, pool>>
        /\ slot_gen' = [slot_gen EXCEPT ![a] = generation]
        /\ todo' = [todo EXCEPT ![a] = Succs[batch[a][1].task]]
        /\ pc' = [pc EXCEPT ![a] = "resolve"] /\ UNCHANGED sched
    BY <1>5 DEF Load, Goto, counters, frames, queues
  <2>2. Shape' /\ Threads' = Threads
    BY <1>1, <2>1 DEF Shape, WorkerHolds, Threads, ResThreads
  <2>3. InFlight' = InFlight
    BY <2>1 DEF InFlight
  <2>4. Resetting' => Resetting
    BY <1>1, <2>1 DEF Resetting, ResThreads, Shape, Threads
  <2>5. \A u \in Threads : slot_gen'[u] \in Nat /\ slot_gen'[u] <= generation
    BY <1>1, <2>1 DEF GenInv, Shape
  <2> QED BY <2>1, <2>2, <2>3, <2>4, <2>5 DEF GenInv
<1>6. CASE Send(a)
  BY <1>6, GenSend
<1> QED BY <1>2, <1>3, <1>4, <1>5, <1>6 DEF Resolution

\* bump_slot_generation leaves every task in flight behind.
LEMMA GenBump ==
  ASSUME GenInv, NEW r \in ResThreads, AssignBump(r) \/ ResetBump(r)
  PROVE  GenInv'
<1>1. /\ generation' = generation + 1 /\ UNCHANGED <<graph, frame, slot_gen, batch, pool, todo, sched>>
      /\ \E l : pc' = [pc EXCEPT ![r] = l]
  BY DEF AssignBump, ResetBump, Goto, frames, queues, locals
<1>2. Shape' /\ Threads' = Threads /\ InFlight' = InFlight
  BY <1>1 DEF GenInv, Shape, WorkerHolds, Threads, ResThreads, InFlight
<1>3. /\ generation \in Nat /\ \A a \in Threads : slot_gen[a] \in Nat /\ slot_gen[a] <= generation
      /\ \A j \in InFlight : j.gen \in Nat /\ j.gen <= generation
  BY DEF GenInv
<1>4. /\ generation' \in Nat /\ \A a \in Threads : slot_gen[a] \in Nat /\ slot_gen[a] <= generation'
      /\ \A j \in InFlight : j.gen \in Nat /\ j.gen <= generation' /\ j.gen # generation'
  BY <1>1, <1>3
<1> QED BY <1>1, <1>2, <1>4 DEF GenInv

\* The slot's frame changes while it is free, or while a thread resets it: no task
\* that was made in time has the slot's generation.
LEMMA GenFrame ==
  ASSUME GenInv, NEW r \in ResThreads, frame = NoFrame \/ Resetting,
         UNCHANGED <<graph, generation, slot_gen, pool, todo, sched>>,
         DOMAIN pc' = Threads, DOMAIN batch' = Threads,
         \A a \in Threads \ {r} : batch'[a] = batch[a]
  PROVE  GenInv'
<1>1. r \notin Workers /\ Threads' = Threads /\ Workers \subseteq Threads
  BY FrameLifecycleAssumption DEF GenInv, Shape, ResThreads, Threads
<1>2. Shape' /\ InFlight' = InFlight
  BY <1>1 DEF GenInv, Shape, WorkerHolds, InFlight
<1>3. \A j \in InFlight : ~(j.gen = generation /\ ~j.late)
  BY DEF GenInv
<1> QED BY <1>1, <1>2, <1>3 DEF GenInv

LEMMA GenResThread ==
  ASSUME GenInv, NEW r \in ResThreads,
         \/ StartFrame(r) \/ Drain(r) \/ CheckSwap(r) \/ Finish(r) \/ Evict(r)
         \/ \E p \in Packets : AdmitHit(r, p) \/ AdmitFirst(r, p)
  PROVE  GenInv'
<1>1. /\ Shape /\ r \in Threads /\ r \notin Workers /\ Workers \subseteq Threads

  BY FrameLifecycleAssumption DEF GenInv, Shape, ResThreads, Threads
<1>2. CASE Drain(r)
  <2>1. /\ UNCHANGED <<graph, generation, frame, slot_gen, pool, todo, sched>>
        /\ \E b : batch' = [batch EXCEPT ![r] = b]
        /\ \E l \in {"idle", "enter"} : pc' = [pc EXCEPT ![r] = l]
    BY <1>2 DEF Drain, Goto, counters, frames
  <2> QED BY <1>1, <2>1, GenLocal DEF Shape, ResetLabels
<1>3. CASE CheckSwap(r) \/ Evict(r) \/ \E p \in Packets : AdmitHit(r, p)
  BY <1>1, <1>3, GenLocal DEF CheckSwap, Evict, AdmitHit, Goto, Shape, counters, frames, queues,
       locals, ResetLabels
<1>4. CASE \E p \in Packets : AdmitFirst(r, p)
  BY <1>1, <1>4, GenFrame DEF AdmitFirst, Publish, Goto, Shape, queues
<1>5. CASE Prepare(r)
  <2>1. CASE frame = NoFrame /\ Publish(r, 0)
    BY <1>1, <1>5, <2>1, GenFrame DEF Prepare, Publish, Goto, Shape, queues, locals
  <2>2. CASE frame = 0 /\ Goto(r, "roots") /\ UNCHANGED <<counters, frame>>
    BY <1>1, <1>5, <2>2, GenLocal DEF Prepare, Goto, Shape, queues, locals, counters, ResetLabels
  <2> QED BY <1>5, <2>1, <2>2 DEF Prepare
<1>6. CASE AssignBump(r) \/ ResetBump(r)
  BY <1>6, GenBump
<1>7. CASE DispatchRoots(r)
  <2>1. /\ UNCHANGED <<graph, generation, frame, slot_gen, todo, sched, batch>>
        /\ pool' = pool (+) SetToBag({Job(t, generation, frame) : t \in Roots})
        /\ \E l \in {"idle", "admit"} : pc' = [pc EXCEPT ![r] = l]
    BY <1>7 DEF DispatchRoots, Goto, counters, frames, locals
  <2>2. BagToSet(SetToBag({Job(t, generation, frame) : t \in Roots}))
          = {Job(t, generation, frame) : t \in Roots}
    BY DEF BagToSet, SetToBag
  <2>3. BagToSet(pool') = BagToSet(pool) \cup {Job(t, generation, frame) : t \in Roots}
    BY <2>1, <2>2, PoolLemma
  <2>4. ASSUME NEW j \in InFlight' \ InFlight
        PROVE  \E t, f : \E g \in Nat : g <= generation /\ j = Job(t, g, f)
    <3>1. PICK t \in Roots : j = Job(t, generation, frame)
      BY <2>1, <2>3, <2>4 DEF InFlight
    <3>2. generation \in Nat /\ generation <= generation
      BY DEF GenInv
    <3> QED BY <3>1, <3>2
  <2>5. Shape'
    BY <1>1, <2>1 DEF Shape, WorkerHolds, Threads, ResThreads
  <2>6. Resetting' => Resetting
    BY <1>1, <2>1 DEF Resetting, ResThreads, Shape, Threads
  <2> QED BY <2>1, <2>4, <2>5, <2>6, GenMakes
<1>8. CASE LoadCounter(r)
  <2>1. /\ UNCHANGED <<graph, generation, frame, slot_gen, pool, todo, sched, batch>>
        /\ pc[r] \in LoadLabels
        /\ \E l \in {NextLoad(pc[r]), "idle", "unmark"} : pc' = [pc EXCEPT ![r] = l]
    BY <1>8, NextLoads DEF LoadCounter, Goto, counters, frames, queues, locals
  <2>2. NextLoad(pc[r]) \notin ResetLabels
    BY <2>1, NextLoads DEF LoadLabels, ResetLabels
  <2>3. pc'[r] \in {NextLoad(pc[r]), "idle", "unmark"} /\ DOMAIN pc' = Threads
        /\ \A u \in Threads \ {r} : pc'[u] = pc[u]
    BY <1>1, <2>1 DEF Shape
  <2>4. pc'[r] \notin ResetLabels
    BY <2>2, <2>3 DEF ResetLabels
  <2> QED BY <1>1, <2>1, <2>3, <2>4, GenLocal DEF Shape
<1>9. CASE try_complete_slot(r) \/ unmark_slot_completed(r) \/ ResetComplete(r) \/ ResetPackets(r)
           \/ ResetPending(r) \/ ResetCond(r) \/ ResetCheck(r) \/ ResetMark(r) \/ CountFrame(r)
  BY <1>1, <1>9, GenLocal DEF try_complete_slot, unmark_slot_completed, ResetComplete, ResetPackets,
       ResetPending, ResetCond, ResetCheck, ResetMark, CountFrame, Goto, Shape, counters, frames,
       queues, locals, ResetLabels
<1>10. CASE ReleaseSlot(r) \/ Restart(r)
  <2>1. Resetting
    BY <1>10 DEF ReleaseSlot, Restart, Resetting
  <2> QED BY <1>1, <1>10, <2>1, GenFrame DEF ReleaseSlot, Restart, Goto, Shape, counters, queues,
            locals
<1> QED BY <1>2, <1>3, <1>4, <1>5, <1>6, <1>7, <1>8, <1>9, <1>10 DEF StartFrame, Finish

LEMMA GenStep == GenInv /\ [Next]_vars => GenInv'
<1> SUFFICES ASSUME GenInv, [Next]_vars PROVE GenInv'
  OBVIOUS
<1>1. CASE UNCHANGED vars
  <2>1. Shape' /\ InFlight' = InFlight /\ (Resetting' <=> Resetting)
    BY <1>1 DEF vars, GenInv, Shape, WorkerHolds, Threads, ResThreads, InFlight, Resetting,
         queues, locals
  <2> QED BY <1>1, <2>1, GenQuiet DEF vars, counters, frames, locals
<1>2. CASE Done
  BY <1>1, <1>2 DEF Done
<1> QED BY <1>1, <1>2, GenWorker, GenResolution, GenResThread DEF Next

LEMMA GenInit == Init => GenInv
<1> SUFFICES ASSUME Init PROVE GenInv
  OBVIOUS
<1>1. Shape
  BY DEF Init, Shape, WorkerHolds, Threads
<1>2. InFlight = {}
  BY DEF Init, InFlight, BagToSet, EmptyBag, SetToBag, Range, Threads
<1> QED BY <1>1, <1>2 DEF Init, GenInv, Threads

\* The stale-task guard is sound for every graph, any number of workers and
\* resolution threads, with evictions and without: a task that was made before
\* the reset of its frame and that passes the guard belongs to the frame in the
\* slot.
THEOREM GuardIsSound == Spec => []GenerationNamesFrame
<1>1. GenInv => GenerationNamesFrame
  BY DEF GenInv, GenerationNamesFrame
<1> QED BY <1>1, GenInit, GenStep, PTL DEF Spec

-----------------------------------------------------------------------------
(* The filter of a drain *)

\* The completions that pass the filter have the places from 1 on, each its own.
LEMMA Places ==
  ASSUME NEW k \in Nat
  PROVE  /\ IsFiniteSet(FreshAmong(k)) /\ Cardinality(FreshAmong(k)) \in Nat
         /\ \A i \in FreshAmong(k) : Place(i, k) \in 1 .. Cardinality(FreshAmong(k))
         /\ \A i, m \in FreshAmong(k) : Place(i, k) = Place(m, k) => i = m
         /\ \A n \in 1 .. Cardinality(FreshAmong(k)) :
              \E i \in FreshAmong(k) : Place(i, k) = n
<1> DEFINE F == FreshAmong(k)
           R == {x \in (1 .. k) \X (1 .. k) : x[1] < x[2]}
<1>1. F \in SUBSET (1 .. k)
  BY DEF FreshAmong
<1> HIDE DEF F
<1>2. IsFiniteSet(F) /\ Cardinality(F) \in Nat
  <2>1. IsFiniteSet(1 .. k)
    BY FS_Interval
  <2> QED BY <1>1, <2>1, FS_Subset, FS_CardinalityType
<1>3. \A i, m \in F : <<i, m>> \in R <=> i < m
  BY <1>1
<1>4. StrictOrder(F, R)
  <2> HIDE DEF R
  <2>1. \A i \in F : i \in Int
    BY <1>1
  <2> QED BY <1>3, <2>1 DEF StrictOrder
<1>5. ASSUME NEW i \in F PROVE Place(i, k) = RankIn(F, R, i) + 1
  <2> HIDE DEF R
  <2>1. {m \in F : <<m, i>> \in R} = {m \in F : m < i}
    BY <1>3
  <2> QED BY <2>1 DEF Place, RankIn, F
<1> HIDE DEF R
<1>6. /\ \A i \in F : RankIn(F, R, i) \in 0 .. Cardinality(F) - 1
      /\ \A i, m \in F : RankIn(F, R, i) = RankIn(F, R, m) => i = m
      /\ \A n \in 0 .. Cardinality(F) - 1 : \E i \in F : RankIn(F, R, i) = n
  BY <1>2, <1>4, RankOrder
<1>7. \A i \in F : Place(i, k) \in 1 .. Cardinality(F)
  BY <1>2, <1>5, <1>6
<1>8. \A i, m \in F : Place(i, k) = Place(m, k) => i = m
  BY <1>2, <1>5, <1>6
<1>9. ASSUME NEW n \in 1 .. Cardinality(F) PROVE \E i \in F : Place(i, k) = n
  <2>1. PICK i \in F : RankIn(F, R, i) = n - 1
    BY <1>2, <1>6
  <2> QED BY <1>5, <2>1
<1> QED BY <1>2, <1>7, <1>8, <1>9 DEF F

\* What is left is part of what was drained.
LEMMA FilterKeeps ==
  ASSUME NEW S, batch_queue \in Seq(S), NEW k \in 1 .. Len(batch_queue)
  PROVE  Filtered(k) \in Seq(S)
<1> DEFINE at(n) == CHOOSE i \in FreshAmong(k) : Place(i, k) = n
           m == Cardinality(FreshAmong(k))
<1>1. k \in Nat /\ m \in Nat
  BY Places
<1>2. ASSUME NEW n \in 1 .. m PROVE batch_queue[at(n)] \in S
  <2>1. \E i \in FreshAmong(k) : Place(i, k) = n
    BY <1>1, Places
  <2>2. at(n) \in FreshAmong(k)
    BY <2>1
  <2>3. at(n) \in 1 .. Len(batch_queue)
    BY <2>2 DEF FreshAmong
  <2> QED BY <2>3
<1>3. Filtered(k) = [n \in 1 .. m |-> batch_queue[at(n)]]
  BY DEF Filtered
<1> HIDE DEF at, m
<1> QED BY <1>1, <1>2, <1>3

-----------------------------------------------------------------------------
(* Conditions *)

LEMMA WiderSeq ==
  ASSUME NEW S, NEW T, S \subseteq T, NEW s \in Seq(S)
  PROVE  s \in Seq(T)
<1>1. \A i \in 1 .. Len(s) : s[i] \in T
  OBVIOUS
<1>2. Len(s) \in Nat /\ DOMAIN s = 1 .. Len(s) /\ s = [i \in 1 .. Len(s) |-> s[i]]
  OBVIOUS
<1> QED BY <1>1, <1>2

Cleared(f, t) == t \in Cond => <<f, t>> \in passed

ReadySeq(s) == \E S : s \in Seq(S) /\ \A x \in S : x.task \in Tasks /\ Cleared(x.frame, x.task)
CompletionSeq(s) == \E S : s \in Seq(S) /\ \A j \in S : j.task \in Nodes

ResolutionBatch(r) ==
  /\ CompletionSeq(batch[r])
  /\ pc[r] \in {"enter", "admit", "discharge", "load", "resolve"} => batch[r] # <<>>

WorkerBatch(w) ==
  /\ todo[w] \in Seq(Tasks \ Cond)
  /\ pc[w] \in {"start", "run", "enter", "admit", "verify", "discharge", "load", "resolve"} =>
       batch[w] # <<>>
  /\ pc[w] \in {"enter", "admit", "verify", "discharge", "load"} =>
       Succs[batch[w][1].task] \in Seq(Tasks \ Cond)

(***************************************************************************)
(* The invariant of the conditions: whatever waits to run, from the moment *)
(* it is ready, has passed its condition in the frame it belongs to; and a *)
(* worker has no conditional successor in its hands.                       *)
(***************************************************************************)
CondInv ==
  /\ Shape
  /\ DOMAIN ran = (Frames \cup {NoFrame}) \X Nodes
  /\ ConditionsRespected
  /\ \A j \in InFlight : j.task \in Tasks /\ Cleared(j.frame, j.task)
  /\ \A a \in Threads : ReadySeq(sched[a]) /\ todo[a] \in Seq(Tasks)
  /\ CompletionSeq(batch_queue)
  /\ \A r \in ResThreads : ResolutionBatch(r)
  /\ \A w \in Workers : WorkerBatch(w)

\* What the assumption says of the graph of the run.
LEMMA GraphFacts ==
  ASSUME graph \in Graphs
  PROVE  /\ Tasks \cap Packets = {} /\ Succs \in [Nodes -> Seq(Tasks)]
         /\ Roots \subseteq Tasks /\ Cond \subseteq Tasks \ Roots
         /\ InitThread \in ResThreads /\ Workers \cap ResThreads = {}
         /\ Workers \subseteq Threads /\ ResThreads \subseteq Threads
BY FrameLifecycleAssumption DEF Tasks, Packets, Succs, Nodes, Roots, Cond, ResThreads, Threads

\* A step of one thread: what it makes is accounted for, the rest stays.
LEMMA CondLocal ==
  ASSUME CondInv, NEW a \in Threads, UNCHANGED graph,
         DOMAIN ran' = DOMAIN ran, passed \subseteq passed', ConditionsRespected',
         DOMAIN pc' = Threads, DOMAIN batch' = Threads, DOMAIN slot_gen' = Threads,
         DOMAIN todo' = Threads, DOMAIN sched' = Threads,
         \A u \in Threads \ {a} : /\ pc'[u] = pc[u] /\ batch'[u] = batch[u]
                                  /\ todo'[u] = todo[u] /\ sched'[u] = sched[u],
         \A j \in BagToSet(pool') \ BagToSet(pool) : j.task \in Tasks /\ Cleared(j.frame, j.task)',
         a \in Workers => batch'[a] = <<>> \/ \E j : batch'[a] = <<j>> /\ j.task \in Tasks
                                                       /\ Cleared(j.frame, j.task)',
         ReadySeq(sched[a])', todo'[a] \in Seq(Tasks), CompletionSeq(batch_queue)',
         a \in ResThreads => ResolutionBatch(a)', a \in Workers => WorkerBatch(a)'
  PROVE  CondInv'
<1>1. /\ graph \in Graphs /\ Workers \subseteq Threads /\ ResThreads \subseteq Threads
      /\ Threads' = Threads /\ ResThreads' = ResThreads /\ Tasks' = Tasks /\ Nodes' = Nodes
      /\ Cond' = Cond /\ Succs' = Succs
  BY GraphFacts DEF CondInv, Shape, Threads, ResThreads, Tasks, Nodes, Packets, Cond, Succs
<1>2. \A f, t : Cleared(f, t) => Cleared(f, t)'
  BY <1>1 DEF Cleared
<1>3. Shape'
  BY <1>1 DEF Shape, WorkerHolds, CondInv
<1>4. DOMAIN ran' = (Frames \cup {NoFrame}) \X Nodes'
  BY <1>1 DEF CondInv
<1>5. ASSUME NEW j \in InFlight' PROVE j.task \in Tasks /\ Cleared(j.frame, j.task)'
  <2>1. CASE j \in InFlight
    BY <1>2, <2>1 DEF CondInv
  <2>2. CASE j \notin InFlight /\ j \in BagToSet(pool')
    BY <2>2 DEF InFlight
  <2>3. CASE j \notin InFlight /\ j \notin BagToSet(pool')
    <3>1. PICK w \in Workers : j \in Range(batch'[w])
      BY <1>5, <2>3 DEF InFlight
    <3>2. w = a
      BY <1>1, <2>3, <3>1 DEF InFlight
    <3>3. CASE batch'[a] = <<>>
      BY <3>1, <3>2, <3>3 DEF Range
    <3>4. CASE \E i : batch'[a] = <<i>> /\ i.task \in Tasks /\ Cleared(i.frame, i.task)'
      BY <3>1, <3>2, <3>4 DEF Range
    <3> QED BY <3>2, <3>3, <3>4
  <2> QED BY <2>1, <2>2, <2>3
<1>6. ASSUME NEW u \in Threads \ {a} PROVE ReadySeq(sched[u])' /\ todo'[u] \in Seq(Tasks)
  <2>1. ReadySeq(sched[u]) /\ todo[u] \in Seq(Tasks)
    BY DEF CondInv
  <2> QED BY <1>1, <1>2, <2>1 DEF ReadySeq
<1>7. ASSUME NEW u \in ResThreads \ {a} PROVE ResolutionBatch(u)'
  <2>1. ResolutionBatch(u)
    BY DEF CondInv
  <2> QED BY <1>1, <2>1 DEF ResolutionBatch, CompletionSeq
<1>8. ASSUME NEW u \in Workers \ {a} PROVE WorkerBatch(u)'
  <2>1. WorkerBatch(u)
    BY DEF CondInv
  <2> QED BY <1>1, <2>1 DEF WorkerBatch
<1> QED BY <1>1, <1>3, <1>4, <1>5, <1>6, <1>7, <1>8 DEF CondInv

\* A worker's own actions.
LEMMA CondWorker ==
  ASSUME PlainConditions, CondInv, NEW w \in Workers, WorkerStep(w)
  PROVE  CondInv'
<1>1. /\ Shape /\ graph \in Graphs /\ w \in Threads /\ w \notin ResThreads
      /\ batch[w] = <<>> \/ \E j : batch[w] = <<j>>
      /\ Succs \in [Nodes -> Seq(Tasks)] /\ Tasks \subseteq Nodes
      /\ ReadySeq(sched[w]) /\ todo[w] \in Seq(Tasks) /\ CompletionSeq(batch_queue)
      /\ WorkerBatch(w) /\ ConditionsRespected
  BY GraphFacts DEF CondInv, Shape, WorkerHolds, Nodes
<1>2. /\ UNCHANGED <<graph, passed, slot_gen, todo, sched>>
      /\ \A u \in Threads \ {w} : pc'[u] = pc[u] /\ batch'[u] = batch[u]
      /\ DOMAIN pc' = Threads /\ DOMAIN batch' = Threads
  BY <1>1 DEF WorkerStep, Take, Start, DropStale, Run, DropInArgs, Verify, Goto, Shape, locals, history
<1>3. /\ Threads' = Threads /\ Tasks' = Tasks /\ Nodes' = Nodes /\ Cond' = Cond /\ Succs' = Succs
      /\ ResThreads' = ResThreads
  BY <1>2 DEF Threads, ResThreads, Tasks, Nodes, Packets, Cond, Succs
<1>4. \A f, t : Cleared(f, t)' <=> Cleared(f, t)
  BY <1>2, <1>3 DEF Cleared
<1>5. ReadySeq(sched[w])' /\ todo'[w] \in Seq(Tasks)
  BY <1>1, <1>2, <1>3, <1>4 DEF ReadySeq
<1>6. batch[w] # <<>> => /\ \E j : batch[w] = <<j>> /\ batch[w][1] = j
                         /\ batch[w][1].task \in Tasks
                         /\ Cleared(batch[w][1].frame, batch[w][1].task)
  <2> SUFFICES ASSUME batch[w] # <<>>
               PROVE  /\ \E j : batch[w] = <<j>> /\ batch[w][1] = j
                      /\ batch[w][1].task \in Tasks
                      /\ Cleared(batch[w][1].frame, batch[w][1].task)
    OBVIOUS
  <2>1. PICK j : batch[w] = <<j>>
    BY <1>1
  <2>2. batch[w][1] = j /\ j \in InFlight
    BY <2>1 DEF InFlight, Range
  <2> QED BY <2>1, <2>2 DEF CondInv
<1>7. UNCHANGED ran => DOMAIN ran' = DOMAIN ran /\ ConditionsRespected'
  BY <1>1, <1>2, <1>3 DEF ConditionsRespected
<1>8. UNCHANGED batch_queue => CompletionSeq(batch_queue)'
  BY <1>1, <1>3 DEF CompletionSeq
<1>9. CASE Take(w)
  <2>1. PICK j \in BagToSet(pool) : /\ pool' = pool (-) SetToBag({j})
                                    /\ batch' = [batch EXCEPT ![w] = <<j>>]
    BY <1>9 DEF Take
  <2>2. j.task \in Tasks /\ Cleared(j.frame, j.task)
    BY DEF CondInv, InFlight
  <2>3. BagToSet(pool') \subseteq BagToSet(pool)
    BY <2>1, PoolLemma
  <2>4. pc'[w] = "start" /\ batch'[w] = <<j>> /\ UNCHANGED <<ran, batch_queue>>
    BY <1>1, <1>9, <2>1 DEF Take, Goto, Shape, history
  <2>5. WorkerBatch(w)'
    BY <1>1, <1>2, <1>3, <2>4 DEF WorkerBatch
  <2> QED BY <1>1, <1>2, <1>3, <1>4, <1>5, <1>7, <1>8, <2>2, <2>3, <2>4, <2>5, CondLocal DEF Shape
<1>10. CASE Start(w) \/ DropStale(w) \/ DropInArgs(w) \/ Verify(w)
  <2>1. UNCHANGED <<ran, pool, batch_queue>>
    BY <1>10 DEF Start, DropStale, DropInArgs, Verify, history, queues
  <2>2. batch'[w] = <<>> \/ batch'[w] = batch[w]
    BY <1>1, <1>10 DEF Start, DropStale, DropInArgs, Verify, Shape, locals
  <2>3. WorkerBatch(w)'
    BY <1>1, <1>2, <1>3, <1>10 DEF WorkerBatch, Start, DropStale, DropInArgs, Verify, Shape, locals, Goto
  <2>4. batch'[w] = <<>> \/ \E j : batch'[w] = <<j>> /\ j.task \in Tasks /\ Cleared(j.frame, j.task)'
    BY <1>4, <1>6, <2>2
  <2> QED BY <1>1, <1>2, <1>3, <1>5, <1>7, <1>8, <2>1, <2>3, <2>4, CondLocal DEF Shape
<1>11. CASE Run(w)
  <2> DEFINE j == batch[w][1]
  <2>1. batch[w] # <<>> /\ j.task \in Tasks /\ Cleared(j.frame, j.task)
    BY <1>1, <1>6, <1>11 DEF Run, WorkerBatch
  <2>2. UNCHANGED pool /\ ran' = [ran EXCEPT ![<<j.frame, j.task>>] = @ + 1]
    BY <1>11 DEF Run
  <2>3. ConditionsRespected' /\ DOMAIN ran' = DOMAIN ran
    <3>1. ASSUME NEW f \in Frames, NEW t \in Cond, ran'[<<f, t>>] > 0 PROVE <<f, t>> \in passed
      <4>1. <<f, t>> \in DOMAIN ran
        BY <1>1, GraphFacts DEF CondInv
      <4>2. CASE <<f, t>> = <<j.frame, j.task>>
        <5>1. f = j.frame /\ t = j.task
          BY <4>2
        <5> QED BY <2>1, <5>1 DEF Cleared
      <4>3. CASE <<f, t>> # <<j.frame, j.task>>
        <5>1. ran'[<<f, t>>] = ran[<<f, t>>]
          BY <2>2, <4>1, <4>3
        <5> QED BY <1>1, <3>1, <5>1 DEF ConditionsRespected
      <4> QED BY <4>2, <4>3
    <3>2. DOMAIN ran' = DOMAIN ran
      BY <2>2
    <3> QED BY <1>2, <1>3, <3>1, <3>2 DEF ConditionsRespected
  <2>4. CASE j.task \in Bulk \/ worker_resolvable(j.task)
    <3>1. UNCHANGED <<batch, batch_queue>> /\ pc'[w] = "enter"
      BY <1>1, <1>11, <2>4 DEF Run, Goto, Shape
    <3>2. Succs[j.task] \in Seq(Tasks) /\ Range(Succs[j.task]) \cap Cond = {}
      BY <1>1, <2>1, <2>4 DEF worker_resolvable, PlainConditions
    <3>3. Succs[j.task] \in Seq(Tasks \ Cond)
      <4> DEFINE s == Succs[j.task]
      <4>1. Len(s) \in Nat /\ DOMAIN s = 1 .. Len(s) /\ s = [i \in 1 .. Len(s) |-> s[i]]
        BY <3>2
      <4>2. \A i \in 1 .. Len(s) : s[i] \in Tasks \ Cond
        BY <3>2 DEF Range
      <4> HIDE DEF s
      <4> QED BY <4>1, <4>2 DEF s
    <3>4. WorkerBatch(w)'
      BY <1>1, <1>2, <1>3, <2>1, <3>1, <3>3 DEF WorkerBatch
    <3>5. \E i : batch'[w] = <<i>> /\ i.task \in Tasks /\ Cleared(i.frame, i.task)'
      BY <1>4, <1>6, <2>1, <3>1
    <3> HIDE DEF j
    <3> QED BY <1>1, <1>2, <1>3, <1>5, <1>8, <2>2, <2>3, <3>1, <3>4, <3>5, CondLocal DEF Shape
  <2>5. CASE ~(j.task \in Bulk \/ worker_resolvable(j.task))
    <3>1. batch_queue' = Append(batch_queue, j) /\ batch'[w] = <<>> /\ pc'[w] = "idle"
      BY <1>1, <1>11, <2>5 DEF Run, Goto, Shape
    <3> HIDE DEF j
    <3>2. CompletionSeq(batch_queue)'
      <4>1. PICK S : batch_queue \in Seq(S) /\ \A i \in S : i.task \in Nodes
        BY <1>1 DEF CompletionSeq
      <4>2. batch_queue' \in Seq(S \cup {j})
        BY <3>1, <4>1, WiderSeq
      <4>3. \A i \in S \cup {j} : i.task \in Nodes
        BY <1>1, <2>1, <4>1
      <4> QED BY <1>3, <4>2, <4>3 DEF CompletionSeq
    <3>3. WorkerBatch(w)'
      BY <1>1, <1>2, <1>3, <3>1 DEF WorkerBatch
    <3> QED BY <1>1, <1>2, <1>3, <1>5, <2>2, <2>3, <3>1, <3>2, <3>3, CondLocal DEF Shape
  <2> QED BY <2>4, <2>5
<1> QED BY <1>9, <1>10, <1>11 DEF WorkerStep

\* The items of a ready list and of a batch.
LEMMA ReadyItems ==
  ASSUME NEW s, ReadySeq(s)
  PROVE  /\ Len(s) \in Nat /\ DOMAIN s = 1 .. Len(s) /\ (s # <<>> => Len(s) > 0)
         /\ \A i \in DOMAIN s : s[i].task \in Tasks /\ Cleared(s[i].frame, s[i].task)
<1>1. PICK S : s \in Seq(S) /\ \A x \in S : x.task \in Tasks /\ Cleared(x.frame, x.task)
  BY DEF ReadySeq
<1> QED BY <1>1

LEMMA FirstCompletion ==
  ASSUME NEW s, CompletionSeq(s), s # <<>>
  PROVE  s[1].task \in Nodes
<1>1. PICK S : s \in Seq(S) /\ \A x \in S : x.task \in Nodes
  BY DEF CompletionSeq
<1> QED BY <1>1

\* What the thread that resolves has in its hands.
ResolverFacts(a) ==
  /\ Shape /\ graph \in Graphs /\ Workers \cap ResThreads = {} /\ Threads = Workers \cup ResThreads
  /\ Succs \in [Nodes -> Seq(Tasks)] /\ Nodes = Tasks \cup Packets /\ Cond \subseteq Tasks
  /\ Tasks \cap Packets = {}
  /\ ReadySeq(sched[a]) /\ todo[a] \in Seq(Tasks) /\ CompletionSeq(batch_queue)
  /\ a \in ResThreads => ResolutionBatch(a)
  /\ a \in Workers => /\ WorkerBatch(a)
                      /\ batch[a] = <<>> \/ \E j : batch[a] = <<j>> /\ j.task \in Tasks
                                                    /\ Cleared(j.frame, j.task)
  /\ ConditionsRespected /\ DOMAIN ran = (Frames \cup {NoFrame}) \X Nodes

LEMMA CondHands ==
  ASSUME CondInv, NEW a \in Threads
  PROVE  ResolverFacts(a)
<1>1. ASSUME a \in Workers
      PROVE  batch[a] = <<>> \/ \E j : batch[a] = <<j>> /\ j.task \in Tasks
                                        /\ Cleared(j.frame, j.task)
  <2>1. CASE batch[a] = <<>>
    BY <2>1
  <2>2. CASE batch[a] # <<>>
    <3>1. PICK j : batch[a] = <<j>>
      BY <1>1, <2>2 DEF CondInv, Shape, WorkerHolds
    <3>2. j \in InFlight
      BY <1>1, <3>1 DEF InFlight, Range
    <3> QED BY <3>1, <3>2 DEF CondInv
  <2> QED BY <2>1, <2>2
<1> QED BY <1>1, GraphFacts DEF CondInv, ResolverFacts, Shape, Threads, Nodes

\* The graph, and with it the names taken from it, never change.
LEMMA GraphStays ==
  ASSUME UNCHANGED graph
  PROVE  /\ Threads' = Threads /\ Tasks' = Tasks /\ Nodes' = Nodes /\ Cond' = Cond /\ Succs' = Succs
         /\ ResThreads' = ResThreads /\ Packets' = Packets /\ Roots' = Roots
BY DEF Threads, ResThreads, Tasks, Nodes, Packets, Cond, Succs, Roots

\* The steps of a resolution that leave the lists alone.
LEMMA CondCounters ==
  ASSUME CondInv, NEW a \in Threads, Enter(a) \/ Discharge(a) \/ Leave(a) \/ Flag(a)
  PROVE  CondInv'
<1>1. ResolverFacts(a)
  BY CondHands
<1>2. /\ UNCHANGED <<graph, passed, slot_gen, todo, sched, batch, pool, batch_queue>>
      /\ \A u \in Threads \ {a} : pc'[u] = pc[u]
      /\ DOMAIN pc' = Threads
  BY <1>1 DEF Enter, Discharge, Leave, Flag, Goto, ResolverFacts, Shape, locals, history, queues
<1>3. ConditionsRespected' /\ DOMAIN ran' = DOMAIN ran
  <2>1. CASE UNCHANGED ran
    BY <1>1, <1>2, <2>1, GraphStays DEF ConditionsRespected, ResolverFacts
  <2>2. CASE Discharge(a) /\ batch[a][1].task \in Packets
    <3> DEFINE j == batch[a][1]
    <3>1. ran' = [ran EXCEPT ![<<j.frame, j.task>>] = @ + 1] /\ j.task \in Packets
      BY <2>2 DEF Discharge
    <3> HIDE DEF j
    <3>2. ASSUME NEW f \in Frames, NEW t \in Cond PROVE ran'[<<f, t>>] = ran[<<f, t>>]
      <4>1. <<f, t>> \in DOMAIN ran /\ t # j.task
        BY <1>1, <3>1 DEF ResolverFacts
      <4> QED BY <3>1, <4>1
    <3> QED BY <1>1, <1>2, <3>1, <3>2, GraphStays DEF ConditionsRespected, ResolverFacts
  <2> QED BY <2>1, <2>2 DEF Enter, Discharge, Leave, Flag, history
<1>4. a \in ResThreads => ResolutionBatch(a)'
  BY <1>1, <1>2, GraphStays DEF ResolutionBatch, CompletionSeq, Enter, Discharge, Leave, Flag, Goto,
       ResolverFacts, Shape
<1>5. a \in Workers => WorkerBatch(a)'
  BY <1>1, <1>2, GraphStays DEF WorkerBatch, Enter, Discharge, Leave, Flag, Goto, ResolverFacts, Shape
<1>6. ReadySeq(sched[a])' /\ CompletionSeq(batch_queue)' /\ \A f, t : Cleared(f, t)' <=> Cleared(f, t)
  BY <1>1, <1>2, GraphStays DEF ReadySeq, CompletionSeq, Cleared, ResolverFacts
<1> QED BY <1>1, <1>2, <1>3, <1>4, <1>5, <1>6, CondLocal DEF Shape, ResolverFacts

LEMMA CondLoad ==
  ASSUME CondInv, NEW a \in Threads, Load(a)
  PROVE  CondInv'
<1>1. ResolverFacts(a)
  BY CondHands
<1>2. /\ UNCHANGED <<graph, passed, ran, sched, batch, pool, batch_queue>>
      /\ slot_gen' = [slot_gen EXCEPT ![a] = generation]
      /\ todo' = [todo EXCEPT ![a] = Succs[batch[a][1].task]]
      /\ pc' = [pc EXCEPT ![a] = "resolve"] /\ pc[a] = "load"
  BY DEF Load, Goto, queues, history
<1>3. ConditionsRespected' /\ DOMAIN ran' = DOMAIN ran
  BY <1>1, <1>2, GraphStays DEF ConditionsRespected, ResolverFacts
<1>4. a \in ResThreads => ResolutionBatch(a)' /\ todo'[a] \in Seq(Tasks)
  <2> SUFFICES ASSUME a \in ResThreads PROVE ResolutionBatch(a)' /\ todo'[a] \in Seq(Tasks)
    OBVIOUS
  <2>1. CompletionSeq(batch[a]) /\ batch[a] # <<>>
    BY <1>1, <1>2 DEF ResolverFacts, ResolutionBatch
  <2>2. batch[a][1].task \in Nodes
    BY <2>1, FirstCompletion
  <2>3. todo'[a] \in Seq(Tasks)
    BY <1>1, <1>2, <2>2 DEF ResolverFacts, Shape
  <2> QED BY <1>1, <1>2, <2>1, <2>3, GraphStays DEF ResolutionBatch, CompletionSeq
<1>5. a \in Workers => WorkerBatch(a)' /\ todo'[a] \in Seq(Tasks)
  <2> SUFFICES ASSUME a \in Workers PROVE WorkerBatch(a)' /\ todo'[a] \in Seq(Tasks)
    OBVIOUS
  <2>1. WorkerBatch(a) /\ todo'[a] = Succs[batch[a][1].task] /\ pc'[a] = "resolve"
    BY <1>1, <1>2 DEF ResolverFacts, Shape
  <2>2. todo'[a] \in Seq(Tasks \ Cond) /\ batch[a] # <<>>
    BY <1>2, <2>1 DEF WorkerBatch
  <2>3. todo'[a] \in Seq(Tasks)
    BY <2>2, WiderSeq
  <2> QED BY <1>2, <2>1, <2>2, <2>3, GraphStays DEF WorkerBatch
<1>6. ReadySeq(sched[a])' /\ CompletionSeq(batch_queue)' /\ \A f, t : Cleared(f, t)' <=> Cleared(f, t)
  BY <1>1, <1>2, GraphStays DEF ReadySeq, CompletionSeq, Cleared, ResolverFacts
<1> QED BY <1>1, <1>2, <1>3, <1>4, <1>5, <1>6, CondLocal DEF Shape, ResolverFacts

\* An edge is walked: a worker meets no conditional successor, and a resolution
\* thread lists one only after its condition has passed.
LEMMA CondEdge ==
  ASSUME CondInv, NEW a \in Threads, ResolveEdge(a) \/ ConditionPasses(a) \/ ConditionFails(a)
  PROVE  CondInv'
<1>1. ResolverFacts(a)
  BY CondHands
<1>t. PICK t : t = Head(todo[a])
  OBVIOUS
<1>x. PICK x : x = Ready(a, t)
  OBVIOUS
<1>2. /\ UNCHANGED <<graph, ran, slot_gen, batch, pool, batch_queue, pc>>
      /\ todo' = [todo EXCEPT ![a] = Tail(@)] /\ todo[a] # <<>>
      /\ sched' = sched \/ sched' = [sched EXCEPT ![a] = Append(@, x)]
      /\ passed \subseteq passed'
  BY <1>t, <1>x DEF ResolveEdge, ConditionPasses, ConditionFails, queues, history
<1>3. sched' = sched \/ Cleared(x.frame, x.task)'
  <2>1. x.frame = batch[a][1].frame /\ x.task = t
    BY <1>x DEF Ready
  <2>2. CASE ResolveEdge(a)
    <3>1. a \in Workers => t \notin Cond
      <4>1. a \in Workers => todo[a] \in Seq(Tasks \ Cond)
        BY <1>1 DEF ResolverFacts, WorkerBatch
      <4> QED BY <1>t, <1>2, <4>1
    <3>2. sched' = sched \/ t \notin Cond
      BY <1>1, <1>t, <2>2, <3>1 DEF ResolveEdge, Evaluates, ResolverFacts
    <3> QED BY <1>2, <2>1, <3>2, GraphStays DEF Cleared
  <2>3. CASE ConditionPasses(a)
    <3>1. <<batch[a][1].frame, t>> \in passed'
      BY <1>t, <2>3 DEF ConditionPasses
    <3> QED BY <2>1, <3>1 DEF Cleared
  <2>4. CASE ConditionFails(a)
    BY <2>4 DEF ConditionFails
  <2> QED BY <2>2, <2>3, <2>4
<1>4. t \in Tasks /\ todo'[a] \in Seq(Tasks)
  BY <1>1, <1>t, <1>2 DEF ResolverFacts, Shape
<1>5. x.task = t
  BY <1>x DEF Ready
<1>6. ReadySeq(sched[a])'
  <2>1. PICK S : sched[a] \in Seq(S) /\ \A y \in S : y.task \in Tasks /\ Cleared(y.frame, y.task)
    BY <1>1 DEF ResolverFacts, ReadySeq
  <2>2. \A y \in S : y.task \in Tasks' /\ Cleared(y.frame, y.task)'
    BY <1>2, <2>1, GraphStays DEF Cleared
  <2>3. CASE sched' = sched
    BY <2>1, <2>2, <2>3 DEF ReadySeq
  <2>4. CASE sched' = [sched EXCEPT ![a] = Append(@, x)] /\ Cleared(x.frame, x.task)'
    <3>1. sched'[a] \in Seq(S \cup {x})
      BY <1>1, <2>1, <2>4, WiderSeq DEF ResolverFacts, Shape
    <3>2. \A y \in S \cup {x} : y.task \in Tasks' /\ Cleared(y.frame, y.task)'
      BY <1>2, <1>4, <1>5, <2>2, <2>4, GraphStays
    <3> QED BY <3>1, <3>2 DEF ReadySeq
  <2> QED BY <1>2, <1>3, <2>3, <2>4
<1>7. ConditionsRespected'
  BY <1>1, <1>2, GraphStays DEF ConditionsRespected, ResolverFacts
<1>8. a \in ResThreads => ResolutionBatch(a)'
  BY <1>1, <1>2, GraphStays DEF ResolverFacts, ResolutionBatch, CompletionSeq
<1>9. a \in Workers => WorkerBatch(a)'
  <2>1. a \in Workers => todo'[a] \in Seq(Tasks \ Cond)
    BY <1>1, <1>2 DEF ResolverFacts, WorkerBatch, Shape
  <2> QED BY <1>1, <1>2, <2>1, GraphStays DEF ResolverFacts, WorkerBatch
<1>10. /\ CompletionSeq(batch_queue)'
       /\ \A f, u : Cleared(f, u) => Cleared(f, u)'
  BY <1>1, <1>2, GraphStays DEF CompletionSeq, Cleared, ResolverFacts
<1>11. DOMAIN sched' = Threads /\ \A u \in Threads \ {a} : sched'[u] = sched[u]
  BY <1>1, <1>2 DEF ResolverFacts, Shape
<1> QED BY <1>1, <1>2, <1>4, <1>6, <1>7, <1>8, <1>9, <1>10, <1>11, CondLocal DEF Shape, ResolverFacts

LEMMA TailOfMany ==
  ASSUME NEW S, NEW s \in Seq(S), s # <<>>, Len(s) # 1
  PROVE  Tail(s) # <<>>
<1>1. Len(s) \in Nat \ {0} /\ Len(Tail(s)) = Len(s) - 1
  OBVIOUS
<1>2. Len(Tail(s)) # 0
  BY <1>1
<1>3. Len(<<>>) = 0
  OBVIOUS
<1> QED BY <1>2, <1>3

LEMMA AppendSome ==
  ASSUME NEW S, NEW s \in Seq(S), NEW x \in S
  PROVE  Append(s, x) \in Seq(S) /\ Append(s, x) # <<>>
<1>1. Len(s) \in Nat /\ Append(s, x) \in Seq(S) /\ Len(Append(s, x)) = Len(s) + 1
  OBVIOUS
<1>2. Len(Append(s, x)) # 0
  BY <1>1
<1>3. Len(<<>>) = 0
  OBVIOUS
<1> QED BY <1>1, <1>2, <1>3

LEMMA CondItem ==
  ASSUME CondInv, NEW a \in Threads, ItemDone(a)
  PROVE  CondInv'
<1>1. ResolverFacts(a)
  BY CondHands
<1>2. /\ UNCHANGED <<graph, ran, passed, slot_gen, todo, sched, pool, batch_queue>>
      /\ batch' = [batch EXCEPT ![a] = Tail(@)] /\ pc[a] = "resolve"
      /\ pc' = [pc EXCEPT ![a] = IF Len(batch[a]) = 1 \/ Len(sched[a]) >= FlushThreshold
                                 THEN "send" ELSE "discharge"]
  BY DEF ItemDone, Goto, queues, history
<1>3. ConditionsRespected' /\ ReadySeq(sched[a])' /\ CompletionSeq(batch_queue)'
  BY <1>1, <1>2, GraphStays DEF ConditionsRespected, ReadySeq, CompletionSeq, Cleared, ResolverFacts
<1>4. a \in ResThreads => ResolutionBatch(a)'
  <2> SUFFICES ASSUME a \in ResThreads PROVE ResolutionBatch(a)'
    OBVIOUS
  <2>1. PICK S : batch[a] \in Seq(S) /\ \A j \in S : j.task \in Nodes
    BY <1>1 DEF ResolverFacts, ResolutionBatch, CompletionSeq
  <2>2. batch[a] # <<>>
    BY <1>1, <1>2 DEF ResolverFacts, ResolutionBatch
  <2>3. /\ batch'[a] = Tail(batch[a]) /\ batch'[a] \in Seq(S)
        /\ pc'[a] \in {"send", "discharge"} /\ (pc'[a] = "discharge" => Len(batch[a]) # 1)
    BY <1>1, <1>2, <2>1, <2>2 DEF ResolverFacts, Shape
  <2>4. Len(batch[a]) # 1 => batch'[a] # <<>>
    <3>1. Len(batch[a]) # 1 => Tail(batch[a]) # <<>>
      BY <2>1, <2>2, TailOfMany
    <3> QED BY <2>3, <3>1
  <2> QED BY <1>2, <2>1, <2>3, <2>4, GraphStays DEF ResolutionBatch, CompletionSeq
<1>5. a \in Workers => WorkerBatch(a)' /\ batch'[a] = <<>>
  <2> SUFFICES ASSUME a \in Workers PROVE WorkerBatch(a)' /\ batch'[a] = <<>>
    OBVIOUS
  <2>1. WorkerBatch(a) /\ batch[a] # <<>>
    BY <1>1, <1>2 DEF ResolverFacts, WorkerBatch
  <2>2. PICK j : batch[a] = <<j>>
    BY <1>1, <2>1 DEF ResolverFacts
  <2>3. Len(batch[a]) = 1 /\ Tail(batch[a]) = <<>>
    BY <2>2, TailOfOne
  <2>4. pc'[a] = "send" /\ batch'[a] = <<>>
    BY <1>1, <1>2, <2>3 DEF ResolverFacts, Shape
  <2> QED BY <1>2, <2>1, <2>4, GraphStays DEF WorkerBatch
<1> QED BY <1>1, <1>2, <1>3, <1>4, <1>5, CondLocal DEF Shape, ResolverFacts

LEMMA CondSend ==
  ASSUME CondInv, NEW a \in Threads, Send(a)
  PROVE  CondInv'
<1> DEFINE ts == IF Keeps(a) THEN Front(sched[a]) ELSE sched[a]
<1>1. ResolverFacts(a)
  BY CondHands
<1>2. /\ UNCHANGED <<graph, ran, passed, slot_gen, todo, batch_queue>> /\ pc[a] = "send"
      /\ pool' = pool (+) BagOf(Stamped(ts))
      /\ batch' = IF Keeps(a) THEN [batch EXCEPT ![a] = <<Kept(a)>>] ELSE batch
      /\ sched' = [sched EXCEPT ![a] = <<>>]
      /\ pc' = [pc EXCEPT ![a] = IF a \in ResThreads /\ batch[a] # <<>> THEN "discharge" ELSE "leave"]
  BY DEF Send, Goto, history
<1>3. /\ Len(sched[a]) \in Nat /\ DOMAIN sched[a] = 1 .. Len(sched[a])
      /\ sched[a] # <<>> => Len(sched[a]) > 0
      /\ \A i \in DOMAIN sched[a] :
           sched[a][i].task \in Tasks /\ Cleared(sched[a][i].frame, sched[a][i].task)
  BY <1>1, ReadyItems DEF ResolverFacts
<1>4. \A i \in DOMAIN ts : i \in DOMAIN sched[a] /\ ts[i] = sched[a][i]
  <2>1. CASE Keeps(a)
    <3>1. Len(sched[a]) > 0 /\ ts = Front(sched[a])
      BY <1>3, <2>1 DEF Keeps
    <3>2. PICK S : sched[a] \in Seq(S)
      BY <1>1 DEF ResolverFacts, ReadySeq
    <3>3. DOMAIN ts = 1 .. Len(sched[a]) - 1 /\ \A i \in 1 .. Len(sched[a]) - 1 : ts[i] = sched[a][i]
      BY <1>3, <3>1, <3>2 DEF Front
    <3> QED BY <1>3, <3>3
  <2>2. CASE ~Keeps(a)
    BY <2>2
  <2> QED BY <2>1, <2>2
<1> HIDE DEF ts
<1>5. \A f, u : Cleared(f, u)' <=> Cleared(f, u)
  BY <1>2, GraphStays DEF Cleared
<1>6. ASSUME NEW j \in BagToSet(pool') \ BagToSet(pool)
      PROVE  j.task \in Tasks /\ Cleared(j.frame, j.task)'
  <2>1. BagToSet(BagOf(Stamped(ts))) = Range(Stamped(ts))
    BY DEF BagOf, BagToSet
  <2>2. j \in Range(Stamped(ts))
    BY <1>2, <1>6, <2>1, PoolLemma
  <2>3. PICK i \in DOMAIN ts : j = Job(ts[i].task, generation, ts[i].frame)
    BY <2>2 DEF Range, Stamped
  <2>4. j.task = ts[i].task /\ j.frame = ts[i].frame
    BY <2>3 DEF Job
  <2> QED BY <1>3, <1>4, <1>5, <2>4
<1>7. Keeps(a) => Kept(a).task \in Tasks /\ Cleared(Kept(a).frame, Kept(a).task) /\ a \in Workers
  <2> SUFFICES ASSUME Keeps(a)
               PROVE  Kept(a).task \in Tasks /\ Cleared(Kept(a).frame, Kept(a).task) /\ a \in Workers
    OBVIOUS
  <2>1. Last(sched[a]) = sched[a][Len(sched[a])] /\ Len(sched[a]) \in DOMAIN sched[a] /\ a \in Workers
    BY <1>3 DEF Keeps, Last
  <2>2. Kept(a).task = Last(sched[a]).task /\ Kept(a).frame = Last(sched[a]).frame
    BY DEF Kept, Job
  <2> QED BY <1>3, <2>1, <2>2
<1>8. /\ DOMAIN batch' = Threads /\ \A u \in Threads \ {a} : batch'[u] = batch[u]
      /\ batch'[a] = IF Keeps(a) THEN <<Kept(a)>> ELSE batch[a]
      /\ a \in ResThreads => batch'[a] = batch[a]
      /\ sched'[a] = <<>>
      /\ pc'[a] = IF a \in ResThreads /\ batch[a] # <<>> THEN "discharge" ELSE "leave"
  BY <1>1, <1>2 DEF ResolverFacts, Shape, Keeps
<1>9. ReadySeq(sched[a])'
  <2>1. sched'[a] \in Seq({})
    BY <1>8
  <2> QED BY <2>1 DEF ReadySeq
<1>10. ConditionsRespected' /\ CompletionSeq(batch_queue)'
  BY <1>1, <1>2, GraphStays DEF ConditionsRespected, CompletionSeq, ResolverFacts
<1>11. a \in ResThreads => ResolutionBatch(a)'
  <2> SUFFICES ASSUME a \in ResThreads PROVE ResolutionBatch(a)'
    OBVIOUS
  <2>1. PICK S : batch[a] \in Seq(S) /\ \A j \in S : j.task \in Nodes
    BY <1>1 DEF ResolverFacts, ResolutionBatch, CompletionSeq
  <2>2. CompletionSeq(batch[a])'
    BY <1>2, <1>8, <2>1, GraphStays DEF CompletionSeq
  <2> QED BY <1>8, <2>2 DEF ResolutionBatch
<1>12. a \in Workers => WorkerBatch(a)'
  BY <1>1, <1>2, <1>8, GraphStays DEF ResolverFacts, WorkerBatch
<1>13. a \in Workers => batch'[a] = <<>> \/ \E j : batch'[a] = <<j>> /\ j.task \in Tasks
                                                     /\ Cleared(j.frame, j.task)'
  <2> SUFFICES ASSUME a \in Workers
               PROVE  batch'[a] = <<>> \/ \E j : /\ batch'[a] = <<j>> /\ j.task \in Tasks
                                                /\ Cleared(j.frame, j.task)'
    OBVIOUS
  <2>1. batch'[a] = <<>> \/ \E j : batch'[a] = <<j>> /\ j.task \in Tasks /\ Cleared(j.frame, j.task)
    BY <1>1, <1>7, <1>8 DEF ResolverFacts
  <2> QED BY <1>5, <2>1
<1>14. DOMAIN pc' = Threads /\ DOMAIN sched' = Threads
       /\ \A u \in Threads \ {a} : pc'[u] = pc[u] /\ sched'[u] = sched[u]
  BY <1>1, <1>2 DEF ResolverFacts, Shape
<1> QED BY <1>1, <1>2, <1>6, <1>8, <1>9, <1>10, <1>11, <1>12, <1>13, <1>14, CondLocal
     DEF Shape, ResolverFacts

LEMMA CondResolution ==
  ASSUME CondInv, NEW a \in Threads, Resolution(a)
  PROVE  CondInv'
BY CondCounters, CondLoad, CondEdge, CondItem, CondSend DEF Resolution

\* The other steps of a resolution thread: those that leave the lists alone, the
\* drain, the roots, which carry no condition, and the packets.
LEMMA CondQuiet ==
  ASSUME CondInv, NEW r \in ResThreads,
         UNCHANGED <<graph, ran, passed, slot_gen, todo, sched>>,
         DOMAIN pc' = Threads, DOMAIN batch' = Threads,
         \A u \in Threads \ {r} : pc'[u] = pc[u] /\ batch'[u] = batch[u],
         \A j \in BagToSet(pool') \ BagToSet(pool) : j.task \in Roots,
         CompletionSeq(batch_queue)', CompletionSeq(batch[r])',
         pc'[r] \in {"enter", "admit", "discharge", "load", "resolve"} => batch'[r] # <<>>
  PROVE  CondInv'
<1>1. r \in Threads /\ r \notin Workers
  BY GraphFacts DEF CondInv, Shape
<1>2. ResolverFacts(r) /\ Roots \subseteq Tasks \ Cond
  BY <1>1, CondHands, GraphFacts DEF ResolverFacts
<1>3. ReadySeq(sched[r])' /\ ConditionsRespected'
  BY <1>2, GraphStays DEF ReadySeq, ConditionsRespected, Cleared, ResolverFacts
<1>4. \A j \in BagToSet(pool') \ BagToSet(pool) : j.task \in Tasks /\ Cleared(j.frame, j.task)'
  BY <1>2, GraphStays DEF Cleared
<1>5. ResolutionBatch(r)'
  BY DEF ResolutionBatch
<1> QED BY <1>1, <1>2, <1>3, <1>4, <1>5, CondLocal DEF ResolverFacts, Shape

LEMMA CondResThread ==
  ASSUME CondInv, NEW r \in ResThreads,
         \/ StartFrame(r) \/ Drain(r) \/ CheckSwap(r) \/ Finish(r) \/ Evict(r)
         \/ \E p \in Packets : AdmitHit(r, p) \/ AdmitFirst(r, p)
  PROVE  CondInv'
<1>1. r \in Threads /\ ResolverFacts(r) /\ ResolutionBatch(r)
  BY GraphFacts, CondHands DEF CondInv, Shape, ResolverFacts
<1>2. UNCHANGED graph => /\ UNCHANGED batch => CompletionSeq(batch[r])'
                         /\ UNCHANGED batch_queue => CompletionSeq(batch_queue)'
  BY <1>1, GraphStays DEF ResolverFacts, ResolutionBatch, CompletionSeq
<1>3. CASE Drain(r)
  <2>1. PICK k \in 1 .. BatchSize :
          /\ k <= Len(batch_queue)
          /\ batch_queue' = SubSeq(batch_queue, k + 1, Len(batch_queue))
          /\ batch' = [batch EXCEPT ![r] = Filtered(k)]
          /\ pc' = [pc EXCEPT ![r] = IF Filtered(k) = <<>> THEN "idle" ELSE "enter"]
    BY <1>3 DEF Drain, Goto
  <2>2. UNCHANGED <<graph, ran, passed, slot_gen, todo, sched, pool>>
    BY <1>3 DEF Drain, history
  <2>3. PICK S : batch_queue \in Seq(S) /\ \A j \in S : j.task \in Nodes
    BY <1>1 DEF ResolverFacts, CompletionSeq
  <2>4. k \in 1 .. Len(batch_queue)
    BY <2>1, <2>3
  <2>5. Filtered(k) \in Seq(S) /\ batch_queue' \in Seq(S)
    BY <2>1, <2>3, <2>4, FilterKeeps
  <2>6. CompletionSeq(batch[r])' /\ CompletionSeq(batch_queue)'
    BY <1>1, <2>1, <2>2, <2>3, <2>5, GraphStays DEF CompletionSeq, ResolverFacts, Shape
  <2>7. pc'[r] = "enter" => batch'[r] # <<>>
    BY <1>1, <2>1 DEF ResolverFacts, Shape
  <2>8. pc'[r] \in {"idle", "enter"} /\ DOMAIN pc' = Threads /\ DOMAIN batch' = Threads
        /\ \A u \in Threads \ {r} : pc'[u] = pc[u] /\ batch'[u] = batch[u]
    BY <1>1, <2>1 DEF ResolverFacts, Shape
  <2> QED BY <2>2, <2>6, <2>7, <2>8, CondQuiet
<1>4. CASE \E p \in Packets : AdmitHit(r, p) \/ AdmitFirst(r, p)
  <2>1. PICK p \in Packets : AdmitHit(r, p) \/ AdmitFirst(r, p)
    BY <1>4
  <2>2. /\ UNCHANGED <<graph, ran, passed, slot_gen, todo, sched, pool, batch_queue>>
        /\ \E l : pc' = [pc EXCEPT ![r] = l]
    BY <2>1 DEF AdmitHit, AdmitFirst, Publish, Goto, queues, history
  <2>4. PICK j : j.task = p /\ (\/ batch' = [batch EXCEPT ![r] = Append(@, j)]
                                \/ batch' = [batch EXCEPT ![r] = <<j>>])
    <3>1. Job(p, 0, frame).task = p /\ Job(p, 0, completed).task = p
      BY DEF Job
    <3> QED BY <2>1, <3>1 DEF AdmitHit, AdmitFirst
  <2>5. PICK S : batch[r] \in Seq(S) /\ \A i \in S : i.task \in Nodes
    BY <1>1 DEF ResolutionBatch, CompletionSeq
  <2>6. batch'[r] \in Seq(S \cup {j}) /\ batch'[r] # <<>>
    <3>1. batch[r] \in Seq(S \cup {j})
      BY <2>5, WiderSeq
    <3>2. batch'[r] = Append(batch[r], j) \/ batch'[r] = <<j>>
      BY <1>1, <2>4 DEF ResolverFacts, Shape
    <3>3. Append(batch[r], j) \in Seq(S \cup {j}) /\ Append(batch[r], j) # <<>>
      BY <3>1, AppendSome
    <3>4. <<j>> \in Seq(S \cup {j}) /\ <<j>> # <<>>
      OBVIOUS
    <3> QED BY <3>2, <3>3, <3>4
  <2>7. \A i \in S \cup {j} : i.task \in Nodes'
    BY <1>1, <2>2, <2>4, <2>5, GraphStays DEF ResolverFacts
  <2>8. CompletionSeq(batch[r])'
    BY <2>6, <2>7 DEF CompletionSeq
  <2>9. DOMAIN pc' = Threads /\ DOMAIN batch' = Threads
        /\ \A u \in Threads \ {r} : pc'[u] = pc[u] /\ batch'[u] = batch[u]
    BY <1>1, <2>2, <2>4 DEF ResolverFacts, Shape
  <2> QED BY <1>2, <2>2, <2>6, <2>8, <2>9, CondQuiet
<1>5. CASE DispatchRoots(r)
  <2>1. /\ UNCHANGED <<graph, ran, passed, slot_gen, todo, sched, batch, batch_queue>>
        /\ pool' = pool (+) SetToBag({Job(t, generation, frame) : t \in Roots})
        /\ \E l : /\ pc' = [pc EXCEPT ![r] = l]
                  /\ l \in {"admit", "idle"} /\ (l = "admit" => batch[r] # <<>>)
    BY <1>5 DEF DispatchRoots, Goto, locals, history
  <2>2. BagToSet(SetToBag({Job(t, generation, frame) : t \in Roots}))
          = {Job(t, generation, frame) : t \in Roots}
    BY DEF BagToSet, SetToBag
  <2>3. ASSUME NEW j \in BagToSet(pool') \ BagToSet(pool) PROVE j.task \in Roots
    <3>1. PICK t \in Roots : j = Job(t, generation, frame)
      BY <2>1, <2>2, <2>3, PoolLemma
    <3> QED BY <3>1 DEF Job
  <2>4. /\ DOMAIN pc' = Threads /\ DOMAIN batch' = Threads
        /\ \A u \in Threads \ {r} : pc'[u] = pc[u] /\ batch'[u] = batch[u]
        /\ pc'[r] \in {"admit", "idle"} /\ (pc'[r] = "admit" => batch[r] # <<>>)
    BY <1>1, <2>1 DEF ResolverFacts, Shape
  <2>5. \A j \in BagToSet(pool') \ BagToSet(pool) : j.task \in Roots
    BY <2>3
  <2>6. pc'[r] \in {"enter", "admit", "discharge", "load", "resolve"} => batch'[r] # <<>>
    <3>1. pc'[r] = "admit" \/ pc'[r] = "idle"
      BY <2>4
    <3>2. pc'[r] = "admit" => batch[r] # <<>>
      BY <2>4
    <3>3. batch' = batch
      BY <2>1
    <3> QED BY <3>1, <3>2, <3>3
  <2>7. CompletionSeq(batch_queue)' /\ CompletionSeq(batch[r])'
    BY <1>2, <2>1
  <2>8. UNCHANGED <<graph, ran, passed, slot_gen, todo, sched>>
    BY <2>1
  <2> QED BY <2>4, <2>5, <2>6, <2>7, <2>8, CondQuiet
<1>6. CASE LoadCounter(r)
  <2>1. /\ UNCHANGED <<graph, ran, passed, slot_gen, todo, sched, batch, batch_queue, pool>>
        /\ pc[r] \in LoadLabels
        /\ \E l \in {NextLoad(pc[r]), "idle", "unmark"} : pc' = [pc EXCEPT ![r] = l]
    BY <1>6, NextLoads DEF LoadCounter, Goto, queues, locals, history
  <2>2. NextLoad(pc[r]) \notin {"enter", "admit", "discharge", "load", "resolve"}
    BY <2>1, NextLoads DEF LoadLabels
  <2>3. pc'[r] \in {NextLoad(pc[r]), "idle", "unmark"} /\ DOMAIN pc' = Threads
        /\ \A u \in Threads \ {r} : pc'[u] = pc[u]
    BY <1>1, <2>1 DEF ResolverFacts, Shape
  <2>4. pc'[r] \notin {"enter", "admit", "discharge", "load", "resolve"}
    BY <2>2, <2>3
  <2> QED BY <1>1, <1>2, <2>1, <2>3, <2>4, CondQuiet DEF ResolverFacts, Shape
<1>7. CASE \/ Prepare(r) \/ AssignBump(r) \/ CheckSwap(r) \/ Evict(r)
           \/ try_complete_slot(r) \/ unmark_slot_completed(r) \/ ResetBump(r) \/ ResetComplete(r)
           \/ ResetPackets(r) \/ ResetPending(r) \/ ResetCond(r) \/ ResetCheck(r) \/ ResetMark(r)
           \/ CountFrame(r) \/ ReleaseSlot(r) \/ Restart(r)
  <2>1. /\ UNCHANGED <<graph, ran, passed, slot_gen, todo, sched, batch, batch_queue, pool>>
        /\ \E l : /\ pc' = [pc EXCEPT ![r] = l]
                  /\ l \notin {"enter", "admit", "discharge", "load", "resolve"}
    BY <1>7 DEF Prepare, Publish, AssignBump, CheckSwap, Evict, try_complete_slot, unmark_slot_completed,
         ResetBump, ResetComplete, ResetPackets, ResetPending, ResetCond, ResetCheck, ResetMark, CountFrame,
         ReleaseSlot, Restart, Goto, locals, history, queues
  <2> QED BY <1>1, <1>2, <2>1, CondQuiet DEF ResolverFacts, Shape
<1> QED BY <1>3, <1>4, <1>5, <1>6, <1>7 DEF StartFrame, Finish

LEMMA CondStep == PlainConditions /\ CondInv /\ [Next]_vars => CondInv'
<1> SUFFICES ASSUME PlainConditions, CondInv, [Next]_vars PROVE CondInv'
  OBVIOUS
<1>1. CASE UNCHANGED vars
  <2>1. InitThread \in ResThreads
    BY GraphFacts DEF CondInv, Shape
  <2>2. ResolverFacts(InitThread) /\ ResolutionBatch(InitThread)
    BY <2>1, GraphFacts, CondHands DEF CondInv, Shape, ResolverFacts
  <2>3. UNCHANGED <<graph, ran, passed, slot_gen, todo, sched, batch, batch_queue, pool, pc>>
    BY <1>1 DEF vars, history, locals, queues
  <2>4. CompletionSeq(batch[InitThread])' /\ CompletionSeq(batch_queue)'
    BY <2>2, <2>3, GraphStays DEF ResolverFacts, ResolutionBatch, CompletionSeq
  <2> QED BY <2>1, <2>2, <2>3, <2>4, CondQuiet DEF ResolverFacts, ResolutionBatch, Shape
<1>2. CASE Done
  BY <1>1, <1>2 DEF Done
<1> QED BY <1>1, <1>2, CondWorker, CondResolution, CondResThread DEF Next

LEMMA GraphFixed ==
  ASSUME [Next]_vars
  PROVE  graph' = graph
<1>1. ASSUME NEW w \in Workers, WorkerStep(w) PROVE graph' = graph
  BY <1>1 DEF WorkerStep, Take, Start, DropStale, Run, DropInArgs, Verify
<1>2. ASSUME NEW a, Resolution(a) PROVE graph' = graph
  BY <1>2 DEF Resolution, Enter, Discharge, Load, ResolveEdge, ConditionPasses, ConditionFails,
       ItemDone, Send, Leave, Flag
<1>3. ASSUME NEW r, StartFrame(r) \/ Drain(r) \/ CheckSwap(r) \/ Evict(r) PROVE graph' = graph
  BY <1>3 DEF StartFrame, Prepare, Publish, AssignBump, DispatchRoots, Drain, CheckSwap, Evict
<1>4. ASSUME NEW r, Finish(r) PROVE graph' = graph
  BY <1>4 DEF Finish, LoadCounter, try_complete_slot, unmark_slot_completed, ResetBump, ResetComplete,
       ResetPackets, ResetPending, ResetCond, ResetCheck, ResetMark, CountFrame, ReleaseSlot, Restart
<1>5. ASSUME NEW r, NEW p, AdmitHit(r, p) \/ AdmitFirst(r, p) PROVE graph' = graph
  BY <1>5 DEF AdmitHit, AdmitFirst
<1>6. CASE UNCHANGED vars \/ Done
  BY <1>6 DEF Done, vars
<1> QED BY <1>1, <1>2, <1>3, <1>4, <1>5, <1>6 DEF Next

\* A task with a condition runs only if its condition was found true, in every
\* graph whose conditions are conditions of nodes and whose bulk nodes feed no
\* conditional one, with any threads and with evictions: these are the graphs in
\* which no worker resolves a conditional successor by itself.
THEOREM ConditionsAreRespected == Spec => []EvaluatedFirst
<1>1. ASSUME Init PROVE CondInv
  <2>1. Shape
    BY <1>1 DEF Init, Shape, WorkerHolds, Threads
  <2>2. InFlight = {}
    BY <1>1 DEF Init, InFlight, BagToSet, EmptyBag, SetToBag, Range, Threads
  <2>3. <<>> \in Seq({}) /\ <<>> \in Seq(Tasks) /\ <<>> \in Seq(Tasks \ Cond)
    OBVIOUS
  <2>4. ReadySeq(<<>>) /\ CompletionSeq(<<>>)
    <3>1. ASSUME NEW e \in Seq({}) PROVE ReadySeq(e) /\ CompletionSeq(e)
      BY DEF ReadySeq, CompletionSeq
    <3> QED BY <2>3, <3>1
  <2>5. ASSUME NEW a \in Threads
        PROVE  pc[a] = "idle" /\ batch[a] = <<>> /\ todo[a] = <<>> /\ sched[a] = <<>>
    BY <1>1 DEF Init
  <2>6. DOMAIN ran = (Frames \cup {NoFrame}) \X Nodes /\ ConditionsRespected /\ batch_queue = <<>>
    <3>1. ran = [x \in (Frames \cup {NoFrame}) \X Nodes |-> 0]
      BY <1>1 DEF Init
    <3>2. \A f \in Frames, t \in Cond : ran[<<f, t>>] = 0
      BY <2>1, <3>1, GraphFacts DEF Shape, Nodes
    <3> QED BY <1>1, <3>1, <3>2 DEF Init, ConditionsRespected
  <2>7. \A r \in ResThreads : ResolutionBatch(r)
    BY <2>4, <2>5 DEF ResolutionBatch, Threads
  <2>8. \A w \in Workers : WorkerBatch(w)
    BY <2>3, <2>5 DEF WorkerBatch, Threads
  <2> QED BY <2>1, <2>2, <2>3, <2>4, <2>5, <2>6, <2>7, <2>8 DEF CondInv
<1> DEFINE PlainInv == PlainConditions => CondInv
<1>2. PlainInv => EvaluatedFirst
  BY DEF CondInv, EvaluatedFirst
<1>3. PlainInv /\ [Next]_vars => PlainInv'
  <2> SUFFICES ASSUME PlainInv, [Next]_vars, PlainConditions' PROVE CondInv'
    OBVIOUS
  <2>1. PlainConditions
    BY GraphFixed DEF PlainConditions, ArgCond, Bulk, Succs, Cond
  <2> QED BY <2>1, CondStep
<1>4. Init => PlainInv
  BY <1>1
<1> HIDE DEF PlainInv
<1> QED BY <1>2, <1>3, <1>4, PTL DEF Spec

-----------------------------------------------------------------------------
(* Lists of tasks *)

\* A list holds nodes of K, each once, all of frame f.
Lists(s, f, K) ==
  /\ \E S : s \in Seq(S)
  /\ \A i \in DOMAIN s : s[i].task \in K /\ s[i].frame = f
  /\ \A i, k \in DOMAIN s : s[i].task = s[k].task => i = k

LEMMA ListEmpty ==
  ASSUME NEW f, NEW K
  PROVE  Lists(<<>>, f, K)
<1>1. <<>> \in Seq({})
  OBVIOUS
<1>2. DOMAIN <<>> = {}
  OBVIOUS
<1> QED BY <1>1, <1>2 DEF Lists

LEMMA ListOne ==
  ASSUME NEW f, NEW K, NEW x, x.task \in K, x.frame = f
  PROVE  Lists(<<x>>, f, K)
<1>1. <<x>> \in Seq({x})
  OBVIOUS
<1>2. DOMAIN <<x>> = {1} /\ <<x>>[1] = x
  OBVIOUS
<1> QED BY <1>1, <1>2 DEF Lists

LEMMA ListWider ==
  ASSUME NEW s, NEW f, NEW K, NEW L, Lists(s, f, K), K \subseteq L
  PROVE  Lists(s, f, L)
BY DEF Lists

\* A list of no nodes is empty, and so is a list of another frame.
LEMMA ListNone ==
  ASSUME NEW s, NEW f, Lists(s, f, {})
  PROVE  s = <<>>
<1>1. PICK S : s \in Seq(S)
  BY DEF Lists
<1>2. Len(s) \in Nat /\ DOMAIN s = 1 .. Len(s)
  BY <1>1
<1>3. Len(s) = 0
  <2>1. ASSUME Len(s) > 0 PROVE FALSE
    <3>1. 1 \in DOMAIN s
      BY <1>2, <2>1
    <3> QED BY <3>1 DEF Lists
  <2> QED BY <1>2, <2>1
<1> QED BY <1>1, <1>3

LEMMA ListAppend ==
  ASSUME NEW s, NEW f, NEW K, NEW L, Lists(s, f, K), K \subseteq L,
         NEW x, x.task \in L \ K, x.frame = f
  PROVE  Lists(Append(s, x), f, L)
<1>1. PICK S : s \in Seq(S)
  BY DEF Lists
<1>2. s \in Seq(S \cup {x})
  BY <1>1, WiderSeq
<1> DEFINE a == Append(s, x)
<1>3. /\ a \in Seq(S \cup {x}) /\ Len(s) \in Nat /\ DOMAIN s = 1 .. Len(s)
      /\ DOMAIN a = 1 .. Len(s) + 1 /\ a[Len(s) + 1] = x /\ \A i \in 1 .. Len(s) : a[i] = s[i]
  BY <1>2
<1> HIDE DEF a
<1>4. \A i \in DOMAIN a : (i \in DOMAIN s /\ a[i] = s[i]) \/ (i = Len(s) + 1 /\ a[i] = x)
  BY <1>3
<1>5. \A i \in DOMAIN s : s[i].task \in K /\ s[i].frame = f
  BY DEF Lists
<1>6. \A i \in DOMAIN a : a[i].task \in L /\ a[i].frame = f
  BY <1>4, <1>5
<1>7. \A i, k \in DOMAIN a : a[i].task = a[k].task => i = k
  BY <1>4, <1>5 DEF Lists
<1> QED BY <1>3, <1>6, <1>7 DEF Lists, a

\* The first of a list, and the rest.
LEMMA ListTail ==
  ASSUME NEW s, NEW f, NEW K, Lists(s, f, K), s # <<>>
  PROVE  /\ s[1].task \in K /\ s[1].frame = f /\ Lists(Tail(s), f, K \ {s[1].task})
         /\ \E S : s \in Seq(S)
<1>1. PICK S : s \in Seq(S)
  BY DEF Lists
<1> DEFINE a == Tail(s)
<1>2. /\ a \in Seq(S) /\ Len(s) \in Nat \ {0} /\ DOMAIN s = 1 .. Len(s)
      /\ DOMAIN a = 1 .. Len(s) - 1 /\ \A i \in 1 .. Len(s) - 1 : a[i] = s[i + 1]
  BY <1>1
<1> HIDE DEF a
<1>3. 1 \in DOMAIN s
  BY <1>2
<1>4. \A i \in DOMAIN a : i + 1 \in DOMAIN s /\ a[i] = s[i + 1] /\ i \in Int /\ i + 1 # 1
  BY <1>2
<1>5. \A i \in DOMAIN a : a[i].task \in K \ {s[1].task} /\ a[i].frame = f
  BY <1>3, <1>4 DEF Lists
<1>6. \A i, k \in DOMAIN a : a[i].task = a[k].task => i + 1 = k + 1
  BY <1>4 DEF Lists
<1>7. \A i, k \in DOMAIN a : a[i].task = a[k].task => i = k
  BY <1>4, <1>6
<1>8. Lists(a, f, K \ {s[1].task})
  BY <1>2, <1>5, <1>7 DEF Lists
<1> QED BY <1>1, <1>3, <1>8 DEF Lists, a

\* What is left of a queue after the first k.
LEMMA ListRest ==
  ASSUME NEW s, NEW f, NEW K, Lists(s, f, K), NEW k \in 1 .. Len(s)
  PROVE  Lists(SubSeq(s, k + 1, Len(s)), f, K \ {s[i].task : i \in 1 .. k})
<1>1. PICK S : s \in Seq(S)
  BY DEF Lists
<1> DEFINE a == SubSeq(s, k + 1, Len(s))
<1>2. /\ a \in Seq(S) /\ Len(s) \in Nat /\ DOMAIN s = 1 .. Len(s)
      /\ DOMAIN a = 1 .. Len(s) - k /\ \A i \in 1 .. Len(s) - k : a[i] = s[k + i]
  BY <1>1
<1> HIDE DEF a
<1>3. \A i \in DOMAIN a : k + i \in DOMAIN s /\ a[i] = s[k + i] /\ i \in Int /\ k + i \notin 1 .. k
  BY <1>2
<1>4. \A i \in 1 .. k : i \in DOMAIN s
  BY <1>2
<1>5. ASSUME NEW i \in DOMAIN a
      PROVE  a[i].task \in K \ {s[m].task : m \in 1 .. k} /\ a[i].frame = f
  <2>1. a[i].task \in K /\ a[i].frame = f
    BY <1>3 DEF Lists
  <2>2. ASSUME NEW m \in 1 .. k, a[i].task = s[m].task PROVE FALSE
    <3>1. s[k + i].task = s[m].task /\ m \in DOMAIN s /\ k + i \in DOMAIN s
      BY <1>3, <1>4, <2>2
    <3>2. k + i = m
      BY <3>1 DEF Lists
    <3> QED BY <1>3, <3>2
  <2> QED BY <2>1, <2>2
<1>6. \A i, m \in DOMAIN a : a[i].task = a[m].task => k + i = k + m
  BY <1>3 DEF Lists
<1>7. \A i, m \in DOMAIN a : a[i].task = a[m].task => i = m
  BY <1>3, <1>6
<1> QED BY <1>2, <1>5, <1>7 DEF Lists, a

\* What the filter of a drain lets through.
LEMMA ListFilter ==
  ASSUME NEW f, NEW K, Lists(batch_queue, f, K), NEW k \in 1 .. Len(batch_queue)
  PROVE  Lists(Filtered(k), f, {batch_queue[i].task : i \in FreshAmong(k)})
<1> DEFINE at(n) == CHOOSE i \in FreshAmong(k) : Place(i, k) = n
           m == Cardinality(FreshAmong(k))
           T == {batch_queue[i].task : i \in FreshAmong(k)}
<1>1. PICK S : batch_queue \in Seq(S)
  BY DEF Lists
<1>2. k \in Nat /\ m \in Nat /\ DOMAIN batch_queue = 1 .. Len(batch_queue)
  BY <1>1, Places
<1>3. ASSUME NEW n \in 1 .. m PROVE at(n) \in FreshAmong(k) /\ Place(at(n), k) = n
  BY <1>2, Places
<1>4. FreshAmong(k) \subseteq DOMAIN batch_queue
  BY <1>2 DEF FreshAmong
<1>5. Filtered(k) = [n \in 1 .. m |-> batch_queue[at(n)]]
  BY DEF Filtered
<1> HIDE DEF at, m
<1>6. /\ DOMAIN Filtered(k) = 1 .. m
      /\ \A n \in 1 .. m : /\ Filtered(k)[n] = batch_queue[at(n)]
                           /\ at(n) \in FreshAmong(k) /\ at(n) \in DOMAIN batch_queue
  BY <1>3, <1>4, <1>5
<1>7. Filtered(k) \in Seq(S)
  BY <1>1, FilterKeeps
<1>8. \A n \in 1 .. m : Filtered(k)[n].task \in T /\ Filtered(k)[n].frame = f
  BY <1>6 DEF Lists
<1>9. ASSUME NEW n1 \in 1 .. m, NEW n2 \in 1 .. m, Filtered(k)[n1].task = Filtered(k)[n2].task
      PROVE  n1 = n2
  <2>1. batch_queue[at(n1)].task = batch_queue[at(n2)].task
    BY <1>6, <1>9
  <2>2. at(n1) = at(n2)
    BY <1>6, <2>1 DEF Lists
  <2> QED BY <1>3, <2>2
<1> HIDE DEF T
<1>10. Lists(Filtered(k), f, T)
  BY <1>6, <1>7, <1>8, <1>9 DEF Lists
<1> QED BY <1>10 DEF T

\* The pool is a set of tasks of K, one per node, all of frame f.
Gathers(B, f, K) ==
  /\ B = [j \in DOMAIN B |-> 1]
  /\ \A j \in DOMAIN B : j.task \in K /\ j.frame = f
  /\ \A i, j \in DOMAIN B : i.task = j.task => i = j

LEMMA GatherWider ==
  ASSUME NEW B, NEW f, NEW K, NEW L, Gathers(B, f, K), K \subseteq L
  PROVE  Gathers(B, f, L)
BY DEF Gathers

LEMMA GatherNone ==
  ASSUME NEW B, NEW f, Gathers(B, f, {})
  PROVE  B = EmptyBag
<1>1. DOMAIN B = {} /\ B = [j \in DOMAIN B |-> 1]
  BY DEF Gathers
<1> QED BY <1>1 DEF EmptyBag, SetToBag

LEMMA GatherEmpty ==
  ASSUME NEW f, NEW K
  PROVE  Gathers(EmptyBag, f, K)
<1>1. EmptyBag = [j \in {} |-> 1]
  BY DEF EmptyBag, SetToBag
<1>2. DOMAIN EmptyBag = {}
  BY <1>1
<1> QED BY <1>1, <1>2 DEF Gathers

LEMMA GatherTake ==
  ASSUME NEW B, NEW f, NEW K, Gathers(B, f, K), NEW j \in BagToSet(B)
  PROVE  /\ j.task \in K /\ j.frame = f
         /\ Gathers(B (-) SetToBag({j}), f, K \ {j.task})
<1> DEFINE C == B (-) SetToBag({j})
           D == DOMAIN B
<1>1. j \in D /\ B = [i \in D |-> 1]
  BY DEF Gathers, BagToSet
<1> HIDE DEF D
<1>2. \A i \in D : B[i] = 1
  BY <1>1
<1> DEFINE R == [d \in D |-> IF d \in {j} THEN B[d] - SetToBag({j})[d] ELSE B[d]]
<1>3. C = [d \in {e \in DOMAIN R : R[e] > 0} |-> R[d]]
  BY DEF (-), SetToBag, D
<1>4. SetToBag({j})[j] = 1
  BY DEF SetToBag
<1>5. DOMAIN R = D /\ \A d \in D : R[d] = IF d = j THEN 0 ELSE 1
  BY <1>2, <1>4
<1> HIDE DEF R
<1>6. {e \in DOMAIN R : R[e] > 0} = D \ {j}
  BY <1>5
<1>7. C = [i \in D \ {j} |-> 1]
  BY <1>3, <1>5, <1>6
<1> HIDE DEF C
<1>8. DOMAIN C = D \ {j} /\ C = [i \in DOMAIN C |-> 1]
  BY <1>7
<1>9. \A i \in D : i.task \in K /\ i.frame = f
  BY DEF Gathers, D
<1>10. \A i, k \in D : i.task = k.task => i = k
  BY DEF Gathers, D
<1>11. Gathers(C, f, K \ {j.task})
  BY <1>1, <1>8, <1>9, <1>10 DEF Gathers
<1> QED BY <1>1, <1>9, <1>11 DEF C

LEMMA GatherPut ==
  ASSUME NEW B, NEW f, NEW K, NEW L, Gathers(B, f, K), NEW C, Gathers(C, f, L), K \cap L = {}
  PROVE  Gathers(B (+) C, f, K \cup L)
<1> DEFINE D == DOMAIN B
           E == DOMAIN C
           Z == B (+) C
<1>1. B = [i \in D |-> 1] /\ C = [i \in E |-> 1]
  BY DEF Gathers
<1>2. /\ \A i \in D : i.task \in K /\ i.frame = f
      /\ \A i \in E : i.task \in L /\ i.frame = f
      /\ \A i, k \in D : i.task = k.task => i = k
      /\ \A i, k \in E : i.task = k.task => i = k
  BY DEF Gathers
<1>3. D \cap E = {}
  BY <1>2
<1>4. Z = [e \in D \cup E |-> (IF e \in D THEN B[e] ELSE 0) + (IF e \in E THEN C[e] ELSE 0)]
  BY DEF (+)
<1> HIDE DEF D, E
<1>5. (\A e \in D : B[e] = 1) /\ (\A e \in E : C[e] = 1)
  BY <1>1
<1>7. \A e \in D \cup E : (IF e \in D THEN B[e] ELSE 0) + (IF e \in E THEN C[e] ELSE 0) = 1
  BY <1>3, <1>5
<1>8. Z = [e \in D \cup E |-> 1]
  BY <1>4, <1>7
<1> HIDE DEF Z
<1>9. DOMAIN Z = D \cup E /\ Z = [e \in DOMAIN Z |-> 1]
  BY <1>8
<1>10. Gathers(Z, f, K \cup L)
  BY <1>2, <1>9 DEF Gathers
<1> QED BY <1>10 DEF Z

\* What a thread sends to the scheduler, from its ready list or from the roots.
LEMMA GatherSent ==
  ASSUME NEW s, NEW f, NEW K, Lists(s, f, K)
  PROVE  Gathers(BagOf(Stamped(s)), f, K)
<1> DEFINE q == Stamped(s)
           B == BagOf(q)
<1>1. /\ DOMAIN q = DOMAIN s
      /\ \A i \in DOMAIN s : q[i].task = s[i].task /\ q[i].frame = s[i].frame
  BY DEF Stamped, Job
<1> HIDE DEF q
<1>2. B = [j \in Range(q) |-> Cardinality({i \in DOMAIN q : q[i] = j})]
  BY DEF BagOf
<1>3. ASSUME NEW j \in Range(q) PROVE Cardinality({i \in DOMAIN q : q[i] = j}) = 1
  <2> DEFINE I == {i \in DOMAIN q : q[i] = j}
  <2>1. \A i, k \in I : i = k
    BY <1>1 DEF Lists
  <2>2. I # {}
    BY DEF Range
  <2> HIDE DEF I
  <2>3. Cardinality(I) = 1
    BY <2>1, <2>2, CountAtMostOne
  <2> QED BY <2>3 DEF I
<1>4. B = [j \in Range(q) |-> 1]
  BY <1>2, <1>3
<1> HIDE DEF B
<1>5. DOMAIN B = Range(q) /\ B = [j \in DOMAIN B |-> 1]
  BY <1>4
<1>6. ASSUME NEW j \in Range(q) PROVE j.task \in K /\ j.frame = f
  <2>1. PICK i \in DOMAIN q : q[i] = j
    BY DEF Range
  <2> QED BY <1>1, <2>1 DEF Lists
<1>7. ASSUME NEW j \in Range(q), NEW k \in Range(q), j.task = k.task PROVE j = k
  <2>1. PICK i \in DOMAIN q : q[i] = j
    BY DEF Range
  <2>2. PICK m \in DOMAIN q : q[m] = k
    BY DEF Range
  <2>3. i = m
    BY <1>1, <1>7, <2>1, <2>2 DEF Lists
  <2> QED BY <2>1, <2>2, <2>3
<1>8. Gathers(B, f, K)
  BY <1>5, <1>6, <1>7 DEF Gathers
<1> QED BY <1>8 DEF B, q

LEMMA GatherRoots == Gathers(SetToBag({Job(t, generation, frame) : t \in Roots}), frame, Roots)
<1> DEFINE S == {Job(t, generation, frame) : t \in Roots}
           B == SetToBag(S)
<1>1. \A t : Job(t, generation, frame).task = t /\ Job(t, generation, frame).frame = frame
  BY DEF Job
<1>2. \A j \in S : j.task \in Roots /\ j.frame = frame /\ j = Job(j.task, generation, frame)
  BY <1>1
<1>3. \A i, j \in S : i.task = j.task => i = j
  BY <1>2
<1>4. B = [j \in S |-> 1]
  BY DEF SetToBag
<1> HIDE DEF S, B
<1>5. DOMAIN B = S /\ B = [j \in DOMAIN B |-> 1]
  BY <1>4
<1>6. Gathers(B, frame, Roots)
  BY <1>2, <1>3, <1>5 DEF Gathers
<1> QED BY <1>6 DEF B, S

\* The last of a ready list, and what comes before it.
LEMMA ListFront ==
  ASSUME NEW s, NEW f, NEW K, Lists(s, f, K), s # <<>>
  PROVE  /\ Last(s).task \in K /\ Last(s).frame = f
         /\ Lists(Front(s), f, K \ {Last(s).task})
<1>1. PICK S : s \in Seq(S)
  BY DEF Lists
<1> DEFINE a == Front(s)
           n == Len(s)
<1>2. n \in Nat \ {0} /\ DOMAIN s = 1 .. n /\ Last(s) = s[n]
  BY <1>1 DEF Last
<1>3. /\ a \in Seq(S) /\ DOMAIN a = 1 .. n - 1 /\ \A i \in 1 .. n - 1 : a[i] = s[i]
  BY <1>1, <1>2 DEF Front
<1> HIDE DEF a, n
<1>4. n \in DOMAIN s /\ \A i \in DOMAIN a : i \in DOMAIN s /\ i # n /\ a[i] = s[i]
  BY <1>2, <1>3
<1>5. \A i \in DOMAIN a : a[i].task \in K \ {s[n].task} /\ a[i].frame = f
  BY <1>4 DEF Lists
<1>6. \A i, k \in DOMAIN a : a[i].task = a[k].task => i = k
  BY <1>4 DEF Lists
<1>7. Lists(a, f, K \ {s[n].task})
  BY <1>3, <1>5, <1>6 DEF Lists
<1> QED BY <1>2, <1>4, <1>7 DEF Lists, a

-----------------------------------------------------------------------------
(***************************************************************************)
(* The invariant.  It tells where every node of the frame is: not started  *)
(* ("new"), ready in a thread's list ("sched"), in the scheduler ("pool"), *)
(* in a worker's hands ("hand"), run and waiting to be resolved ("queue",  *)
(* "ran"), being resolved ("walk") or resolved ("done"); who has it; and   *)
(* which edges of the graph were walked.  These are not in the state: the  *)
(* invariant says that there is such an account of it.  base is the        *)
(* generation with which the slot was opened for the frame.                *)
(***************************************************************************)
Tags == {"new", "sched", "pool", "hand", "queue", "ran", "walk", "done"}

Walking == {"load", "resolve"}
Handing == {"start", "run", "leave", "flag"}
Needing == {"start", "run", "enter", "admit", "verify", "discharge", "load", "resolve"}
Inside == {"verify", "discharge", "load", "resolve", "send", "leave"}
Unset == {"reset_complete", "reset_packets", "reset_pending"}
Holding == {"reload_pending", "reload_cond", "reload_proc", "unmark", "bump",
            "reset_complete", "reset_packets", "reset_pending", "reset_cond",
            "reset_check", "reset_mark"}
Confirmed == {"reload_cond", "reload_proc", "bump"}
Opening == {"assigned", "roots"}
Critical == Confirmed \cup ResetLabels \cup Opening

Counted(where, n) == where[n] \in {"walk", "done"}
At(where, l) == {n \in Nodes : where[n] = l}
Of(where, who, l, a) == {n \in Nodes : where[n] = l /\ who[n] = a}

\* What a thread has in its hands.
HeldBy(where, who, a) ==
  /\ Lists(sched[a], frame, Of(where, who, "sched", a))
  /\ pc[a] \in Walking =>
       /\ \E S : batch[a] \in Seq(S)
       /\ batch[a] # <<>> /\ batch[a][1].frame = frame
       /\ batch[a][1].task \in Of(where, who, "walk", a)
       /\ Lists(Tail(batch[a]), frame, Of(where, who, "ran", a))
  /\ pc[a] \in Handing => Lists(batch[a], frame, Of(where, who, "hand", a))
  /\ pc[a] \notin Walking \cup Handing => Lists(batch[a], frame, Of(where, who, "ran", a))
  /\ pc[a] \in Needing => batch[a] # <<>>
  /\ \/ a \in Workers /\ pc[a] = "send"
     \/ a \in ResThreads /\ pc[a] \notin Needing \cup Opening \cup {"send"}
     => batch[a] = <<>>
  /\ a \in Workers => pc[a] \in Needing \cup Inside \cup {"idle", "flag"}

HasPacket(a, p) == a \in ResThreads /\ \E i \in DOMAIN batch[a] : batch[a][i].task = p

\* Every task and packet that waits somewhere is the only one of its node, and
\* of the frame in the slot.
Tokens(where, who) ==
  /\ where \in [Nodes -> Tags] /\ DOMAIN who = Nodes
  /\ Gathers(pool, frame, At(where, "pool"))
  /\ Lists(batch_queue, frame, At(where, "queue"))
  /\ \A a \in Threads : HeldBy(where, who, a)
  /\ \A p \in Packets : where[p] \in {"new", "ran", "walk", "done"}
  /\ \A p \in Packets : where[p] = "ran" => HasPacket(who[p], p)

Unwalked(walked, t) == {p \in Preds(t) : <<p, t>> \notin walked}

\* A thread has yet to walk the edges on its list.
WalkedBy(walked, base, a) ==
  /\ pc[a] = "load" => \A t : <<batch[a][1].task, t>> \notin walked
  /\ pc[a] = "resolve" =>
       /\ base <= slot_gen[a]
       /\ todo[a] \in Seq(Tasks) /\ IsInjective(todo[a])
       /\ \A t \in Range(todo[a]) : /\ t \in Range(Succs[batch[a][1].task])
                                    /\ <<batch[a][1].task, t>> \notin walked

\* The entry of a task counts the edges to it that were not walked, and no fewer.
EntryOf(walked, base, t) ==
  /\ remaining_deps[t].gen \in Nat /\ remaining_deps[t].gen <= generation
  /\ remaining_deps[t].left \in Nat
  /\ base <= remaining_deps[t].gen =>
       Cardinality(Unwalked(walked, t)) <= remaining_deps[t].left

Work(where, walked, base) ==
  /\ \A p, t : <<p, t>> \in walked => p \in Nodes /\ Counted(where, p)
  /\ \A t \in Tasks : where[t] # "new" => Unwalked(walked, t) = {}
  /\ \A a \in Threads : WalkedBy(walked, base, a)
  /\ base \in Nat /\ base <= generation
  /\ DOMAIN remaining_deps = Tasks
  /\ \A t \in Tasks : EntryOf(walked, base, t)

\* The counters of the slot are the nodes not yet counted off and the threads
\* inside a resolution, except while they are reset.
Counters(where) ==
  /\ pending_tasks \in Nat /\ pending_cond_tasks \in Nat
  /\ (\A r \in ResThreads : pc[r] \notin Unset) =>
       pending_tasks = Cardinality({n \in Nodes \ Cond : ~Counted(where, n)})
  /\ (\A r \in ResThreads : pc[r] \notin Unset \cup {"reset_cond"}) =>
       pending_cond_tasks = Cardinality({n \in Cond : ~Counted(where, n)})
  /\ processing_count = Cardinality({a \in Threads : pc[a] \in Inside})

\* Not run yet, in the frame of the slot.
Early(where, n) ==
  where[n] \in {"new", "sched", "pool", "hand"} \/ (n \in Packets /\ where[n] = "ran")

Open == \E r \in ResThreads : pc[r] \in ResetLabels

\* What ran, in the frame of the slot and in the others.
Recorded(where) ==
  /\ DOMAIN ran = (Frames \cup {NoFrame}) \X Nodes
  /\ \A f \in Frames, t \in Tasks :
       ran[<<f, t>>] > 0 => \A p \in Preds(t) : ran[<<f, p>>] > 0
  /\ \A f \in Frames, n \in Nodes : f >= completed /\ f # frame => ran[<<f, n>>] = 0
  /\ frame # NoFrame /\ ~Open =>
       \A n \in Nodes : /\ Early(where, n) => ran[<<frame, n>>] = 0
                        /\ ~Early(where, n) /\ n \notin Cond => ran[<<frame, n>>] = 1
  /\ frame # NoFrame /\ Open => \A n \in Nodes \ Cond : ran[<<frame, n>>] = 1

\* Who may be where in the reset and the opening of the slot.
Control ==
  /\ \A r \in ResThreads : pc[r] \in Holding => completed_slot
  /\ \A r, s \in ResThreads : pc[r] \in Holding /\ pc[s] \in Holding => r = s
  /\ \A r, s \in ResThreads : pc[r] \in Critical /\ pc[s] \in Critical => r = s
  /\ frame = NoFrame => \A r \in ResThreads : pc[r] \in Critical => pc[r] = "restart"
  /\ \A r \in ResThreads : pc[r] = "restart" =>
       frame = NoFrame /\ prepared /\ Packets = {} /\ completed < MaxFrames
  /\ completed \in Nat /\ (frame # NoFrame => frame \in Frames)
  /\ \A r \in ResThreads : pc[r] = "release" => frame = completed - 1
  /\ frame # NoFrame /\ (\A r \in ResThreads : pc[r] # "release") => frame = completed
  /\ ~prepared => frame = NoFrame /\ completed = 0 /\ Roots # {}

\* What a thread may conclude from where it is.
Known(where) ==
  /\ frame = NoFrame \/ Open => /\ \A n \in Nodes : where[n] = "new"
                                /\ \A a \in Threads : pc[a] \notin Inside
  /\ \A r \in ResThreads :
       /\ pc[r] \in Confirmed => \A n \in Nodes \ Cond : Counted(where, n)
       /\ pc[r] \in {"reload_proc", "bump"} => \A n \in Cond : Counted(where, n)
       /\ pc[r] = "bump" => \A a \in Threads : pc[a] \notin Inside
       /\ pc[r] \in Opening =>
            /\ \A n \in Roots : where[n] = "new"
            /\ Roots # {} \/ \E i \in DOMAIN batch[r] : batch[r][i].task \in Packets

Exact(where, who, walked, base) ==
  /\ Tokens(where, who) /\ Work(where, walked, base) /\ Counters(where)
  /\ Recorded(where) /\ Control /\ Known(where)

ExactInv == ~Eviction => \E where, who, walked, base : Exact(where, who, walked, base)

\* Something starts a frame, and one thread does: the roots are dispatched by
\* perform_initial_preparation and by the thread that admits the first packet.
OneStart ==
  \A h \in Graphs : /\ h.roots \cup h.packets # {}
                    /\ h.roots = {} \/ h.packets = {} \/ h.threads = {InitThread}

-----------------------------------------------------------------------------
(* The invariant gives the properties *)

LEMMA GraphMore ==
  ASSUME graph \in Graphs
  PROVE  /\ IsFiniteSet(Nodes) /\ IsFiniteSet(Threads) /\ IsFiniteSet(Cond)
         /\ Nodes = Tasks \cup Packets /\ Threads = Workers \cup ResThreads
         /\ Roots \subseteq Nodes \ Cond /\ Packets \subseteq Nodes \ Cond /\ Cond \subseteq Tasks
         /\ \A n \in Nodes : IsInjective(Succs[n]) /\ Range(Succs[n]) \cap Roots = {}
         /\ \A n \in Cond : Succs[n] = <<>>
         /\ \A n \in Nodes : Preds(n) \subseteq Nodes \ Cond
         /\ \A n \in Roots \cup Packets : Preds(n) = {}
         /\ MaxFrames \in Nat \ {0} /\ 0 \in Frames /\ NoFrame \notin Frames
<1>1. /\ IsFiniteSet(Tasks) /\ IsFiniteSet(Packets) /\ IsFiniteSet(Workers) /\ IsFiniteSet(ResThreads)
      /\ Tasks \cap Packets = {} /\ Roots \subseteq Tasks /\ Cond \subseteq Tasks \ Roots
      /\ \A n \in Nodes : IsInjective(Succs[n]) /\ Range(Succs[n]) \cap Roots = {}
      /\ \A n \in Cond : Succs[n] = <<>>
      /\ MaxFrames \in Nat \ {0}
  BY FrameLifecycleAssumption DEF Tasks, Packets, Roots, Cond, Succs, ResThreads, Nodes
<1>2. IsFiniteSet(Nodes) /\ IsFiniteSet(Threads) /\ IsFiniteSet(Cond)
  <2>1. IsFiniteSet(Tasks \cup Packets) /\ IsFiniteSet(Workers \cup ResThreads)
    BY <1>1, FS_Union
  <2>2. Cond \subseteq Tasks
    BY <1>1
  <2>3. IsFiniteSet(Cond)
    BY <1>1, <2>2, FS_Subset
  <2> QED BY <2>1, <2>3 DEF Nodes, Threads
<1>3. \A n \in Nodes : Preds(n) \subseteq Nodes \ Cond
  <2>1. Range(<<>>) = {}
    BY DEF Range
  <2> QED BY <1>1, <2>1 DEF Preds
<1>4. \A n \in Roots : Preds(n) = {}
  BY <1>1 DEF Preds
<1>5. \A n \in Packets : Preds(n) = {}
  <2>1. Succs \in [Nodes -> Seq(Tasks)]
    BY GraphFacts
  <2>2. \A p \in Nodes : Range(Succs[p]) \subseteq Tasks
    BY <2>1 DEF Range
  <2> QED BY <1>1, <2>2 DEF Preds
<1>6. 0 \in Frames /\ NoFrame \notin Frames
  BY <1>1 DEF Frames, NoFrame
<1> QED BY <1>1, <1>2, <1>3, <1>4, <1>5, <1>6 DEF Nodes, Threads

\* With every node at rest and nobody inside, nothing waits anywhere.
LEMMA NothingWaits ==
  ASSUME NEW where, NEW who, Tokens(where, who),
         \A n \in Nodes : where[n] \in {"new", "walk", "done"},
         \A a \in Threads : pc[a] \notin Inside
  PROVE  /\ pool = EmptyBag /\ batch_queue = <<>>
         /\ \A a \in Threads : batch[a] = <<>> /\ sched[a] = <<>> /\ pc[a] \notin Needing
<1>1. /\ At(where, "pool") = {} /\ At(where, "queue") = {}
      /\ \A a : /\ Of(where, who, "sched", a) = {} /\ Of(where, who, "hand", a) = {}
                /\ Of(where, who, "ran", a) = {}
  BY DEF At, Of
<1>2. pool = EmptyBag
  BY <1>1, GatherNone DEF Tokens
<1>3. batch_queue = <<>>
  BY <1>1, ListNone DEF Tokens
<1>4. ASSUME NEW a \in Threads PROVE batch[a] = <<>> /\ sched[a] = <<>> /\ pc[a] \notin Needing
  <2>1. HeldBy(where, who, a) /\ pc[a] \notin Walking
    BY DEF Tokens, Inside, Walking
  <2>2. sched[a] = <<>>
    <3>1. Lists(sched[a], frame, Of(where, who, "sched", a))
      BY <2>1 DEF HeldBy
    <3> QED BY <1>1, <3>1, ListNone
  <2>3. batch[a] = <<>>
    <3>1. CASE pc[a] \in Handing
      <4>1. Lists(batch[a], frame, Of(where, who, "hand", a))
        BY <2>1, <3>1 DEF HeldBy
      <4> QED BY <1>1, <4>1, ListNone
    <3>2. CASE pc[a] \notin Handing
      <4>1. Lists(batch[a], frame, Of(where, who, "ran", a))
        BY <2>1, <3>2 DEF HeldBy
      <4> QED BY <1>1, <4>1, ListNone
    <3> QED BY <3>1, <3>2
  <2> QED BY <2>1, <2>2, <2>3 DEF HeldBy
<1> QED BY <1>2, <1>3, <1>4

\* A confirmed claim.
LEMMA AtBump ==
  ASSUME graph \in Graphs, NEW where, NEW who, NEW walked, NEW base,
         Exact(where, who, walked, base), NEW r \in ResThreads, pc[r] = "bump"
  PROVE  /\ \A n \in Nodes : Counted(where, n)
         /\ pool = EmptyBag /\ batch_queue = <<>>
         /\ \A a \in Threads : /\ batch[a] = <<>> /\ sched[a] = <<>>
                               /\ pc[a] \notin Needing /\ pc[a] \notin Inside
         /\ frame # NoFrame /\ ~Open
         /\ \A n \in Nodes \ Cond : ran[<<frame, n>>] = 1
<1>1. \A n \in Nodes : Counted(where, n)
  BY GraphMore DEF Exact, Known, Confirmed
<1>2. \A a \in Threads : pc[a] \notin Inside
  BY DEF Exact, Known
<1>3. \A n \in Nodes : where[n] \in {"new", "walk", "done"}
  BY <1>1 DEF Counted
<1>4. frame # NoFrame /\ ~Open
  BY DEF Exact, Control, Critical, Confirmed, Open, ResetLabels
<1>5. \A n \in Nodes \ Cond : ran[<<frame, n>>] = 1
  <2>1. \A n \in Nodes : ~Early(where, n)
    BY <1>1 DEF Counted, Early
  <2> QED BY <1>4, <2>1 DEF Exact, Recorded
<1>6. Tokens(where, who)
  BY DEF Exact
<1> QED BY <1>1, <1>2, <1>3, <1>4, <1>5, <1>6, NothingWaits

LEMMA ExactGives ==
  ASSUME graph \in Graphs, ExactInv
  PROVE  ClaimIsExact /\ NoUnderflow /\ DependencyOrder
<1>1. CASE Eviction
  BY <1>1 DEF ClaimIsExact, NoUnderflow, DependencyOrder
<1>2. CASE ~Eviction
  <2>1. PICK where, who, walked, base : Exact(where, who, walked, base)
    BY <1>2 DEF ExactInv
  <2>2. NoUnderflow
    BY <2>1 DEF Exact, Counters, NoUnderflow
  <2>3. DependencyOrder
    BY <2>1 DEF Exact, Recorded, DependencyOrder
  <2>4. ASSUME NEW r \in ResThreads, pc[r] = "bump"
        PROVE  /\ pool = EmptyBag /\ batch_queue = <<>>
               /\ \A w \in Workers : Idle(w)
               /\ \A n \in Nodes \ Cond : ran[<<frame, n>>] = 1
    <3>1. ASSUME NEW w \in Workers PROVE Idle(w)
      <4>1. w \in Threads /\ HeldBy(where, who, w)
        BY <2>1 DEF Exact, Tokens, Threads
      <4>2. batch[w] = <<>> /\ pc[w] \notin Needing /\ pc[w] \notin Inside
        BY <2>1, <2>4, <4>1, AtBump
      <4> QED BY <4>1, <4>2 DEF HeldBy, Idle
    <3> QED BY <2>1, <2>4, <3>1, AtBump
  <2> QED BY <2>2, <2>3, <2>4 DEF ClaimIsExact
<1> QED BY <1>1, <1>2

-----------------------------------------------------------------------------
(* What a step leaves alone *)

LEMMA PredsStay ==
  ASSUME UNCHANGED graph
  PROVE  \A t : Preds(t)' = Preds(t)
BY GraphStays DEF Preds

\* The nodes that move are new, in the scheduler or in the queue, or the thread's own.
Moves(where, who, where2, who2, a) ==
  \A n \in Nodes :
    \/ where2[n] = where[n] /\ who2[n] = who[n]
    \/ /\ where[n] \in {"new", "pool", "queue"} \/ who[n] = a
       /\ where2[n] # "ran" \/ who2[n] = a

LEMMA HeldByOther ==
  ASSUME UNCHANGED <<graph, frame>>, NEW where, NEW who, NEW where2, NEW who2, NEW a,
         Moves(where, who, where2, who2, a), NEW u \in Threads, u # a, HeldBy(where, who, u),
         pc'[u] = pc[u], batch'[u] = batch[u], sched'[u] = sched[u]
  PROVE  HeldBy(where2, who2, u)'
<1>1. /\ Of(where, who, "sched", u) \subseteq Of(where2, who2, "sched", u)'
      /\ Of(where, who, "walk", u) \subseteq Of(where2, who2, "walk", u)'
      /\ Of(where, who, "hand", u) \subseteq Of(where2, who2, "hand", u)'
      /\ Of(where, who, "ran", u) \subseteq Of(where2, who2, "ran", u)'
  BY GraphStays DEF Moves, Of
<1>2. PICK Ks, Kw, Kh, Kr :
        /\ Ks = Of(where2, who2, "sched", u)' /\ Kw = Of(where2, who2, "walk", u)'
        /\ Kh = Of(where2, who2, "hand", u)' /\ Kr = Of(where2, who2, "ran", u)'
  OBVIOUS
<1>3. Lists(sched[u], frame, Ks)
  BY <1>1, <1>2, ListWider DEF HeldBy
<1>4. pc[u] \in Handing => Lists(batch[u], frame, Kh)
  BY <1>1, <1>2, ListWider DEF HeldBy
<1>5. pc[u] \notin Walking \cup Handing => Lists(batch[u], frame, Kr)
  BY <1>1, <1>2, ListWider DEF HeldBy
<1>6. pc[u] \in Walking =>
        /\ \E S : batch[u] \in Seq(S)
        /\ batch[u] # <<>> /\ batch[u][1].frame = frame
        /\ batch[u][1].task \in Kw
        /\ Lists(Tail(batch[u]), frame, Kr)
  BY <1>1, <1>2, ListWider DEF HeldBy
<1>7. /\ pc[u] \in Needing => batch[u] # <<>>
      /\ \/ u \in Workers /\ pc[u] = "send"
         \/ u \in ResThreads /\ pc[u] \notin Needing \cup Opening \cup {"send"}
         => batch[u] = <<>>
      /\ u \in Workers => pc[u] \in Needing \cup Inside \cup {"idle", "flag"}
  BY DEF HeldBy
<1>8. ResThreads' = ResThreads /\ frame' = frame
  BY GraphStays
<1> QED BY <1>2, <1>3, <1>4, <1>5, <1>6, <1>7, <1>8 DEF HeldBy

LEMMA TokensStep ==
  ASSUME graph \in Graphs, UNCHANGED <<graph, frame>>,
         NEW where, NEW who, Tokens(where, who),
         NEW where2 \in [Nodes -> Tags], NEW who2, DOMAIN who2 = Nodes, NEW a \in Threads,
         Moves(where, who, where2, who2, a),
         \A u \in Threads \ {a} : pc'[u] = pc[u] /\ batch'[u] = batch[u] /\ sched'[u] = sched[u],
         Gathers(pool', frame, At(where2, "pool")),
         Lists(batch_queue', frame, At(where2, "queue")),
         HeldBy(where2, who2, a)',
         \A p \in Packets : where2[p] \in {"new", "ran", "walk", "done"},
         \A p \in Packets : where2[p] = "ran" /\ who2[p] = a => HasPacket(a, p)'
  PROVE  Tokens(where2, who2)'
<1>1. /\ Threads' = Threads /\ Nodes' = Nodes /\ Packets' = Packets /\ ResThreads' = ResThreads
      /\ At(where2, "pool")' = At(where2, "pool") /\ At(where2, "queue")' = At(where2, "queue")
      /\ Packets \subseteq Nodes /\ ResThreads \subseteq Threads
  BY GraphStays, GraphMore DEF At
<1>2. ASSUME NEW u \in Threads PROVE HeldBy(where2, who2, u)'
  <2>1. CASE u = a
    BY <2>1
  <2>2. CASE u # a
    BY <2>2, HeldByOther DEF Tokens
  <2> QED BY <2>1, <2>2
<1>3. ASSUME NEW p \in Packets, where2[p] = "ran" PROVE HasPacket(who2[p], p)'
  <2>1. CASE who2[p] = a
    BY <1>3, <2>1
  <2>2. CASE who2[p] # a
    <3>1. where[p] = "ran" /\ who[p] = who2[p]
      BY <1>1, <1>3, <2>2 DEF Moves
    <3>2. HasPacket(who[p], p)
      BY <3>1 DEF Tokens
    <3> QED BY <1>1, <2>2, <3>1, <3>2 DEF HasPacket
  <2> QED BY <2>1, <2>2
<1> QED BY <1>1, <1>2, <1>3 DEF Tokens

\* The thread itself, when it keeps its lists.
LEMMA HeldByKept ==
  ASSUME UNCHANGED <<graph, frame>>, NEW where, NEW who, NEW a \in Threads, HeldBy(where, who, a),
         batch'[a] = batch[a], sched'[a] = sched[a],
         pc'[a] \in Walking <=> pc[a] \in Walking,
         pc'[a] \in Handing <=> pc[a] \in Handing,
         pc'[a] \in Needing => batch[a] # <<>>,
         \/ a \in Workers /\ pc'[a] = "send"
         \/ a \in ResThreads /\ pc'[a] \notin Needing \cup Opening \cup {"send"}
         => batch[a] = <<>>,
         a \in Workers => pc'[a] \in Needing \cup Inside \cup {"idle", "flag"}
  PROVE  HeldBy(where, who, a)'
<1>1. \A l : Of(where, who, l, a)' = Of(where, who, l, a)
  BY GraphStays DEF Of
<1>2. ResThreads' = ResThreads
  BY GraphStays
<1> QED BY <1>1, <1>2 DEF HeldBy

\* No node moves.
LEMMA TokensKept ==
  ASSUME graph \in Graphs, UNCHANGED <<graph, frame, pool, batch_queue, batch, sched>>,
         NEW where, NEW who, Tokens(where, who), NEW a \in Threads,
         \A u \in Threads \ {a} : pc'[u] = pc[u], HeldBy(where, who, a)'
  PROVE  Tokens(where, who)'
<1>1. Moves(where, who, where, who, a)
  BY DEF Moves
<1>2. \A p \in Packets : where[p] = "ran" /\ who[p] = a => HasPacket(a, p)'
  BY GraphStays DEF Tokens, HasPacket
<1>3. /\ Gathers(pool', frame, At(where, "pool")) /\ Lists(batch_queue', frame, At(where, "queue"))
      /\ where \in [Nodes -> Tags] /\ DOMAIN who = Nodes
      /\ \A p \in Packets : where[p] \in {"new", "ran", "walk", "done"}
  BY DEF Tokens
<1>4. \A u \in Threads \ {a} : pc'[u] = pc[u] /\ batch'[u] = batch[u] /\ sched'[u] = sched[u]
  OBVIOUS
<1> QED BY <1>1, <1>2, <1>3, <1>4, TokensStep

\* No edge is walked.
LEMMA WorkKept ==
  ASSUME graph \in Graphs, UNCHANGED <<graph, remaining_deps>>,
         generation \in Nat, generation' \in Nat, generation <= generation',
         NEW where, NEW where2, NEW walked, NEW base, Work(where, walked, base), NEW a \in Threads,
         \A u \in Threads \ {a} : /\ pc'[u] = pc[u] /\ batch'[u] = batch[u]
                                  /\ todo'[u] = todo[u] /\ slot_gen'[u] = slot_gen[u],
         \A n \in Nodes : Counted(where, n) => Counted(where2, n),
         \A n \in Tasks : where[n] = "new" /\ where2[n] # "new" => Preds(n) = {},
         WalkedBy(walked, base, a)'
  PROVE  Work(where2, walked, base)'
<1>1. /\ Threads' = Threads /\ Tasks' = Tasks /\ Nodes' = Nodes /\ Succs' = Succs
      /\ \A t : Preds(t)' = Preds(t)
  BY GraphStays, PredsStay
<1>2. \A t : Unwalked(walked, t)' = Unwalked(walked, t)
  BY <1>1 DEF Unwalked
<1>3. \A p, t : <<p, t>> \in walked => p \in Nodes /\ Counted(where2, p)
  BY DEF Work
<1>4. ASSUME NEW t \in Tasks, where2[t] # "new" PROVE Unwalked(walked, t) = {}
  BY <1>4 DEF Work, Unwalked
<1>5. ASSUME NEW u \in Threads PROVE WalkedBy(walked, base, u)'
  <2>1. CASE u = a
    BY <2>1
  <2>2. CASE u # a
    BY <1>1, <2>2 DEF Work, WalkedBy
  <2> QED BY <2>1, <2>2
<1>6. ASSUME NEW t \in Tasks PROVE EntryOf(walked, base, t)'
  <2>1. EntryOf(walked, base, t)
    BY DEF Work
  <2> QED BY <1>2, <2>1 DEF EntryOf
<1>7. base \in Nat /\ base <= generation' /\ DOMAIN remaining_deps = Tasks
  BY DEF Work
<1> QED BY <1>1, <1>2, <1>3, <1>4, <1>5, <1>6, <1>7 DEF Work

\* Nothing is counted off, and nobody enters or leaves a resolution.
LEMMA CountersKept ==
  ASSUME graph \in Graphs,
         UNCHANGED <<graph, pending_tasks, pending_cond_tasks, processing_count>>,
         NEW where, NEW where2, Counters(where),
         \A n \in Nodes : Counted(where2, n) <=> Counted(where, n),
         \A u \in Threads : pc'[u] \in Inside <=> pc[u] \in Inside,
         \A r \in ResThreads : /\ pc[r] \in Unset => pc'[r] \in Unset
                               /\ pc[r] = "reset_cond" => pc'[r] \in Unset \cup {"reset_cond"}
  PROVE  Counters(where2)'
<1>1. Threads' = Threads /\ ResThreads' = ResThreads /\ Nodes' = Nodes /\ Cond' = Cond
  BY GraphStays
<1>2. {n \in Nodes \ Cond : ~Counted(where2, n)} = {n \in Nodes \ Cond : ~Counted(where, n)}
  OBVIOUS
<1>3. {n \in Cond : ~Counted(where2, n)} = {n \in Cond : ~Counted(where, n)}
  BY GraphMore
<1>4. {u \in Threads : pc'[u] \in Inside} = {u \in Threads : pc[u] \in Inside}
  OBVIOUS
<1>5. (\A r \in ResThreads : pc'[r] \notin Unset) => \A r \in ResThreads : pc[r] \notin Unset
  OBVIOUS
<1>6. (\A r \in ResThreads : pc'[r] \notin Unset \cup {"reset_cond"}) =>
         \A r \in ResThreads : pc[r] \notin Unset \cup {"reset_cond"}
  OBVIOUS
<1> QED BY <1>1, <1>2, <1>3, <1>4, <1>5, <1>6 DEF Counters

\* The thread stays out of the claim, the reset and the opening of the slot.
Plain(l) == l \notin Critical /\ l \notin Holding

PlainThreads == \A r \in ResThreads : pc'[r] = pc[r] \/ (Plain(pc[r]) /\ Plain(pc'[r]))

LEMMA ControlKept ==
  ASSUME UNCHANGED <<graph, frame, completed, prepared, completed_slot>>, Control, PlainThreads
  PROVE  Control' /\ (Open' <=> Open)
<1>1. ResThreads' = ResThreads /\ Roots' = Roots /\ Packets' = Packets
  BY GraphStays
<1>2. \A r \in ResThreads : /\ pc'[r] \in Holding => pc[r] = pc'[r]
                            /\ pc'[r] \in Critical => pc[r] = pc'[r]
                            /\ pc[r] \in Critical => pc[r] = pc'[r]
  BY DEF PlainThreads, Plain
<1>3. ResetLabels \subseteq Critical /\ "restart" \in Critical /\ "release" \in Critical
  BY DEF Critical, ResetLabels
<1>4. Open' <=> Open
  BY <1>1, <1>2, <1>3 DEF Open
<1>5. \A r \in ResThreads : pc'[r] = "release" <=> pc[r] = "release"
  BY <1>2, <1>3
<1> QED BY <1>1, <1>2, <1>3, <1>4, <1>5 DEF Control

LEMMA RecordedKept ==
  ASSUME UNCHANGED <<graph, frame, completed, ran>>, NEW where, NEW where2, Recorded(where),
         \A n \in Nodes : Early(where2, n) <=> Early(where, n), Open' <=> Open
  PROVE  Recorded(where2)'
<1>1. /\ Nodes' = Nodes /\ Cond' = Cond /\ Tasks' = Tasks /\ Packets' = Packets
      /\ \A t : Preds(t)' = Preds(t)
  BY GraphStays, PredsStay
<1>2. \A n : Early(where2, n)' <=> Early(where2, n)
  BY <1>1 DEF Early
<1> QED BY <1>1, <1>2 DEF Recorded

LEMMA KnownKept ==
  ASSUME graph \in Graphs, UNCHANGED <<graph, frame>>, NEW where, NEW where2, Known(where),
         PlainThreads,
         Open' <=> Open,
         frame = NoFrame \/ Open => \A n \in Nodes : where2[n] = "new",
         frame = NoFrame \/ Open \/ (\E r \in ResThreads : pc[r] = "bump") =>
            \A u \in Threads : pc'[u] \in Inside => pc[u] \in Inside,
         \A n \in Nodes : Counted(where, n) => Counted(where2, n),
         \A r \in ResThreads : pc[r] \in Opening =>
            /\ batch'[r] = batch[r]
            /\ \A n \in Roots : where[n] = "new" => where2[n] = "new"
  PROVE  Known(where2)'
<1>1. /\ ResThreads' = ResThreads /\ Roots' = Roots /\ Packets' = Packets /\ Nodes' = Nodes
      /\ Cond' = Cond /\ Threads' = Threads
  BY GraphStays
<1>2. \A r \in ResThreads : pc'[r] \in Critical => pc[r] = pc'[r]
  BY DEF PlainThreads, Plain
<1>3. Confirmed \subseteq Critical /\ Opening \subseteq Critical /\ {"reload_proc", "bump"} \subseteq Critical
  BY DEF Critical, Confirmed
<1>4. frame = NoFrame \/ Open => \A u \in Threads : pc'[u] \notin Inside
  BY DEF Known
<1>5. ASSUME NEW r \in ResThreads
      PROVE  /\ pc'[r] \in Confirmed => \A n \in Nodes \ Cond : Counted(where2, n)
             /\ pc'[r] \in Opening =>
                  /\ \A n \in Roots : where2[n] = "new"
                  /\ Roots # {} \/ \E i \in DOMAIN batch'[r] : batch'[r][i].task \in Packets
  BY <1>2, <1>3 DEF Known
<1>6. ASSUME NEW r \in ResThreads, pc'[r] \in {"reload_proc", "bump"}, NEW n \in Cond
      PROVE  Counted(where2, n)
  BY <1>2, <1>3, <1>6, GraphMore DEF Known
<1>7. ASSUME NEW r \in ResThreads, pc'[r] = "bump"
      PROVE  \A u \in Threads : pc'[u] \notin Inside
  BY <1>2, <1>3, <1>7 DEF Known
<1> QED BY <1>1, <1>4, <1>5, <1>6, <1>7 DEF Known

\* A node that has started: the slot has a frame, which nobody resets; and if it
\* is not counted off, nobody has a confirmed claim.
LEMMA Busy ==
  ASSUME graph \in Graphs, NEW where, NEW who, NEW walked, NEW base,
         Exact(where, who, walked, base), NEW n \in Nodes, where[n] # "new"
  PROVE  /\ frame # NoFrame /\ ~Open /\ frame \in Frames
         /\ \A r \in ResThreads : pc[r] \notin Unset \cup {"reset_cond"}
         /\ ~Counted(where, n) => \A r \in ResThreads : pc[r] # "bump"
<1>1. frame # NoFrame /\ ~Open
  BY DEF Exact, Known
<1>2. frame \in Frames
  BY <1>1 DEF Exact, Control
<1>3. \A r \in ResThreads : pc[r] \notin Unset \cup {"reset_cond"}
  BY <1>1 DEF Open, ResetLabels, Unset
<1>4. ASSUME NEW r \in ResThreads, pc[r] = "bump" PROVE Counted(where, n)
  BY <1>4, AtBump
<1> QED BY <1>1, <1>2, <1>3, <1>4

\* A step of one thread that counts nothing off and dispatches no task: the
\* nodes it moves go from one place to another.
LEMMA ExactMoves ==
  ASSUME graph \in Graphs, generation \in Nat,
         UNCHANGED <<graph, frame, completed, prepared, completed_slot, remaining_deps,
                     generation, pending_tasks, pending_cond_tasks, processing_count>>,
         NEW where, NEW who, NEW walked, NEW base, Exact(where, who, walked, base),
         NEW a \in Threads, Plain(pc[a]), Plain(pc'[a]), pc'[a] \in Inside <=> pc[a] \in Inside,
         \A u \in Threads \ {a} : /\ pc'[u] = pc[u] /\ batch'[u] = batch[u] /\ sched'[u] = sched[u]
                                  /\ todo'[u] = todo[u] /\ slot_gen'[u] = slot_gen[u],
         NEW where2 \in [Nodes -> Tags], NEW who2, DOMAIN who2 = Nodes,
         Moves(where, who, where2, who2, a),
         Gathers(pool', frame, At(where2, "pool")),
         Lists(batch_queue', frame, At(where2, "queue")),
         HeldBy(where2, who2, a)',
         \A p \in Packets : where2[p] \in {"new", "ran", "walk", "done"},
         \A p \in Packets : where2[p] = "ran" /\ who2[p] = a => HasPacket(a, p)',
         \A n \in Nodes : /\ Counted(where2, n) <=> Counted(where, n)
                          /\ where[n] = "new" /\ where2[n] # "new" =>
                               n \in Packets /\ frame # NoFrame /\ ~Open,
         WalkedBy(walked, base, a)', Recorded(where2)'
  PROVE  Exact(where2, who2, walked, base)'
<1>1. /\ Tokens(where, who) /\ Work(where, walked, base) /\ Counters(where)
      /\ Recorded(where) /\ Control /\ Known(where)
  BY DEF Exact
<1>2. /\ ResThreads \subseteq Threads /\ Roots \cap Packets = {} /\ Roots \subseteq Nodes /\ Tasks \cap Packets = {}
      /\ Tasks \subseteq Nodes
  BY GraphMore, GraphFacts
<1>3. Tokens(where2, who2)'
  BY <1>1, TokensStep
<1>4. Work(where2, walked, base)'
  <2>1. \A n \in Tasks : where[n] = "new" /\ where2[n] # "new" => Preds(n) = {}
    BY <1>2
  <2>2. generation' \in Nat /\ generation <= generation'
    OBVIOUS
  <2> QED BY <1>1, <2>1, <2>2, WorkKept
<1>5. Counters(where2)'
  <2>1. \A r \in ResThreads : /\ pc[r] \in Unset => pc'[r] \in Unset
                              /\ pc[r] = "reset_cond" => pc'[r] \in Unset \cup {"reset_cond"}
    BY <1>2 DEF Plain, Unset, Holding
  <2> QED BY <1>1, <2>1, CountersKept
<1>6. PlainThreads
  BY <1>2 DEF PlainThreads
<1>7. Control' /\ (Open' <=> Open)
  BY <1>1, <1>6, ControlKept
<1>9. Known(where2)'
  <2>1. frame = NoFrame \/ Open => \A n \in Nodes : where2[n] = "new"
    BY <1>1 DEF Known
  <2>2. \A r \in ResThreads : pc[r] \in Opening =>
            /\ batch'[r] = batch[r]
            /\ \A n \in Roots : where[n] = "new" => where2[n] = "new"
    BY <1>2 DEF Plain, Critical
  <2> QED BY <1>1, <1>6, <1>7, <2>1, <2>2, KnownKept
<1> QED BY <1>3, <1>4, <1>5, <1>7, <1>9 DEF Exact

\* The same, when nothing runs.
LEMMA ExactLocal ==
  ASSUME graph \in Graphs, generation \in Nat,
         UNCHANGED <<graph, frame, completed, prepared, completed_slot, remaining_deps, ran,
                     generation, pending_tasks, pending_cond_tasks, processing_count>>,
         NEW where, NEW who, NEW walked, NEW base, Exact(where, who, walked, base),
         NEW a \in Threads, Plain(pc[a]), Plain(pc'[a]), pc'[a] \in Inside <=> pc[a] \in Inside,
         \A u \in Threads \ {a} : /\ pc'[u] = pc[u] /\ batch'[u] = batch[u] /\ sched'[u] = sched[u]
                                  /\ todo'[u] = todo[u] /\ slot_gen'[u] = slot_gen[u],
         NEW where2 \in [Nodes -> Tags], NEW who2, DOMAIN who2 = Nodes,
         Moves(where, who, where2, who2, a),
         Gathers(pool', frame, At(where2, "pool")),
         Lists(batch_queue', frame, At(where2, "queue")),
         HeldBy(where2, who2, a)',
         \A p \in Packets : where2[p] \in {"new", "ran", "walk", "done"},
         \A p \in Packets : where2[p] = "ran" /\ who2[p] = a => HasPacket(a, p)',
         \A n \in Nodes : /\ Counted(where2, n) <=> Counted(where, n)
                          /\ Early(where2, n) <=> Early(where, n)
                          /\ where[n] = "new" /\ where2[n] # "new" =>
                               n \in Packets /\ frame # NoFrame /\ ~Open,
         WalkedBy(walked, base, a)'
  PROVE  Exact(where2, who2, walked, base)'
<1>1. ResThreads \subseteq Threads /\ Recorded(where) /\ Control
  BY GraphMore DEF Exact
<1>2. PlainThreads
  BY <1>1 DEF PlainThreads
<1>3. Open' <=> Open
  BY <1>1, <1>2, ControlKept
<1>4. Recorded(where2)'
  BY <1>1, <1>3, RecordedKept
<1> QED BY <1>4, ExactMoves

\* The same, when no node moves.
LEMMA ExactKept ==
  ASSUME graph \in Graphs, generation \in Nat,
         UNCHANGED <<graph, frame, completed, prepared, completed_slot, remaining_deps, ran,
                     generation, pending_tasks, pending_cond_tasks, processing_count,
                     pool, batch_queue>>,
         NEW where, NEW who, NEW walked, NEW base, Exact(where, who, walked, base),
         NEW a \in Threads, Plain(pc[a]), Plain(pc'[a]), pc'[a] \in Inside <=> pc[a] \in Inside,
         \A u \in Threads \ {a} : /\ pc'[u] = pc[u] /\ batch'[u] = batch[u] /\ sched'[u] = sched[u]
                                  /\ todo'[u] = todo[u] /\ slot_gen'[u] = slot_gen[u],
         batch'[a] = batch[a] \/ a \in Workers,
         HeldBy(where, who, a)', WalkedBy(walked, base, a)'
  PROVE  Exact(where, who, walked, base)'
<1>1. Tokens(where, who)
  BY DEF Exact
<1>2. Moves(where, who, where, who, a)
  BY DEF Moves
<1>3. \A p \in Packets : where[p] = "ran" /\ who[p] = a => HasPacket(a, p)'
  BY <1>1, GraphStays, GraphFacts DEF Tokens, HasPacket
<1>4. /\ Gathers(pool', frame, At(where, "pool")) /\ Lists(batch_queue', frame, At(where, "queue"))
      /\ where \in [Nodes -> Tags] /\ DOMAIN who = Nodes
      /\ \A p \in Packets : where[p] \in {"new", "ran", "walk", "done"}
  BY <1>1 DEF Tokens
<1>5. \A n \in Nodes : /\ Counted(where, n) <=> Counted(where, n)
                       /\ Early(where, n) <=> Early(where, n)
                       /\ where[n] = "new" /\ where[n] # "new" => n \in Packets /\ frame # NoFrame /\ ~Open
  OBVIOUS
<1> QED BY <1>2, <1>3, <1>4, <1>5, ExactLocal

LEMMA HeldByNothing ==
  ASSUME UNCHANGED <<graph, frame>>, NEW where, NEW who, NEW a \in Threads, HeldBy(where, who, a),
         batch'[a] = <<>>, sched'[a] = sched[a], pc'[a] \notin Needing,
         a \in Workers => pc'[a] \in Inside \cup {"idle", "flag"}
  PROVE  HeldBy(where, who, a)'
<1>1. \A l : Of(where, who, l, a)' = Of(where, who, l, a)
  BY GraphStays DEF Of
<1>2. pc'[a] \notin Walking
  BY DEF Walking, Needing
<1>3. \A K : Lists(<<>>, frame, K)
  BY ListEmpty
<1> QED BY <1>1, <1>2, <1>3 DEF HeldBy

-----------------------------------------------------------------------------
(* The steps of a worker *)

\* What is known of the state before a step.
Before(where, who, walked, base) ==
  graph \in Graphs /\ GenInv /\ Exact(where, who, walked, base)

LEMMA ExactTake ==
  ASSUME NEW where, NEW who, NEW walked, NEW base, Before(where, who, walked, base),
         NEW w \in Workers, Take(w)
  PROVE  \E where2, who2 : Exact(where2, who2, walked, base)'
<1>1. /\ graph \in Graphs /\ Exact(where, who, walked, base) /\ Tokens(where, who)
      /\ Shape /\ generation \in Nat /\ w \in Threads /\ HeldBy(where, who, w)
  BY DEF Before, GenInv, Exact, Tokens, Threads
<1>2. PICK j \in BagToSet(pool) : /\ pool' = pool (-) SetToBag({j})
                                  /\ batch' = [batch EXCEPT ![w] = <<j>>]
  BY DEF Take
<1>3. PICK t : t = j.task
  OBVIOUS
<1>4. /\ t \in At(where, "pool") /\ j.frame = frame
      /\ Gathers(pool', frame, At(where, "pool") \ {t})
  BY <1>1, <1>2, <1>3, GatherTake DEF Tokens
<1>5. t \in Nodes /\ where[t] = "pool" /\ t \notin Packets
  BY <1>1, <1>4 DEF At, Tokens
<1>6. PICK where2, who2 : where2 = [where EXCEPT ![t] = "hand"] /\ who2 = [who EXCEPT ![t] = w]
  OBVIOUS
<1>7. /\ where2 \in [Nodes -> Tags] /\ DOMAIN who2 = Nodes
      /\ where2[t] = "hand" /\ who2[t] = w
      /\ \A n \in Nodes \ {t} : where2[n] = where[n] /\ who2[n] = who[n]
  BY <1>1, <1>5, <1>6 DEF Tokens, Tags
<1>8. Moves(where, who, where2, who2, w)
  BY <1>5, <1>7 DEF Moves
<1>9. Gathers(pool', frame, At(where2, "pool"))
  <2>1. At(where, "pool") \ {t} \subseteq At(where2, "pool")
    BY <1>7 DEF At
  <2> QED BY <1>4, <2>1, GatherWider
<1>10. /\ UNCHANGED <<graph, frame, completed, prepared, completed_slot, remaining_deps, ran,
                      generation, pending_tasks, pending_cond_tasks, processing_count,
                      batch_queue, todo, slot_gen, sched>>
       /\ pc[w] = "idle" /\ pc' = [pc EXCEPT ![w] = "start"]
  BY DEF Take, Goto, counters, frames, history
<1>11. Lists(batch_queue', frame, At(where2, "queue"))
  <2>1. At(where, "queue") \subseteq At(where2, "queue")
    BY <1>5, <1>7 DEF At
  <2> QED BY <1>1, <1>10, <2>1, ListWider DEF Tokens
<1>12. pc'[w] = "start" /\ batch'[w] = <<j>> /\ sched'[w] = sched[w]
  BY <1>1, <1>2, <1>10 DEF Shape
<1>13. HeldBy(where2, who2, w)'
  <2>1. \A l : Of(where2, who2, l, w)' = Of(where2, who2, l, w)
    BY <1>10, GraphStays DEF Of
  <2>2. Lists(<<j>>, frame, Of(where2, who2, "hand", w))
    BY <1>3, <1>4, <1>5, <1>7, ListOne DEF Of
  <2>3. Of(where, who, "sched", w) \subseteq Of(where2, who2, "sched", w)
    BY <1>5, <1>7 DEF Of
  <2>4. Lists(sched[w], frame, Of(where2, who2, "sched", w))
    BY <1>1, <2>3, ListWider DEF HeldBy
  <2>5. <<j>> # <<>> /\ w \notin ResThreads
    BY <1>1, GraphFacts
  <2> QED BY <1>10, <1>12, <2>1, <2>2, <2>4, <2>5 DEF HeldBy, Walking, Handing, Needing
<1>14. WalkedBy(walked, base, w)'
  BY <1>12 DEF WalkedBy
<1>15. \A p \in Packets : /\ where2[p] \in {"new", "ran", "walk", "done"}
                          /\ ~(where2[p] = "ran" /\ who2[p] = w)
  <2>1. w \notin ResThreads /\ Packets \subseteq Nodes
    BY <1>1, GraphFacts, GraphMore
  <2> QED BY <1>1, <1>5, <1>7, <2>1 DEF Tokens, HasPacket
<1>16. \A n \in Nodes : /\ Counted(where2, n) <=> Counted(where, n)
                        /\ Early(where2, n) <=> Early(where, n)
                        /\ where[n] = "new" => where2[n] = "new"
  BY <1>5, <1>7 DEF Counted, Early
<1>17. \A u \in Threads \ {w} : pc'[u] = pc[u] /\ batch'[u] = batch[u]
  BY <1>1, <1>2, <1>10 DEF Shape
<1>18. Plain(pc[w]) /\ Plain(pc'[w]) /\ pc'[w] \notin Inside /\ pc[w] \notin Inside
  BY <1>10, <1>12 DEF Plain, Critical, Holding, Confirmed, ResetLabels, Opening, Inside
<1>19. Exact(where2, who2, walked, base)'
  BY <1>1, <1>7, <1>8, <1>9, <1>10, <1>11, <1>13, <1>14, <1>15, <1>16, <1>17, <1>18, ExactLocal
<1> QED BY <1>19

\* The steps of a worker that move no task: the guards.
LEMMA ExactGuards ==
  ASSUME NEW where, NEW who, NEW walked, NEW base, Before(where, who, walked, base),
         NEW w \in Workers, Start(w) \/ DropStale(w) \/ DropInArgs(w) \/ Verify(w)
  PROVE  Exact(where, who, walked, base)'
<1>1. /\ graph \in Graphs /\ Exact(where, who, walked, base) /\ Tokens(where, who)
      /\ Shape /\ generation \in Nat /\ w \in Threads /\ HeldBy(where, who, w) /\ w \notin ResThreads
  BY GraphFacts DEF Before, GenInv, Exact, Tokens, Threads
<1>2. /\ UNCHANGED <<graph, frame, completed, prepared, completed_slot, remaining_deps, ran,
                     generation, pending_tasks, pending_cond_tasks, processing_count,
                     pool, batch_queue, todo, slot_gen, sched>>
      /\ \A u \in Threads \ {w} : pc'[u] = pc[u] /\ batch'[u] = batch[u]
  BY <1>1 DEF Start, DropStale, DropInArgs, Verify, Goto, counters, frames, history, locals, queues, Shape
<1>3. \/ pc[w] = "start" /\ pc'[w] = "run" /\ batch'[w] = batch[w]
      \/ pc[w] \in {"start", "run"} /\ pc'[w] = "idle" /\ batch'[w] = <<>>
      \/ pc[w] = "verify" /\ pc'[w] = "discharge" /\ batch'[w] = batch[w]
      \/ pc[w] = "verify" /\ pc'[w] = "leave" /\ batch'[w] = <<>>
  BY <1>1 DEF Start, DropStale, DropInArgs, Verify, Goto, locals, Shape
<1>4. HeldBy(where, who, w)'
  <2>1. CASE batch'[w] = <<>> /\ pc'[w] \in {"idle", "leave"}
    <3>1. pc'[w] \notin Needing /\ pc'[w] \in Inside \cup {"idle", "flag"}
      BY <2>1 DEF Needing, Inside
    <3> QED BY <1>1, <1>2, <2>1, <3>1, HeldByNothing
  <2>2. CASE batch'[w] = batch[w] /\ pc'[w] \in {"run", "discharge"}
    <3>1. /\ pc'[w] \in Needing /\ pc[w] \in Needing /\ pc'[w] \notin Walking /\ pc[w] \notin Walking
          /\ pc'[w] \in Handing <=> pc[w] \in Handing
      BY <1>3, <2>2 DEF Needing, Walking, Handing
    <3>2. batch[w] # <<>>
      BY <1>1, <3>1 DEF HeldBy
    <3>3. ~(w \in Workers /\ pc'[w] = "send") /\ w \notin ResThreads
      BY <1>1, <2>2
    <3> QED BY <1>1, <1>2, <2>2, <3>1, <3>2, <3>3, HeldByKept
  <2> QED BY <1>3, <2>1, <2>2
<1>5. WalkedBy(walked, base, w)'
  BY <1>3 DEF WalkedBy
<1>6. Plain(pc[w]) /\ Plain(pc'[w]) /\ (pc'[w] \in Inside <=> pc[w] \in Inside)
  BY <1>3 DEF Plain, Critical, Holding, Confirmed, ResetLabels, Opening, Inside
<1> QED BY <1>1, <1>2, <1>4, <1>5, <1>6, ExactKept

\* A node runs, after its predecessors.
LEMMA RecordedRun ==
  ASSUME graph \in Graphs, UNCHANGED <<graph, frame, completed>>, frame \in Frames, ~Open,
         Open' <=> Open, NEW where, NEW where2, Recorded(where),
         NEW t \in Nodes, Early(where, t), ~Early(where2, t),
         ran' = [ran EXCEPT ![<<frame, t>>] = @ + 1],
         \A n \in Nodes \ {t} : Early(where2, n) <=> Early(where, n),
         \A p \in Preds(t) : ~Early(where, p)
  PROVE  Recorded(where2)'
<1>1. /\ Nodes' = Nodes /\ Cond' = Cond /\ Tasks' = Tasks /\ Packets' = Packets
      /\ \A u : Preds(u)' = Preds(u)
  BY GraphStays, PredsStay
<1>2. \A n : Early(where2, n)' <=> Early(where2, n)
  BY <1>1 DEF Early
<1>3. frame # NoFrame /\ DOMAIN ran = (Frames \cup {NoFrame}) \X Nodes /\ Tasks \subseteq Nodes
  BY GraphMore DEF Recorded
<1>4. DOMAIN ran' = (Frames \cup {NoFrame}) \X Nodes
  BY <1>3
<1>5. \A f \in Frames, n \in Nodes : <<f, n>> # <<frame, t>> => ran'[<<f, n>>] = ran[<<f, n>>]
  BY <1>3
<1>6. ran[<<frame, t>>] = 0 /\ ran'[<<frame, t>>] = 1
  BY <1>3 DEF Recorded
<1>7. \A f \in Frames, n \in Nodes : f # frame \/ n # t => ran'[<<f, n>>] = ran[<<f, n>>]
  BY <1>5
<1>8. ASSUME NEW f \in Frames, NEW u \in Tasks, ran'[<<f, u>>] > 0, NEW p \in Preds(u)
      PROVE  ran'[<<f, p>>] > 0
  <2>1. p \in Nodes \ Cond
    BY <1>3, GraphMore
  <2>2. CASE f = frame /\ p = t
    BY <1>6, <2>2
  <2>3. CASE ~(f = frame /\ p = t) /\ f = frame /\ u = t
    <3>1. ran[<<frame, p>>] = 1
      BY <1>3, <2>1, <2>3 DEF Recorded
    <3> QED BY <1>7, <2>1, <2>3, <3>1
  <2>4. CASE ~(f = frame /\ p = t) /\ ~(f = frame /\ u = t)
    <3>1. ran[<<f, u>>] > 0
      BY <1>3, <1>7, <1>8, <2>4
    <3>2. ran[<<f, p>>] > 0
      BY <3>1 DEF Recorded
    <3> QED BY <1>7, <2>1, <2>4, <3>2
  <2> QED BY <2>2, <2>3, <2>4
<1>9. \A f \in Frames, n \in Nodes : f >= completed /\ f # frame => ran'[<<f, n>>] = 0
  BY <1>7 DEF Recorded
<1>10. ASSUME NEW n \in Nodes
       PROVE  /\ Early(where2, n) => ran'[<<frame, n>>] = 0
              /\ ~Early(where2, n) /\ n \notin Cond => ran'[<<frame, n>>] = 1
  <2>1. CASE n = t
    BY <1>6, <2>1
  <2>2. CASE n # t
    BY <1>3, <1>7, <2>2 DEF Recorded
  <2> QED BY <2>1, <2>2
<1> QED BY <1>1, <1>2, <1>3, <1>4, <1>8, <1>9, <1>10 DEF Recorded

\* The predecessors of a node that has started are counted off.
LEMMA StartedAfter ==
  ASSUME graph \in Graphs, NEW where, NEW walked, NEW base, Work(where, walked, base),
         NEW t \in Nodes, t \in Packets \/ where[t] # "new"
  PROVE  \A p \in Preds(t) : p \in Nodes /\ Counted(where, p) /\ ~Early(where, p)
<1>1. CASE t \in Packets
  BY <1>1, GraphMore
<1>2. CASE t \notin Packets
  <2>1. t \in Tasks
    BY <1>2, GraphMore
  <2>2. Unwalked(walked, t) = {}
    BY <1>2, <2>1 DEF Work
  <2>3. \A p \in Preds(t) : <<p, t>> \in walked
    BY <2>2 DEF Unwalked
  <2> QED BY <2>3 DEF Work, Counted, Early
<1> QED BY <1>1, <1>2

\* A task runs: its worker resolves it, or sends it to the queue.
LEMMA ExactRun ==
  ASSUME NEW where, NEW who, NEW walked, NEW base, Before(where, who, walked, base),
         NEW w \in Workers, Run(w)
  PROVE  \E where2 : Exact(where2, who, walked, base)'
<1>1. /\ graph \in Graphs /\ Exact(where, who, walked, base) /\ Tokens(where, who)
      /\ Work(where, walked, base) /\ Recorded(where) /\ Control
      /\ Shape /\ generation \in Nat /\ w \in Threads /\ HeldBy(where, who, w) /\ w \notin ResThreads
  BY GraphFacts DEF Before, GenInv, Exact, Tokens, Threads
<1>2. PICK j, t, b : j = batch[w][1] /\ t = j.task /\ b = (t \in Bulk \/ worker_resolvable(t))
  OBVIOUS
<1>3. /\ UNCHANGED <<graph, frame, completed, prepared, completed_slot, remaining_deps,
                     generation, pending_tasks, pending_cond_tasks, processing_count,
                     pool, todo, slot_gen, sched>>
      /\ pc[w] = "run" /\ ran' = [ran EXCEPT ![<<j.frame, t>>] = @ + 1]
      /\ \A u \in Threads \ {w} : pc'[u] = pc[u] /\ batch'[u] = batch[u]
  BY <1>1, <1>2 DEF Run, Goto, counters, frames, history, Shape
<1>4. /\ Lists(batch[w], frame, Of(where, who, "hand", w)) /\ batch[w] # <<>>
  BY <1>1, <1>3 DEF HeldBy, Handing, Needing
<1>5. t \in Of(where, who, "hand", w) /\ j.frame = frame
  BY <1>2, <1>4, ListTail
<1>6. t \in Nodes /\ where[t] = "hand" /\ who[t] = w /\ t \notin Packets
  BY <1>1, <1>5 DEF Of, Tokens
<1>7. batch[w] = <<j>>
  BY <1>1, <1>2, <1>4 DEF Shape, WorkerHolds
<1>8. \/ b /\ pc'[w] = "enter" /\ batch'[w] = <<j>> /\ UNCHANGED batch_queue
      \/ ~b /\ pc'[w] = "idle" /\ batch'[w] = <<>> /\ batch_queue' = Append(batch_queue, j)
  BY <1>1, <1>2, <1>7 DEF Run, Goto, Shape
<1>9. PICK where2 : where2 = [where EXCEPT ![t] = IF b THEN "ran" ELSE "queue"]
  OBVIOUS
<1>10. /\ where2 \in [Nodes -> Tags] /\ DOMAIN who = Nodes
       /\ where2[t] = IF b THEN "ran" ELSE "queue"
       /\ \A n \in Nodes \ {t} : where2[n] = where[n]
  BY <1>1, <1>6, <1>9 DEF Tokens, Tags
<1>11. Moves(where, who, where2, who, w)
  BY <1>6, <1>10 DEF Moves
<1>12. Gathers(pool', frame, At(where2, "pool"))
  <2>1. At(where, "pool") \subseteq At(where2, "pool")
    BY <1>6, <1>10 DEF At
  <2> QED BY <1>1, <1>3, <2>1, GatherWider DEF Tokens
<1>13. Lists(batch_queue', frame, At(where2, "queue"))
  <2>1. At(where, "queue") \subseteq At(where2, "queue") /\ t \notin At(where, "queue")
    BY <1>6, <1>10 DEF At
  <2>2. Lists(batch_queue, frame, At(where, "queue"))
    BY <1>1 DEF Tokens
  <2>3. CASE b
    BY <1>8, <2>1, <2>2, <2>3, ListWider
  <2>4. CASE ~b
    <3>1. t \in At(where2, "queue") /\ batch_queue' = Append(batch_queue, j)
      BY <1>6, <1>8, <1>10, <2>4 DEF At
    <3>2. Lists(Append(batch_queue, j), frame, At(where2, "queue"))
      BY <1>2, <1>5, <2>1, <2>2, <3>1, ListAppend
    <3> QED BY <3>1, <3>2
  <2> QED BY <2>3, <2>4
<1>14. HeldBy(where2, who, w)'
  <2>1. \A l : Of(where2, who, l, w)' = Of(where2, who, l, w)
    BY <1>3, GraphStays DEF Of
  <2>2. b => Lists(<<j>>, frame, Of(where2, who, "ran", w))
    BY <1>2, <1>5, <1>6, <1>10, ListOne DEF Of
  <2>3. Of(where, who, "sched", w) \subseteq Of(where2, who, "sched", w)
    BY <1>6, <1>10 DEF Of
  <2>4. Lists(sched[w], frame, Of(where2, who, "sched", w))
    BY <1>1, <2>3, ListWider DEF HeldBy
  <2>5. <<j>> # <<>> /\ \A K : Lists(<<>>, frame, K)
    BY ListEmpty
  <2> QED BY <1>1, <1>3, <1>8, <2>1, <2>2, <2>4, <2>5 DEF HeldBy, Walking, Handing, Needing
<1>15. WalkedBy(walked, base, w)'
  BY <1>8 DEF WalkedBy
<1>16. \A p \in Packets : /\ where2[p] \in {"new", "ran", "walk", "done"}
                          /\ ~(where2[p] = "ran" /\ who[p] = w)
  <2>1. Packets \subseteq Nodes
    BY <1>1, GraphMore
  <2> QED BY <1>1, <1>6, <1>10, <2>1 DEF Tokens, HasPacket
<1>17. \A n \in Nodes : /\ Counted(where2, n) <=> Counted(where, n)
                        /\ where[n] = "new" => where2[n] = "new"
  BY <1>6, <1>10 DEF Counted
<1>18. Plain(pc[w]) /\ Plain(pc'[w]) /\ pc'[w] \notin Inside /\ pc[w] \notin Inside
  BY <1>3, <1>8 DEF Plain, Critical, Holding, Confirmed, ResetLabels, Opening, Inside
<1>19. Recorded(where2)'
  <2>1. frame \in Frames /\ ~Open
    BY <1>1, <1>6, Busy
  <2>2. PlainThreads
    BY <1>1, <1>3, <1>18, GraphMore DEF PlainThreads
  <2>3. Open' <=> Open
    BY <1>1, <1>3, <2>2, ControlKept
  <2>4. Early(where, t) /\ ~Early(where2, t)
    BY <1>6, <1>10 DEF Early
  <2>5. \A n \in Nodes \ {t} : Early(where2, n) <=> Early(where, n)
    BY <1>10 DEF Early
  <2>6. \A p \in Preds(t) : ~Early(where, p)
    BY <1>1, <1>6, StartedAfter
  <2> QED BY <1>1, <1>3, <1>5, <1>6, <2>1, <2>3, <2>4, <2>5, <2>6, RecordedRun
<1>20. Exact(where2, who, walked, base)'
  BY <1>1, <1>3, <1>10, <1>11, <1>12, <1>13, <1>14, <1>15, <1>16, <1>17, <1>18, <1>19, ExactMoves
<1> QED BY <1>20

-----------------------------------------------------------------------------
(* Entering and leaving a resolution *)

\* processing_count follows the threads inside.
LEMMA CountersEnter ==
  ASSUME graph \in Graphs, UNCHANGED <<graph, pending_tasks, pending_cond_tasks>>,
         NEW where, Counters(where), NEW a \in Threads, pc[a] \notin Unset, pc'[a] \notin Unset,
         pc[a] # "reset_cond", pc'[a] # "reset_cond",
         \A u \in Threads \ {a} : pc'[u] = pc[u],
         \/ pc[a] \notin Inside /\ pc'[a] \in Inside /\ processing_count' = processing_count + 1
         \/ pc[a] \in Inside /\ pc'[a] \notin Inside /\ processing_count' = processing_count - 1
  PROVE  Counters(where)'
<1>1. Threads' = Threads /\ ResThreads' = ResThreads /\ Nodes' = Nodes /\ Cond' = Cond
  BY GraphStays
<1> DEFINE P == {u \in Threads : pc[u] \in Inside}
           Q == {u \in Threads : pc'[u] \in Inside}
<1>2. IsFiniteSet(P) /\ Cardinality(P) \in Nat
  <2>1. P \subseteq Threads /\ IsFiniteSet(Threads)
    BY GraphMore
  <2> QED BY <2>1, FS_Subset, FS_CardinalityType
<1>3. processing_count = Cardinality(P)
  BY DEF Counters
<1>4. processing_count' = Cardinality(Q)
  <2>1. CASE pc[a] \notin Inside /\ pc'[a] \in Inside /\ processing_count' = processing_count + 1
    <3>1. Q = P \cup {a} /\ a \notin P
      BY <2>1
    <3> HIDE DEF P, Q
    <3> QED BY <1>2, <1>3, <2>1, <3>1, FS_AddElement
  <2>2. CASE pc[a] \in Inside /\ pc'[a] \notin Inside /\ processing_count' = processing_count - 1
    <3>1. Q = P \ {a} /\ a \in P
      BY <2>2
    <3> HIDE DEF P, Q
    <3> QED BY <1>2, <1>3, <2>2, <3>1, FS_RemoveElement
  <2> QED BY <2>1, <2>2
<1>5. ResThreads \subseteq Threads
  BY GraphMore
<1>6. (\A r \in ResThreads : pc'[r] \notin Unset) => \A r \in ResThreads : pc[r] \notin Unset
  BY <1>5
<1>7. (\A r \in ResThreads : pc'[r] \notin Unset \cup {"reset_cond"}) =>
         \A r \in ResThreads : pc[r] \notin Unset \cup {"reset_cond"}
  BY <1>5
<1>8. Q = {u \in Threads : pc[u] \in Inside}'
  BY <1>1
<1> HIDE DEF P, Q
<1> QED BY <1>1, <1>4, <1>6, <1>7, <1>8 DEF Counters

\* A thread that has something in its hands is on its way: the slot has a frame
\* that nobody resets or has claimed.
LEMMA BusyHands ==
  ASSUME NEW where, NEW who, NEW walked, NEW base, Before(where, who, walked, base),
         NEW a \in Threads, pc[a] \in Needing, pc[a] \notin Walking
  PROVE  /\ frame # NoFrame /\ ~Open /\ frame \in Frames
         /\ \A r \in ResThreads : pc[r] # "bump" /\ pc[r] \notin Unset \cup {"reset_cond"}
<1>1. /\ graph \in Graphs /\ Exact(where, who, walked, base) /\ HeldBy(where, who, a)
  BY DEF Before, Exact, Tokens
<1>2. batch[a] # <<>>
  BY <1>1 DEF HeldBy
<1>3. PICK l \in {"hand", "ran"} : Lists(batch[a], frame, Of(where, who, l, a))
  BY <1>1 DEF HeldBy
<1>4. batch[a][1].task \in Of(where, who, l, a)
  BY <1>2, <1>3, ListTail
<1>5. batch[a][1].task \in Nodes /\ where[batch[a][1].task] = l
  BY <1>4 DEF Of
<1>6. where[batch[a][1].task] # "new" /\ ~Counted(where, batch[a][1].task)
  BY <1>5 DEF Counted
<1> QED BY <1>1, <1>5, <1>6, Busy

LEMMA ExactPassage ==
  ASSUME NEW where, NEW who, NEW walked, NEW base, Before(where, who, walked, base),
         NEW a \in Threads, Enter(a) \/ Leave(a)
  PROVE  Exact(where, who, walked, base)'
<1>1. /\ graph \in Graphs /\ Exact(where, who, walked, base) /\ Tokens(where, who)
      /\ Work(where, walked, base) /\ Counters(where) /\ Recorded(where) /\ Control /\ Known(where)
      /\ Shape /\ generation \in Nat /\ HeldBy(where, who, a)
      /\ Threads = Workers \cup ResThreads /\ Workers \cap ResThreads = {}
  BY GraphFacts DEF Before, GenInv, Exact, Tokens, Threads
<1>2. /\ UNCHANGED <<graph, frame, completed, prepared, completed_slot, remaining_deps, ran,
                     generation, pending_tasks, pending_cond_tasks, pool, batch_queue>>
      /\ UNCHANGED <<batch, todo, slot_gen, sched>>
      /\ \A u \in Threads \ {a} : pc'[u] = pc[u]
  BY <1>1 DEF Enter, Leave, Goto, frames, history, locals, queues, Shape
<1>3. \/ /\ pc[a] \in {"enter", "admit"} /\ processing_count' = processing_count + 1
         /\ pc'[a] = IF a \in Workers THEN "verify" ELSE "discharge"
      \/ pc[a] = "leave" /\ pc'[a] = "flag" /\ processing_count' = processing_count - 1
  BY <1>1 DEF Enter, Leave, Goto, Shape
<1>4. HeldBy(where, who, a)'
  <2>1. CASE pc[a] = "leave" /\ pc'[a] = "flag"
    <3>1. /\ pc'[a] \notin Walking /\ pc[a] \notin Walking /\ pc'[a] \in Handing /\ pc[a] \in Handing
          /\ pc'[a] \notin Needing
      BY <2>1 DEF Walking, Handing, Needing
    <3>2. a \in ResThreads => batch[a] = <<>>
      BY <1>1, <2>1 DEF HeldBy, Needing, Opening
    <3> QED BY <1>1, <1>2, <2>1, <3>1, <3>2, HeldByKept
  <2>2. CASE pc[a] \in {"enter", "admit"} /\ pc'[a] \in {"verify", "discharge"}
    <3>1. /\ pc'[a] \notin Walking /\ pc[a] \notin Walking /\ pc'[a] \notin Handing /\ pc[a] \notin Handing
          /\ pc'[a] \in Needing /\ pc[a] \in Needing
      BY <2>2 DEF Walking, Handing, Needing
    <3>2. batch[a] # <<>>
      BY <1>1, <3>1 DEF HeldBy
    <3> QED BY <1>1, <1>2, <2>2, <3>1, <3>2, HeldByKept
  <2> QED BY <1>3, <2>1, <2>2
<1>5. Tokens(where, who)'
  BY <1>1, <1>2, <1>4, TokensKept
<1>6. Plain(pc[a]) /\ Plain(pc'[a])
  BY <1>3 DEF Plain, Critical, Holding, Confirmed, ResetLabels, Opening
<1>7. PlainThreads
  BY <1>1, <1>2, <1>6 DEF PlainThreads
<1>8. Control' /\ (Open' <=> Open)
  BY <1>1, <1>2, <1>7, ControlKept
<1>9. Work(where, walked, base)'
  <2>1. WalkedBy(walked, base, a)'
    BY <1>3 DEF WalkedBy
  <2>2. generation' \in Nat /\ generation <= generation'
    BY <1>1, <1>2
  <2> QED BY <1>1, <1>2, <2>1, <2>2, WorkKept
<1>10. Counters(where)'
  <2>1. /\ pc[a] \notin Unset /\ pc'[a] \notin Unset /\ pc[a] # "reset_cond" /\ pc'[a] # "reset_cond"
        /\ \/ pc[a] \notin Inside /\ pc'[a] \in Inside /\ processing_count' = processing_count + 1
           \/ pc[a] \in Inside /\ pc'[a] \notin Inside /\ processing_count' = processing_count - 1
    BY <1>3 DEF Unset, Inside
  <2> QED BY <1>1, <1>2, <2>1, CountersEnter
<1>11. Recorded(where)'
  BY <1>1, <1>2, <1>8, RecordedKept
<1>12. Known(where)'
  <2>1. frame = NoFrame \/ Open \/ (\E r \in ResThreads : pc[r] = "bump") =>
            \A u \in Threads : pc'[u] \in Inside => pc[u] \in Inside
    <3>1. CASE pc[a] = "leave" /\ pc'[a] = "flag"
      BY <1>2, <3>1 DEF Inside
    <3>2. CASE pc[a] \in {"enter", "admit"}
      <4>1. pc[a] \in Needing /\ pc[a] \notin Walking
        BY <3>2 DEF Needing, Walking
      <4> QED BY <4>1, BusyHands
    <3> QED BY <1>3, <3>1, <3>2
  <2>2. frame = NoFrame \/ Open => \A n \in Nodes : where[n] = "new"
    BY <1>1 DEF Known
  <2> QED BY <1>1, <1>2, <1>7, <1>8, <2>1, <2>2, KnownKept
<1> QED BY <1>5, <1>8, <1>9, <1>10, <1>11, <1>12 DEF Exact

LEMMA ExactFlag ==
  ASSUME NEW where, NEW who, NEW walked, NEW base, Before(where, who, walked, base),
         NEW a \in Threads, Flag(a)
  PROVE  Exact(where, who, walked, base)'
<1>1. /\ graph \in Graphs /\ Exact(where, who, walked, base)
      /\ Shape /\ generation \in Nat /\ HeldBy(where, who, a)
      /\ Threads = Workers \cup ResThreads /\ Workers \cap ResThreads = {}
  BY GraphFacts DEF Before, GenInv, Exact, Tokens, Threads
<1>2. /\ UNCHANGED <<graph, frame, completed, prepared, completed_slot, remaining_deps, ran,
                     generation, pending_tasks, pending_cond_tasks, processing_count,
                     pool, batch_queue, todo, slot_gen, sched, batch>>
      /\ \A u \in Threads \ {a} : pc'[u] = pc[u]
  BY <1>1 DEF Flag, Goto, frames, history, locals, queues, Shape
<1>3. pc[a] = "flag" /\ pc'[a] = IF batch[a] # <<>> THEN "start" ELSE "idle"
  BY <1>1 DEF Flag, Goto, Shape
<1>4. HeldBy(where, who, a)'
  <2>1. CASE batch[a] = <<>>
    <3>1. pc'[a] = "idle" /\ pc'[a] \notin Needing
      BY <1>3, <2>1 DEF Needing
    <3> QED BY <1>1, <1>2, <2>1, <3>1, HeldByNothing
  <2>2. CASE batch[a] # <<>>
    <3>1. /\ pc'[a] \notin Walking /\ pc[a] \notin Walking /\ pc'[a] \in Handing /\ pc[a] \in Handing
          /\ pc'[a] \in Needing /\ pc'[a] = "start"
      BY <1>3, <2>2 DEF Walking, Handing, Needing
    <3> QED BY <1>1, <1>2, <2>2, <3>1, HeldByKept
  <2> QED BY <2>1, <2>2
<1>5. WalkedBy(walked, base, a)'
  BY <1>3 DEF WalkedBy
<1>6. Plain(pc[a]) /\ Plain(pc'[a]) /\ pc'[a] \notin Inside /\ pc[a] \notin Inside
  BY <1>3 DEF Plain, Critical, Holding, Confirmed, ResetLabels, Opening, Inside
<1> QED BY <1>1, <1>2, <1>4, <1>5, <1>6, ExactKept

-----------------------------------------------------------------------------
(* Counting a node off *)

\* One node is counted off, on the counter of its kind.
LEMMA CountersOff ==
  ASSUME graph \in Graphs, UNCHANGED <<graph, processing_count>>,
         NEW where, NEW where2, Counters(where), NEW t \in Nodes, ~Counted(where, t), Counted(where2, t),
         \A n \in Nodes \ {t} : Counted(where2, n) <=> Counted(where, n),
         IF t \in Cond
         THEN pending_cond_tasks' = pending_cond_tasks - 1 /\ UNCHANGED pending_tasks
         ELSE pending_tasks' = pending_tasks - 1 /\ UNCHANGED pending_cond_tasks,
         \A u \in Threads : pc'[u] \in Inside <=> pc[u] \in Inside,
         \A r \in ResThreads : pc[r] \notin Unset \cup {"reset_cond"}
  PROVE  Counters(where2)'
<1>1. Threads' = Threads /\ ResThreads' = ResThreads /\ Nodes' = Nodes /\ Cond' = Cond
  BY GraphStays
<1> DEFINE P == {n \in Nodes \ Cond : ~Counted(where, n)}
           Q == {n \in Cond : ~Counted(where, n)}
           P2 == {n \in Nodes \ Cond : ~Counted(where2, n)}
           Q2 == {n \in Cond : ~Counted(where2, n)}
<1>2. IsFiniteSet(P) /\ Cardinality(P) \in Nat /\ IsFiniteSet(Q) /\ Cardinality(Q) \in Nat
  <2>1. P \subseteq Nodes /\ Q \subseteq Cond /\ IsFiniteSet(Nodes) /\ IsFiniteSet(Cond)
    BY GraphMore
  <2> QED BY <2>1, FS_Subset, FS_CardinalityType
<1>3. pending_tasks = Cardinality(P) /\ pending_cond_tasks = Cardinality(Q)
  BY DEF Counters
<1>4. Cond \subseteq Nodes
  BY GraphMore
<1>5. /\ pending_tasks' \in Nat /\ pending_tasks' = Cardinality(P2)
      /\ pending_cond_tasks' \in Nat /\ pending_cond_tasks' = Cardinality(Q2)
  <2>1. CASE t \in Cond
    <3>1. Q2 = Q \ {t} /\ t \in Q /\ P2 = P
      BY <1>4, <2>1
    <3> HIDE DEF P, Q, P2, Q2
    <3>2. Q # {} /\ Cardinality(Q) # 0 /\ Cardinality(Q2) = Cardinality(Q) - 1
      BY <1>2, <3>1, FS_RemoveElement, FS_EmptySet
    <3> QED BY <1>2, <1>3, <2>1, <3>1, <3>2
  <2>2. CASE t \notin Cond
    <3>1. P2 = P \ {t} /\ t \in P /\ Q2 = Q
      BY <1>4, <2>2
    <3> HIDE DEF P, Q, P2, Q2
    <3>2. P # {} /\ Cardinality(P) # 0 /\ Cardinality(P2) = Cardinality(P) - 1
      BY <1>2, <3>1, FS_RemoveElement, FS_EmptySet
    <3> QED BY <1>2, <1>3, <2>2, <3>1, <3>2
  <2> QED BY <2>1, <2>2
<1>6. {u \in Threads : pc'[u] \in Inside} = {u \in Threads : pc[u] \in Inside}
  OBVIOUS
<1>7. processing_count = Cardinality({u \in Threads : pc[u] \in Inside})
  BY DEF Counters
<1> QED BY <1>1, <1>5, <1>6, <1>7 DEF Counters

\* Phases 1 and 2 of a resolution: a node is counted off, a packet is stored.
LEMMA ExactDischarge ==
  ASSUME NEW where, NEW who, NEW walked, NEW base, Before(where, who, walked, base),
         NEW a \in Threads, Discharge(a)
  PROVE  \E where2 : Exact(where2, who, walked, base)'
<1>1. /\ graph \in Graphs /\ Exact(where, who, walked, base) /\ Tokens(where, who)
      /\ Work(where, walked, base) /\ Counters(where) /\ Recorded(where) /\ Control /\ Known(where)
      /\ Shape /\ generation \in Nat /\ HeldBy(where, who, a)
      /\ ResThreads \subseteq Threads
  BY GraphFacts DEF Before, GenInv, Exact, Tokens, Threads
<1>2. PICK j, t : j = batch[a][1] /\ t = j.task
  OBVIOUS
<1>3. /\ UNCHANGED <<graph, frame, completed, prepared, completed_slot, remaining_deps,
                     generation, processing_count, pool, batch_queue>>
      /\ UNCHANGED <<batch, todo, slot_gen, sched>>
      /\ pc[a] = "discharge" /\ pc'[a] = "load" /\ \A u \in Threads \ {a} : pc'[u] = pc[u]
      /\ IF t \in Cond
         THEN pending_cond_tasks' = pending_cond_tasks - 1 /\ UNCHANGED pending_tasks
         ELSE pending_tasks' = pending_tasks - 1 /\ UNCHANGED pending_cond_tasks
      /\ ran' = IF t \in Packets THEN [ran EXCEPT ![<<j.frame, t>>] = @ + 1] ELSE ran
  BY <1>1, <1>2 DEF Discharge, Goto, frames, locals, queues, Shape
<1>4. Lists(batch[a], frame, Of(where, who, "ran", a)) /\ batch[a] # <<>>
  BY <1>1, <1>3 DEF HeldBy, Handing, Needing, Walking
<1>5. /\ t \in Of(where, who, "ran", a) /\ j.frame = frame /\ (\E S : batch[a] \in Seq(S))
      /\ Lists(Tail(batch[a]), frame, Of(where, who, "ran", a) \ {t})
  BY <1>2, <1>4, ListTail
<1>6. t \in Nodes /\ where[t] = "ran" /\ who[t] = a
  BY <1>5 DEF Of
<1>7. PICK where2 : where2 = [where EXCEPT ![t] = "walk"]
  OBVIOUS
<1>8. /\ where2 \in [Nodes -> Tags] /\ DOMAIN who = Nodes /\ where2[t] = "walk"
      /\ \A n \in Nodes \ {t} : where2[n] = where[n]
  BY <1>1, <1>6, <1>7 DEF Tokens, Tags
<1>9. Tokens(where2, who)'
  <2>1. Moves(where, who, where2, who, a)
    BY <1>6, <1>8 DEF Moves
  <2>2. /\ At(where, "pool") \subseteq At(where2, "pool") /\ At(where, "queue") \subseteq At(where2, "queue")
    BY <1>6, <1>8 DEF At
  <2>3. Gathers(pool', frame, At(where2, "pool"))
    BY <1>1, <1>3, <2>2, GatherWider DEF Tokens
  <2>4. Lists(batch_queue', frame, At(where2, "queue"))
    BY <1>1, <1>3, <2>2, ListWider DEF Tokens
  <2>5. HeldBy(where2, who, a)'
    <3>1. \A l : Of(where2, who, l, a)' = Of(where2, who, l, a)
      BY <1>3, GraphStays DEF Of
    <3>2. /\ Of(where, who, "sched", a) \subseteq Of(where2, who, "sched", a)
          /\ Of(where, who, "ran", a) \ {t} \subseteq Of(where2, who, "ran", a)
          /\ t \in Of(where2, who, "walk", a)
      BY <1>6, <1>8 DEF Of
    <3>3. Lists(sched[a], frame, Of(where2, who, "sched", a))
      BY <1>1, <3>2, ListWider DEF HeldBy
    <3>4. Lists(Tail(batch[a]), frame, Of(where2, who, "ran", a))
      BY <1>5, <3>2, ListWider
    <3> QED BY <1>2, <1>3, <1>4, <1>5, <3>1, <3>2, <3>3, <3>4 DEF HeldBy, Walking, Handing, Needing
  <2>6. \A p \in Packets : where2[p] \in {"new", "ran", "walk", "done"}
    BY <1>1, <1>8, GraphMore DEF Tokens
  <2>7. \A p \in Packets : where2[p] = "ran" /\ who[p] = a => HasPacket(a, p)'
    <3>1. \A p \in Packets : where2[p] = "ran" => where[p] = "ran"
      BY <1>1, <1>8, GraphMore
    <3> QED BY <1>1, <1>3, <3>1, GraphStays DEF Tokens, HasPacket
  <2> QED BY <1>1, <1>3, <1>8, <2>1, <2>3, <2>4, <2>5, <2>6, <2>7, TokensStep
<1>10. Work(where2, walked, base)'
  <2>1. WalkedBy(walked, base, a)'
    BY <1>1, <1>2, <1>3, <1>6 DEF WalkedBy, Work, Counted
  <2>2. generation' \in Nat /\ generation <= generation'
    BY <1>1, <1>3
  <2>3. /\ \A n \in Nodes : Counted(where, n) => Counted(where2, n)
        /\ \A n \in Nodes : where[n] = "new" => where2[n] = "new"
    BY <1>6, <1>8 DEF Counted
  <2>4. Tasks \subseteq Nodes
    BY <1>1, GraphMore
  <2> QED BY <1>1, <1>3, <2>1, <2>2, <2>3, <2>4, WorkKept
<1>11. /\ frame # NoFrame /\ ~Open /\ frame \in Frames
       /\ \A r \in ResThreads : pc[r] # "bump" /\ pc[r] \notin Unset \cup {"reset_cond"}
  <2>1. pc[a] \in Needing /\ pc[a] \notin Walking
    BY <1>3 DEF Needing, Walking
  <2> QED BY <2>1, BusyHands
<1>12. Counters(where2)'
  <2>1. /\ ~Counted(where, t) /\ Counted(where2, t)
        /\ \A n \in Nodes \ {t} : Counted(where2, n) <=> Counted(where, n)
    BY <1>6, <1>8 DEF Counted
  <2>2. \A u \in Threads : pc'[u] \in Inside <=> pc[u] \in Inside
    BY <1>3 DEF Inside
  <2> QED BY <1>1, <1>3, <1>6, <1>11, <2>1, <2>2, CountersOff
<1>13. Plain(pc[a]) /\ Plain(pc'[a])
  BY <1>3 DEF Plain, Critical, Holding, Confirmed, ResetLabels, Opening
<1>14. PlainThreads
  BY <1>1, <1>3, <1>13 DEF PlainThreads
<1>15. Control' /\ (Open' <=> Open)
  BY <1>1, <1>3, <1>14, ControlKept
<1>16. Recorded(where2)'
  <2>1. \A n \in Nodes \ {t} : Early(where2, n) <=> Early(where, n)
    BY <1>8 DEF Early
  <2>2. CASE t \in Packets
    <3>1. Early(where, t) /\ ~Early(where2, t)
      BY <1>6, <1>8, <2>2 DEF Early
    <3>2. \A p \in Preds(t) : ~Early(where, p)
      BY <1>1, <1>6, StartedAfter
    <3>3. ran' = [ran EXCEPT ![<<frame, t>>] = @ + 1]
      BY <1>3, <1>5, <2>2
    <3> QED BY <1>1, <1>3, <1>6, <1>11, <1>15, <2>1, <3>1, <3>2, <3>3, RecordedRun
  <2>3. CASE t \notin Packets
    <3>1. ~Early(where, t) /\ ~Early(where2, t) /\ UNCHANGED ran
      BY <1>3, <1>6, <1>8, <2>3 DEF Early
    <3> QED BY <1>1, <1>3, <1>15, <2>1, <3>1, RecordedKept
  <2> QED BY <2>2, <2>3
<1>17. Known(where2)'
  <2>1. \A n \in Nodes : /\ Counted(where, n) => Counted(where2, n)
                         /\ where[n] = "new" => where2[n] = "new"
    BY <1>6, <1>8 DEF Counted
  <2>2. Roots \subseteq Nodes
    BY <1>1, GraphMore
  <2> QED BY <1>1, <1>3, <1>11, <1>14, <1>15, <2>1, <2>2, KnownKept
<1>18. Exact(where2, who, walked, base)'
  BY <1>9, <1>10, <1>12, <1>15, <1>16, <1>17 DEF Exact
<1> QED BY <1>18

-----------------------------------------------------------------------------
(* The rest of a resolution, without the edges *)

LEMMA ExactLoad ==
  ASSUME NEW where, NEW who, NEW walked, NEW base, Before(where, who, walked, base),
         NEW a \in Threads, Load(a)
  PROVE  Exact(where, who, walked, base)'
<1>1. /\ graph \in Graphs /\ Exact(where, who, walked, base) /\ Work(where, walked, base)
      /\ Shape /\ generation \in Nat /\ HeldBy(where, who, a)
      /\ Threads = Workers \cup ResThreads /\ Workers \cap ResThreads = {}
  BY GraphFacts DEF Before, GenInv, Exact, Tokens, Threads
<1>2. PICK t : t = batch[a][1].task
  OBVIOUS
<1>3. /\ UNCHANGED <<graph, frame, completed, prepared, completed_slot, remaining_deps, ran,
                     generation, pending_tasks, pending_cond_tasks, processing_count,
                     pool, batch_queue>>
      /\ UNCHANGED <<sched, batch>> /\ pc[a] = "load" /\ pc'[a] = "resolve"
      /\ slot_gen'[a] = generation /\ todo'[a] = Succs[t]
      /\ \A u \in Threads \ {a} : pc'[u] = pc[u] /\ todo'[u] = todo[u] /\ slot_gen'[u] = slot_gen[u]
  BY <1>1, <1>2 DEF Load, Goto, counters, frames, history, queues, Shape
<1>4. batch[a] # <<>> /\ t \in Nodes
  BY <1>1, <1>2, <1>3 DEF HeldBy, Walking, Of
<1>5. HeldBy(where, who, a)'
  <2>1. /\ pc'[a] \in Walking /\ pc[a] \in Walking /\ pc'[a] \notin Handing /\ pc[a] \notin Handing
        /\ pc'[a] \in Needing
    BY <1>3 DEF Walking, Handing, Needing
  <2> QED BY <1>1, <1>3, <1>4, <2>1, HeldByKept
<1>6. WalkedBy(walked, base, a)'
  <2>1. Succs[t] \in Seq(Tasks) /\ IsInjective(Succs[t])
    BY <1>1, <1>4, GraphFacts, GraphMore
  <2>2. \A u : <<t, u>> \notin walked
    BY <1>1, <1>2, <1>3 DEF Work, WalkedBy
  <2>3. base <= generation /\ Succs' = Succs /\ Tasks' = Tasks
    BY <1>1, <1>3, GraphStays DEF Work
  <2> QED BY <1>2, <1>3, <2>1, <2>2, <2>3 DEF WalkedBy
<1>7. Plain(pc[a]) /\ Plain(pc'[a]) /\ pc'[a] \in Inside /\ pc[a] \in Inside
  BY <1>3 DEF Plain, Critical, Holding, Confirmed, ResetLabels, Opening, Inside
<1> QED BY <1>1, <1>3, <1>5, <1>6, <1>7, ExactKept

LEMMA ExactItemDone ==
  ASSUME NEW where, NEW who, NEW walked, NEW base, Before(where, who, walked, base),
         NEW a \in Threads, ItemDone(a)
  PROVE  \E where2 : Exact(where2, who, walked, base)'
<1>1. /\ graph \in Graphs /\ Exact(where, who, walked, base) /\ Tokens(where, who)
      /\ Shape /\ generation \in Nat /\ HeldBy(where, who, a)
      /\ Threads = Workers \cup ResThreads /\ Workers \cap ResThreads = {}
  BY GraphFacts DEF Before, GenInv, Exact, Tokens, Threads
<1>2. PICK t, one : t = batch[a][1].task /\ one = (Len(batch[a]) = 1)
  OBVIOUS
<1>3. /\ UNCHANGED <<graph, frame, completed, prepared, completed_slot, remaining_deps, ran,
                     generation, pending_tasks, pending_cond_tasks, processing_count>>
      /\ UNCHANGED <<pool, batch_queue, todo, slot_gen, sched>>
      /\ pc[a] = "resolve" /\ batch'[a] = Tail(batch[a])
      /\ pc'[a] = "send" \/ (pc'[a] = "discharge" /\ ~one)
      /\ one => pc'[a] = "send"
      /\ \A u \in Threads \ {a} : pc'[u] = pc[u] /\ batch'[u] = batch[u]
  BY <1>1, <1>2 DEF ItemDone, Goto, counters, frames, history, queues, Shape
<1>4. /\ \E S : batch[a] \in Seq(S)
      /\ batch[a] # <<>> /\ t \in Of(where, who, "walk", a)
      /\ Lists(Tail(batch[a]), frame, Of(where, who, "ran", a))
  BY <1>1, <1>2, <1>3 DEF HeldBy, Walking
<1>5. t \in Nodes /\ where[t] = "walk" /\ who[t] = a
  BY <1>4 DEF Of
<1>6. PICK where2 : where2 = [where EXCEPT ![t] = "done"]
  OBVIOUS
<1>7. /\ where2 \in [Nodes -> Tags] /\ DOMAIN who = Nodes /\ where2[t] = "done"
      /\ \A n \in Nodes \ {t} : where2[n] = where[n]
  BY <1>1, <1>5, <1>6 DEF Tokens, Tags
<1>8. Moves(where, who, where2, who, a)
  BY <1>5, <1>7 DEF Moves
<1>9. /\ At(where, "pool") \subseteq At(where2, "pool") /\ At(where, "queue") \subseteq At(where2, "queue")
      /\ Of(where, who, "sched", a) \subseteq Of(where2, who, "sched", a)
      /\ Of(where, who, "ran", a) \subseteq Of(where2, who, "ran", a)
  BY <1>5, <1>7 DEF At, Of
<1>10. Gathers(pool', frame, At(where2, "pool"))
  BY <1>1, <1>3, <1>9, GatherWider DEF Tokens
<1>11. Lists(batch_queue', frame, At(where2, "queue"))
  BY <1>1, <1>3, <1>9, ListWider DEF Tokens
<1>12. HeldBy(where2, who, a)'
  <2>1. \A l : Of(where2, who, l, a)' = Of(where2, who, l, a)
    BY <1>3, GraphStays DEF Of
  <2>2. Lists(sched[a], frame, Of(where2, who, "sched", a))
    BY <1>1, <1>9, ListWider DEF HeldBy
  <2>3. Lists(Tail(batch[a]), frame, Of(where2, who, "ran", a))
    BY <1>4, <1>9, ListWider
  <2>4. ~one => Tail(batch[a]) # <<>>
    BY <1>2, <1>4, TailOfMany
  <2>5. a \in Workers => Tail(batch[a]) = <<>>
    <3>1. ASSUME a \in Workers PROVE Tail(batch[a]) = <<>>
      <4>1. PICK j : batch[a] = <<j>>
        BY <1>1, <1>4, <3>1 DEF Shape, WorkerHolds
      <4> QED BY <4>1, TailOfOne
    <3> QED BY <3>1
  <2>6. a \in Workers => pc'[a] \in Inside
    BY <1>3 DEF Inside
  <2>7. pc'[a] \notin Walking /\ pc'[a] \notin Handing /\ pc'[a] \in Needing \cup {"send"}
    BY <1>3 DEF Walking, Handing, Needing
  <2>8. pc'[a] \in Needing => ~one
    BY <1>3 DEF Needing
  <2> QED BY <1>3, <2>1, <2>2, <2>3, <2>4, <2>5, <2>6, <2>7, <2>8 DEF HeldBy
<1>13. WalkedBy(walked, base, a)'
  BY <1>3 DEF WalkedBy
<1>14. \A p \in Packets : where2[p] \in {"new", "ran", "walk", "done"}
  BY <1>1, <1>7, GraphMore DEF Tokens
<1>15. ASSUME NEW p \in Packets, where2[p] = "ran", who[p] = a PROVE HasPacket(a, p)'
  <2>1. p \in Nodes /\ where[p] = "ran" /\ p # t
    BY <1>1, <1>5, <1>7, <1>15, GraphMore
  <2>2. HasPacket(a, p)
    BY <1>1, <1>15, <2>1 DEF Tokens
  <2>3. PICK i \in DOMAIN batch[a] : batch[a][i].task = p
    BY <2>2 DEF HasPacket
  <2>4. PICK S : batch[a] \in Seq(S)
    BY <1>4
  <2>5. i # 1
    BY <1>2, <2>1, <2>3
  <2>6. i - 1 \in DOMAIN Tail(batch[a]) /\ Tail(batch[a])[i - 1] = batch[a][i]
    <3>1. /\ DOMAIN batch[a] = 1 .. Len(batch[a]) /\ Len(batch[a]) \in Nat
          /\ DOMAIN Tail(batch[a]) = 1 .. Len(batch[a]) - 1
          /\ \A k \in 1 .. Len(batch[a]) - 1 : Tail(batch[a])[k] = batch[a][k + 1]
      BY <1>4, <2>4
    <3>2. i - 1 \in 1 .. Len(batch[a]) - 1 /\ (i - 1) + 1 = i
      BY <2>3, <2>5, <3>1
    <3> QED BY <3>1, <3>2
  <2>7. a \in ResThreads'
    BY <1>3, <2>2, GraphStays DEF HasPacket
  <2> QED BY <1>3, <2>3, <2>6, <2>7 DEF HasPacket
<1>16. \A n \in Nodes : /\ Counted(where2, n) <=> Counted(where, n)
                        /\ Early(where2, n) <=> Early(where, n)
                        /\ where[n] = "new" => where2[n] = "new"
  BY <1>5, <1>7 DEF Counted, Early
<1>17. Plain(pc[a]) /\ Plain(pc'[a]) /\ pc'[a] \in Inside /\ pc[a] \in Inside
  BY <1>3 DEF Plain, Critical, Holding, Confirmed, ResetLabels, Opening, Inside
<1>18. Exact(where2, who, walked, base)'
  BY <1>1, <1>3, <1>7, <1>8, <1>10, <1>11, <1>12, <1>13, <1>14, <1>15, <1>16, <1>17, ExactLocal
<1> QED BY <1>18

\* The ready successors go to the scheduler; a worker may keep one in its hands.
LEMMA ExactSend ==
  ASSUME NEW where, NEW who, NEW walked, NEW base, Before(where, who, walked, base),
         NEW a \in Threads, Send(a)
  PROVE  \E where2 : Exact(where2, who, walked, base)'
<1>1. /\ graph \in Graphs /\ Exact(where, who, walked, base) /\ Tokens(where, who)
      /\ Shape /\ generation \in Nat /\ HeldBy(where, who, a)
      /\ Threads = Workers \cup ResThreads /\ Workers \cap ResThreads = {}
  BY GraphFacts DEF Before, GenInv, Exact, Tokens, Threads
<1>2. PICK keep, k, K, s : /\ keep = Keeps(a) /\ k = Last(sched[a]).task
                           /\ K = Of(where, who, "sched", a)
                           /\ s = IF keep THEN Front(sched[a]) ELSE sched[a]
  OBVIOUS
<1>3. /\ UNCHANGED <<graph, frame, completed, prepared, completed_slot, remaining_deps, ran,
                     generation, pending_tasks, pending_cond_tasks, processing_count>>
      /\ UNCHANGED <<batch_queue, todo, slot_gen>>
      /\ pc[a] = "send" /\ sched'[a] = <<>> /\ pool' = pool (+) BagOf(Stamped(s))
      /\ batch'[a] = IF keep THEN <<Kept(a)>> ELSE batch[a]
      /\ pc'[a] = IF a \in ResThreads /\ batch[a] # <<>> THEN "discharge" ELSE "leave"
      /\ \A u \in Threads \ {a} : pc'[u] = pc[u] /\ batch'[u] = batch[u] /\ sched'[u] = sched[u]
  BY <1>1, <1>2 DEF Send, Goto, counters, frames, history, Shape
<1>4. Lists(sched[a], frame, K) /\ (keep => a \in Workers /\ sched[a] # <<>>)
  BY <1>1, <1>2 DEF HeldBy, Keeps
<1>5. keep => /\ k \in K /\ Last(sched[a]).frame = frame
              /\ Lists(Front(sched[a]), frame, K \ {k})
  BY <1>2, <1>4, ListFront
<1>6. PICK L : L = IF keep THEN K \ {k} ELSE K
  OBVIOUS
<1>7. Gathers(BagOf(Stamped(s)), frame, L)
  <2>1. Lists(s, frame, L)
    BY <1>2, <1>4, <1>5, <1>6
  <2> QED BY <2>1, GatherSent
<1>8. PICK where2 : where2 = [n \in Nodes |-> IF n \in L THEN "pool"
                                              ELSE IF keep /\ n = k THEN "hand" ELSE where[n]]
  OBVIOUS
<1>9. L \subseteq K /\ \A n \in K : n \in Nodes /\ where[n] = "sched" /\ who[n] = a
  BY <1>2, <1>6 DEF Of
<1>10. /\ where2 \in [Nodes -> Tags] /\ DOMAIN who = Nodes
       /\ \A n \in L : where2[n] = "pool"
       /\ keep => where2[k] = "hand"
       /\ \A n \in Nodes \ K : where2[n] = where[n]
       /\ \A n \in K : where2[n] \in {"pool", "hand"}
  <2>1. where \in [Nodes -> Tags] /\ DOMAIN who = Nodes
    BY <1>1 DEF Tokens
  <2>2. where2 \in [Nodes -> Tags]
    BY <1>8, <2>1 DEF Tags
  <2> QED BY <1>5, <1>6, <1>8, <1>9, <2>1, <2>2
<1>11. Moves(where, who, where2, who, a)
  BY <1>9, <1>10 DEF Moves
<1>12. Gathers(pool', frame, At(where2, "pool"))
  <2>1. At(where, "pool") \cap L = {}
    BY <1>9 DEF At
  <2>2. Gathers(pool, frame, At(where, "pool"))
    BY <1>1 DEF Tokens
  <2>3. Gathers(pool (+) BagOf(Stamped(s)), frame, At(where, "pool") \cup L)
    BY <1>7, <2>1, <2>2, GatherPut
  <2>4. At(where, "pool") \cup L \subseteq At(where2, "pool")
    BY <1>9, <1>10 DEF At
  <2>5. Gathers(pool (+) BagOf(Stamped(s)), frame, At(where2, "pool"))
    BY <2>3, <2>4, GatherWider
  <2> QED BY <1>3, <2>5
<1>13. Lists(batch_queue', frame, At(where2, "queue"))
  <2>1. At(where, "queue") \subseteq At(where2, "queue")
    BY <1>9, <1>10 DEF At
  <2> QED BY <1>1, <1>3, <2>1, ListWider DEF Tokens
<1>14. Lists(batch[a], frame, Of(where, who, "ran", a))
  BY <1>1, <1>3 DEF HeldBy, Walking, Handing
<1>15. HeldBy(where2, who, a)'
  <2>1. \A l : Of(where2, who, l, a)' = Of(where2, who, l, a)
    BY <1>3, GraphStays DEF Of
  <2>2. Of(where, who, "ran", a) \subseteq Of(where2, who, "ran", a)
    BY <1>9, <1>10 DEF Of
  <2>3. Lists(batch[a], frame, Of(where2, who, "ran", a))
    BY <1>14, <2>2, ListWider
  <2>4. \A M : Lists(<<>>, frame, M)
    BY ListEmpty
  <2>5. keep => Lists(<<Kept(a)>>, frame, Of(where2, who, "hand", a))
    <3>1. Kept(a).task = k /\ Kept(a).frame = Last(sched[a]).frame
      BY <1>2 DEF Kept, Job
    <3>2. keep => k \in Of(where2, who, "hand", a)
      BY <1>5, <1>9, <1>10 DEF Of
    <3> QED BY <1>5, <3>1, <3>2, ListOne
  <2>6. a \in Workers => batch[a] = <<>>
    BY <1>1, <1>3 DEF HeldBy
  <2>7. /\ pc'[a] = "leave" => pc'[a] \in Handing /\ pc'[a] \notin Walking /\ pc'[a] \notin Needing
        /\ pc'[a] = "discharge" => /\ pc'[a] \notin Handing /\ pc'[a] \notin Walking
                                   /\ pc'[a] \in Needing
        /\ pc'[a] \in Inside
    BY <1>3 DEF Handing, Walking, Needing, Inside
  <2>8. CASE a \in Workers
    <3>1. pc'[a] = "leave" /\ a \notin ResThreads
      BY <1>1, <1>3, <2>8
    <3>2. Lists(batch'[a], frame, Of(where2, who, "hand", a))
      BY <1>3, <2>4, <2>5, <2>6, <2>8
    <3>3. ResThreads' = ResThreads
      BY <1>3, GraphStays
    <3> QED BY <1>3, <2>1, <2>4, <2>7, <2>8, <3>1, <3>2, <3>3 DEF HeldBy
  <2>9. CASE a \notin Workers
    <3>1. batch'[a] = batch[a] /\ a \in ResThreads
      BY <1>1, <1>3, <1>4, <2>9
    <3>2. \/ batch[a] # <<>> /\ pc'[a] = "discharge"
          \/ batch[a] = <<>> /\ pc'[a] = "leave"
      BY <1>3, <3>1
    <3>3. CASE batch[a] # <<>> /\ pc'[a] = "discharge"
      BY <1>3, <2>1, <2>3, <2>4, <2>7, <2>9, <3>1, <3>3 DEF HeldBy
    <3>4. CASE batch[a] = <<>> /\ pc'[a] = "leave"
      BY <1>3, <2>1, <2>4, <2>7, <2>9, <3>1, <3>4 DEF HeldBy
    <3> QED BY <3>2, <3>3, <3>4
  <2> QED BY <2>8, <2>9
<1>16. WalkedBy(walked, base, a)'
  BY <1>3 DEF WalkedBy
<1>17. \A p \in Packets : p \in Nodes /\ p \notin K /\ where[p] \in {"new", "ran", "walk", "done"}
  BY <1>1, <1>9, GraphMore DEF Tokens
<1>18. \A p \in Packets : where2[p] \in {"new", "ran", "walk", "done"}
  BY <1>10, <1>17
<1>19. ASSUME NEW p \in Packets, where2[p] = "ran", who[p] = a PROVE HasPacket(a, p)'
  <2>1. HasPacket(a, p)
    BY <1>1, <1>10, <1>17, <1>19 DEF Tokens
  <2>2. a \in ResThreads /\ ~keep
    BY <1>1, <1>4, <2>1 DEF HasPacket
  <2> QED BY <1>3, <2>1, <2>2, GraphStays DEF HasPacket
<1>20. \A n \in Nodes : /\ Counted(where2, n) <=> Counted(where, n)
                        /\ Early(where2, n) <=> Early(where, n)
                        /\ where[n] = "new" => where2[n] = "new"
  BY <1>9, <1>10 DEF Counted, Early
<1>21. Plain(pc[a]) /\ Plain(pc'[a]) /\ pc'[a] \in Inside /\ pc[a] \in Inside
  BY <1>3 DEF Plain, Critical, Holding, Confirmed, ResetLabels, Opening, Inside
<1>22. Exact(where2, who, walked, base)'
  BY <1>1, <1>3, <1>10, <1>11, <1>12, <1>13, <1>15, <1>16, <1>18, <1>19, <1>20, <1>21, ExactLocal
<1> QED BY <1>22

-----------------------------------------------------------------------------
(* Walking an edge *)

\* What the walker of an edge knows: the successor has not started, its entry
\* counts this edge, and if the decrement makes it ready this edge was the last.
EdgeKnown(where, who, walked, base, a, p, t, g, walked2) ==
  /\ p \in Nodes /\ where[p] = "walk" /\ who[p] = a /\ batch[a][1].frame = frame
  /\ t \in Tasks /\ where[t] = "new" /\ t \notin Roots
  /\ g \in Nat /\ base <= g /\ g <= generation
  /\ Unwalked(walked2, t) = Unwalked(walked, t) \ {p}
  /\ \A u : u # t => Unwalked(walked2, u) = Unwalked(walked, u)
  /\ IsFiniteSet(Unwalked(walked2, t))
  /\ Decreased(t, g) \in Nat
  /\ Cardinality(Unwalked(walked2, t)) <= Decreased(t, g)
  /\ FiresReady(t, g) => Unwalked(walked2, t) = {}
  /\ Tail(todo[a]) \in Seq(Tasks) /\ IsInjective(Tail(todo[a]))
  /\ Range(Tail(todo[a])) = Range(todo[a]) \ {t}

LEMMA EdgeFacts ==
  ASSUME NEW where, NEW who, NEW walked, NEW base, Before(where, who, walked, base),
         NEW a \in Threads, pc[a] = "resolve", todo[a] # <<>>,
         NEW p, p = batch[a][1].task, NEW t, t = Head(todo[a]), NEW g, g = slot_gen[a],
         NEW walked2, walked2 = walked \cup {<<p, t>>}
  PROVE  EdgeKnown(where, who, walked, base, a, p, t, g, walked2)
<1>1. /\ graph \in Graphs /\ Exact(where, who, walked, base) /\ Work(where, walked, base)
      /\ HeldBy(where, who, a) /\ WalkedBy(walked, base, a)
      /\ g \in Nat /\ g <= generation /\ generation \in Nat
  BY DEF Before, GenInv, Exact, Tokens, Work
<1>2. p \in Nodes /\ where[p] = "walk" /\ who[p] = a /\ batch[a][1].frame = frame
  BY <1>1 DEF HeldBy, Walking, Of
<1>3. base <= g /\ todo[a] \in Seq(Tasks) /\ IsInjective(todo[a])
  BY <1>1 DEF WalkedBy
<1>4. /\ Tail(todo[a]) \in Seq(Tasks) /\ IsInjective(Tail(todo[a])) /\ t \in Tasks
      /\ t \in Range(todo[a]) /\ Range(Tail(todo[a])) = Range(todo[a]) \ {t}
  BY <1>3, ReceiveInjective
<1>5. t \in Range(Succs[p]) /\ <<p, t>> \notin walked
  BY <1>1, <1>4 DEF WalkedBy
<1>6. p \in Unwalked(walked, t) /\ t \notin Roots
  BY <1>1, <1>2, <1>5, GraphMore DEF Unwalked, Preds
<1>7. where[t] = "new"
  BY <1>1, <1>4, <1>6 DEF Work
<1>8. Unwalked(walked2, t) = Unwalked(walked, t) \ {p}
  BY DEF Unwalked
<1>9. \A u : u # t => Unwalked(walked2, u) = Unwalked(walked, u)
  BY DEF Unwalked
<1> DEFINE U == Unwalked(walked, t)
           U2 == Unwalked(walked2, t)
<1>10. /\ IsFiniteSet(Preds(t)) /\ Cardinality(Preds(t)) \in Nat
       /\ IsFiniteSet(U) /\ Cardinality(U) \in Nat /\ Cardinality(U) <= Cardinality(Preds(t))
  <2>1. IsFiniteSet(Nodes) /\ Preds(t) \subseteq Nodes /\ U \subseteq Preds(t)
    BY <1>1, GraphMore DEF Preds, Unwalked
  <2>2. IsFiniteSet(Preds(t))
    BY <2>1, FS_Subset
  <2> QED BY <2>1, <2>2, FS_Subset, FS_CardinalityType
<1>11. IsFiniteSet(U2) /\ Cardinality(U2) = Cardinality(U) - 1 /\ Cardinality(U) # 0
  <2>1. p \in U /\ U2 = U \ {p}
    BY <1>6, <1>8
  <2> HIDE DEF U, U2
  <2> QED BY <1>10, <2>1, FS_RemoveElement, FS_EmptySet
<1>12. Left(t, g) \in Nat /\ Cardinality(U) <= Left(t, g)
  <2>1. EntryOf(walked, base, t)
    BY <1>1, <1>4 DEF Work
  <2> QED BY <1>3, <1>10, <2>1 DEF Left, EntryOf
<1>13. Decreased(t, g) = Left(t, g) - 1
  <2> HIDE DEF U, U2
  <2>1. Left(t, g) # 0
    BY <1>10, <1>11, <1>12
  <2> QED BY <2>1 DEF Decreased
<1>14. Decreased(t, g) \in Nat /\ Cardinality(U2) <= Decreased(t, g)
  <2> HIDE DEF U, U2
  <2> QED BY <1>10, <1>11, <1>12, <1>13
<1>15. FiresReady(t, g) => U2 = {}
  <2>1. FiresReady(t, g) => Decreased(t, g) = 0
    BY DEF FiresReady
  <2> HIDE DEF U, U2
  <2>2. FiresReady(t, g) => Cardinality(U2) = 0
    BY <1>10, <1>11, <1>14, <2>1
  <2> QED BY <1>11, <2>2, FS_EmptySet
<1> HIDE DEF U, U2
<1>16. IsFiniteSet(U2) /\ Cardinality(U2) <= Decreased(t, g) /\ (FiresReady(t, g) => U2 = {})
  BY <1>11, <1>14, <1>15
<1> QED BY <1>1, <1>2, <1>3, <1>4, <1>6, <1>7, <1>8, <1>9, <1>14, <1>16 DEF EdgeKnown, U2

\* A thread walks the edge from p to t, and leaves l of t's dependencies.
EdgeStep(walked, walked2, a, p, t, g, l) ==
  /\ pc[a] = "resolve" /\ todo[a] # <<>>
  /\ p = batch[a][1].task /\ t = Head(todo[a]) /\ g = slot_gen[a]
  /\ walked2 = walked \cup {<<p, t>>}
  /\ UNCHANGED <<graph, generation, pc, batch, slot_gen>>
  /\ todo' = [todo EXCEPT ![a] = Tail(@)]
  /\ remaining_deps' = [remaining_deps EXCEPT ![t] = [gen |-> g, left |-> l]]

\* The account after an edge was walked.
LEMMA WorkEdge ==
  ASSUME NEW where, NEW who, NEW walked, NEW base, Before(where, who, walked, base),
         NEW a \in Threads, NEW p, NEW t, NEW g, NEW walked2, NEW l \in Nat,
         EdgeStep(walked, walked2, a, p, t, g, l),
         Cardinality(Unwalked(walked2, t)) <= l,
         NEW where2, \A n \in Nodes \ {t} : where2[n] = where[n],
         where2[t] # "new" => Unwalked(walked2, t) = {}
  PROVE  Work(where2, walked2, base)'
<1> USE DEF EdgeStep
<1>1. /\ graph \in Graphs /\ Work(where, walked, base) /\ Tokens(where, who) /\ Shape
      /\ generation \in Nat
  BY DEF Before, GenInv, Exact
<1>2. /\ Threads' = Threads /\ Tasks' = Tasks /\ Nodes' = Nodes /\ Succs' = Succs
      /\ \A u : Preds(u)' = Preds(u)
  BY GraphStays, PredsStay
<1>3. \A u : Unwalked(walked2, u)' = Unwalked(walked2, u)
  BY <1>2 DEF Unwalked
<1>4. /\ p \in Nodes /\ where[p] = "walk" /\ who[p] = a
      /\ t \in Tasks /\ where[t] = "new"
      /\ g \in Nat /\ base <= g /\ g <= generation
      /\ \A u : u # t => Unwalked(walked2, u) = Unwalked(walked, u)
      /\ Tail(todo[a]) \in Seq(Tasks) /\ IsInjective(Tail(todo[a]))
      /\ Range(Tail(todo[a])) = Range(todo[a]) \ {t}
  <2>1. EdgeKnown(where, who, walked, base, a, p, t, g, walked2)
    BY EdgeFacts
  <2> QED BY <2>1 DEF EdgeKnown
<1>5. p # t
  BY <1>4
<1>6. ASSUME NEW q, NEW u, <<q, u>> \in walked2 PROVE q \in Nodes /\ Counted(where2, q)
  <2>1. q \in Nodes /\ Counted(where, q)
    BY <1>1, <1>4, <1>6 DEF Work, Counted
  <2>2. q # t
    BY <1>4, <2>1 DEF Counted
  <2> QED BY <2>1, <2>2 DEF Counted
<1>7. ASSUME NEW u \in Tasks, where2[u] # "new" PROVE Unwalked(walked2, u) = {}
  <2>1. CASE u = t
    BY <1>7, <2>1
  <2>2. CASE u # t
    <3>1. where[u] # "new"
      BY <1>1, <1>7, <2>2, GraphMore
    <3> QED BY <1>1, <1>4, <2>2, <3>1 DEF Work
  <2> QED BY <2>1, <2>2
<1>8. ASSUME NEW u \in Threads PROVE WalkedBy(walked2, base, u)'
  <2>1. CASE u = a
    <3>1. todo'[a] = Tail(todo[a])
      BY <1>1 DEF Shape
    <3>2. WalkedBy(walked, base, a)
      BY <1>1 DEF Work
    <3>3. \A x \in Range(Tail(todo[a])) : x \in Range(Succs[p]) /\ <<p, x>> \notin walked2
      BY <1>4, <3>2 DEF WalkedBy
    <3> QED BY <1>2, <1>4, <2>1, <3>1, <3>2, <3>3 DEF WalkedBy
  <2>2. CASE u # a
    <3>1. todo'[u] = todo[u] /\ WalkedBy(walked, base, u) /\ HeldBy(where, who, u)
      BY <1>1, <2>2 DEF Shape, Work, Tokens
    <3>2. pc[u] \in {"load", "resolve"} => batch[u][1].task # p
      BY <1>4, <2>2, <3>1 DEF HeldBy, Walking, Of
    <3> QED BY <1>2, <3>1, <3>2 DEF WalkedBy
  <2> QED BY <2>1, <2>2
<1>9. DOMAIN remaining_deps = Tasks /\ DOMAIN remaining_deps' = Tasks
  BY <1>1 DEF Work
<1>10. ASSUME NEW u \in Tasks PROVE EntryOf(walked2, base, u)'
  <2>1. EntryOf(walked, base, u)
    BY <1>1 DEF Work
  <2>2. CASE u = t
    <3>1. remaining_deps'[u].gen = g /\ remaining_deps'[u].left = l
      BY <1>9, <2>2
    <3> QED BY <1>3, <1>4, <2>2, <3>1 DEF EntryOf
  <2>3. CASE u # t
    <3>1. remaining_deps'[u] = remaining_deps[u]
      BY <1>9, <2>3
    <3> QED BY <1>3, <1>4, <2>1, <2>3, <3>1 DEF EntryOf
  <2> QED BY <2>2, <2>3
<1>11. base \in Nat /\ base <= generation'
  BY <1>1 DEF Work
<1> QED BY <1>2, <1>3, <1>6, <1>7, <1>8, <1>9, <1>10, <1>11 DEF Work

\* What holds after every edge: nothing but the successor moves.
LEMMA EdgeKept ==
  ASSUME NEW where, NEW who, NEW walked, NEW base, Before(where, who, walked, base),
         NEW a \in Threads, pc[a] = "resolve", todo[a] # <<>>,
         NEW t, t = Head(todo[a]),
         UNCHANGED <<graph, frame, completed, prepared, completed_slot, generation, ran,
                     pool, batch_queue>>,
         UNCHANGED <<pc, batch>>,
         NEW where2 \in [Nodes -> Tags], NEW who2, DOMAIN who2 = Nodes,
         \A n \in Nodes \ {t} : where2[n] = where[n] /\ who2[n] = who[n],
         \/ where2[t] = where[t] /\ who2[t] = who[t] /\ sched' = sched
         \/ where2[t] = "done" /\ t \in Cond /\ sched' = sched
         \/ /\ where2[t] = "sched" /\ who2[t] = a
            /\ sched' = [sched EXCEPT ![a] = Append(@, Ready(a, t))]
  PROVE  Tokens(where2, who2)' /\ Recorded(where2)' /\ Control' /\ Known(where2)'
<1>1. /\ graph \in Graphs /\ Exact(where, who, walked, base) /\ Tokens(where, who)
      /\ Recorded(where) /\ Control /\ Known(where)
      /\ Shape /\ HeldBy(where, who, a)
  BY DEF Before, GenInv, Exact, Tokens
<1>2. PICK p, g, walked2 : p = batch[a][1].task /\ g = slot_gen[a] /\ walked2 = walked \cup {<<p, t>>}
  OBVIOUS
<1>3. /\ p \in Nodes /\ where[p] = "walk" /\ who[p] = a /\ batch[a][1].frame = frame
      /\ t \in Tasks /\ where[t] = "new" /\ t \notin Roots
  <2>1. EdgeKnown(where, who, walked, base, a, p, t, g, walked2)
    BY <1>2, EdgeFacts
  <2> QED BY <2>1 DEF EdgeKnown
<1>4. t \in Nodes /\ t \notin Packets /\ Roots \subseteq Nodes /\ Packets \subseteq Nodes
  BY <1>1, <1>3, GraphMore, GraphFacts
<1>5. frame # NoFrame /\ ~Open /\ frame \in Frames
  BY <1>1, <1>3, Busy
<1>6. PlainThreads
  BY DEF PlainThreads
<1>7. Control' /\ (Open' <=> Open)
  BY <1>1, <1>6, ControlKept
<1>8. Known(where2)'
  <2>1. \A n \in Nodes : Counted(where, n) => Counted(where2, n)
    BY <1>3 DEF Counted
  <2>2. \A n \in Roots : where[n] = "new" => where2[n] = "new"
    BY <1>3, <1>4
  <2> QED BY <1>1, <1>5, <1>6, <1>7, <2>1, <2>2, KnownKept
<1>9. Recorded(where2)'
  <2>1. \A n \in Nodes : /\ Early(where2, n) => Early(where, n)
                         /\ ~Early(where2, n) /\ n \notin Cond => ~Early(where, n)
    BY <1>3 DEF Early
  <2>2. /\ Nodes' = Nodes /\ Cond' = Cond /\ Tasks' = Tasks /\ Packets' = Packets
        /\ \A u : Preds(u)' = Preds(u)
    BY GraphStays, PredsStay
  <2>3. \A n : Early(where2, n)' <=> Early(where2, n)
    BY <2>2 DEF Early
  <2> QED BY <1>1, <1>7, <2>1, <2>2, <2>3 DEF Recorded
<1>10. Tokens(where2, who2)'
  <2>1. Moves(where, who, where2, who2, a)
    BY <1>3 DEF Moves
  <2>2. /\ At(where, "pool") \subseteq At(where2, "pool") /\ At(where, "queue") \subseteq At(where2, "queue")
        /\ \A l \in {"sched", "walk", "ran"} : Of(where, who, l, a) \subseteq Of(where2, who2, l, a)
    BY <1>3 DEF At, Of
  <2>3. Gathers(pool', frame, At(where2, "pool"))
    BY <1>1, <2>2, GatherWider DEF Tokens
  <2>4. Lists(batch_queue', frame, At(where2, "queue"))
    BY <1>1, <2>2, ListWider DEF Tokens
  <2>5. Lists(sched'[a], frame, Of(where2, who2, "sched", a))
    <3>1. Lists(sched[a], frame, Of(where, who, "sched", a))
      BY <1>1 DEF HeldBy
    <3>2. Of(where, who, "sched", a) \subseteq Of(where2, who2, "sched", a)
      BY <2>2
    <3>3. CASE sched' = sched
      BY <3>1, <3>2, <3>3, ListWider
    <3>4. CASE /\ where2[t] = "sched" /\ who2[t] = a
               /\ sched' = [sched EXCEPT ![a] = Append(@, Ready(a, t))]
      <4>1. sched'[a] = Append(sched[a], Ready(a, t))
        BY <1>1, <3>4 DEF Shape
      <4>2. t \in Of(where2, who2, "sched", a) \ Of(where, who, "sched", a)
        BY <1>3, <1>4, <3>4 DEF Of
      <4>3. Ready(a, t).task = t /\ Ready(a, t).frame = frame
        BY <1>3 DEF Ready
      <4>4. Lists(Append(sched[a], Ready(a, t)), frame, Of(where2, who2, "sched", a))
        BY <3>1, <3>2, <4>2, <4>3, ListAppend
      <4> QED BY <4>1, <4>4
    <3> QED BY <3>3, <3>4
  <2>6. HeldBy(where2, who2, a)'
    <3>1. \A l : Of(where2, who2, l, a)' = Of(where2, who2, l, a)
      BY GraphStays DEF Of
    <3>2. Lists(Tail(batch[a]), frame, Of(where2, who2, "ran", a))
      <4>1. Lists(Tail(batch[a]), frame, Of(where, who, "ran", a))
        BY <1>1 DEF HeldBy, Walking
      <4>2. Of(where, who, "ran", a) \subseteq Of(where2, who2, "ran", a)
        BY <2>2
      <4> QED BY <4>1, <4>2, ListWider
    <3>3. p \in Of(where2, who2, "walk", a)
      BY <1>3, <2>2 DEF Of
    <3>4. (\E S : batch[a] \in Seq(S)) /\ batch[a] # <<>>
      BY <1>1 DEF HeldBy, Walking
    <3>5. pc[a] \in Walking /\ pc[a] \notin Handing /\ pc[a] \in Inside /\ pc[a] \in Needing
      BY DEF Walking, Handing, Inside, Needing
    <3> QED BY <1>2, <1>3, <2>5, <3>1, <3>2, <3>3, <3>4, <3>5 DEF HeldBy
  <2>7. \A q \in Packets : where2[q] = where[q] /\ who2[q] = who[q]
    BY <1>4
  <2>8. \A q \in Packets : where2[q] \in {"new", "ran", "walk", "done"}
    BY <1>1, <2>7 DEF Tokens
  <2>9. \A q \in Packets : where2[q] = "ran" /\ who2[q] = a => HasPacket(a, q)'
    BY <1>1, <2>7, GraphStays DEF Tokens, HasPacket
  <2>10. \A u \in Threads \ {a} : pc'[u] = pc[u] /\ batch'[u] = batch[u] /\ sched'[u] = sched[u]
    BY <1>1 DEF Shape
  <2> QED BY <1>1, <2>1, <2>3, <2>4, <2>6, <2>8, <2>9, <2>10, TokensStep
<1> QED BY <1>7, <1>8, <1>9, <1>10

LEMMA ExactResolveEdge ==
  ASSUME NEW where, NEW who, NEW walked, NEW base, Before(where, who, walked, base),
         NEW a \in Threads, ResolveEdge(a) \/ ConditionPasses(a) \/ ConditionFails(a)
  PROVE  \E where2, who2, walked2 : Exact(where2, who2, walked2, base)'
<1>1. /\ graph \in Graphs /\ Exact(where, who, walked, base) /\ Tokens(where, who) /\ Counters(where)
      /\ Shape
  BY DEF Before, GenInv, Exact
<1>2. PICK p, t, g, walked2 : /\ p = batch[a][1].task /\ t = Head(todo[a]) /\ g = slot_gen[a]
                              /\ walked2 = walked \cup {<<p, t>>}
  OBVIOUS
<1>3. PICK fires, l : /\ fires = FiresReady(t, g)
                      /\ l = IF ConditionFails(a) THEN 1
                             ELSE IF ConditionPasses(a) THEN 0 ELSE Decreased(t, g)
  OBVIOUS
<1>4. /\ pc[a] = "resolve" /\ todo[a] # <<>>
      /\ UNCHANGED <<graph, frame, completed, prepared, completed_slot, generation, ran,
                     pool, batch_queue, pending_tasks, processing_count>>
      /\ UNCHANGED <<pc, batch, slot_gen>>
      /\ todo' = [todo EXCEPT ![a] = Tail(@)]
  BY DEF ResolveEdge, ConditionPasses, ConditionFails, counters, frames, history, queues
<1>5. /\ p \in Nodes /\ where[p] = "walk"
      /\ t \in Tasks /\ where[t] = "new"
      /\ IsFiniteSet(Unwalked(walked2, t))
      /\ Decreased(t, g) \in Nat
      /\ Cardinality(Unwalked(walked2, t)) <= Decreased(t, g)
      /\ fires => Unwalked(walked2, t) = {}
  <2>1. EdgeKnown(where, who, walked, base, a, p, t, g, walked2)
    BY <1>2, <1>4, EdgeFacts
  <2> QED BY <1>3, <2>1 DEF EdgeKnown
<1>6. /\ ConditionPasses(a) \/ ConditionFails(a) => fires /\ t \in Cond
      /\ remaining_deps' = [remaining_deps EXCEPT ![t] = [gen |-> g, left |-> l]]
  <2>1. CASE ConditionFails(a)
    BY <1>2, <1>3, <2>1 DEF ConditionFails, ConditionPasses, Evaluates
  <2>2. CASE ~ConditionFails(a) /\ ConditionPasses(a)
    BY <1>2, <1>3, <2>2 DEF ConditionPasses, Evaluates
  <2>3. CASE ~ConditionFails(a) /\ ~ConditionPasses(a)
    BY <1>2, <1>3, <2>3 DEF ResolveEdge
  <2> QED BY <2>1, <2>2, <2>3
<1>7. l \in Nat /\ Cardinality(Unwalked(walked2, t)) <= l
  <2>1. fires => Cardinality(Unwalked(walked2, t)) = 0
    BY <1>5, FS_EmptySet
  <2> QED BY <1>3, <1>5, <1>6, <2>1
<1>8. PICK where2, who2 :
        /\ where2 = IF fires THEN [where EXCEPT ![t] = IF ConditionFails(a) THEN "done" ELSE "sched"]
                    ELSE where
        /\ who2 = IF fires THEN [who EXCEPT ![t] = a] ELSE who
  OBVIOUS
<1>9. t \in Nodes
  BY <1>1, <1>5, GraphMore
<1>10. /\ where2 \in [Nodes -> Tags] /\ DOMAIN who2 = Nodes
       /\ \A n \in Nodes \ {t} : where2[n] = where[n] /\ who2[n] = who[n]
       /\ ~fires => where2[t] = where[t] /\ who2[t] = who[t]
       /\ fires => where2[t] = (IF ConditionFails(a) THEN "done" ELSE "sched") /\ who2[t] = a
  <2>1. where \in [Nodes -> Tags] /\ DOMAIN who = Nodes
    BY <1>1 DEF Tokens
  <2> QED BY <1>8, <1>9, <2>1 DEF Tags
<1>11. Work(where2, walked2, base)'
  <2>1. where2[t] # "new" => Unwalked(walked2, t) = {}
    BY <1>5, <1>10
  <2>2. \A n \in Nodes \ {t} : where2[n] = where[n]
    BY <1>10
  <2>3. EdgeStep(walked, walked2, a, p, t, g, l)
    BY <1>2, <1>4, <1>6 DEF EdgeStep
  <2> QED BY <1>7, <2>1, <2>2, <2>3, WorkEdge
<1>12. \/ where2[t] = where[t] /\ who2[t] = who[t] /\ sched' = sched
       \/ where2[t] = "done" /\ t \in Cond /\ sched' = sched
       \/ /\ where2[t] = "sched" /\ who2[t] = a
          /\ sched' = [sched EXCEPT ![a] = Append(@, Ready(a, t))]
  <2>1. CASE ConditionFails(a)
    BY <1>6, <1>10, <2>1 DEF ConditionFails
  <2>2. CASE ~ConditionFails(a) /\ ConditionPasses(a)
    BY <1>2, <1>6, <1>10, <2>2 DEF ConditionPasses
  <2>3. CASE ~ConditionFails(a) /\ ~ConditionPasses(a)
    BY <1>2, <1>3, <1>10, <2>3 DEF ResolveEdge
  <2> QED BY <2>1, <2>2, <2>3
<1>13. Tokens(where2, who2)' /\ Recorded(where2)' /\ Control' /\ Known(where2)'
  BY <1>2, <1>4, <1>10, <1>12, EdgeKept
<1>14. Counters(where2)'
  <2>1. \A u \in Threads : pc'[u] \in Inside <=> pc[u] \in Inside
    BY <1>4
  <2>2. CASE ConditionFails(a)
    <3>1. /\ ~Counted(where, t) /\ Counted(where2, t) /\ t \in Cond
          /\ \A n \in Nodes \ {t} : Counted(where2, n) <=> Counted(where, n)
      BY <1>5, <1>6, <1>10, <2>2 DEF Counted
    <3>2. pending_cond_tasks' = pending_cond_tasks - 1
      BY <2>2 DEF ConditionFails
    <3>3. \A r \in ResThreads : pc[r] \notin Unset \cup {"reset_cond"}
      BY <1>1, <1>5, Busy
    <3> QED BY <1>1, <1>4, <1>9, <2>1, <3>1, <3>2, <3>3, CountersOff
  <2>3. CASE ~ConditionFails(a)
    <3>1. \A n \in Nodes : Counted(where2, n) <=> Counted(where, n)
      BY <1>5, <1>10, <2>3 DEF Counted
    <3>2. UNCHANGED pending_cond_tasks
      BY <2>3 DEF ResolveEdge, ConditionPasses, counters
    <3> QED BY <1>1, <1>4, <2>1, <3>1, <3>2, CountersKept
  <2> QED BY <2>2, <2>3
<1>15. Exact(where2, who2, walked2, base)'
  BY <1>11, <1>13, <1>14 DEF Exact
<1> QED BY <1>15

-----------------------------------------------------------------------------
(* The loop of a resolution thread *)

\* A thread at the top of its loop has nothing in its hands.
LEMMA LoopHands ==
  ASSUME NEW where, NEW who, NEW walked, NEW base, Before(where, who, walked, base),
         NEW r \in ResThreads, pc[r] \notin Needing \cup Opening \cup {"send"}
  PROVE  batch[r] = <<>> /\ \A p \in Packets : ~(where[p] = "ran" /\ who[p] = r)
<1>1. Tokens(where, who) /\ HeldBy(where, who, r)
  BY GraphFacts DEF Before, Exact, Tokens
<1>2. batch[r] = <<>> /\ DOMAIN <<>> = {}
  BY <1>1 DEF HeldBy
<1> QED BY <1>1, <1>2 DEF Tokens, HasPacket

LEMMA ExactDrain ==
  ASSUME NEW where, NEW who, NEW walked, NEW base, Before(where, who, walked, base),
         NEW r \in ResThreads, Drain(r)
  PROVE  \E where2, who2 : Exact(where2, who2, walked, base)'
<1>1. /\ graph \in Graphs /\ Exact(where, who, walked, base) /\ Tokens(where, who)
      /\ Shape /\ generation \in Nat /\ r \in Threads /\ HeldBy(where, who, r) /\ r \notin Workers
  BY GraphFacts DEF Before, GenInv, Exact, Tokens
<1>2. PICK k \in 1 .. BatchSize :
        /\ k <= Len(batch_queue)
        /\ batch_queue' = SubSeq(batch_queue, k + 1, Len(batch_queue))
        /\ batch' = [batch EXCEPT ![r] = Filtered(k)]
        /\ pc' = [pc EXCEPT ![r] = IF Filtered(k) = <<>> THEN "idle" ELSE "enter"]
  BY DEF Drain, Goto
<1>3. /\ UNCHANGED <<graph, frame, completed, prepared, completed_slot, remaining_deps, ran,
                     generation, pending_tasks, pending_cond_tasks, processing_count>>
      /\ UNCHANGED <<pool, todo, slot_gen, sched>> /\ pc[r] = "idle"
  BY DEF Drain, Looping, counters, frames, history
<1>4. Lists(batch_queue, frame, At(where, "queue"))
  BY <1>1 DEF Tokens
<1>5. k \in 1 .. Len(batch_queue) /\ DOMAIN batch_queue = 1 .. Len(batch_queue)
  <2>1. PICK S : batch_queue \in Seq(S)
    BY <1>4 DEF Lists
  <2>2. Len(batch_queue) \in Nat /\ DOMAIN batch_queue = 1 .. Len(batch_queue)
    BY <2>1
  <2> QED BY <1>2, <2>2, FrameLifecycleAssumption
<1>6. PICK M, N : /\ M = {batch_queue[i].task : i \in FreshAmong(k)}
                  /\ N = {batch_queue[i].task : i \in 1 .. k}
  OBVIOUS
<1>7. M \subseteq N /\ \A n \in N : n \in Nodes /\ where[n] = "queue"
  <2>1. \A i \in 1 .. k : i \in DOMAIN batch_queue
    BY <1>5
  <2>2. \A i \in 1 .. k : batch_queue[i].task \in At(where, "queue")
    BY <1>4, <2>1 DEF Lists
  <2>3. FreshAmong(k) \subseteq 1 .. k
    BY DEF FreshAmong
  <2> QED BY <1>6, <2>2, <2>3 DEF At
<1>8. Lists(Filtered(k), frame, M)
  BY <1>4, <1>5, <1>6, ListFilter
<1>9. Lists(batch_queue', frame, At(where, "queue") \ N)
  <2>1. Lists(SubSeq(batch_queue, k + 1, Len(batch_queue)), frame, At(where, "queue") \ N)
    BY <1>4, <1>5, <1>6, ListRest
  <2> QED BY <1>2, <2>1
<1>10. PICK where2, who2 : /\ where2 = [n \in Nodes |-> IF n \in M THEN "ran" ELSE where[n]]
                           /\ who2 = [n \in Nodes |-> IF n \in M THEN r ELSE who[n]]
  OBVIOUS
<1>11. /\ where2 \in [Nodes -> Tags] /\ DOMAIN who2 = Nodes
       /\ \A n \in M : where2[n] = "ran" /\ who2[n] = r
       /\ \A n \in Nodes \ M : where2[n] = where[n] /\ who2[n] = who[n]
  <2>1. where \in [Nodes -> Tags]
    BY <1>1 DEF Tokens
  <2> QED BY <1>7, <1>10, <2>1 DEF Tags
<1>12. Moves(where, who, where2, who2, r)
  BY <1>7, <1>11 DEF Moves
<1>13. Gathers(pool', frame, At(where2, "pool"))
  <2>1. At(where, "pool") \subseteq At(where2, "pool")
    BY <1>7, <1>11 DEF At
  <2> QED BY <1>1, <1>3, <2>1, GatherWider DEF Tokens
<1>14. Lists(batch_queue', frame, At(where2, "queue"))
  <2>1. At(where, "queue") \ N \subseteq At(where2, "queue")
    BY <1>7, <1>11 DEF At
  <2> QED BY <1>9, <2>1, ListWider
<1>15. batch'[r] = Filtered(k) /\ pc'[r] = IF Filtered(k) = <<>> THEN "idle" ELSE "enter"
  BY <1>1, <1>2 DEF Shape
<1>16. \A u \in Threads \ {r} : pc'[u] = pc[u] /\ batch'[u] = batch[u]
  BY <1>1, <1>2 DEF Shape
<1>17. HeldBy(where2, who2, r)'
  <2>1. \A l : Of(where2, who2, l, r)' = Of(where2, who2, l, r)
    BY <1>3, GraphStays DEF Of
  <2>2. /\ Of(where, who, "sched", r) \subseteq Of(where2, who2, "sched", r)
        /\ M \subseteq Of(where2, who2, "ran", r)
    BY <1>7, <1>11 DEF Of
  <2>3. Lists(sched[r], frame, Of(where2, who2, "sched", r))
    BY <1>1, <2>2, ListWider DEF HeldBy
  <2>4. Lists(Filtered(k), frame, Of(where2, who2, "ran", r))
    BY <1>8, <2>2, ListWider
  <2>5. /\ pc'[r] \notin Walking /\ pc'[r] \notin Handing /\ pc'[r] # "send"
        /\ pc'[r] \in Needing => Filtered(k) # <<>>
        /\ pc'[r] \notin Needing => Filtered(k) = <<>>
    BY <1>15 DEF Walking, Handing, Needing
  <2> QED BY <1>1, <1>3, <1>15, <2>1, <2>3, <2>4, <2>5 DEF HeldBy
<1>18. WalkedBy(walked, base, r)'
  BY <1>15 DEF WalkedBy
<1>19. \A p \in Packets : /\ where2[p] \in {"new", "ran", "walk", "done"}
                          /\ ~(where2[p] = "ran" /\ who2[p] = r)
  <2>1. \A p \in Packets : p \in Nodes \ M
    BY <1>1, <1>7, GraphMore DEF Tokens
  <2>2. pc[r] \notin Needing \cup Opening \cup {"send"}
    BY <1>3 DEF Needing, Opening
  <2>3. \A p \in Packets : ~(where[p] = "ran" /\ who[p] = r)
    BY <2>2, LoopHands
  <2> QED BY <1>1, <1>11, <2>1, <2>3 DEF Tokens
<1>20. \A n \in Nodes : /\ Counted(where2, n) <=> Counted(where, n)
                        /\ Early(where2, n) <=> Early(where, n)
                        /\ where[n] = "new" => where2[n] = "new"
  <2>1. \A n \in M : n \notin Packets
    BY <1>1, <1>7 DEF Tokens
  <2> QED BY <1>7, <1>11, <2>1 DEF Counted, Early
<1>21. Plain(pc[r]) /\ Plain(pc'[r]) /\ pc'[r] \notin Inside /\ pc[r] \notin Inside
  BY <1>3, <1>15 DEF Plain, Critical, Holding, Confirmed, ResetLabels, Opening, Inside
<1>22. Exact(where2, who2, walked, base)'
  BY <1>1, <1>3, <1>11, <1>12, <1>13, <1>14, <1>16, <1>17, <1>18, <1>19, <1>20, <1>21, ExactLocal
<1> QED BY <1>22

\* The look at needs_check, and the first loads of the counters.
LEMMA ExactCheck ==
  ASSUME NEW where, NEW who, NEW walked, NEW base, Before(where, who, walked, base),
         NEW r \in ResThreads,
         \/ CheckSwap(r)
         \/ LoadCounter(r) /\ pc[r] \in {"load_pending", "load_cond", "load_proc"}
  PROVE  Exact(where, who, walked, base)'
<1>1. /\ graph \in Graphs /\ Exact(where, who, walked, base)
      /\ Shape /\ generation \in Nat /\ r \in Threads /\ HeldBy(where, who, r) /\ r \notin Workers
  BY GraphFacts DEF Before, GenInv, Exact, Tokens
<1>2. /\ UNCHANGED <<graph, frame, completed, prepared, completed_slot, remaining_deps, ran,
                     generation, pending_tasks, pending_cond_tasks, processing_count,
                     pool, batch_queue, todo, slot_gen, sched, batch>>
      /\ \A u \in Threads \ {r} : pc'[u] = pc[u]
  BY <1>1 DEF CheckSwap, LoadCounter, Goto, counters, frames, history, locals, queues, Shape
<1>3. /\ pc[r] \in {"idle", "load_pending", "load_cond", "load_proc"}
      /\ pc'[r] \in {"idle", "load_pending", "load_cond", "load_proc", "try_complete"}
  BY <1>1, NextLoads DEF CheckSwap, LoadCounter, Looping, Goto, Shape
<1>4. HeldBy(where, who, r)'
  <2>1. pc[r] \notin Needing \cup Opening \cup {"send"} /\ pc'[r] \notin Needing
    BY <1>3 DEF Needing, Opening
  <2>2. batch[r] = <<>>
    BY <2>1, LoopHands
  <2> QED BY <1>1, <1>2, <2>1, <2>2, HeldByNothing
<1>5. WalkedBy(walked, base, r)'
  BY <1>3 DEF WalkedBy
<1>6. Plain(pc[r]) /\ Plain(pc'[r]) /\ pc'[r] \notin Inside /\ pc[r] \notin Inside
  BY <1>3 DEF Plain, Critical, Holding, Confirmed, ResetLabels, Opening, Inside
<1> QED BY <1>1, <1>2, <1>4, <1>5, <1>6, ExactKept

-----------------------------------------------------------------------------
(* Packets, and the start of a frame *)

LEMMA BatchFrame ==
  ASSUME NEW where, NEW who, NEW a, HeldBy(where, who, a), NEW i \in DOMAIN batch[a]
  PROVE  batch[a][i].frame = frame
<1>1. CASE pc[a] \notin Walking
  BY <1>1 DEF HeldBy, Lists
<1>2. CASE pc[a] \in Walking
  <2>1. PICK S : batch[a] \in Seq(S)
    BY <1>2 DEF HeldBy
  <2>2. batch[a] # <<>> /\ batch[a][1].frame = frame /\ \A k \in DOMAIN Tail(batch[a]) : Tail(batch[a])[k].frame = frame
    BY <1>2 DEF HeldBy, Lists
  <2>3. /\ DOMAIN batch[a] = 1 .. Len(batch[a]) /\ Len(batch[a]) \in Nat
        /\ DOMAIN Tail(batch[a]) = 1 .. Len(batch[a]) - 1
        /\ \A k \in 1 .. Len(batch[a]) - 1 : Tail(batch[a])[k] = batch[a][k + 1]
    BY <2>1, <2>2
  <2>4. CASE i = 1
    BY <2>2, <2>4
  <2>5. CASE i # 1
    <3>1. i - 1 \in 1 .. Len(batch[a]) - 1 /\ (i - 1) + 1 = i
      BY <2>3, <2>5
    <3> QED BY <2>2, <2>3, <3>1
  <2> QED BY <2>4, <2>5
<1> QED BY <1>1, <1>2

\* A packet that is neither stored nor in a thread's hands is new.
LEMMA NotDelivered ==
  ASSUME NEW where, NEW who, NEW walked, NEW base, Before(where, who, walked, base),
         NEW p \in Packets, ~Delivered(p), frame # NoFrame
  PROVE  where[p] = "new" /\ ~Open
<1>1. /\ graph \in Graphs /\ Tokens(where, who) /\ Recorded(where)
      /\ p \in Nodes /\ p \notin Cond /\ ResThreads \subseteq Threads
  BY GraphMore DEF Before, Exact
<1>2. ran[<<frame, p>>] # 1
  BY DEF Delivered
<1>3. ~Open /\ Early(where, p)
  BY <1>1, <1>2 DEF Recorded
<1>4. where[p] \in {"new", "ran", "walk", "done"} /\ where[p] \notin {"walk", "done"}
  BY <1>1, <1>3 DEF Tokens, Early
<1>5. ASSUME where[p] = "ran" PROVE FALSE
  <2>1. HasPacket(who[p], p)
    BY <1>1, <1>5 DEF Tokens
  <2>2. PICK a \in ResThreads : \E i \in DOMAIN batch[a] : batch[a][i].task = p
    BY <2>1 DEF HasPacket
  <2>3. PICK i \in DOMAIN batch[a] : batch[a][i].task = p
    BY <2>2
  <2>4. HeldBy(where, who, a)
    BY <1>1 DEF Tokens
  <2>5. batch[a][i].frame = frame
    BY <2>4, BatchFrame
  <2> QED BY <2>3, <2>5 DEF Delivered
<1> QED BY <1>3, <1>4, <1>5

LEMMA ExactAdmitHit ==
  ASSUME NEW where, NEW who, NEW walked, NEW base, Before(where, who, walked, base),
         NEW r \in ResThreads, NEW p \in Packets, AdmitHit(r, p)
  PROVE  \E where2, who2 : Exact(where2, who2, walked, base)'
<1>1. /\ graph \in Graphs /\ Exact(where, who, walked, base) /\ Tokens(where, who)
      /\ Shape /\ generation \in Nat /\ r \in Threads /\ HeldBy(where, who, r) /\ r \notin Workers
      /\ p \in Nodes /\ Packets \subseteq Nodes
  BY GraphFacts, GraphMore DEF Before, GenInv, Exact, Tokens
<1>2. PICK j : j = Job(p, 0, frame)
  OBVIOUS
<1>3. /\ UNCHANGED <<graph, frame, completed, prepared, completed_slot, remaining_deps, ran,
                     generation, pending_tasks, pending_cond_tasks, processing_count>>
      /\ UNCHANGED <<pool, batch_queue, todo, slot_gen, sched>>
      /\ pc[r] \in {"idle", "admit"} /\ pc'[r] = "admit" /\ batch'[r] = Append(batch[r], j)
      /\ \A u \in Threads \ {r} : pc'[u] = pc[u] /\ batch'[u] = batch[u]
      /\ frame # NoFrame /\ ~Delivered(p)
  BY <1>1, <1>2 DEF AdmitHit, Looping, Goto, counters, frames, history, queues, Shape
<1>4. where[p] = "new" /\ ~Open
  BY <1>3, NotDelivered
<1>5. j.task = p /\ j.frame = frame
  BY <1>2 DEF Job
<1>6. PICK where2, who2 : where2 = [where EXCEPT ![p] = "ran"] /\ who2 = [who EXCEPT ![p] = r]
  OBVIOUS
<1>7. /\ where2 \in [Nodes -> Tags] /\ DOMAIN who2 = Nodes
      /\ where2[p] = "ran" /\ who2[p] = r
      /\ \A n \in Nodes \ {p} : where2[n] = where[n] /\ who2[n] = who[n]
  BY <1>1, <1>6 DEF Tokens, Tags
<1>8. Moves(where, who, where2, who2, r)
  BY <1>4, <1>7 DEF Moves
<1>9. /\ At(where, "pool") \subseteq At(where2, "pool") /\ At(where, "queue") \subseteq At(where2, "queue")
      /\ Of(where, who, "sched", r) \subseteq Of(where2, who2, "sched", r)
      /\ Of(where, who, "ran", r) \subseteq Of(where2, who2, "ran", r)
      /\ p \in Of(where2, who2, "ran", r) \ Of(where, who, "ran", r)
  BY <1>1, <1>4, <1>7 DEF At, Of
<1>10. Gathers(pool', frame, At(where2, "pool"))
  BY <1>1, <1>3, <1>9, GatherWider DEF Tokens
<1>11. Lists(batch_queue', frame, At(where2, "queue"))
  BY <1>1, <1>3, <1>9, ListWider DEF Tokens
<1>12. Lists(batch[r], frame, Of(where, who, "ran", r))
  BY <1>1, <1>3 DEF HeldBy, Walking, Handing
<1>13. HeldBy(where2, who2, r)'
  <2>1. \A l : Of(where2, who2, l, r)' = Of(where2, who2, l, r)
    BY <1>3, GraphStays DEF Of
  <2>2. Lists(sched[r], frame, Of(where2, who2, "sched", r))
    BY <1>1, <1>9, ListWider DEF HeldBy
  <2>3. Lists(Append(batch[r], j), frame, Of(where2, who2, "ran", r))
    BY <1>5, <1>9, <1>12, ListAppend
  <2>4. Append(batch[r], j) # <<>>
    <3>1. PICK S : batch[r] \in Seq(S)
      BY <1>12 DEF Lists
    <3>2. batch[r] \in Seq(S \cup {j})
      BY <3>1, WiderSeq
    <3> QED BY <3>2, AppendSome
  <2>5. pc'[r] \notin Walking /\ pc'[r] \notin Handing /\ pc'[r] \in Needing
    BY <1>3 DEF Walking, Handing, Needing
  <2> QED BY <1>1, <1>3, <2>1, <2>2, <2>3, <2>4, <2>5 DEF HeldBy
<1>14. WalkedBy(walked, base, r)'
  BY <1>3 DEF WalkedBy
<1>15. \A q \in Packets : where2[q] \in {"new", "ran", "walk", "done"}
  BY <1>1, <1>7 DEF Tokens
<1>16. ASSUME NEW q \in Packets, where2[q] = "ran", who2[q] = r PROVE HasPacket(r, q)'
  <2>1. PICK S : batch[r] \in Seq(S)
    BY <1>12 DEF Lists
  <2>2. batch[r] \in Seq(S \cup {j})
    BY <2>1, WiderSeq
  <2>3. /\ DOMAIN batch[r] = 1 .. Len(batch[r]) /\ Len(batch[r]) \in Nat
        /\ DOMAIN Append(batch[r], j) = 1 .. Len(batch[r]) + 1
        /\ Append(batch[r], j)[Len(batch[r]) + 1] = j
        /\ \A i \in 1 .. Len(batch[r]) : Append(batch[r], j)[i] = batch[r][i]
    BY <2>2
  <2>4. r \in ResThreads'
    BY <1>3, GraphStays
  <2>5. CASE q = p
    <3>1. Len(batch[r]) + 1 \in DOMAIN batch'[r] /\ batch'[r][Len(batch[r]) + 1].task = q
      BY <1>3, <1>5, <2>3, <2>5
    <3> QED BY <2>4, <3>1 DEF HasPacket
  <2>6. CASE q # p
    <3>1. HasPacket(r, q)
      BY <1>1, <1>7, <1>16, <2>6 DEF Tokens
    <3>2. PICK i \in DOMAIN batch[r] : batch[r][i].task = q
      BY <3>1 DEF HasPacket
    <3>3. i \in DOMAIN batch'[r] /\ batch'[r][i].task = q
      BY <1>3, <2>3, <3>2
    <3> QED BY <2>4, <3>3 DEF HasPacket
  <2> QED BY <2>5, <2>6
<1>17. \A n \in Nodes : /\ Counted(where2, n) <=> Counted(where, n)
                        /\ Early(where2, n) <=> Early(where, n)
                        /\ where[n] = "new" /\ where2[n] # "new" =>
                             n \in Packets /\ frame # NoFrame /\ ~Open
  BY <1>3, <1>4, <1>7 DEF Counted, Early
<1>18. Plain(pc[r]) /\ Plain(pc'[r]) /\ pc'[r] \notin Inside /\ pc[r] \notin Inside
  BY <1>3 DEF Plain, Critical, Holding, Confirmed, ResetLabels, Opening, Inside
<1>19. Exact(where2, who2, walked, base)'
  BY <1>1, <1>3, <1>7, <1>8, <1>10, <1>11, <1>13, <1>14, <1>15, <1>16, <1>17, <1>18, ExactLocal
<1> QED BY <1>19

\* Empty hands.
LEMMA HeldQuiet ==
  ASSUME UNCHANGED graph, NEW where, NEW who, NEW a \in Threads,
         batch'[a] = <<>>, sched'[a] = <<>>, pc'[a] \notin Needing,
         a \in Workers => pc'[a] \in Inside \cup {"idle", "flag"}
  PROVE  HeldBy(where, who, a)'
<1>1. pc'[a] \notin Walking
  BY DEF Walking, Needing
<1>2. PICK f : f = frame'
  OBVIOUS
<1>3. \A l : Of(where, who, l, a)' = Of(where, who, l, a)
  BY GraphStays DEF Of
<1>4. \A K : Lists(<<>>, f, K)
  BY ListEmpty
<1> QED BY <1>1, <1>2, <1>3, <1>4 DEF HeldBy

\* The slot between two frames: everything is new and nothing waits.
LEMMA Between ==
  ASSUME NEW where, NEW who, NEW walked, NEW base, Before(where, who, walked, base),
         frame = NoFrame \/ Open
  PROVE  /\ \A n \in Nodes : where[n] = "new"
         /\ pool = EmptyBag /\ batch_queue = <<>>
         /\ \A a \in Threads : /\ batch[a] = <<>> /\ sched[a] = <<>>
                               /\ pc[a] \notin Needing /\ pc[a] \notin Inside
                               /\ a \in Workers => pc[a] \in Inside \cup {"idle", "flag"}
<1>1. Tokens(where, who) /\ Known(where)
  BY DEF Before, Exact
<1>2. \A n \in Nodes : where[n] = "new"
  BY <1>1 DEF Known
<1>3. \A a \in Threads : pc[a] \notin Inside
  BY <1>1 DEF Known
<1>4. /\ pool = EmptyBag /\ batch_queue = <<>>
      /\ \A a \in Threads : batch[a] = <<>> /\ sched[a] = <<>> /\ pc[a] \notin Needing
  BY <1>1, <1>2, <1>3, NothingWaits
<1>5. ASSUME NEW a \in Threads, a \in Workers PROVE pc[a] \in Inside \cup {"idle", "flag"}
  BY <1>1, <1>4, <1>5 DEF Tokens, HeldBy
<1> QED BY <1>2, <1>3, <1>4, <1>5

\* A frame is given to the free slot, with its first packet or without.
LEMMA ExactOpen ==
  ASSUME NEW where, NEW who, NEW walked, NEW base, Before(where, who, walked, base),
         NEW r \in ResThreads, pc[r] \in {"idle", "restart"}, frame = NoFrame,
         \A s \in ResThreads \ {r} : pc[s] \notin Critical,
         completed \in Frames, frame' = completed, prepared', pc'[r] \in Opening,
         UNCHANGED <<graph, completed, completed_slot, remaining_deps, ran, generation,
                     pending_tasks, pending_cond_tasks, processing_count>>,
         UNCHANGED <<pool, batch_queue, todo, slot_gen, sched>>,
         \A u \in Threads \ {r} : pc'[u] = pc[u] /\ batch'[u] = batch[u],
         NEW j, \/ batch'[r] = <<>> /\ Roots # {}
                \/ batch'[r] = <<j>> /\ j.task \in Packets /\ j.frame = completed
  PROVE  \E where2, who2 : Exact(where2, who2, walked, base)'
<1>1. /\ graph \in Graphs /\ Tokens(where, who) /\ Work(where, walked, base) /\ Counters(where)
      /\ Recorded(where) /\ Control /\ Known(where)
      /\ Shape /\ generation \in Nat /\ r \in Threads /\ r \notin Workers
      /\ Packets \subseteq Nodes /\ Roots \cap Packets = {} /\ Roots \subseteq Nodes
      /\ Tasks \cap Packets = {} /\ Tasks \subseteq Nodes /\ ResThreads \subseteq Threads
  BY GraphFacts, GraphMore DEF Before, GenInv, Exact
<1>2. /\ Threads' = Threads /\ Nodes' = Nodes /\ Packets' = Packets /\ ResThreads' = ResThreads
      /\ Roots' = Roots /\ Cond' = Cond /\ Tasks' = Tasks /\ \A t : Preds(t)' = Preds(t)
  BY GraphStays, PredsStay
<1>3. /\ \A n \in Nodes : where[n] = "new"
      /\ pool = EmptyBag /\ batch_queue = <<>>
      /\ \A a \in Threads : /\ batch[a] = <<>> /\ sched[a] = <<>>
                            /\ pc[a] \notin Needing /\ pc[a] \notin Inside
                            /\ a \in Workers => pc[a] \in Inside \cup {"idle", "flag"}
  BY Between
<1>4. PICK P : P = IF batch'[r] = <<>> THEN {} ELSE {j.task}
  OBVIOUS
<1>5. PICK where2, who2 : /\ where2 = [n \in Nodes |-> IF n \in P THEN "ran" ELSE "new"]
                          /\ who2 = [n \in Nodes |-> r]
  OBVIOUS
<1>6. P \subseteq Packets /\ (batch'[r] # <<>> => j.task \in P)
  BY <1>4
<1>7. /\ where2 \in [Nodes -> Tags] /\ DOMAIN who2 = Nodes
      /\ \A n \in Nodes : where2[n] = IF n \in P THEN "ran" ELSE "new"
      /\ \A n \in Nodes : who2[n] = r
  BY <1>5 DEF Tags
<1>8. PICK f : f = frame' /\ f = completed
  OBVIOUS
<1>9. pc'[r] \in Critical /\ pc'[r] \notin Holding /\ pc'[r] \notin ResetLabels
      /\ pc'[r] \notin Needing /\ pc'[r] \notin Inside /\ pc'[r] \notin Confirmed
      /\ pc'[r] \notin Walking \cup Handing /\ pc'[r] \notin Unset \cup {"reset_cond"}
      /\ pc'[r] \notin {"reload_proc", "bump", "restart", "release"}
  BY DEF Critical, Opening, Holding, ResetLabels, Needing, Inside, Confirmed, Walking, Handing, Unset
<1>10. HeldBy(where2, who2, r)'
  <2>1. CASE batch'[r] = <<>>
    BY <1>1, <1>3, <1>9, <2>1, HeldQuiet
  <2>2. CASE batch'[r] = <<j>> /\ j.task \in Packets /\ j.frame = completed
    <3>1. \A l : Of(where2, who2, l, r)' = Of(where2, who2, l, r)
      BY <1>2 DEF Of
    <3>2. <<j>> # <<>>
      OBVIOUS
    <3>3. j.task \in Of(where2, who2, "ran", r)
      BY <1>1, <1>6, <1>7, <2>2, <3>2 DEF Of
    <3>4. Lists(<<j>>, f, Of(where2, who2, "ran", r))
      BY <1>8, <2>2, <3>3, ListOne
    <3>5. \A K : Lists(<<>>, f, K)
      BY ListEmpty
    <3> QED BY <1>1, <1>2, <1>3, <1>8, <1>9, <2>2, <3>1, <3>4, <3>5 DEF HeldBy
  <2> QED BY <2>1, <2>2
<1>11. Tokens(where2, who2)'
  <2>1. ASSUME NEW u \in Threads PROVE HeldBy(where2, who2, u)'
    <3>1. CASE u = r
      BY <1>10, <3>1
    <3>2. CASE u # r
      BY <1>3, <3>2, HeldQuiet
    <3> QED BY <3>1, <3>2
  <2>2. Gathers(pool', frame', At(where2, "pool")')
    <3>1. PICK K : K = At(where2, "pool")'
      OBVIOUS
    <3>2. Gathers(EmptyBag, f, K)
      BY GatherEmpty
    <3> QED BY <1>3, <1>8, <3>1, <3>2
  <2>3. Lists(batch_queue', frame', At(where2, "queue")')
    <3>1. PICK K : K = At(where2, "queue")'
      OBVIOUS
    <3>2. Lists(<<>>, f, K)
      BY ListEmpty
    <3> QED BY <1>3, <1>8, <3>1, <3>2
  <2>4. ASSUME NEW q \in Packets PROVE /\ where2[q] \in {"new", "ran", "walk", "done"}
                                       /\ where2[q] = "ran" => HasPacket(who2[q], q)'
    <3>1. q \in Nodes /\ where2[q] \in {"new", "ran"} /\ who2[q] = r
      BY <1>1, <1>7
    <3>2. ASSUME where2[q] = "ran" PROVE HasPacket(r, q)'
      <4>1. batch'[r] = <<j>> /\ q = j.task
        BY <1>4, <1>7, <3>1, <3>2
      <4>2. 1 \in DOMAIN <<j>> /\ <<j>>[1] = j
        OBVIOUS
      <4> QED BY <1>2, <4>1, <4>2 DEF HasPacket
    <3> QED BY <3>1, <3>2
  <2> QED BY <1>2, <1>7, <2>1, <2>2, <2>3, <2>4 DEF Tokens
<1>12. \A n \in Nodes : ~Counted(where, n) /\ ~Counted(where2, n) /\ Early(where2, n)
  BY <1>3, <1>6, <1>7 DEF Counted, Early
<1>13. Work(where2, walked, base)'
  <2>1. WalkedBy(walked, base, r)'
    BY <1>9 DEF WalkedBy, Needing
  <2>2. \A n \in Tasks : where2[n] = "new"
    BY <1>1, <1>6, <1>7
  <2>3. generation' \in Nat /\ generation <= generation'
    BY <1>1
  <2> QED BY <1>1, <1>12, <2>1, <2>2, <2>3, WorkKept
<1>14. Counters(where2)'
  <2>1. \A u \in Threads : pc'[u] \in Inside <=> pc[u] \in Inside
    BY <1>3, <1>9
  <2>2. \A s \in ResThreads : /\ pc[s] \in Unset => pc'[s] \in Unset
                              /\ pc[s] = "reset_cond" => pc'[s] \in Unset \cup {"reset_cond"}
    BY <1>1 DEF Unset
  <2> QED BY <1>1, <1>12, <2>1, <2>2, CountersKept
<1>15. ~Open'
  BY <1>1, <1>2, <1>9 DEF Open, Critical
<1>16. Recorded(where2)'
  <2>1. frame # completed /\ completed >= completed /\ frame' # NoFrame
    BY <1>1, GraphMore DEF Frames
  <2>2. \A n \in Nodes : ran[<<completed, n>>] = 0
    BY <1>1, <2>1 DEF Recorded
  <2>3. \A n : Early(where2, n)' <=> Early(where2, n)
    BY <1>2 DEF Early
  <2>4. \A g \in Frames, n \in Nodes : g >= completed => ran[<<g, n>>] = 0
    BY <1>1, GraphMore DEF Recorded
  <2> QED BY <1>1, <1>2, <1>12, <1>15, <2>2, <2>3, <2>4 DEF Recorded
<1>17. Control'
  <2>1. \A s \in ResThreads : pc'[s] \in Critical => s = r
    BY <1>1
  <2>2. frame' # NoFrame /\ frame' \in Frames /\ frame' = completed' /\ completed \in Nat
    BY <1>1, GraphMore DEF Control
  <2>3. \A s \in ResThreads : /\ pc'[s] \notin {"restart", "release"}
                              /\ pc'[s] \in Holding => s # r /\ pc[s] \in Holding
    BY <1>1, <1>9 DEF Critical, ResetLabels
  <2> QED BY <1>1, <1>2, <2>1, <2>2, <2>3 DEF Control
<1>18. Known(where2)'
  <2>1. \A s \in ResThreads : s # r => pc'[s] \notin Critical
    BY <1>1
  <2>2. \A s \in ResThreads : pc'[s] \notin Confirmed /\ pc'[s] \notin {"reload_proc", "bump"}
    BY <1>9, <2>1 DEF Critical, Confirmed
  <2>3. \A s \in ResThreads : pc'[s] \in Opening => s = r
    BY <2>1 DEF Critical
  <2>4. \A n \in Roots : where2[n] = "new"
    BY <1>1, <1>6, <1>7
  <2>5. Roots # {} \/ \E i \in DOMAIN batch'[r] : batch'[r][i].task \in Packets
    <3>1. 1 \in DOMAIN <<j>> /\ <<j>>[1] = j
      OBVIOUS
    <3> QED BY <3>1
  <2>6. frame' # NoFrame
    BY <1>1, GraphMore
  <2> QED BY <1>2, <1>15, <2>2, <2>3, <2>4, <2>5, <2>6 DEF Known
<1>19. Exact(where2, who2, walked, base)'
  BY <1>11, <1>13, <1>14, <1>16, <1>17, <1>18 DEF Exact
<1> QED BY <1>19

LEMMA ExactAdmitFirst ==
  ASSUME OneStart, NEW where, NEW who, NEW walked, NEW base, Before(where, who, walked, base),
         NEW r \in ResThreads, NEW p \in Packets, AdmitFirst(r, p)
  PROVE  \E where2, who2 : Exact(where2, who2, walked, base)'
<1>1. graph \in Graphs /\ Shape /\ Control /\ r \in Threads
  BY GraphFacts DEF Before, GenInv, Exact
<1>2. PICK j : j = Job(p, 0, completed)
  OBVIOUS
<1>3. /\ UNCHANGED <<graph, completed, completed_slot, remaining_deps, ran, generation, prepared,
                     pending_tasks, pending_cond_tasks, processing_count>>
      /\ UNCHANGED <<pool, batch_queue, todo, slot_gen, sched>>
      /\ pc[r] = "idle" /\ pc'[r] = "assigned" /\ batch'[r] = <<j>> /\ frame = NoFrame
      /\ frame' = completed /\ completed < MaxFrames /\ (r = InitThread => prepared)
      /\ \A u \in Threads \ {r} : pc'[u] = pc[u] /\ batch'[u] = batch[u]
  BY <1>1, <1>2 DEF AdmitFirst, Publish, Looping, Goto, counters, frames, history, queues, Shape
<1>4. j.task = p /\ j.frame = completed
  BY <1>2 DEF Job
<1>5. \A s \in ResThreads : pc[s] \notin Critical
  BY <1>1, <1>3 DEF Control
<1>6. completed \in Frames
  BY <1>1, <1>3, GraphMore DEF Control, Frames
<1>7. prepared
  <2>1. Roots = {} \/ Packets = {} \/ ResThreads = {InitThread}
    BY <1>1 DEF OneStart, Roots, Packets, ResThreads
  <2>2. CASE Roots = {}
    BY <1>1, <2>2 DEF Control
  <2>3. CASE Packets = {}
    BY <2>3
  <2>4. CASE ResThreads = {InitThread}
    BY <1>3, <2>4
  <2> QED BY <2>1, <2>2, <2>3, <2>4
<1>8. prepared' /\ pc'[r] \in Opening /\ pc[r] \in {"idle", "restart"}
  BY <1>3, <1>7 DEF Opening
<1> QED BY <1>3, <1>4, <1>5, <1>6, <1>8, ExactOpen

LEMMA ExactPrepare ==
  ASSUME NEW where, NEW who, NEW walked, NEW base, Before(where, who, walked, base),
         NEW r \in ResThreads, Prepare(r)
  PROVE  \E where2, who2 : Exact(where2, who2, walked, base)'
<1>1. graph \in Graphs /\ Shape /\ Control /\ r \in Threads
  BY GraphFacts DEF Before, GenInv, Exact
<1>2. ~prepared /\ frame = NoFrame /\ completed = 0 /\ Roots # {}
  BY <1>1 DEF Prepare, Control
<1>3. Publish(r, 0)
  BY <1>2 DEF Prepare, NoFrame
<1>4. /\ UNCHANGED <<graph, completed, completed_slot, remaining_deps, ran, generation,
                     pending_tasks, pending_cond_tasks, processing_count>>
      /\ UNCHANGED <<pool, batch_queue, todo, slot_gen, sched>>
      /\ pc[r] = "idle" /\ pc'[r] = "assigned" /\ frame' = completed /\ prepared'
      /\ batch'[r] = batch[r]
      /\ \A u \in Threads \ {r} : pc'[u] = pc[u] /\ batch'[u] = batch[u]
  BY <1>1, <1>2, <1>3 DEF Prepare, Publish, Goto, frames, history, queues, locals, Shape
<1>5. \A s \in ResThreads : pc[s] \notin Critical
  BY <1>1, <1>2 DEF Control
<1>6. completed \in Frames
  BY <1>1, <1>2, GraphMore
<1>7. batch'[r] = <<>>
  BY <1>1, <1>2, <1>4, Between
<1>8. pc'[r] \in Opening /\ pc[r] \in {"idle", "restart"}
  BY <1>4 DEF Opening
<1> QED BY <1>2, <1>4, <1>5, <1>6, <1>7, <1>8, ExactOpen

\* A compute graph starts its next frame right away.
LEMMA ExactRestart ==
  ASSUME OneStart, NEW where, NEW who, NEW walked, NEW base, Before(where, who, walked, base),
         NEW r \in ResThreads, Restart(r)
  PROVE  \E where2, who2 : Exact(where2, who2, walked, base)'
<1>1. graph \in Graphs /\ Shape /\ Control /\ r \in Threads
  BY GraphFacts DEF Before, GenInv, Exact
<1>2. /\ UNCHANGED <<graph, completed, completed_slot, remaining_deps, ran, generation, prepared,
                     pending_tasks, pending_cond_tasks, processing_count>>
      /\ UNCHANGED <<pool, batch_queue, todo, slot_gen, sched>>
      /\ pc[r] = "restart" /\ pc'[r] = "roots" /\ frame' = completed
      /\ batch'[r] = batch[r]
      /\ \A u \in Threads \ {r} : pc'[u] = pc[u] /\ batch'[u] = batch[u]
  BY <1>1 DEF Restart, Goto, counters, history, queues, locals, Shape
<1>3. frame = NoFrame /\ prepared /\ Packets = {} /\ completed < MaxFrames
  BY <1>1, <1>2 DEF Control
<1>4. pc[r] \in Critical
  BY <1>2 DEF Critical, ResetLabels
<1>5. \A s \in ResThreads \ {r} : pc[s] \notin Critical
  BY <1>1, <1>4 DEF Control
<1>6. completed \in Frames
  BY <1>1, <1>3, GraphMore DEF Control, Frames
<1>7. Roots # {}
  BY <1>1, <1>3 DEF OneStart, Roots, Packets
<1>8. batch'[r] = <<>>
  BY <1>1, <1>2, <1>3, Between
<1>9. pc'[r] \in Opening /\ pc[r] \in {"idle", "restart"} /\ prepared'
  BY <1>2, <1>3 DEF Opening
<1> QED BY <1>2, <1>3, <1>5, <1>6, <1>7, <1>8, <1>9, ExactOpen

\* The thread that opens the slot is alone there.
LEMMA AloneOpening ==
  ASSUME NEW where, NEW who, NEW walked, NEW base, Before(where, who, walked, base),
         NEW r \in ResThreads, pc[r] \in Opening
  PROVE  /\ frame # NoFrame /\ ~Open /\ frame \in Frames
         /\ \A s \in ResThreads \ {r} : pc[s] \notin Critical
<1>1. Control
  BY DEF Before, Exact
<1>2. pc[r] \in Critical /\ pc[r] # "restart" /\ pc[r] \notin ResetLabels
  BY DEF Critical, Opening, ResetLabels
<1>3. \A s \in ResThreads \ {r} : pc[s] \notin Critical
  BY <1>1, <1>2 DEF Control
<1>4. frame # NoFrame /\ frame \in Frames
  BY <1>1, <1>2 DEF Control
<1>5. ~Open
  BY <1>2, <1>3 DEF Open, Critical
<1> QED BY <1>3, <1>4, <1>5

LEMMA ExactAssignBump ==
  ASSUME NEW where, NEW who, NEW walked, NEW base, Before(where, who, walked, base),
         NEW r \in ResThreads, AssignBump(r)
  PROVE  Exact(where, who, walked, base)'
<1>1. /\ graph \in Graphs /\ Tokens(where, who) /\ Work(where, walked, base) /\ Counters(where)
      /\ Recorded(where) /\ Control /\ Known(where)
      /\ Shape /\ generation \in Nat /\ r \in Threads /\ r \notin Workers /\ HeldBy(where, who, r)
      /\ ResThreads \subseteq Threads
  BY GraphFacts DEF Before, GenInv, Exact, Tokens
<1>2. /\ UNCHANGED <<graph, frame, completed, prepared, completed_slot, remaining_deps, ran,
                     pending_tasks, pending_cond_tasks, processing_count>>
      /\ UNCHANGED <<pool, batch_queue, todo, slot_gen, sched, batch>>
      /\ pc[r] = "assigned" /\ pc'[r] = "roots" /\ generation' = generation + 1
      /\ \A u \in Threads \ {r} : pc'[u] = pc[u]
  BY <1>1 DEF AssignBump, Goto, frames, history, queues, locals, Shape
<1>3. /\ Threads' = Threads /\ Nodes' = Nodes /\ Packets' = Packets /\ ResThreads' = ResThreads
      /\ Roots' = Roots /\ Cond' = Cond
  BY <1>2, GraphStays
<1>4. pc[r] \in Opening /\ pc'[r] \in Opening
  BY <1>2 DEF Opening
<1>5. \A l \in Opening : /\ l \in Critical /\ l \notin Holding /\ l \notin ResetLabels /\ l \notin Inside
                         /\ l \notin Needing /\ l \notin Confirmed /\ l \notin Walking
                         /\ l \notin Handing /\ l \notin Unset \cup {"reset_cond"}
                         /\ l \notin {"reload_proc", "bump", "restart", "release", "send"}
  BY DEF Critical, Opening, Holding, ResetLabels, Needing, Inside, Confirmed, Walking, Handing, Unset
<1>6. /\ frame # NoFrame /\ ~Open /\ frame \in Frames
      /\ \A s \in ResThreads \ {r} : pc[s] \notin Critical
  BY <1>4, AloneOpening
<1>7. Tokens(where, who)'
  <2>1. HeldBy(where, who, r)'
    BY <1>1, <1>2, <1>4, <1>5, HeldByKept
  <2> QED BY <1>1, <1>2, <2>1, TokensKept
<1>8. Work(where, walked, base)'
  <2>1. WalkedBy(walked, base, r)'
    BY <1>2 DEF WalkedBy
  <2>2. generation' \in Nat /\ generation <= generation'
    BY <1>1, <1>2
  <2> QED BY <1>1, <1>2, <2>1, <2>2, WorkKept
<1>9. Counters(where)'
  <2>1. \A u \in Threads : pc'[u] \in Inside <=> pc[u] \in Inside
    BY <1>2, <1>4, <1>5
  <2>2. \A s \in ResThreads : /\ pc[s] \in Unset => pc'[s] \in Unset
                              /\ pc[s] = "reset_cond" => pc'[s] \in Unset \cup {"reset_cond"}
    BY <1>1, <1>2, <1>4, <1>5
  <2> QED BY <1>1, <1>2, <2>1, <2>2, CountersKept
<1>10. \A s \in ResThreads : pc'[s] \in Critical => s = r
  BY <1>1, <1>2, <1>6
<1>11. ~Open'
  BY <1>1, <1>3, <1>4, <1>5, <1>10 DEF Open, Critical
<1>12. Recorded(where)'
  BY <1>1, <1>2, <1>6, <1>11, RecordedKept
<1>13. Control'
  <2>1. \A s \in ResThreads : /\ pc'[s] \in Holding => pc'[s] = pc[s]
                              /\ pc'[s] \notin {"restart", "release"}
                              /\ pc[s] \notin {"restart", "release"}
    BY <1>1, <1>2, <1>4, <1>5, <1>6 DEF Critical, ResetLabels
  <2> QED BY <1>1, <1>2, <1>3, <1>6, <1>10, <2>1 DEF Control
<1>14. Known(where)'
  <2>1. \A s \in ResThreads : pc'[s] \notin Confirmed /\ pc'[s] \notin {"reload_proc", "bump"}
    BY <1>4, <1>5, <1>10 DEF Critical, Confirmed
  <2>2. \A s \in ResThreads : pc'[s] \in Opening => s = r
    BY <1>10 DEF Critical
  <2>3. /\ \A n \in Roots : where[n] = "new"
        /\ Roots # {} \/ \E i \in DOMAIN batch[r] : batch[r][i].task \in Packets
    BY <1>1, <1>4 DEF Known
  <2> QED BY <1>2, <1>3, <1>6, <1>11, <2>1, <2>2, <2>3 DEF Known
<1> QED BY <1>7, <1>8, <1>9, <1>12, <1>13, <1>14 DEF Exact

LEMMA ExactDispatch ==
  ASSUME NEW where, NEW who, NEW walked, NEW base, Before(where, who, walked, base),
         NEW r \in ResThreads, DispatchRoots(r)
  PROVE  \E where2 : Exact(where2, who, walked, base)'
<1>1. /\ graph \in Graphs /\ Tokens(where, who) /\ Work(where, walked, base) /\ Counters(where)
      /\ Recorded(where) /\ Control /\ Known(where)
      /\ Shape /\ generation \in Nat /\ r \in Threads /\ r \notin Workers /\ HeldBy(where, who, r)
      /\ ResThreads \subseteq Threads /\ Roots \subseteq Nodes /\ Roots \cap Packets = {}
      /\ Packets \subseteq Nodes /\ Tasks \subseteq Nodes
  BY GraphFacts, GraphMore DEF Before, GenInv, Exact, Tokens
<1>2. PICK R : R = SetToBag({Job(t, generation, frame) : t \in Roots})
  OBVIOUS
<1>3. /\ UNCHANGED <<graph, frame, completed, prepared, completed_slot, remaining_deps, ran,
                     pending_tasks, pending_cond_tasks, processing_count, generation>>
      /\ UNCHANGED <<batch_queue, todo, slot_gen, sched, batch>>
      /\ pc[r] = "roots" /\ pc'[r] = (IF batch[r] # <<>> THEN "admit" ELSE "idle")
      /\ pool' = pool (+) R
      /\ \A u \in Threads \ {r} : pc'[u] = pc[u]
  BY <1>1, <1>2 DEF DispatchRoots, Goto, counters, frames, history, locals, Shape
<1>4. /\ Threads' = Threads /\ Nodes' = Nodes /\ Packets' = Packets /\ ResThreads' = ResThreads
      /\ Roots' = Roots /\ Cond' = Cond
  BY <1>3, GraphStays
<1>5. pc[r] \in Opening
  BY <1>3 DEF Opening
<1>6. /\ frame # NoFrame /\ ~Open /\ frame \in Frames
      /\ \A s \in ResThreads \ {r} : pc[s] \notin Critical
  BY <1>5, AloneOpening
<1>7. \A n \in Roots : where[n] = "new"
  BY <1>1, <1>5 DEF Known
<1>8. PICK where2 : where2 = [n \in Nodes |-> IF n \in Roots THEN "pool" ELSE where[n]]
  OBVIOUS
<1>9. /\ where2 \in [Nodes -> Tags] /\ DOMAIN who = Nodes
      /\ \A n \in Roots : where2[n] = "pool"
      /\ \A n \in Nodes \ Roots : where2[n] = where[n]
  <2>1. where \in [Nodes -> Tags] /\ DOMAIN who = Nodes
    BY <1>1 DEF Tokens
  <2> QED BY <1>1, <1>8, <2>1 DEF Tags
<1>10. Moves(where, who, where2, who, r)
  BY <1>7, <1>9 DEF Moves
<1>11. Gathers(pool', frame, At(where2, "pool"))
  <2>1. Gathers(R, frame, Roots)
    BY <1>2, GatherRoots
  <2>2. Gathers(pool, frame, At(where, "pool")) /\ At(where, "pool") \cap Roots = {}
    BY <1>1, <1>7 DEF Tokens, At
  <2>3. Gathers(pool (+) R, frame, At(where, "pool") \cup Roots)
    BY <2>1, <2>2, GatherPut
  <2>4. At(where, "pool") \cup Roots \subseteq At(where2, "pool")
    BY <1>1, <1>7, <1>9 DEF At
  <2>5. Gathers(pool (+) R, frame, At(where2, "pool"))
    BY <2>3, <2>4, GatherWider
  <2> QED BY <1>3, <2>5
<1>12. /\ At(where, "queue") \subseteq At(where2, "queue")
       /\ Of(where, who, "sched", r) \subseteq Of(where2, who, "sched", r)
       /\ Of(where, who, "ran", r) \subseteq Of(where2, who, "ran", r)
  BY <1>7, <1>9 DEF At, Of
<1>13. Lists(batch_queue', frame, At(where2, "queue"))
  BY <1>1, <1>3, <1>12, ListWider DEF Tokens
<1>14. HeldBy(where2, who, r)'
  <2>1. \A l : Of(where2, who, l, r)' = Of(where2, who, l, r)
    BY <1>4 DEF Of
  <2>2. Lists(sched[r], frame, Of(where2, who, "sched", r))
    BY <1>1, <1>12, ListWider DEF HeldBy
  <2>3. pc[r] \notin Walking \cup Handing
    BY <1>3 DEF Walking, Handing
  <2>4. Lists(batch[r], frame, Of(where, who, "ran", r))
    BY <1>1, <2>3 DEF HeldBy
  <2>5. Lists(batch[r], frame, Of(where2, who, "ran", r))
    BY <1>12, <2>4, ListWider
  <2>6. /\ pc'[r] \notin Walking \cup Handing /\ pc'[r] # "send"
        /\ pc'[r] \in Needing => batch[r] # <<>>
        /\ pc'[r] \notin Needing => batch[r] = <<>>
    BY <1>3 DEF Walking, Handing, Needing
  <2> QED BY <1>1, <1>3, <2>1, <2>2, <2>5, <2>6 DEF HeldBy
<1>15. \A p \in Packets : where2[p] = where[p]
  BY <1>1, <1>9
<1>16. Tokens(where2, who)'
  <2>1. \A p \in Packets : where2[p] \in {"new", "ran", "walk", "done"}
    BY <1>1, <1>15 DEF Tokens
  <2>2. \A p \in Packets : where2[p] = "ran" /\ who[p] = r => HasPacket(r, p)'
    BY <1>1, <1>3, <1>4, <1>15 DEF Tokens, HasPacket
  <2>3. \A u \in Threads \ {r} : pc'[u] = pc[u] /\ batch'[u] = batch[u] /\ sched'[u] = sched[u]
    BY <1>3
  <2> QED BY <1>1, <1>3, <1>9, <1>10, <1>11, <1>13, <1>14, <2>1, <2>2, <2>3, TokensStep
<1>17. \A n \in Nodes : /\ Counted(where2, n) <=> Counted(where, n)
                        /\ Early(where2, n) <=> Early(where, n)
  BY <1>7, <1>9 DEF Counted, Early
<1>18. Work(where2, walked, base)'
  <2>1. WalkedBy(walked, base, r)'
    BY <1>3 DEF WalkedBy
  <2>2. generation' \in Nat /\ generation <= generation'
    BY <1>1, <1>3
  <2>3. \A n \in Tasks : where[n] = "new" /\ where2[n] # "new" => Preds(n) = {}
    BY <1>1, <1>9, GraphMore
  <2> QED BY <1>1, <1>3, <1>17, <2>1, <2>2, <2>3, WorkKept
<1>19. /\ pc[r] \notin Inside /\ pc'[r] \notin Inside /\ pc'[r] \notin Critical /\ pc'[r] \notin Holding
       /\ pc[r] \notin Unset \cup {"reset_cond"} /\ pc[r] \notin {"restart", "release"}
  BY <1>3 DEF Inside, Critical, Holding, Unset, Confirmed, ResetLabels, Opening
<1>20. Counters(where2)'
  <2>1. \A u \in Threads : pc'[u] \in Inside <=> pc[u] \in Inside
    BY <1>3, <1>19
  <2>2. \A s \in ResThreads : /\ pc[s] \in Unset => pc'[s] \in Unset
                              /\ pc[s] = "reset_cond" => pc'[s] \in Unset \cup {"reset_cond"}
    BY <1>1, <1>3, <1>19
  <2> QED BY <1>1, <1>3, <1>17, <2>1, <2>2, CountersKept
<1>21. \A s \in ResThreads : pc'[s] \notin Critical
  BY <1>1, <1>3, <1>6, <1>19
<1>22. ~Open'
  BY <1>4, <1>21 DEF Open, Critical
<1>23. Recorded(where2)'
  BY <1>1, <1>3, <1>6, <1>17, <1>22, RecordedKept
<1>24. Control'
  <2>1. \A s \in ResThreads : /\ pc'[s] \in Holding => pc'[s] = pc[s]
                              /\ pc'[s] \notin {"restart", "release"}
                              /\ pc[s] \notin {"restart", "release"}
    BY <1>1, <1>3, <1>6, <1>19, <1>21 DEF Critical, ResetLabels
  <2> QED BY <1>1, <1>3, <1>4, <1>6, <1>21, <2>1 DEF Control
<1>25. Known(where2)'
  <2>1. \A s \in ResThreads : /\ pc'[s] \notin Confirmed /\ pc'[s] \notin {"reload_proc", "bump"}
                              /\ pc'[s] \notin Opening
    BY <1>21 DEF Critical, Confirmed
  <2> QED BY <1>3, <1>4, <1>6, <1>22, <2>1 DEF Known
<1>26. Exact(where2, who, walked, base)'
  BY <1>16, <1>18, <1>20, <1>23, <1>24, <1>25 DEF Exact
<1> QED BY <1>26

-----------------------------------------------------------------------------
(* The claim of a completed frame *)

\* The holder of the completion bit finds no node of its counter left.
LEMMA AllCounted ==
  ASSUME NEW where, NEW who, NEW walked, NEW base, Before(where, who, walked, base),
         NEW r \in ResThreads, pc[r] \in {"reload_pending", "reload_cond", "reload_proc"}
  PROVE  /\ pending_tasks = 0 => \A n \in Nodes \ Cond : Counted(where, n)
         /\ pending_cond_tasks = 0 => \A n \in Cond : Counted(where, n)
         /\ processing_count = 0 => \A a \in Threads : pc[a] \notin Inside
<1>1. graph \in Graphs /\ Counters(where) /\ Control
  BY DEF Before, Exact
<1>2. \A s \in ResThreads : pc[s] \notin Unset \cup {"reset_cond"}
  <2>1. pc[r] \in Holding /\ pc[r] \notin Unset \cup {"reset_cond"}
    BY DEF Holding, Unset
  <2>2. Unset \cup {"reset_cond"} \subseteq Holding
    BY DEF Holding, Unset
  <2> QED BY <1>1, <2>1, <2>2 DEF Control
<1> DEFINE P == {n \in Nodes \ Cond : ~Counted(where, n)}
           Q == {n \in Cond : ~Counted(where, n)}
           I == {a \in Threads : pc[a] \in Inside}
<1>3. pending_tasks = Cardinality(P) /\ pending_cond_tasks = Cardinality(Q) /\ processing_count = Cardinality(I)
  BY <1>1, <1>2 DEF Counters
<1>4. IsFiniteSet(P) /\ IsFiniteSet(Q) /\ IsFiniteSet(I)
  <2>1. P \subseteq Nodes /\ Q \subseteq Cond /\ I \subseteq Threads
    OBVIOUS
  <2>2. IsFiniteSet(Nodes) /\ IsFiniteSet(Cond) /\ IsFiniteSet(Threads)
    BY <1>1, GraphMore
  <2> QED BY <2>1, <2>2, FS_Subset
<1>5. /\ pending_tasks = 0 => P = {}
      /\ pending_cond_tasks = 0 => Q = {}
      /\ processing_count = 0 => I = {}
  <2> HIDE DEF P, Q, I
  <2> QED BY <1>3, <1>4, FS_EmptySet
<1> QED BY <1>5

\* With every unconditional node counted off, nobody else resets or opens the slot.
LEMMA AloneConfirmed ==
  ASSUME OneStart, NEW where, NEW who, NEW walked, NEW base, Before(where, who, walked, base),
         NEW r \in ResThreads, pc[r] \in Holding, \A n \in Nodes \ Cond : Counted(where, n)
  PROVE  frame # NoFrame /\ \A s \in ResThreads \ {r} : pc[s] \notin Critical
<1>1. /\ graph \in Graphs /\ Exact(where, who, walked, base) /\ Tokens(where, who) /\ Control /\ Known(where)
      /\ Roots \subseteq Nodes \ Cond /\ Packets \subseteq Nodes \ Cond
  BY GraphMore DEF Before, Exact
<1>2. PICK n \in Roots \cup Packets : TRUE
  BY <1>1 DEF OneStart, Roots, Packets
<1>3. n \in Nodes /\ where[n] # "new"
  BY <1>1, <1>2 DEF Counted
<1>4. frame # NoFrame /\ ~Open
  BY <1>1, <1>3, Busy
<1>5. ASSUME NEW s \in ResThreads \ {r}, pc[s] \in Critical PROVE FALSE
  <2>1. pc[s] \notin Confirmed
    <3>1. Confirmed \subseteq Holding
      BY DEF Confirmed, Holding
    <3> QED BY <1>1, <1>5, <3>1 DEF Control
  <2>2. pc[s] \notin ResetLabels
    BY <1>4 DEF Open
  <2>3. pc[s] \in Opening
    BY <1>5, <2>1, <2>2 DEF Critical
  <2>4. CASE Roots # {}
    <3>1. PICK m \in Roots : TRUE
      BY <2>4
    <3>2. where[m] = "new"
      BY <1>1, <2>3, <3>1 DEF Known
    <3> QED BY <1>1, <3>1, <3>2 DEF Counted
  <2>5. CASE \E i \in DOMAIN batch[s] : batch[s][i].task \in Packets
    <3>1. PICK i \in DOMAIN batch[s] : batch[s][i].task \in Packets
      BY <2>5
    <3>2. HeldBy(where, who, s) /\ pc[s] \notin Walking \cup Handing
      BY <1>1, <2>3, GraphFacts DEF Tokens, Opening, Walking, Handing
    <3>3. Lists(batch[s], frame, Of(where, who, "ran", s))
      BY <3>2 DEF HeldBy
    <3>4. where[batch[s][i].task] = "ran"
      BY <3>1, <3>3 DEF Lists, Of
    <3> QED BY <1>1, <3>1, <3>4 DEF Counted
  <2> QED BY <1>1, <2>3, <2>4, <2>5 DEF Known
<1> QED BY <1>4, <1>5

\* The completion bit, and the loads after it was won.
LEMMA ExactClaim ==
  ASSUME OneStart, NEW where, NEW who, NEW walked, NEW base, Before(where, who, walked, base),
         NEW r \in ResThreads,
         \/ LoadCounter(r) /\ pc[r] \in {"reload_pending", "reload_cond", "reload_proc"}
         \/ try_complete_slot(r) \/ unmark_slot_completed(r)
  PROVE  Exact(where, who, walked, base)'
<1>1. /\ graph \in Graphs /\ Tokens(where, who) /\ Work(where, walked, base) /\ Counters(where)
      /\ Recorded(where) /\ Control /\ Known(where)
      /\ Shape /\ generation \in Nat /\ r \in Threads /\ r \notin Workers /\ HeldBy(where, who, r)
      /\ ResThreads \subseteq Threads
  BY GraphFacts DEF Before, GenInv, Exact, Tokens
<1>2. /\ UNCHANGED <<graph, frame, completed, prepared, remaining_deps, ran, generation,
                     pending_tasks, pending_cond_tasks, processing_count>>
      /\ UNCHANGED <<pool, batch_queue, todo, slot_gen, sched, batch>>
      /\ \A u \in Threads \ {r} : pc'[u] = pc[u]
  BY <1>1 DEF LoadCounter, try_complete_slot, unmark_slot_completed, Goto, counters, frames,
       history, queues, locals, Shape
<1>3. \/ pc[r] = "try_complete" /\ pc'[r] = "idle" /\ completed_slot' /\ completed_slot
      \/ pc[r] = "try_complete" /\ pc'[r] = "reload_pending" /\ completed_slot' /\ ~completed_slot
      \/ pc[r] = "unmark" /\ pc'[r] = "idle"
      \/ /\ pc[r] \in {"reload_pending", "reload_cond", "reload_proc"} /\ pc'[r] = "unmark"
         /\ completed_slot' = completed_slot
      \/ /\ pc[r] = "reload_pending" /\ pc'[r] = "reload_cond" /\ pending_tasks = 0
         /\ completed_slot' = completed_slot
      \/ /\ pc[r] = "reload_cond" /\ pc'[r] = "reload_proc" /\ pending_cond_tasks = 0
         /\ completed_slot' = completed_slot
      \/ /\ pc[r] = "reload_proc" /\ pc'[r] = "bump" /\ processing_count = 0
         /\ completed_slot' = completed_slot
  <2>1. CASE try_complete_slot(r)
    BY <1>1, <2>1 DEF try_complete_slot, Goto, Shape
  <2>2. CASE unmark_slot_completed(r)
    BY <1>1, <2>2 DEF unmark_slot_completed, Goto, Shape
  <2>3. CASE LoadCounter(r) /\ pc[r] \in {"reload_pending", "reload_cond", "reload_proc"}
    <3>1. completed_slot' = completed_slot
      BY <2>3 DEF LoadCounter, counters
    <3>2. pc'[r] = IF Loaded(pc[r]) = 0 THEN NextLoad(pc[r]) ELSE "unmark"
      BY <1>1, <2>3 DEF LoadCounter, Goto, Shape
    <3>3. /\ Loaded("reload_pending") = pending_tasks
          /\ Loaded("reload_cond") = pending_cond_tasks
          /\ Loaded("reload_proc") = processing_count
      BY DEF Loaded
    <3> QED BY <2>3, <3>1, <3>2, <3>3, NextLoads
  <2> QED BY <2>1, <2>2, <2>3
<1>4. /\ Threads' = Threads /\ Nodes' = Nodes /\ Packets' = Packets /\ ResThreads' = ResThreads
      /\ Roots' = Roots /\ Cond' = Cond
  BY <1>2, GraphStays
<1>5. /\ pc[r] \notin Needing \cup Opening \cup {"send"} /\ pc'[r] \notin Needing \cup Opening
      /\ pc[r] \notin ResetLabels /\ pc'[r] \notin ResetLabels
      /\ pc[r] \notin Inside /\ pc'[r] \notin Inside
      /\ pc[r] \notin Unset \cup {"reset_cond"} /\ pc'[r] \notin Unset \cup {"reset_cond"}
      /\ pc'[r] \notin {"restart", "release"} /\ pc[r] \notin {"restart", "release"}
      /\ pc'[r] \notin Walking
  BY <1>3 DEF Needing, Opening, ResetLabels, Inside, Unset, Walking
<1>6. Tokens(where, who)'
  <2>1. batch[r] = <<>>
    BY <1>5, LoopHands
  <2>2. HeldBy(where, who, r)'
    BY <1>1, <1>2, <1>5, <2>1, HeldByNothing
  <2> QED BY <1>1, <1>2, <2>2, TokensKept
<1>7. Work(where, walked, base)'
  <2>1. WalkedBy(walked, base, r)'
    BY <1>3 DEF WalkedBy
  <2>2. generation' \in Nat /\ generation <= generation'
    BY <1>1, <1>2
  <2> QED BY <1>1, <1>2, <2>1, <2>2, WorkKept
<1>8. Counters(where)'
  <2>1. \A u \in Threads : pc'[u] \in Inside <=> pc[u] \in Inside
    BY <1>2, <1>5
  <2>2. \A s \in ResThreads : /\ pc[s] \in Unset => pc'[s] \in Unset
                              /\ pc[s] = "reset_cond" => pc'[s] \in Unset \cup {"reset_cond"}
    BY <1>1, <1>2, <1>5
  <2> QED BY <1>1, <1>2, <2>1, <2>2, CountersKept
<1>9. Open' <=> Open
  BY <1>1, <1>2, <1>4, <1>5 DEF Open
<1>10. Recorded(where)'
  BY <1>1, <1>2, <1>9, RecordedKept
<1>12. pc'[r] \in Critical => pc'[r] \in Confirmed
  BY <1>5 DEF Critical
<1>13. pc'[r] \in Confirmed =>
         /\ pc[r] \in {"reload_pending", "reload_cond", "reload_proc"} /\ pc[r] \in Holding
         /\ \A n \in Nodes \ Cond : Counted(where, n)
  <2>1. ASSUME pc'[r] \in Confirmed
        PROVE  pc[r] \in {"reload_pending", "reload_cond", "reload_proc"} /\ pc[r] \in Holding
    BY <1>3, <2>1 DEF Confirmed, Holding
  <2>2. ASSUME pc'[r] \in Confirmed PROVE \A n \in Nodes \ Cond : Counted(where, n)
    <3>1. CASE pc[r] = "reload_pending"
      <4>1. pending_tasks = 0
        BY <1>3, <2>2, <3>1 DEF Confirmed
      <4> QED BY <3>1, <4>1, AllCounted
    <3>2. CASE pc[r] \in {"reload_cond", "reload_proc"}
      BY <1>1, <3>2 DEF Known, Confirmed
    <3> QED BY <2>1, <2>2, <3>1, <3>2
  <2> QED BY <2>1, <2>2
<1>14. pc'[r] \in Critical => frame # NoFrame /\ \A s \in ResThreads \ {r} : pc[s] \notin Critical
  BY <1>12, <1>13, AloneConfirmed
<1>15. Control'
  <2>1. \A s \in ResThreads : pc'[s] \in Holding => completed_slot'
    <3>1. CASE pc[r] = "unmark"
      <4>1. pc[r] \in Holding /\ pc'[r] \notin Holding
        BY <1>3, <3>1 DEF Holding
      <4> QED BY <1>1, <1>2, <4>1 DEF Control
    <3>2. CASE pc[r] # "unmark"
      <4>1. pc'[r] \in Holding => completed_slot'
        <5>1. pc[r] \in {"reload_pending", "reload_cond", "reload_proc"} => pc[r] \in Holding
          BY DEF Holding
        <5>2. "idle" \notin Holding
          BY DEF Holding
        <5> QED BY <1>1, <1>3, <3>2, <5>1, <5>2 DEF Control
      <4>2. completed_slot => completed_slot'
        BY <1>3, <3>2
      <4> QED BY <1>1, <1>2, <4>1, <4>2 DEF Control
    <3> QED BY <3>1, <3>2
  <2>2. \A s \in ResThreads \ {r} : pc'[r] \in Holding => pc[s] \notin Holding
    <3>1. CASE pc[r] = "try_complete"
      <4>1. "idle" \notin Holding
        BY DEF Holding
      <4> QED BY <1>1, <1>3, <3>1, <4>1 DEF Control
    <3>2. CASE pc[r] # "try_complete"
      <4>1. pc[r] \in Holding
        BY <1>3, <3>2 DEF Holding
      <4> QED BY <1>1, <4>1 DEF Control
    <3> QED BY <3>1, <3>2
  <2>3. \A s, u \in ResThreads : pc'[s] \in Holding /\ pc'[u] \in Holding => s = u
    BY <1>1, <1>2, <2>2 DEF Control
  <2>4. \A s, u \in ResThreads : pc'[s] \in Critical /\ pc'[u] \in Critical => s = u
    BY <1>1, <1>2, <1>14 DEF Control
  <2>5. frame = NoFrame => \A s \in ResThreads : pc'[s] \in Critical => pc'[s] = "restart"
    BY <1>1, <1>2, <1>14 DEF Control
  <2>6. \A s \in ResThreads : /\ pc'[s] = "restart" <=> pc[s] = "restart"
                              /\ pc'[s] = "release" <=> pc[s] = "release"
    BY <1>1, <1>2, <1>5
  <2> QED BY <1>1, <1>2, <1>4, <2>1, <2>3, <2>4, <2>5, <2>6 DEF Control
<1>16. Known(where)'
  <2>1. frame = NoFrame \/ Open => \A a \in Threads : pc'[a] \notin Inside
    BY <1>1, <1>2, <1>5 DEF Known
  <2>2. pc'[r] \in {"reload_proc", "bump"} => \A n \in Cond : Counted(where, n)
    <3>1. CASE pc'[r] = "reload_proc"
      <4>1. pc[r] = "reload_cond" /\ pending_cond_tasks = 0
        BY <1>3, <3>1
      <4> QED BY <4>1, AllCounted
    <3>2. CASE pc'[r] = "bump"
      <4>1. pc[r] = "reload_proc"
        BY <1>3, <3>2
      <4> QED BY <1>1, <4>1 DEF Known
    <3> QED BY <3>1, <3>2
  <2>3. pc'[r] = "bump" => \A a \in Threads : pc'[a] \notin Inside
    <3>1. ASSUME pc'[r] = "bump" PROVE \A a \in Threads : pc[a] \notin Inside
      <4>1. pc[r] = "reload_proc" /\ processing_count = 0
        BY <1>3, <3>1
      <4> QED BY <4>1, AllCounted
    <3> QED BY <1>2, <1>5, <3>1
  <2>4. ASSUME NEW s \in ResThreads, s # r
        PROVE  /\ pc'[s] \in Confirmed => \A n \in Nodes \ Cond : Counted(where, n)
               /\ pc'[s] \in {"reload_proc", "bump"} => \A n \in Cond : Counted(where, n)
               /\ pc'[s] = "bump" => \A a \in Threads : pc'[a] \notin Inside
               /\ pc'[s] \in Opening =>
                    /\ \A n \in Roots : where[n] = "new"
                    /\ Roots # {} \/ \E i \in DOMAIN batch'[s] : batch'[s][i].task \in Packets
    <3>1. pc'[s] = pc[s]
      BY <1>1, <1>2, <2>4
    <3>2. \A a \in Threads : pc'[a] \in Inside => pc[a] \in Inside
      BY <1>2, <1>5
    <3> QED BY <1>1, <1>2, <3>1, <3>2 DEF Known
  <2>5. frame = NoFrame \/ Open => \A n \in Nodes : where[n] = "new"
    BY <1>1 DEF Known
  <2> QED BY <1>2, <1>4, <1>5, <1>9, <1>13, <2>1, <2>2, <2>3, <2>4, <2>5 DEF Known
<1> QED BY <1>6, <1>7, <1>8, <1>10, <1>15, <1>16 DEF Exact

-----------------------------------------------------------------------------
(* The reset *)

\* Nothing waits: any account with every node at rest describes it.
LEMMA TokensQuiet ==
  ASSUME UNCHANGED <<graph, pool, batch_queue, batch, sched>>,
         pool = EmptyBag, batch_queue = <<>>,
         \A a \in Threads : /\ batch[a] = <<>> /\ sched[a] = <<>> /\ pc'[a] \notin Needing
                            /\ a \in Workers => pc'[a] \in Inside \cup {"idle", "flag"},
         NEW where \in [Nodes -> Tags], NEW who, DOMAIN who = Nodes,
         \A n \in Nodes : where[n] = "new", Packets \subseteq Nodes
  PROVE  Tokens(where, who)'
<1>1. Threads' = Threads /\ Nodes' = Nodes /\ Packets' = Packets
  BY GraphStays
<1>2. \A u \in Threads : HeldBy(where, who, u)'
  BY HeldQuiet
<1>3. PICK f, K, L : f = frame' /\ K = At(where, "pool")' /\ L = At(where, "queue")'
  OBVIOUS
<1>4. Gathers(EmptyBag, f, K) /\ Lists(<<>>, f, L)
  BY GatherEmpty, ListEmpty
<1> QED BY <1>1, <1>2, <1>3, <1>4 DEF Tokens

\* The bump closes the account of the frame and opens the next one.
LEMMA ExactResetBump ==
  ASSUME NEW where, NEW who, NEW walked, NEW base, Before(where, who, walked, base),
         NEW r \in ResThreads, ResetBump(r)
  PROVE  \E where2, base2 : Exact(where2, who, {}, base2)'
<1>1. /\ graph \in Graphs /\ Exact(where, who, walked, base) /\ Tokens(where, who)
      /\ Work(where, walked, base) /\ Counters(where)
      /\ Recorded(where) /\ Control /\ Known(where)
      /\ Shape /\ generation \in Nat /\ r \in Threads /\ r \notin Workers
      /\ ResThreads \subseteq Threads /\ Packets \subseteq Nodes
  BY GraphFacts, GraphMore DEF Before, GenInv, Exact
<1>2. /\ UNCHANGED <<graph, frame, completed, prepared, completed_slot, remaining_deps, ran,
                     pending_tasks, pending_cond_tasks, processing_count>>
      /\ UNCHANGED <<pool, batch_queue, todo, slot_gen, sched, batch>>
      /\ pc[r] = "bump" /\ pc'[r] = "reset_complete" /\ generation' = generation + 1
      /\ \A u \in Threads \ {r} : pc'[u] = pc[u]
  BY <1>1 DEF ResetBump, Goto, frames, history, queues, locals, Shape
<1>3. /\ Threads' = Threads /\ Nodes' = Nodes /\ Packets' = Packets /\ ResThreads' = ResThreads
      /\ Roots' = Roots /\ Cond' = Cond /\ Tasks' = Tasks /\ \A t : Preds(t)' = Preds(t)
  BY <1>2, GraphStays, PredsStay
<1>4. /\ pool = EmptyBag /\ batch_queue = <<>>
      /\ \A a \in Threads : /\ batch[a] = <<>> /\ sched[a] = <<>>
                            /\ pc[a] \notin Needing /\ pc[a] \notin Inside
      /\ frame # NoFrame /\ ~Open
      /\ \A n \in Nodes \ Cond : ran[<<frame, n>>] = 1
  BY <1>1, <1>2, AtBump
<1>5. pc[r] \in Critical /\ pc[r] \in Holding /\ pc[r] \notin {"release", "restart"}
  BY <1>2 DEF Critical, Confirmed, Holding
<1>6. \A s \in ResThreads \ {r} : pc[s] \notin Critical /\ pc[s] \notin Holding
  BY <1>1, <1>5 DEF Control
<1>7. /\ pc'[r] \in Critical /\ pc'[r] \in Holding /\ pc'[r] \in ResetLabels /\ pc'[r] \in Unset
      /\ pc'[r] \notin Inside /\ pc'[r] \notin Needing /\ pc'[r] \notin Confirmed \cup Opening
      /\ pc'[r] \notin {"release", "restart", "reload_proc", "bump"}
  BY <1>2 DEF Critical, ResetLabels, Holding, Unset, Inside, Needing, Confirmed, Opening
<1>8. PICK where2, base2 : where2 = [n \in Nodes |-> "new"] /\ base2 = generation + 1
  OBVIOUS
<1>9. where2 \in [Nodes -> Tags] /\ \A n \in Nodes : where2[n] = "new"
  BY <1>8 DEF Tags
<1>10. Tokens(where2, who)'
  <2>1. ASSUME NEW a \in Threads
        PROVE  /\ pc'[a] \notin Needing
               /\ a \in Workers => pc'[a] \in Inside \cup {"idle", "flag"}
    <3>1. CASE a = r
      BY <1>1, <1>7, <3>1
    <3>2. CASE a # r
      <4>1. pc'[a] = pc[a] /\ HeldBy(where, who, a) /\ pc[a] \notin Needing
        BY <1>1, <1>2, <1>4, <3>2 DEF Tokens
      <4> QED BY <4>1 DEF HeldBy
    <3> QED BY <3>1, <3>2
  <2>2. DOMAIN who = Nodes
    BY <1>1 DEF Tokens
  <2> QED BY <1>1, <1>2, <1>4, <1>9, <2>1, <2>2, TokensQuiet
<1>11. Work(where2, {}, base2)'
  <2>1. ASSUME NEW a \in Threads PROVE WalkedBy({}, base2, a)'
    <3>1. pc'[a] \notin {"load", "resolve"}
      BY <1>2, <1>4, <1>7 DEF Needing
    <3> QED BY <3>1 DEF WalkedBy
  <2>2. ASSUME NEW t \in Tasks PROVE EntryOf({}, base2, t)'
    <3>1. EntryOf(walked, base, t)
      BY <1>1 DEF Work
    <3>2. ~(base2 <= remaining_deps[t].gen)
      BY <1>1, <1>8, <3>1 DEF EntryOf
    <3>3. remaining_deps[t].gen <= generation'
      BY <1>1, <1>2, <3>1 DEF EntryOf
    <3> QED BY <1>2, <3>1, <3>2, <3>3 DEF EntryOf
  <2>3. base2 \in Nat /\ base2 <= generation' /\ DOMAIN remaining_deps = Tasks
    BY <1>1, <1>2, <1>8 DEF Work
  <2>4. Tasks \subseteq Nodes
    BY <1>1, GraphMore
  <2> QED BY <1>2, <1>3, <1>9, <2>1, <2>2, <2>3, <2>4 DEF Work
<1>12. Counters(where2)'
  <2>1. {u \in Threads : pc'[u] \in Inside} = {u \in Threads : pc[u] \in Inside}
    BY <1>2, <1>4, <1>7
  <2>2. ~(\A s \in ResThreads : pc'[s] \notin Unset)
    BY <1>7
  <2> QED BY <1>1, <1>2, <1>3, <1>7, <2>1, <2>2 DEF Counters
<1>13. Open'
  BY <1>3, <1>7 DEF Open
<1>14. Recorded(where2)'
  BY <1>1, <1>2, <1>3, <1>4, <1>13 DEF Recorded
<1>15. \A s \in ResThreads : pc'[s] \in Critical \/ pc'[s] \in Holding => s = r
  BY <1>1, <1>2, <1>6
<1>16. Control'
  <2>1. \A s \in ResThreads : /\ pc'[s] \notin {"release", "restart"}
                              /\ pc[s] \notin {"release", "restart"}
    BY <1>1, <1>2, <1>5, <1>6, <1>7 DEF Critical, ResetLabels
  <2>2. completed_slot
    BY <1>1, <1>5 DEF Control
  <2> QED BY <1>1, <1>2, <1>3, <1>4, <1>15, <2>1, <2>2 DEF Control
<1>17. Known(where2)'
  <2>1. \A s \in ResThreads : /\ pc'[s] \notin Confirmed \cup Opening
                              /\ pc'[s] \notin {"reload_proc", "bump"}
    BY <1>7, <1>15 DEF Critical, Confirmed
  <2>2. \A a \in Threads : pc'[a] \notin Inside
    BY <1>2, <1>4, <1>7
  <2> QED BY <1>3, <1>9, <2>1, <2>2 DEF Known
<1>18. Exact(where2, who, {}, base2)'
  BY <1>10, <1>11, <1>12, <1>14, <1>16, <1>17 DEF Exact
<1> QED BY <1>18

\* A thread inside the reset is alone, and everything is new.
LEMMA AloneResetting ==
  ASSUME NEW where, NEW who, NEW walked, NEW base, Before(where, who, walked, base),
         NEW r \in ResThreads, pc[r] \in ResetLabels
  PROVE  /\ Open
         /\ \A s \in ResThreads \ {r} : pc[s] \notin Critical
         /\ pc[r] # "restart" => frame # NoFrame /\ frame \in Frames
<1>1. Control /\ pc[r] \in Critical
  BY DEF Before, Exact, Critical
<1> QED BY <1>1 DEF Control, Open

\* The steps of the reset after the bump, up to the release: the account stays.
LEMMA ResetKeeps ==
  ASSUME NEW where, NEW who, NEW walked, NEW base, Before(where, who, walked, base),
         NEW r \in ResThreads, pc[r] \in ResetLabels,
         UNCHANGED <<graph, prepared, remaining_deps, ran, generation, processing_count>>,
         UNCHANGED <<pool, batch_queue, todo, slot_gen, sched, batch>>,
         \A u \in Threads \ {r} : pc'[u] = pc[u], pc'[r] \in ResetLabels \cup {"idle"}
  PROVE  /\ Tokens(where, who)' /\ Work(where, walked, base)'
         /\ processing_count' = Cardinality({a \in Threads' : pc'[a] \in Inside})
         /\ Known(where)'
         /\ \A n \in Nodes : where[n] = "new"
<1>1. /\ graph \in Graphs /\ Tokens(where, who) /\ Work(where, walked, base) /\ Counters(where)
      /\ generation \in Nat /\ r \in Threads /\ r \notin Workers
      /\ ResThreads \subseteq Threads /\ Packets \subseteq Nodes
  BY GraphFacts, GraphMore DEF Before, GenInv, Exact
<1>2. /\ Threads' = Threads /\ Nodes' = Nodes /\ Packets' = Packets /\ ResThreads' = ResThreads
      /\ Roots' = Roots /\ Cond' = Cond
  BY GraphStays
<1>3. Open /\ \A s \in ResThreads \ {r} : pc[s] \notin Critical
  BY AloneResetting
<1>4. /\ \A n \in Nodes : where[n] = "new"
      /\ pool = EmptyBag /\ batch_queue = <<>>
      /\ \A a \in Threads : /\ batch[a] = <<>> /\ sched[a] = <<>>
                            /\ pc[a] \notin Needing /\ pc[a] \notin Inside
                            /\ a \in Workers => pc[a] \in Inside \cup {"idle", "flag"}
  BY <1>3, Between
<1>5. /\ pc'[r] \notin Needing /\ pc'[r] \notin Inside /\ pc'[r] \notin Confirmed \cup Opening
      /\ pc'[r] \notin {"reload_proc", "bump"}
  BY DEF ResetLabels, Needing, Inside, Confirmed, Opening
<1>6. Tokens(where, who)'
  <2>1. \A a \in Threads : /\ pc'[a] \notin Needing
                           /\ a \in Workers => pc'[a] \in Inside \cup {"idle", "flag"}
    BY <1>1, <1>4, <1>5
  <2>2. where \in [Nodes -> Tags] /\ DOMAIN who = Nodes
    BY <1>1 DEF Tokens
  <2> QED BY <1>1, <1>4, <2>1, <2>2, TokensQuiet
<1>7. Work(where, walked, base)'
  <2>1. WalkedBy(walked, base, r)'
    BY <1>5 DEF WalkedBy, Needing
  <2>2. generation' \in Nat /\ generation <= generation'
    BY <1>1
  <2> QED BY <1>1, <2>1, <2>2, WorkKept
<1>8. processing_count' = Cardinality({a \in Threads' : pc'[a] \in Inside})
  <2>1. {a \in Threads : pc'[a] \in Inside} = {a \in Threads : pc[a] \in Inside}
    BY <1>4, <1>5
  <2> QED BY <1>1, <1>2, <2>1 DEF Counters
<1>9. Known(where)'
  <2>1. \A s \in ResThreads : /\ pc'[s] \notin Confirmed \cup Opening
                              /\ pc'[s] \notin {"reload_proc", "bump"}
    BY <1>1, <1>3, <1>5 DEF Critical, Confirmed
  <2>2. \A a \in Threads : pc'[a] \notin Inside
    BY <1>4, <1>5
  <2> QED BY <1>2, <1>4, <2>1, <2>2 DEF Known
<1> QED BY <1>4, <1>6, <1>7, <1>8, <1>9

\* Every node is new: the fresh counts are those of all nodes.
LEMMA FreshCounts ==
  ASSUME graph \in Graphs, NEW where, \A n \in Nodes : where[n] = "new"
  PROVE  /\ total_tasks = Cardinality({n \in Nodes \ Cond : ~Counted(where, n)})
         /\ total_cond_tasks = Cardinality({n \in Cond : ~Counted(where, n)})
         /\ total_tasks \in Nat /\ total_cond_tasks \in Nat
<1>1. (Tasks \ Cond) \cup Packets = Nodes \ Cond /\ Cond \subseteq Nodes
  BY GraphMore
<1>2. /\ {n \in Nodes \ Cond : ~Counted(where, n)} = Nodes \ Cond
      /\ {n \in Cond : ~Counted(where, n)} = Cond
  BY <1>1 DEF Counted
<1>3. IsFiniteSet(Nodes \ Cond) /\ IsFiniteSet(Cond)
  BY GraphMore, FS_Difference
<1>4. Cardinality(Nodes \ Cond) \in Nat /\ Cardinality(Cond) \in Nat
  BY <1>3, FS_CardinalityType
<1> QED BY <1>1, <1>2, <1>4 DEF total_tasks, total_cond_tasks

ResetStore(r) ==
  \/ ResetComplete(r) \/ ResetPackets(r) \/ ResetPending(r) \/ ResetCond(r)
  \/ ResetCheck(r) \/ ResetMark(r)

LEMMA ExactReset ==
  ASSUME NEW where, NEW who, NEW walked, NEW base, Before(where, who, walked, base),
         NEW r \in ResThreads, evicting[r] = FALSE, ResetStore(r)
  PROVE  Exact(where, who, walked, base)'
<1>1. /\ graph \in Graphs /\ Counters(where) /\ Recorded(where) /\ Control
      /\ Shape /\ r \in Threads /\ ResThreads \subseteq Threads
  BY GraphFacts DEF Before, GenInv, Exact
<1>2. /\ UNCHANGED <<graph, frame, completed, prepared, remaining_deps, ran, generation,
                     processing_count>>
      /\ UNCHANGED <<pool, batch_queue, todo, slot_gen, sched, batch>>
      /\ \A u \in Threads \ {r} : pc'[u] = pc[u]
  <2>1. CASE ResetComplete(r) \/ ResetPackets(r)
    BY <1>1, <2>1 DEF ResetComplete, ResetPackets, Goto, frames, history, queues, locals, counters,
         Shape
  <2>2. CASE ResetPending(r) \/ ResetCond(r)
    BY <1>1, <2>2 DEF ResetPending, ResetCond, Goto, frames, history, queues, locals, Shape
  <2>3. CASE ResetCheck(r) \/ ResetMark(r)
    BY <1>1, <2>3 DEF ResetCheck, ResetMark, Goto, frames, history, queues, locals, Shape
  <2> QED BY <2>1, <2>2, <2>3 DEF ResetStore
<1>3. \/ /\ pc[r] \in {"reset_complete", "reset_packets"} /\ pc'[r] \in {"reset_packets", "reset_pending"}
         /\ UNCHANGED <<pending_tasks, pending_cond_tasks, completed_slot>>
      \/ /\ pc[r] = "reset_pending" /\ pc'[r] = "reset_cond"
         /\ pending_tasks' = total_tasks /\ UNCHANGED <<pending_cond_tasks, completed_slot>>
      \/ /\ pc[r] = "reset_cond" /\ pc'[r] = "reset_check"
         /\ pending_cond_tasks' = total_cond_tasks /\ UNCHANGED <<pending_tasks, completed_slot>>
      \/ /\ pc[r] = "reset_check" /\ pc'[r] = "reset_mark"
         /\ UNCHANGED <<pending_tasks, pending_cond_tasks, completed_slot>>
      \/ /\ pc[r] = "reset_mark" /\ pc'[r] = "count"
         /\ UNCHANGED <<pending_tasks, pending_cond_tasks>>
  <2>1. CASE ResetComplete(r) \/ ResetPackets(r)
    BY <1>1, <2>1 DEF ResetComplete, ResetPackets, Goto, counters, Shape
  <2>2. CASE ResetPending(r) \/ ResetCond(r)
    BY <1>1, <2>2 DEF ResetPending, ResetCond, Goto, Shape
  <2>3. CASE ResetCheck(r) \/ ResetMark(r)
    BY <1>1, <2>3 DEF ResetCheck, ResetMark, Goto, Shape
  <2> QED BY <2>1, <2>2, <2>3 DEF ResetStore
<1>4. /\ Threads' = Threads /\ Nodes' = Nodes /\ Packets' = Packets /\ ResThreads' = ResThreads
      /\ Roots' = Roots /\ Cond' = Cond
  BY <1>2, GraphStays
<1>5. /\ pc[r] \in ResetLabels /\ pc'[r] \in ResetLabels
      /\ pc[r] \in Critical /\ pc'[r] \in Critical /\ pc[r] \in Holding
      /\ pc[r] \notin {"release", "restart"} /\ pc'[r] \notin {"release", "restart"}
  BY <1>3 DEF ResetLabels, Critical, Holding
<1>6. /\ Tokens(where, who)' /\ Work(where, walked, base)' /\ Known(where)'
      /\ processing_count' = Cardinality({a \in Threads' : pc'[a] \in Inside})
      /\ \A n \in Nodes : where[n] = "new"
  BY <1>2, <1>5, ResetKeeps
<1>7. Open /\ frame # NoFrame /\ \A s \in ResThreads \ {r} : pc[s] \notin Critical
  BY <1>5, AloneResetting
<1>8. Open'
  BY <1>4, <1>5 DEF Open
<1>9. Recorded(where)'
  BY <1>1, <1>2, <1>7, <1>8, RecordedKept
<1>10. \A s \in ResThreads \ {r} : /\ pc'[s] = pc[s] /\ pc[s] \notin Holding
                                   /\ pc'[s] \notin Critical
  BY <1>1, <1>2, <1>5, <1>7 DEF Control
<1>11. Control'
  <2>1. \A s \in ResThreads : pc'[s] \notin {"release", "restart"} /\ pc[s] # "release"
    BY <1>5, <1>7, <1>10 DEF Critical, ResetLabels
  <2>2. \A s \in ResThreads : pc'[s] \in Holding => s = r
    BY <1>10
  <2>3. pc'[r] \in Holding => completed_slot'
    <3>1. CASE pc[r] = "reset_mark"
      BY <1>3, <3>1 DEF Holding
    <3>2. CASE pc[r] # "reset_mark"
      BY <1>1, <1>3, <1>5, <3>2 DEF Control
    <3> QED BY <3>1, <3>2
  <2>4. \A s \in ResThreads : pc'[s] \in Critical => s = r
    BY <1>10
  <2> QED BY <1>1, <1>2, <1>4, <1>7, <2>1, <2>2, <2>3, <2>4 DEF Control
<1>12. Counters(where)'
  <2>1. /\ total_tasks = Cardinality({n \in Nodes \ Cond : ~Counted(where, n)})
        /\ total_cond_tasks = Cardinality({n \in Cond : ~Counted(where, n)})
        /\ total_tasks \in Nat /\ total_cond_tasks \in Nat
    BY <1>1, <1>6, FreshCounts
  <2>2. pending_tasks' \in Nat /\ pending_cond_tasks' \in Nat
    BY <1>1, <1>3, <2>1 DEF Counters
  <2>3. \A s \in ResThreads \ {r} : /\ pc[s] \notin Unset \cup {"reset_cond"}
                                    /\ pc'[s] \notin Unset \cup {"reset_cond"}
    BY <1>7, <1>10 DEF Critical, ResetLabels, Unset
  <2>4. ASSUME \A s \in ResThreads : pc'[s] \notin Unset
        PROVE  pending_tasks' = Cardinality({n \in Nodes \ Cond : ~Counted(where, n)})
    <3>1. CASE pc[r] = "reset_pending"
      BY <1>3, <2>1, <3>1
    <3>2. CASE pc[r] # "reset_pending"
      <4>1. pc[r] \notin Unset /\ pending_tasks' = pending_tasks
        BY <1>3, <2>4, <3>2 DEF Unset
      <4>2. \A s \in ResThreads : pc[s] \notin Unset
        BY <2>3, <4>1
      <4> QED BY <1>1, <4>1, <4>2 DEF Counters
    <3> QED BY <3>1, <3>2
  <2>5. ASSUME \A s \in ResThreads : pc'[s] \notin Unset \cup {"reset_cond"}
        PROVE  pending_cond_tasks' = Cardinality({n \in Cond : ~Counted(where, n)})
    <3>1. CASE pc[r] = "reset_cond"
      BY <1>3, <2>1, <3>1
    <3>2. CASE pc[r] # "reset_cond"
      <4>1. pc[r] \notin Unset \cup {"reset_cond"} /\ pending_cond_tasks' = pending_cond_tasks
        BY <1>3, <2>5, <3>2 DEF Unset
      <4>2. \A s \in ResThreads : pc[s] \notin Unset \cup {"reset_cond"}
        BY <2>3, <4>1
      <4> QED BY <1>1, <4>1, <4>2 DEF Counters
    <3> QED BY <3>1, <3>2
  <2> QED BY <1>4, <1>6, <2>2, <2>4, <2>5 DEF Counters
<1> QED BY <1>6, <1>9, <1>11, <1>12 DEF Exact

\* The frame is counted and the slot released.
LEMMA ExactRelease ==
  ASSUME NEW where, NEW who, NEW walked, NEW base, Before(where, who, walked, base),
         NEW r \in ResThreads, CountFrame(r) \/ ReleaseSlot(r)
  PROVE  Exact(where, who, walked, base)'
<1>1. /\ graph \in Graphs /\ Counters(where) /\ Recorded(where) /\ Control
      /\ Shape /\ r \in Threads /\ ResThreads \subseteq Threads
  BY GraphFacts DEF Before, GenInv, Exact
<1>2. /\ UNCHANGED <<graph, prepared, remaining_deps, ran, generation, processing_count,
                     pending_tasks, pending_cond_tasks, completed_slot>>
      /\ UNCHANGED <<pool, batch_queue, todo, slot_gen, sched, batch>>
      /\ \A u \in Threads \ {r} : pc'[u] = pc[u]
  BY <1>1 DEF CountFrame, ReleaseSlot, Goto, history, queues, locals, counters, Shape
<1>3. \/ /\ pc[r] = "count" /\ pc'[r] = "release" /\ completed' = completed + 1 /\ frame' = frame
      \/ /\ pc[r] = "release" /\ frame' = NoFrame /\ completed' = completed
         /\ \/ pc'[r] = "idle"
            \/ pc'[r] = "restart" /\ Packets = {} /\ completed < MaxFrames
  BY <1>1 DEF CountFrame, ReleaseSlot, Goto, Network, Shape
<1>4. /\ Threads' = Threads /\ Nodes' = Nodes /\ Packets' = Packets /\ ResThreads' = ResThreads
      /\ Roots' = Roots /\ Cond' = Cond /\ Tasks' = Tasks /\ \A t : Preds(t)' = Preds(t)
  BY <1>2, GraphStays, PredsStay
<1>5. /\ pc[r] \in ResetLabels /\ pc'[r] \in ResetLabels \cup {"idle"} /\ pc[r] \in Critical
      /\ pc'[r] \notin Holding /\ pc[r] # "restart"
      /\ pc[r] \notin Unset \cup {"reset_cond"} /\ pc'[r] \notin Unset \cup {"reset_cond"}
      /\ pc[r] \notin Inside /\ pc'[r] \notin Inside
  BY <1>3 DEF ResetLabels, Critical, Holding, Unset, Inside
<1>6. /\ Tokens(where, who)' /\ Work(where, walked, base)' /\ Known(where)'
  BY <1>2, <1>5, ResetKeeps
<1>7. /\ Open /\ frame # NoFrame /\ frame \in Frames
      /\ \A s \in ResThreads \ {r} : pc[s] \notin Critical
  BY <1>5, AloneResetting
<1>8. Counters(where)'
  <2>1. \A u \in Threads : pc'[u] \in Inside <=> pc[u] \in Inside
    BY <1>2, <1>5
  <2>2. \A s \in ResThreads : /\ pc[s] \in Unset => pc'[s] \in Unset
                              /\ pc[s] = "reset_cond" => pc'[s] \in Unset \cup {"reset_cond"}
    BY <1>1, <1>2, <1>5
  <2> QED BY <1>1, <1>2, <2>1, <2>2, CountersKept
<1>9. frame \in Int /\ completed \in Nat /\ MaxFrames \in Nat
  BY <1>1, <1>7, GraphMore DEF Frames, Control
<1>10. /\ pc[r] = "count" => frame = completed
       /\ pc[r] = "release" => frame = completed - 1
  <2>1. pc[r] = "count" => \A s \in ResThreads : pc[s] # "release"
    BY <1>7 DEF Critical, ResetLabels
  <2> QED BY <1>1, <1>7, <2>1 DEF Control
<1>11. Recorded(where)'
  <2>1. ASSUME NEW f \in Frames, NEW n \in Nodes, f >= completed', f # frame'
        PROVE  ran[<<f, n>>] = 0
    <3>1. f \in Int
      BY DEF Frames
    <3>2. f >= completed /\ f # frame
      BY <1>3, <1>9, <1>10, <2>1, <3>1
    <3> QED BY <1>1, <3>2 DEF Recorded
  <2>2. frame' # NoFrame => Open' /\ frame' = frame
    BY <1>3, <1>4 DEF Open, ResetLabels
  <2>3. \A n \in Nodes \ Cond : ran[<<frame, n>>] = 1
    BY <1>1, <1>7 DEF Recorded
  <2> QED BY <1>1, <1>2, <1>4, <2>1, <2>2, <2>3 DEF Recorded
<1>12. Control'
  <2>1. \A s \in ResThreads \ {r} : /\ pc'[s] = pc[s] /\ pc'[s] \notin Critical
                                    /\ pc'[s] \notin {"release", "restart"}
    BY <1>1, <1>2, <1>7 DEF Critical, ResetLabels
  <2>2. prepared
    BY <1>1, <1>7 DEF Control
  <2>3. /\ \A s \in ResThreads : pc'[s] \in Holding => completed_slot'
        /\ \A s, u \in ResThreads : pc'[s] \in Holding /\ pc'[u] \in Holding => s = u
    BY <1>1, <1>2, <1>5, <2>1 DEF Control
  <2>4. \A s, u \in ResThreads : pc'[s] \in Critical /\ pc'[u] \in Critical => s = u
    BY <2>1
  <2>5. "idle" \notin Critical
    BY DEF Critical, Confirmed, ResetLabels, Opening
  <2>6. frame' = NoFrame => \A s \in ResThreads : pc'[s] \in Critical => pc'[s] = "restart"
    BY <1>3, <1>7, <2>1, <2>5
  <2>7. \A s \in ResThreads : pc'[s] = "restart" =>
           frame' = NoFrame /\ prepared' /\ Packets = {} /\ completed' < MaxFrames
    BY <1>2, <1>3, <2>1, <2>2
  <2>8. completed' \in Nat /\ (frame' # NoFrame => frame' \in Frames)
    BY <1>3, <1>7, <1>9
  <2>9. \A s \in ResThreads : pc'[s] = "release" => frame' = completed' - 1
    BY <1>3, <1>9, <1>10, <2>1
  <2>10. frame' # NoFrame /\ (\A s \in ResThreads : pc'[s] # "release") => frame' = completed'
    BY <1>3
  <2> QED BY <1>2, <1>4, <2>2, <2>3, <2>4, <2>6, <2>7, <2>8, <2>9, <2>10 DEF Control
<1> QED BY <1>6, <1>8, <1>11, <1>12 DEF Exact

-----------------------------------------------------------------------------
(* The invariant holds *)

LEMMA ExactInit ==
  ASSUME Init
  PROVE  ExactInv
<1>1. /\ graph \in Graphs /\ IsFiniteSet(Nodes) /\ Tasks \subseteq Nodes /\ Packets \subseteq Nodes
      /\ Cond \subseteq Nodes
  BY GraphMore DEF Init
<1>2. PICK where, who : where = [n \in Nodes |-> "new"] /\ who = [n \in Nodes |-> InitThread]
  OBVIOUS
<1>3. \A n \in Nodes : where[n] = "new"
  BY <1>2
<1>4. ASSUME NEW a \in Threads PROVE pc[a] = "idle" /\ batch[a] = <<>> /\ sched[a] = <<>>
  BY DEF Init
<1>5. /\ "idle" \notin Walking \cup Handing \cup Needing \cup Inside \cup Unset \cup {"reset_cond"}
      /\ "idle" \notin Holding \cup Critical \cup ResetLabels \cup Confirmed \cup Opening
      /\ "idle" \notin {"load", "resolve", "reload_proc", "bump", "restart", "release"}
  BY DEF Walking, Handing, Needing, Inside, Unset, Holding, Critical, ResetLabels, Confirmed, Opening
<1>6. ResThreads \subseteq Threads
  BY <1>1, GraphFacts
<1>7. Tokens(where, who)
  <2>1. where \in [Nodes -> Tags] /\ DOMAIN who = Nodes
    BY <1>2 DEF Tags
  <2>2. Gathers(EmptyBag, frame, At(where, "pool")) /\ Lists(<<>>, frame, At(where, "queue"))
    BY GatherEmpty, ListEmpty
  <2>3. pool = EmptyBag /\ batch_queue = <<>>
    BY DEF Init
  <2>4. ASSUME NEW a \in Threads PROVE HeldBy(where, who, a)
    <3>1. /\ Lists(<<>>, frame, Of(where, who, "sched", a))
          /\ Lists(<<>>, frame, Of(where, who, "ran", a))
      BY ListEmpty
    <3> QED BY <1>4, <1>5, <3>1 DEF HeldBy
  <2> QED BY <1>1, <1>3, <2>1, <2>2, <2>3, <2>4 DEF Tokens
<1>8. Work(where, {}, 0)
  <2>1. ASSUME NEW a \in Threads PROVE WalkedBy({}, 0, a)
    BY <1>4, <1>5 DEF WalkedBy
  <2>2. ASSUME NEW t \in Tasks PROVE EntryOf({}, 0, t)
    <3>1. remaining_deps[t].gen = 0 /\ remaining_deps[t].left = Cardinality(Preds(t)) /\ generation = 0
      BY DEF Init
    <3>2. Preds(t) \subseteq Nodes
      BY DEF Preds
    <3>3. Cardinality(Preds(t)) \in Nat
      BY <1>1, <3>2, FS_Subset, FS_CardinalityType
    <3>4. Unwalked({}, t) = Preds(t)
      BY DEF Unwalked
    <3> QED BY <3>1, <3>3, <3>4 DEF EntryOf
  <2>3. generation = 0 /\ DOMAIN remaining_deps = Tasks
    BY DEF Init
  <2> QED BY <1>1, <1>3, <2>1, <2>2, <2>3 DEF Work
<1>9. Counters(where)
  <2>1. pending_tasks = total_tasks /\ pending_cond_tasks = total_cond_tasks /\ processing_count = 0
    BY DEF Init
  <2>2. {a \in Threads : pc[a] \in Inside} = {}
    BY <1>4, <1>5
  <2>3. Cardinality({}) = 0
    BY FS_EmptySet
  <2> QED BY <1>1, <1>3, <2>1, <2>2, <2>3, FreshCounts DEF Counters
<1>10. frame = NoFrame /\ completed = 0 /\ ran = [x \in (Frames \cup {NoFrame}) \X Nodes |-> 0]
  BY DEF Init
<1>11. \A f \in Frames, n \in Nodes : ran[<<f, n>>] = 0
  BY <1>10
<1>12. Recorded(where)
  BY <1>1, <1>10, <1>11 DEF Recorded
<1>13. \A r \in ResThreads : pc[r] = "idle"
  BY <1>4, <1>6
<1>14. Control
  <2>1. prepared = (Roots = {})
    BY DEF Init
  <2>2. \A r \in ResThreads : /\ pc[r] \notin Holding /\ pc[r] \notin Critical
                              /\ pc[r] \notin {"restart", "release"}
    BY <1>5, <1>13
  <2> QED BY <1>10, <2>1, <2>2 DEF Control
<1>15. Known(where)
  BY <1>3, <1>4, <1>5, <1>13 DEF Known
<1>16. Exact(where, who, {}, 0)
  BY <1>7, <1>8, <1>9, <1>12, <1>14, <1>15 DEF Exact
<1> QED BY <1>16 DEF ExactInv

LEMMA ExactStutter ==
  ASSUME NEW where, NEW who, NEW walked, NEW base, Before(where, who, walked, base),
         UNCHANGED vars
  PROVE  Exact(where, who, walked, base)'
<1>1. /\ graph \in Graphs /\ Tokens(where, who) /\ Work(where, walked, base) /\ Counters(where)
      /\ Recorded(where) /\ Control /\ Known(where) /\ generation \in Nat
      /\ InitThread \in Threads
  BY GraphFacts DEF Before, GenInv, Exact
<1>2. /\ UNCHANGED <<graph, frame, completed, prepared, completed_slot, remaining_deps, ran,
                     generation, pending_tasks, pending_cond_tasks, processing_count>>
      /\ UNCHANGED <<pool, batch_queue, todo, slot_gen, sched, batch, pc>>
  BY DEF vars, counters, frames, history, queues, locals
<1>3. Tokens(where, who)'
  <2>1. HeldBy(where, who, InitThread)
    BY <1>1 DEF Tokens
  <2>2. HeldBy(where, who, InitThread)'
    <3>1. /\ pc[InitThread] \in Needing => batch[InitThread] # <<>>
          /\ \/ InitThread \in Workers /\ pc[InitThread] = "send"
             \/ InitThread \in ResThreads /\ pc[InitThread] \notin Needing \cup Opening \cup {"send"}
             => batch[InitThread] = <<>>
          /\ InitThread \in Workers => pc[InitThread] \in Needing \cup Inside \cup {"idle", "flag"}
      BY <2>1 DEF HeldBy
    <3> QED BY <1>1, <1>2, <2>1, <3>1, HeldByKept
  <2> QED BY <1>1, <1>2, <2>2, TokensKept
<1>4. Work(where, walked, base)'
  <2>1. WalkedBy(walked, base, InitThread)
    BY <1>1 DEF Work
  <2>2. WalkedBy(walked, base, InitThread)'
    BY <1>2, <2>1, GraphStays DEF WalkedBy
  <2>3. generation' \in Nat /\ generation <= generation'
    BY <1>1, <1>2
  <2> QED BY <1>1, <1>2, <2>2, <2>3, WorkKept
<1>5. Counters(where)'
  BY <1>1, <1>2, CountersKept
<1>6. PlainThreads
  BY <1>2 DEF PlainThreads
<1>7. Control' /\ (Open' <=> Open)
  BY <1>1, <1>2, <1>6, ControlKept
<1>8. Recorded(where)'
  BY <1>1, <1>2, <1>7, RecordedKept
<1>9. Known(where)'
  <2>1. frame = NoFrame \/ Open => \A n \in Nodes : where[n] = "new"
    BY <1>1 DEF Known
  <2> QED BY <1>1, <1>2, <1>6, <1>7, <2>1, KnownKept
<1> QED BY <1>3, <1>4, <1>5, <1>7, <1>8, <1>9 DEF Exact

\* Without evictions no reset is one.
NeverEvicts == ~Eviction => evicting = [r \in ResThreads |-> FALSE]

\* The graph is fixed, and only an eviction marks a reset as one.
LEMMA EvictingStep ==
  ASSUME NeverEvicts, [Next]_vars
  PROVE  NeverEvicts' /\ graph' = graph
<1>1. ASSUME UNCHANGED <<graph, evicting>> PROVE NeverEvicts' /\ graph' = graph
  BY <1>1 DEF NeverEvicts, Eviction, ResThreads
<1>2. CASE UNCHANGED vars \/ Done
  BY <1>1, <1>2 DEF Done, vars
<1>3. ASSUME NEW w \in Workers, WorkerStep(w) PROVE NeverEvicts' /\ graph' = graph
  BY <1>1, <1>3 DEF WorkerStep, Take, Start, DropStale, Run, DropInArgs, Verify
<1>4. ASSUME NEW a \in Threads, Resolution(a) PROVE NeverEvicts' /\ graph' = graph
  <2>1. CASE Enter(a) \/ Discharge(a) \/ Load(a) \/ ResolveEdge(a) \/ ConditionPasses(a)
    BY <1>1, <2>1 DEF Enter, Discharge, Load, ResolveEdge, ConditionPasses
  <2>2. CASE ConditionFails(a) \/ ItemDone(a) \/ Send(a) \/ Leave(a) \/ Flag(a)
    BY <1>1, <2>2 DEF ConditionFails, ItemDone, Send, Leave, Flag
  <2> QED BY <1>4, <2>1, <2>2 DEF Resolution
<1>5. ASSUME NEW r \in ResThreads, NEW p \in Packets, AdmitHit(r, p) \/ AdmitFirst(r, p)
      PROVE  NeverEvicts' /\ graph' = graph
  BY <1>1, <1>5 DEF AdmitHit, AdmitFirst
<1>6. ASSUME NEW r \in ResThreads, StartFrame(r) \/ Drain(r) \/ CheckSwap(r) \/ Finish(r) \/ Evict(r)
      PROVE  NeverEvicts' /\ graph' = graph
  <2>1. CASE StartFrame(r) \/ Drain(r) \/ CheckSwap(r)
    BY <1>1, <2>1 DEF StartFrame, Prepare, AssignBump, DispatchRoots, Drain, CheckSwap
  <2>2. CASE LoadCounter(r) \/ try_complete_slot(r) \/ unmark_slot_completed(r) \/ ResetBump(r)
    BY <1>1, <2>2 DEF LoadCounter, try_complete_slot, unmark_slot_completed, ResetBump
  <2>3. CASE ResetComplete(r) \/ ResetPackets(r) \/ ResetPending(r) \/ ResetCond(r)
    BY <1>1, <2>3 DEF ResetComplete, ResetPackets, ResetPending, ResetCond
  <2>4. CASE ResetCheck(r) \/ CountFrame(r) \/ ReleaseSlot(r) \/ Restart(r)
    BY <1>1, <2>4 DEF ResetCheck, CountFrame, ReleaseSlot, Restart
  <2>5. CASE ResetMark(r)
    BY <2>5 DEF ResetMark, NeverEvicts, Eviction, ResThreads
  <2>6. CASE Evict(r)
    BY <2>6 DEF Evict, NeverEvicts, Eviction
  <2> QED BY <1>6, <2>1, <2>2, <2>3, <2>4, <2>5, <2>6 DEF Finish
<1> QED BY <1>2, <1>3, <1>4, <1>5, <1>6 DEF Next

LEMMA ExactStep ==
  ASSUME OneStart, GenInv, NeverEvicts, ExactInv, [Next]_vars
  PROVE  ExactInv'
<1>1. graph \in Graphs /\ graph' = graph
  BY EvictingStep DEF GenInv, Shape
<1>2. CASE Eviction
  BY <1>1, <1>2 DEF ExactInv, Eviction
<1>3. CASE ~Eviction
  <2>1. PICK where, who, walked, base : Exact(where, who, walked, base)
    BY <1>3 DEF ExactInv
  <2>2. Before(where, who, walked, base)
    BY <1>1, <2>1 DEF Before
  <2> SUFFICES \E where2, who2, walked2, base2 : Exact(where2, who2, walked2, base2)'
    BY DEF ExactInv
  <2>3. CASE UNCHANGED vars \/ Done
    BY <2>2, <2>3, ExactStutter DEF Done
  <2>4. ASSUME NEW w \in Workers, WorkerStep(w)
        PROVE  \E where2, who2, walked2, base2 : Exact(where2, who2, walked2, base2)'
    <3>1. CASE Take(w)
      BY <2>2, <3>1, ExactTake
    <3>2. CASE Start(w) \/ DropStale(w) \/ DropInArgs(w) \/ Verify(w)
      BY <2>2, <3>2, ExactGuards
    <3>3. CASE Run(w)
      BY <2>2, <3>3, ExactRun
    <3> QED BY <2>4, <3>1, <3>2, <3>3 DEF WorkerStep
  <2>5. ASSUME NEW a \in Threads, Resolution(a)
        PROVE  \E where2, who2, walked2, base2 : Exact(where2, who2, walked2, base2)'
    <3>1. CASE Enter(a) \/ Leave(a)
      BY <2>2, <3>1, ExactPassage
    <3>2. CASE Discharge(a)
      BY <2>2, <3>2, ExactDischarge
    <3>3. CASE Load(a)
      BY <2>2, <3>3, ExactLoad
    <3>4. CASE ResolveEdge(a) \/ ConditionPasses(a) \/ ConditionFails(a)
      BY <2>2, <3>4, ExactResolveEdge
    <3>5. CASE ItemDone(a)
      BY <2>2, <3>5, ExactItemDone
    <3>6. CASE Send(a)
      BY <2>2, <3>6, ExactSend
    <3>7. CASE Flag(a)
      BY <2>2, <3>7, ExactFlag
    <3> QED BY <2>5, <3>1, <3>2, <3>3, <3>4, <3>5, <3>6, <3>7 DEF Resolution
  <2>6. ASSUME NEW r \in ResThreads, NEW p \in Packets, AdmitHit(r, p) \/ AdmitFirst(r, p)
        PROVE  \E where2, who2, walked2, base2 : Exact(where2, who2, walked2, base2)'
    <3>1. CASE AdmitHit(r, p)
      BY <2>2, <3>1, ExactAdmitHit
    <3>2. CASE AdmitFirst(r, p)
      BY <2>2, <3>2, ExactAdmitFirst
    <3> QED BY <2>6, <3>1, <3>2
  <2>7. ASSUME NEW r \in ResThreads, StartFrame(r) \/ Drain(r) \/ CheckSwap(r)
        PROVE  \E where2, who2, walked2, base2 : Exact(where2, who2, walked2, base2)'
    <3>1. CASE Prepare(r)
      BY <2>2, <3>1, ExactPrepare
    <3>2. CASE AssignBump(r)
      BY <2>2, <3>2, ExactAssignBump
    <3>3. CASE DispatchRoots(r)
      BY <2>2, <3>3, ExactDispatch
    <3>4. CASE Drain(r)
      BY <2>2, <3>4, ExactDrain
    <3>5. CASE CheckSwap(r)
      BY <2>2, <3>5, ExactCheck
    <3> QED BY <2>7, <3>1, <3>2, <3>3, <3>4, <3>5 DEF StartFrame
  <2>8. ASSUME NEW r \in ResThreads, Finish(r)
        PROVE  \E where2, who2, walked2, base2 : Exact(where2, who2, walked2, base2)'
    <3>1. CASE LoadCounter(r)
      <4>1. pc[r] \in {"load_pending", "load_cond", "load_proc",
                       "reload_pending", "reload_cond", "reload_proc"}
        BY <3>1, NextLoads DEF LoadCounter, LoadLabels
      <4> QED BY <2>2, <3>1, <4>1, ExactCheck, ExactClaim
    <3>2. CASE try_complete_slot(r) \/ unmark_slot_completed(r)
      BY <2>2, <3>2, ExactClaim
    <3>3. CASE ResetBump(r)
      BY <2>2, <3>3, ExactResetBump
    <3>4. CASE ResetStore(r)
      <4>1. evicting[r] = FALSE
        BY <1>3 DEF NeverEvicts
      <4> QED BY <2>2, <3>4, <4>1, ExactReset
    <3>5. CASE CountFrame(r) \/ ReleaseSlot(r)
      BY <2>2, <3>5, ExactRelease
    <3>6. CASE Restart(r)
      BY <2>2, <3>6, ExactRestart
    <3> QED BY <2>8, <3>1, <3>2, <3>3, <3>4, <3>5, <3>6 DEF Finish, ResetStore
  <2>9. \A r \in ResThreads : ~Evict(r)
    BY <1>3 DEF Evict
  <2> QED BY <2>3, <2>4, <2>5, <2>6, <2>7, <2>8, <2>9 DEF Next
<1> QED BY <1>2, <1>3

\* The whole invariant, and that it holds in every state.
SlotInv == GenInv /\ NeverEvicts /\ ExactInv

LEMMA SlotInvHolds ==
  ASSUME OneStart
  PROVE  Spec => []SlotInv
<1>1. ASSUME Init PROVE SlotInv
  <2>1. NeverEvicts
    BY <1>1 DEF Init, NeverEvicts
  <2>2. GenInv
    BY <1>1, GenInit
  <2> QED BY <1>1, <2>1, <2>2, ExactInit DEF SlotInv
<1>2. SlotInv /\ [Next]_vars => SlotInv'
  BY GenStep, EvictingStep, ExactStep DEF SlotInv
<1> QED BY <1>1, <1>2, PTL DEF Spec

\* A claim is exact, for every graph, any number of workers and resolution
\* threads (one, if the graph has both roots and packets), frames and batch
\* sizes, without evictions: when a thread has read the three counters of
\* the slot as zero after it won the completion bit, every task and packet of
\* the frame was resolved, each unconditional one ran exactly once, and nothing
\* of the frame is left in the scheduler, in the queue or in a worker's hands.
THEOREM ClaimsAreExact ==
  ASSUME OneStart
  PROVE  Spec => []ClaimIsExact
<1>1. SlotInv => ClaimIsExact
  BY ExactGives DEF SlotInv, GenInv, Shape
<1> QED BY <1>1, SlotInvHolds, PTL

\* The usize counters pending_tasks and pending_cond_tasks never wrap in a run
\* without evictions: no task is counted off twice, or after the reset.
THEOREM CountersNeverWrap ==
  ASSUME OneStart
  PROVE  Spec => []NoUnderflow
<1>1. SlotInv => NoUnderflow
  BY ExactGives DEF SlotInv, GenInv, Shape
<1> QED BY <1>1, SlotInvHolds, PTL

\* No task runs before its predecessors have run in the same frame, in a run
\* without evictions, whoever resolves them and however the decrements of its entry interleave.
THEOREM TasksRunInOrder ==
  ASSUME OneStart
  PROVE  Spec => []DependencyOrder
<1>1. SlotInv => DependencyOrder
  BY ExactGives DEF SlotInv, GenInv, Shape
<1> QED BY <1>1, SlotInvHolds, PTL

-----------------------------------------------------------------------------
(* The stale-task guard has nothing to do *)

\* No task is anywhere, and nobody resolves one.
Quiet ==
  /\ pool = EmptyBag /\ batch_queue = <<>>
  /\ \A a \in Threads : pc[a] \notin Inside /\ pc[a] \notin Needing
  /\ \A w \in Workers : batch[w] = <<>>

\* Every task in flight carries the generation of the slot, and so will one that
\* a worker keeps; the generation is bumped when there is none.
Fresh ==
  /\ stale_tasks_dropped = 0
  /\ \A j \in InFlight : j.gen = generation /\ ~j.late
  /\ \A w \in Workers : pc[w] \in {"resolve", "send"} => slot_gen[w] = generation
  /\ \A r \in ResThreads : pc[r] = "assigned" => Quiet

FreshInv == ~Eviction /\ OneOpener => Fresh

LEMMA QuietFresh ==
  ASSUME Quiet', stale_tasks_dropped' = 0
  PROVE  Fresh'
<1>1. InFlight' = {}
  BY DEF Quiet, InFlight, BagToSet, EmptyBag, SetToBag, Range
<1>2. \A w \in Workers : pc'[w] \notin Inside
  BY DEF Quiet, Threads
<1> QED BY <1>1, <1>2 DEF Fresh, Inside

\* A step of one thread that leaves the generation alone.
LEMMA FreshKept ==
  ASSUME Fresh, UNCHANGED <<graph, generation, stale_tasks_dropped>>, NEW a \in Threads,
         \A u \in Threads \ {a} : pc'[u] = pc[u] /\ slot_gen'[u] = slot_gen[u],
         \A j \in InFlight' \ InFlight : j.gen = generation /\ ~j.late,
         a \in Workers /\ pc'[a] \in {"resolve", "send"} => slot_gen'[a] = generation,
         pc'[a] # "assigned", ResThreads \subseteq Threads,
         \/ \A r \in ResThreads : pc[r] # "assigned"
         \/ /\ pc'[a] \notin Inside /\ pc'[a] \notin Needing
            /\ UNCHANGED <<pool, batch_queue>> /\ \A w \in Workers : batch'[w] = batch[w]
  PROVE  Fresh'
<1>1. Threads' = Threads /\ ResThreads' = ResThreads
  BY GraphStays
<1>2. \A j \in InFlight' : j.gen = generation /\ ~j.late
  BY DEF Fresh
<1>3. \A w \in Workers : pc'[w] \in {"resolve", "send"} => slot_gen'[w] = generation
  BY DEF Fresh, Threads
<1>4. ASSUME NEW r \in ResThreads, pc'[r] = "assigned" PROVE Quiet'
  <2>1. r # a /\ pc[r] = "assigned"
    BY <1>4
  <2>2. Quiet
    BY <2>1 DEF Fresh
  <2> QED BY <1>1, <2>1, <2>2 DEF Quiet
<1> QED BY <1>1, <1>2, <1>3, <1>4 DEF Fresh

\* Somebody resolves a task, or there is one: the slot is not being opened.
LEMMA NotQuiet ==
  ASSUME Fresh, ~Quiet
  PROVE  \A r \in ResThreads : pc[r] # "assigned"
BY DEF Fresh

LEMMA FreshWorker ==
  ASSUME NEW where, NEW who, NEW walked, NEW base, Before(where, who, walked, base), Fresh,
         NEW w \in Workers, WorkerStep(w)
  PROVE  Fresh'
<1>1. /\ GenInv /\ Shape /\ w \in Threads /\ HeldBy(where, who, w) /\ ResThreads \subseteq Threads
      /\ batch[w] = <<>> \/ \E j : batch[w] = <<j>>
  BY GraphFacts DEF Before, GenInv, Shape, WorkerHolds, Exact, Tokens
<1>2. /\ UNCHANGED <<graph, generation, slot_gen>> /\ InFlight' \subseteq InFlight
      /\ \A u \in Threads \ {w} : pc'[u] = pc[u]
  BY <1>1, WorkerFlight
<1>3. ~DropStale(w)
  <2>1. ASSUME DropStale(w) PROVE FALSE
    <3>1. pc[w] \in Needing /\ batch[w][1].gen # generation
      BY <2>1 DEF DropStale, Needing
    <3>2. batch[w] # <<>>
      BY <1>1, <3>1 DEF HeldBy
    <3>3. PICK j : batch[w] = <<j>>
      BY <1>1, <3>2
    <3>4. j \in InFlight /\ batch[w][1] = j
      BY <3>3 DEF InFlight, Range
    <3> QED BY <3>1, <3>4 DEF Fresh
  <2> QED BY <2>1
<1>4. /\ stale_tasks_dropped' = stale_tasks_dropped
      /\ pc'[w] \in {"start", "run", "enter", "idle", "discharge", "leave"}
  BY <1>1, <1>3 DEF WorkerStep, Take, Start, Run, DropInArgs, Verify, Goto, Shape, history
<1>5. ~Quiet
  <2>1. CASE Take(w)
    <3>1. BagToSet(EmptyBag) = {}
      BY DEF BagToSet, EmptyBag, SetToBag
    <3> QED BY <2>1, <3>1 DEF Take, Quiet
  <2>2. CASE ~Take(w)
    <3>1. pc[w] \in Needing
      BY <2>2 DEF WorkerStep, Start, DropStale, Run, DropInArgs, Verify, Needing
    <3> QED BY <1>1, <3>1 DEF Quiet
  <2> QED BY <2>1, <2>2
<1> QED BY <1>1, <1>2, <1>4, <1>5, NotQuiet, FreshKept

\* What a thread sends, or keeps for itself, is of the frame in the slot.
LEMMA FreshSend ==
  ASSUME NEW where, NEW who, NEW walked, NEW base, Before(where, who, walked, base), Fresh,
         NEW a \in Threads, Send(a)
  PROVE  Fresh'
<1>1. /\ GenInv /\ Shape /\ HeldBy(where, who, a) /\ ResThreads \subseteq Threads
      /\ Workers \cap ResThreads = {} /\ Workers \subseteq Threads /\ graph \in Graphs
      /\ Exact(where, who, walked, base)
  BY GraphFacts DEF Before, GenInv, Shape, Exact, Tokens
<1>2. /\ UNCHANGED <<graph, generation, slot_gen, stale_tasks_dropped>> /\ pc[a] = "send"
      /\ \A u \in Threads \ {a} : pc'[u] = pc[u] /\ batch'[u] = batch[u]
      /\ pc'[a] \in {"discharge", "leave"}
      /\ batch'[a] = batch[a] \/ (Keeps(a) /\ batch'[a] = <<Kept(a)>>)
  BY <1>1 DEF Send, Goto, Shape, counters, history
<1> DEFINE ts == IF Keeps(a) THEN Front(sched[a]) ELSE sched[a]
<1>3. BagToSet(pool') = BagToSet(pool) \cup Range(Stamped(ts))
  <2>1. pool' = pool (+) BagOf(Stamped(ts))
    BY DEF Send
  <2>2. BagToSet(BagOf(Stamped(ts))) = Range(Stamped(ts))
    BY DEF BagOf, BagToSet
  <2> HIDE DEF ts
  <2> QED BY <2>1, <2>2, PoolLemma
<1>4. Lists(sched[a], frame, Of(where, who, "sched", a))
  BY <1>1 DEF HeldBy
<1>5. sched[a] # <<>> => frame # NoFrame /\ ~Resetting
  <2>1. ASSUME sched[a] # <<>> PROVE frame # NoFrame /\ ~Resetting
    <3>1. sched[a][1].task \in Of(where, who, "sched", a)
      BY <1>4, <2>1, ListTail
    <3>2. PICK n \in Nodes : where[n] # "new"
      BY <3>1 DEF Of
    <3>3. frame # NoFrame /\ ~Open
      BY <1>1, <3>2, Busy
    <3> QED BY <3>3 DEF Open, Resetting, ResetLabels
  <2> QED BY <2>1
<1>6. ASSUME NEW i \in DOMAIN ts
      PROVE  ts[i].frame = frame /\ sched[a] # <<>>
  <2>1. CASE Keeps(a)
    <3>1. sched[a] # <<>>
      BY <2>1 DEF Keeps
    <3>2. Lists(Front(sched[a]), frame, Of(where, who, "sched", a) \ {Last(sched[a]).task})
      BY <1>4, <3>1, ListFront
    <3> QED BY <2>1, <3>1, <3>2 DEF Lists
  <2>2. CASE ~Keeps(a)
    <3>1. i \in DOMAIN sched[a] /\ ts[i] = sched[a][i]
      BY <2>2
    <3>2. sched[a] # <<>>
      BY <3>1
    <3> QED BY <1>4, <3>1, <3>2 DEF Lists
  <2> QED BY <2>1, <2>2
<1> HIDE DEF ts
<1>7. ASSUME NEW t, NEW g, NEW f, f = frame, sched[a] # <<>>
      PROVE  Job(t, g, f).gen = g /\ ~Job(t, g, f).late
  <2>1. Job(t, g, f).gen = g
    BY DEF Job
  <2>2. Job(t, g, f).late <=> Resetting \/ frame = NoFrame \/ f # frame
    BY Zenon DEF Job
  <2> QED BY <1>5, <1>7, <2>1, <2>2
<1>8. ASSUME NEW j \in Range(Stamped(ts)) PROVE j.gen = generation /\ ~j.late
  <2>1. PICK i \in DOMAIN ts : j = Job(ts[i].task, generation, ts[i].frame)
    BY DEF Range, Stamped
  <2> QED BY <1>6, <1>7, <2>1
<1>9. ASSUME NEW j \in InFlight' \ InFlight PROVE j.gen = generation /\ ~j.late
  <2>1. CASE j \in Range(Stamped(ts))
    BY <1>8, <2>1
  <2>2. CASE j \notin Range(Stamped(ts))
    <3>1. PICK w \in Workers : j \in Range(batch'[w])
      BY <1>3, <1>9, <2>2 DEF InFlight
    <3>2. j \notin Range(batch[w])
      BY <1>9 DEF InFlight
    <3>3. w = a /\ Keeps(a) /\ batch'[a] = <<Kept(a)>>
      BY <1>1, <1>2, <3>1, <3>2
    <3>4. j = Job(Last(sched[a]).task, slot_gen[a], Last(sched[a]).frame)
      BY <3>1, <3>3 DEF Range, Kept
    <3>5. sched[a] # <<>> /\ slot_gen[a] = generation
      BY <1>2, <3>3 DEF Keeps, Fresh
    <3>6. Last(sched[a]).frame = frame
      BY <1>4, <3>5, ListFront
    <3> QED BY <1>7, <3>4, <3>5, <3>6
  <2> QED BY <2>1, <2>2
<1>10. ~Quiet
  BY <1>2 DEF Quiet, Inside
<1> QED BY <1>1, <1>2, <1>9, <1>10, NotQuiet, FreshKept

\* Nothing new is in flight when the scheduler gets nothing and the workers keep
\* no more than they had.
LEMMA FlightKept ==
  ASSUME UNCHANGED pool, \A w \in Workers : batch'[w] = batch[w] \/ batch'[w] = <<>>
  PROVE  InFlight' \subseteq InFlight
<1>1. ASSUME NEW w \in Workers PROVE Range(batch'[w]) \subseteq Range(batch[w])
  BY DEF Range
<1> QED BY <1>1 DEF InFlight

LEMMA FreshResolution ==
  ASSUME NEW where, NEW who, NEW walked, NEW base, Before(where, who, walked, base), Fresh,
         NEW a \in Threads, Resolution(a)
  PROVE  Fresh'
<1>1. /\ Shape /\ HeldBy(where, who, a) /\ ResThreads \subseteq Threads /\ Workers \subseteq Threads
      /\ a \in Workers => batch[a] = <<>> \/ \E j : batch[a] = <<j>>
  BY GraphFacts DEF Before, GenInv, Shape, WorkerHolds, Exact, Tokens
<1>2. CASE Send(a)
  BY <1>2, FreshSend
<1>3. CASE Flag(a)
  <2>1. /\ UNCHANGED <<graph, generation, stale_tasks_dropped, pool, batch_queue, batch, slot_gen>>
        /\ \A u \in Threads \ {a} : pc'[u] = pc[u]
        /\ pc[a] = "flag" /\ pc'[a] = IF batch[a] # <<>> THEN "start" ELSE "idle"
    BY <1>1, <1>3 DEF Flag, Goto, Shape, queues, locals, history
  <2>2. InFlight' \subseteq InFlight
    BY <2>1, FlightKept
  <2>3. ASSUME NEW r \in ResThreads, pc[r] = "assigned"
        PROVE  pc'[a] \notin Inside /\ pc'[a] \notin Needing
    <3>1. Quiet
      BY <2>3 DEF Fresh
    <3>2. a \in ResThreads => batch[a] = <<>>
      BY <1>1, <2>1 DEF HeldBy, Needing, Opening
    <3>3. batch[a] = <<>>
      BY <3>1, <3>2 DEF Quiet, Threads
    <3> QED BY <2>1, <3>3 DEF Inside, Needing
  <2> QED BY <1>1, <2>1, <2>2, <2>3, FreshKept
<1>4. CASE ~Send(a) /\ ~Flag(a)
  <2>1. /\ UNCHANGED <<graph, generation, stale_tasks_dropped, pool>>
        /\ \A u \in Threads \ {a} : /\ pc'[u] = pc[u] /\ batch'[u] = batch[u]
                                    /\ slot_gen'[u] = slot_gen[u]
        /\ pc[a] \in Inside \cup Needing /\ pc'[a] # "assigned"
        /\ pc'[a] \in {"resolve", "send"} =>
             slot_gen'[a] = generation \/ (pc[a] = "resolve" /\ slot_gen'[a] = slot_gen[a])
        /\ batch'[a] = batch[a] \/ ItemDone(a)
    <3>1. CASE Enter(a) \/ Discharge(a) \/ Leave(a)
      BY <1>1, <3>1 DEF Enter, Discharge, Leave, Goto, Shape, queues, locals, history, Inside, Needing
    <3>2. CASE Load(a)
      BY <1>1, <3>2 DEF Load, Goto, Shape, queues, counters, history, Inside
    <3>3. CASE ResolveEdge(a) \/ ConditionPasses(a) \/ ConditionFails(a)
      BY <1>1, <3>3 DEF ResolveEdge, ConditionPasses, ConditionFails, Shape, queues, counters,
           history, Inside
    <3>4. CASE ItemDone(a)
      BY <1>1, <3>4 DEF ItemDone, Goto, Shape, queues, counters, history, Inside
    <3> QED BY <1>4, <3>1, <3>2, <3>3, <3>4 DEF Resolution
  <2>2. a \in Workers => batch'[a] = batch[a] \/ batch'[a] = <<>>
    <3>1. CASE ItemDone(a)
      <4>1. batch'[a] = Tail(batch[a]) /\ pc[a] = "resolve"
        BY <1>1, <3>1 DEF ItemDone, Shape
      <4>2. batch[a] # <<>>
        BY <1>1, <4>1 DEF HeldBy, Needing
      <4> QED BY <1>1, <4>1, <4>2, TailOfOne
    <3> QED BY <2>1, <3>1
  <2>3. InFlight' \subseteq InFlight
    BY <1>1, <2>1, <2>2, FlightKept
  <2>4. ~Quiet
    BY <2>1 DEF Quiet
  <2>5. a \in Workers /\ pc'[a] \in {"resolve", "send"} => slot_gen'[a] = generation
    BY <2>1 DEF Fresh
  <2> QED BY <1>1, <2>1, <2>3, <2>4, <2>5, NotQuiet, FreshKept
<1> QED BY <1>2, <1>3, <1>4

\* A thread gives a frame to the free slot.
LEMMA FreshOpen ==
  ASSUME NEW where, NEW who, NEW walked, NEW base, Before(where, who, walked, base), Fresh,
         NEW r \in ResThreads, frame = NoFrame, pc'[r] = "assigned",
         UNCHANGED <<graph, stale_tasks_dropped, pool, batch_queue>>,
         \A u \in Threads \ {r} : pc'[u] = pc[u] /\ batch'[u] = batch[u]
  PROVE  Fresh'
<1>1. /\ pool = EmptyBag /\ batch_queue = <<>>
      /\ \A a \in Threads : batch[a] = <<>> /\ pc[a] \notin Needing /\ pc[a] \notin Inside
  BY Between
<1>2. r \notin Workers /\ Workers \subseteq Threads /\ Threads' = Threads
  BY GraphFacts, GraphStays DEF Before
<1>3. pc'[r] \notin Inside /\ pc'[r] \notin Needing
  BY DEF Inside, Needing
<1>4. Quiet'
  BY <1>1, <1>2, <1>3 DEF Quiet
<1> QED BY <1>4, QuietFresh DEF Fresh

\* The generation is bumped when nothing is in flight.
LEMMA FreshBump ==
  ASSUME NEW where, NEW who, NEW walked, NEW base, Before(where, who, walked, base), Fresh,
         NEW r \in ResThreads, AssignBump(r) \/ ResetBump(r)
  PROVE  Fresh'
<1>1. /\ Shape /\ graph \in Graphs /\ Exact(where, who, walked, base) /\ r \in Threads
      /\ Workers \subseteq Threads
  BY GraphFacts DEF Before, GenInv
<1>2. /\ UNCHANGED <<graph, stale_tasks_dropped, pool, batch_queue, batch>>
      /\ pc[r] \in {"assigned", "bump"} /\ pc'[r] \in {"roots", "reset_complete"}
      /\ \A u \in Threads \ {r} : pc'[u] = pc[u]
  BY <1>1 DEF AssignBump, ResetBump, Goto, Shape, queues, locals, history
<1>3. Quiet
  <2>1. CASE pc[r] = "assigned"
    BY <2>1 DEF Fresh
  <2>2. CASE pc[r] = "bump"
    <3>1. /\ pool = EmptyBag /\ batch_queue = <<>>
          /\ \A a \in Threads : batch[a] = <<>> /\ pc[a] \notin Needing /\ pc[a] \notin Inside
      BY <1>1, <2>2, AtBump
    <3> QED BY <1>1, <3>1 DEF Quiet
  <2> QED BY <1>2, <2>1, <2>2
<1>4. pc'[r] \notin Inside /\ pc'[r] \notin Needing /\ Threads' = Threads
  BY <1>2, GraphStays DEF Inside, Needing
<1>5. Quiet'
  BY <1>2, <1>3, <1>4 DEF Quiet
<1> QED BY <1>2, <1>5, QuietFresh DEF Fresh

LEMMA FreshDispatch ==
  ASSUME NEW where, NEW who, NEW walked, NEW base, Before(where, who, walked, base), Fresh,
         NEW r \in ResThreads, DispatchRoots(r)
  PROVE  Fresh'
<1>1. /\ Shape /\ graph \in Graphs /\ Control /\ r \in Threads /\ r \notin Workers
      /\ ResThreads \subseteq Threads
  BY GraphFacts DEF Before, GenInv, Exact
<1>2. /\ UNCHANGED <<graph, generation, slot_gen, stale_tasks_dropped, batch>>
      /\ pool' = pool (+) SetToBag({Job(t, generation, frame) : t \in Roots})
      /\ pc[r] = "roots" /\ pc'[r] \in {"idle", "admit"}
      /\ \A u \in Threads \ {r} : pc'[u] = pc[u]
  BY <1>1 DEF DispatchRoots, Goto, Shape, counters, locals, history
<1>3. BagToSet(SetToBag({Job(t, generation, frame) : t \in Roots}))
        = {Job(t, generation, frame) : t \in Roots}
  BY DEF BagToSet, SetToBag
<1>4. BagToSet(pool') = BagToSet(pool) \cup {Job(t, generation, frame) : t \in Roots}
  BY <1>2, <1>3, PoolLemma
<1>5. pc[r] \in Critical /\ pc[r] \notin ResetLabels /\ pc[r] # "restart"
  BY <1>2 DEF Critical, Opening, ResetLabels
<1>6. \A s \in ResThreads \ {r} : pc[s] \notin Critical
  BY <1>1, <1>5 DEF Control
<1>7. frame # NoFrame /\ ~Resetting /\ \A s \in ResThreads : pc[s] # "assigned"
  <2>1. frame # NoFrame
    BY <1>1, <1>5 DEF Control
  <2>2. \A s \in ResThreads : pc[s] \notin ResetLabels /\ pc[s] # "assigned"
    BY <1>2, <1>5, <1>6 DEF Critical, Opening
  <2> QED BY <2>1, <2>2 DEF Resetting, ResetLabels
<1>8. ASSUME NEW j \in InFlight' \ InFlight PROVE j.gen = generation /\ ~j.late
  <2>1. PICK t \in Roots : j = Job(t, generation, frame)
    BY <1>2, <1>4, <1>8 DEF InFlight
  <2>2. j.gen = generation
    BY <2>1 DEF Job
  <2>3. j.late <=> Resetting \/ frame = NoFrame \/ frame # frame
    BY <2>1, Zenon DEF Job
  <2> QED BY <1>7, <2>2, <2>3
<1> QED BY <1>1, <1>2, <1>7, <1>8, FreshKept

\* The other steps of a resolution thread put nothing in flight.
LEMMA FreshQuietStep ==
  ASSUME NEW where, NEW who, NEW walked, NEW base, Before(where, who, walked, base), Fresh,
         NEW r \in ResThreads, UNCHANGED <<graph, generation, slot_gen, stale_tasks_dropped, pool>>,
         \A u \in Threads \ {r} : pc'[u] = pc[u] /\ batch'[u] = batch[u], pc'[r] # "assigned",
         \/ ~Quiet \/ (\A s \in ResThreads : pc[s] # "assigned")
         \/ pc'[r] \notin Inside /\ pc'[r] \notin Needing /\ UNCHANGED batch_queue
  PROVE  Fresh'
<1>1. /\ graph \in Graphs /\ r \in Threads /\ r \notin Workers
      /\ ResThreads \subseteq Threads /\ Workers \subseteq Threads
  BY GraphFacts DEF Before
<1>2. InFlight' \subseteq InFlight /\ \A w \in Workers : batch'[w] = batch[w]
  BY <1>1, FlightKept
<1> QED BY <1>1, <1>2, NotQuiet, FreshKept

LEMMA FreshResThread ==
  ASSUME OneOpener,
         NEW where, NEW who, NEW walked, NEW base, Before(where, who, walked, base), Fresh,
         NEW r \in ResThreads,
         \/ StartFrame(r) \/ Drain(r) \/ CheckSwap(r) \/ Finish(r)
         \/ \E p \in Packets : AdmitHit(r, p) \/ AdmitFirst(r, p)
  PROVE  Fresh'
<1>1. /\ Shape /\ graph \in Graphs /\ Control /\ r \in Threads /\ r \notin Workers
      /\ ResThreads \subseteq Threads
  BY GraphFacts DEF Before, GenInv, Exact
<1>2. CASE Prepare(r) \/ \E p \in Packets : AdmitFirst(r, p)
  <2>1. frame = NoFrame
    BY <1>1, <1>2 DEF Prepare, AdmitFirst, Control
  <2>2. /\ UNCHANGED <<graph, stale_tasks_dropped, pool, batch_queue>> /\ pc'[r] = "assigned"
        /\ \A u \in Threads \ {r} : pc'[u] = pc[u] /\ batch'[u] = batch[u]
    <3>1. CASE Prepare(r)
      BY <1>1, <2>1, <3>1 DEF Prepare, Publish, Goto, Shape, queues, locals, history, NoFrame
    <3>2. CASE \E p \in Packets : AdmitFirst(r, p)
      BY <1>1, <3>2 DEF AdmitFirst, Publish, Goto, Shape, queues, history
    <3> QED BY <1>2, <3>1, <3>2
  <2> QED BY <2>1, <2>2, FreshOpen
<1>3. CASE AssignBump(r) \/ ResetBump(r)
  BY <1>3, FreshBump
<1>4. CASE DispatchRoots(r)
  BY <1>4, FreshDispatch
<1>5. CASE Drain(r)
  <2>1. /\ UNCHANGED <<graph, generation, slot_gen, stale_tasks_dropped, pool>>
        /\ \A u \in Threads \ {r} : pc'[u] = pc[u] /\ batch'[u] = batch[u]
        /\ pc'[r] # "assigned"
    BY <1>1, <1>5 DEF Drain, Goto, Shape, counters, history
  <2>2. batch_queue # <<>>
    <3>1. PICK k \in 1 .. BatchSize : k <= Len(batch_queue)
      BY <1>5 DEF Drain
    <3>2. Len(<<>>) = 0 /\ k \in Int /\ k >= 1
      OBVIOUS
    <3> QED BY <3>1, <3>2
  <2> QED BY <2>1, <2>2, FreshQuietStep DEF Quiet
<1>6. CASE \E p \in Packets : AdmitHit(r, p)
  <2>1. /\ UNCHANGED <<graph, generation, slot_gen, stale_tasks_dropped, pool>>
        /\ \A u \in Threads \ {r} : pc'[u] = pc[u] /\ batch'[u] = batch[u]
        /\ pc'[r] # "assigned" /\ pc[r] # "assigned"
    BY <1>1, <1>6 DEF AdmitHit, Looping, Goto, Shape, counters, history, queues
  <2>2. ResThreads = {r}
    BY <1>1, <1>6 DEF OneOpener
  <2> QED BY <2>1, <2>2, FreshQuietStep
<1>7. CASE LoadCounter(r)
  <2>1. /\ UNCHANGED <<graph, generation, slot_gen, stale_tasks_dropped, pool, batch_queue, batch>>
        /\ pc[r] \in LoadLabels /\ \A u \in Threads \ {r} : pc'[u] = pc[u]
        /\ pc'[r] \in {NextLoad(pc[r]), "idle", "unmark"}
    BY <1>1, <1>7, NextLoads DEF LoadCounter, Goto, Shape, counters, locals, history, queues
  <2>2. pc'[r] \notin Inside /\ pc'[r] \notin Needing /\ pc'[r] # "assigned"
    BY <2>1, NextLoads DEF LoadLabels, Inside, Needing
  <2> QED BY <2>1, <2>2, FreshQuietStep
<1>8. CASE \/ CheckSwap(r) \/ try_complete_slot(r) \/ unmark_slot_completed(r) \/ ResetStore(r)
           \/ CountFrame(r) \/ ReleaseSlot(r) \/ Restart(r)
  <2>1. /\ UNCHANGED <<graph, generation, slot_gen, stale_tasks_dropped, pool, batch_queue, batch>>
        /\ \A u \in Threads \ {r} : pc'[u] = pc[u]
        /\ pc'[r] \notin Inside /\ pc'[r] \notin Needing /\ pc'[r] # "assigned"
    <3>1. CASE CheckSwap(r) \/ try_complete_slot(r) \/ unmark_slot_completed(r)
      BY <1>1, <3>1 DEF CheckSwap, try_complete_slot, unmark_slot_completed, Goto, Shape, locals,
           history, queues, Inside, Needing
    <3>2. CASE ResetComplete(r) \/ ResetPackets(r) \/ ResetPending(r)
      BY <1>1, <3>2 DEF ResetComplete, ResetPackets, ResetPending, Goto, Shape, counters, locals,
           history, queues, Inside, Needing
    <3>3. CASE ResetCond(r) \/ ResetCheck(r) \/ ResetMark(r)
      BY <1>1, <3>3 DEF ResetCond, ResetCheck, ResetMark, Goto, Shape, locals, history, queues,
           Inside, Needing
    <3>4. CASE CountFrame(r) \/ ReleaseSlot(r) \/ Restart(r)
      BY <1>1, <3>4 DEF CountFrame, ReleaseSlot, Restart, Goto, Shape, counters, locals, history,
           queues, Inside, Needing
    <3> QED BY <1>8, <3>1, <3>2, <3>3, <3>4 DEF ResetStore
  <2> QED BY <2>1, FreshQuietStep
<1> QED BY <1>2, <1>3, <1>4, <1>5, <1>6, <1>7, <1>8 DEF StartFrame, Finish, ResetStore

LEMMA FreshStep ==
  ASSUME SlotInv, FreshInv, [Next]_vars
  PROVE  FreshInv'
<1>1. graph \in Graphs /\ graph' = graph
  BY EvictingStep DEF SlotInv, GenInv, Shape
<1>2. CASE Eviction \/ ~OneOpener
  BY <1>1, <1>2 DEF FreshInv, Eviction, OneOpener, Packets, ResThreads
<1>3. CASE ~Eviction /\ OneOpener
  <2>1. PICK where, who, walked, base : Exact(where, who, walked, base)
    BY <1>3 DEF SlotInv, ExactInv
  <2>2. Before(where, who, walked, base) /\ Fresh
    BY <1>1, <1>3, <2>1 DEF Before, SlotInv, FreshInv
  <2> SUFFICES Fresh'
    BY DEF FreshInv
  <2>3. CASE UNCHANGED vars \/ Done
    <3>1. UNCHANGED <<graph, generation, stale_tasks_dropped, pool, batch_queue, batch, slot_gen, pc>>
      BY <2>3 DEF Done, vars, counters, queues, locals, history
    <3>2. InFlight' = InFlight /\ Quiet' = Quiet /\ ResThreads' = ResThreads
      BY <3>1, GraphStays DEF InFlight, Quiet
    <3> QED BY <2>2, <3>1, <3>2 DEF Fresh
  <2>4. \A r \in ResThreads : ~Evict(r)
    BY <1>3 DEF Evict
  <2> QED BY <2>2, <2>3, <2>4, <1>3, FreshWorker, FreshResolution, FreshResThread DEF Next
<1> QED BY <1>2, <1>3

\* In a run without evictions the stale-task guard drops no task, and no task is
\* made after the reset of its frame has begun; for every compute graph with any
\* threads, and for every graph with packets that one thread resolves.
THEOREM NoTaskGoesStale ==
  ASSUME OneStart
  PROVE  Spec => []NoStaleDrops
<1>1. ASSUME Init PROVE FreshInv
  <2>1. InFlight = {}
    BY <1>1 DEF Init, InFlight, BagToSet, EmptyBag, SetToBag, Range, Threads
  <2>2. \A a \in Threads : pc[a] = "idle"
    BY <1>1 DEF Init
  <2>3. stale_tasks_dropped = 0 /\ Workers \subseteq Threads /\ ResThreads \subseteq Threads
    BY <1>1, GraphFacts DEF Init
  <2> QED BY <2>1, <2>2, <2>3 DEF FreshInv, Fresh
<1>2. SlotInv /\ FreshInv /\ [Next]_vars => FreshInv'
  BY FreshStep
<1>3. FreshInv => NoStaleDrops
  BY DEF FreshInv, Fresh, NoStaleDrops
<1>4. Spec => []SlotInv
  BY SlotInvHolds
<1> QED BY <1>1, <1>2, <1>3, <1>4, PTL DEF Spec
=============================================================================
