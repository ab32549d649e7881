---------------------------- MODULE ProgramProofs ----------------------------
(***************************************************************************)
(* Proofs about Program: what the two helper threads of a run, the         *)
(* controller of the task times and the collector of the records, make of  *)
(* what the workers send them.                                             *)
(***************************************************************************)
EXTENDS Program, DataLemmas

-----------------------------------------------------------------------------
(***************************************************************************)
(* Tasks.  A task of a frame is waiting, in the hands of one worker or     *)
(* counted, and a frame is in one slot.                                    *)
(***************************************************************************)

Task == Int \X Nat
SlotRec == [frame : Int, state : {"free", "open", "finishing"}, todo : SUBSET Task, done : SUBSET Task]
WorkerRec == [state : {"idle", "task", "job"}, slot : Int, frame : Int, id : Int,
              chunk : SUBSET Nat, left : Seq(Nat), since : Int]

Busy == {w \in Workers : worker[w].state # "idle"}
Working == {w \in Workers : worker[w].state = "task"}
TasksOf(me) == {<<me.id, i>> : i \in me.chunk}

Booting == {"registry", "load", "scheduler", "compile", "failed"}
BeforeRun == Booting \cup {"build", "start"}

TypeInv ==
  /\ args \in CommandLines /\ next_frame \in Nat /\ clock \in Nat
  /\ Slots \subseteq Int /\ slot \in [Slots -> SlotRec]
  /\ worker \in [Workers -> WorkerRec]
  /\ served \in [Slots -> Seq(Nat)]

BootInv ==
  /\ phase \in BeforeRun \ {"start"} => Slots = {}
  /\ phase \in BeforeRun => Busy = {} /\ \A s \in Slots : slot[s].state = "free"
  /\ phase \notin {"registry", "load", "failed"} =>
       \A id \in 0 .. Len(graph.nodes) - 1 :
         graph.nodes[id + 1].name \in STRING /\ graph.nodes[id + 1].factor \in Nat
  /\ phase \notin Booting => DOMAIN node_cache = 0 .. Len(graph.nodes) - 1

SlotsInv ==
  /\ \A s \in Slots :
       IF slot[s].state = "free" THEN slot[s].frame = -1 /\ slot[s].todo = {}
       ELSE slot[s].frame \in 0 .. next_frame - 1 /\ slot[s].todo \subseteq FrameTasks
  /\ \A s \in Slots : slot[s].todo \cap slot[s].done = {}
  /\ \A s, u \in Slots : slot[s].state # "free" /\ slot[u].frame = slot[s].frame => s = u

\* What a busy worker carries is no other worker's and waits nowhere.
WorkersInv ==
  \A w \in Busy :
    /\ worker[w].frame \in 0 .. next_frame - 1
    /\ worker[w].chunk # {} /\ TasksOf(worker[w]) \subseteq FrameTasks
    /\ \A s \in Slots : slot[s].frame = worker[w].frame => TasksOf(worker[w]) \cap slot[s].todo = {}
    /\ \A v \in Busy : v # w /\ worker[v].frame = worker[w].frame =>
         TasksOf(worker[v]) \cap TasksOf(worker[w]) = {}

KernelsInv ==
  \A w \in Working :
    /\ worker[w].slot \in Slots
    /\ slot[worker[w].slot].state = "open" /\ slot[worker[w].slot].frame = worker[w].frame
    /\ TasksOf(worker[w]) \cap slot[worker[w].slot].done = {}
    /\ Range(worker[w].left) \subseteq worker[w].chunk /\ IsInjective(worker[w].left)

BaseInv == TypeInv /\ BootInv /\ SlotsInv /\ WorkersInv /\ KernelsInv

LEMMA TasksTyped ==
  ASSUME BaseInv, phase \notin BeforeRun
  PROVE  FrameTasks \subseteq Task
<1>1. \A id \in DOMAIN node_cache : id \in Int /\ graph.nodes[id + 1].factor \in Nat
  BY DEF BaseInv, BootInv, BeforeRun, Booting
<1> QED BY <1>1 DEF FrameTasks, Task

LEMMA BaseInit ==
  ASSUME Init
  PROVE  BaseInv
<1>1. DOMAIN <<>> = {}
  OBVIOUS
<1>2. Slots = {} /\ Workers = {} /\ Busy = {} /\ Working = {}
  BY <1>1 DEF Init, Slots, Workers, Busy, Working
<1>3. TypeInv
  <2>1. slot \in [Slots -> SlotRec] /\ worker \in [Workers -> WorkerRec] /\ served \in [Slots -> Seq(Nat)]
    BY <1>1, <1>2 DEF Init
  <2> QED BY <2>1 DEF Init, TypeInv
<1>4. BootInv
  BY <1>2 DEF Init, BootInv, Booting
<1> QED BY <1>2, <1>3, <1>4 DEF BaseInv, SlotsInv, WorkersInv, KernelsInv

\* A step that leaves the frames alone, before, during or after the run.
LEMMA BaseQuiet ==
  ASSUME BaseInv, UNCHANGED <<args, slot, worker, next_frame, served, graph, node_cache>>,
         clock' \in Nat,
         \/ phase' = phase
         \/ phase = "start" /\ phase' = "run"
         \/ phase \notin BeforeRun /\ phase' \notin BeforeRun
  PROVE  BaseInv'
<1>1. /\ Slots' = Slots /\ Workers' = Workers /\ Busy' = Busy /\ Working' = Working
      /\ FrameTasks' = FrameTasks
  BY DEF Slots, Workers, Busy, Working, FrameTasks
<1>2. TypeInv' /\ SlotsInv' /\ WorkersInv' /\ KernelsInv'
  BY <1>1 DEF BaseInv, TypeInv, SlotsInv, WorkersInv, KernelsInv
<1>3. BootInv'
  BY <1>1 DEF BaseInv, BootInv, BeforeRun, Booting
<1> QED BY <1>2, <1>3 DEF BaseInv

\* Until the runtime is built there is nothing but the command line and the graph.
LEMMA BaseBoot ==
  ASSUME BaseInv, InitRegistry \/ LoadGraph \/ CreateScheduler \/ Compile
  PROVE  BaseInv'
<1>1. /\ UNCHANGED <<args, slot, worker, next_frame, served, clock>>
      /\ phase \in {"registry", "load", "scheduler", "compile"}
  BY DEF InitRegistry, LoadGraph, CreateScheduler, Compile, teleVars
<1>2. /\ Slots' = Slots /\ Workers' = Workers /\ Busy' = Busy /\ Working' = Working
      /\ Slots = {} /\ Busy = {} /\ Working = {}
  BY <1>1 DEF Slots, Workers, Busy, Working, BaseInv, BootInv, BeforeRun, Booting
<1>3. TypeInv'
  BY <1>1, <1>2 DEF BaseInv, TypeInv
<1>4. BootInv'
  <2>1. CASE InitRegistry
    BY <1>2, <2>1 DEF InitRegistry, Proceed, BootInv, Booting
  <2>2. CASE LoadGraph
    <3>1. phase' \in {"scheduler", "failed"}
      BY <2>2 DEF LoadGraph, Proceed
    <3>2. ASSUME phase' = "scheduler", NEW id \in (0 .. Len(graph.nodes) - 1)'
          PROVE  (graph.nodes[id + 1].name \in STRING /\ graph.nodes[id + 1].factor \in Nat)'
      <4>1. graph' = from_json_str(args.file, args.workers) /\ graph' # Refused
        BY <2>2, <3>2 DEF LoadGraph, Proceed
      <4>2. args \in CommandLines
        BY DEF BaseInv, TypeInv
      <4> QED BY <3>2, <4>1, <4>2, ProgramAssumption
    <3> QED BY <1>2, <3>1, <3>2 DEF BootInv, Booting
  <2>3. CASE CreateScheduler
    <3>1. phase = "scheduler" /\ phase' \in {"compile", "failed"} /\ graph' = graph
      BY <2>3 DEF CreateScheduler, Proceed
    <3> QED BY <1>2, <3>1 DEF BaseInv, BootInv, Booting
  <2>4. CASE Compile
    <3>1. phase = "compile" /\ phase' \in {"build", "failed"} /\ graph' = graph
      BY <2>4 DEF Compile, Proceed
    <3>2. phase' = "build" => DOMAIN node_cache' = 0 .. Len(graph.nodes) - 1
      BY <2>4 DEF Compile, Proceed, build_node_cache
    <3> QED BY <1>2, <3>1, <3>2 DEF BaseInv, BootInv, Booting
  <2> QED BY <2>1, <2>2, <2>3, <2>4
<1> QED BY <1>2, <1>3, <1>4 DEF BaseInv, SlotsInv, WorkersInv, KernelsInv

LEMMA NothingTyped == Free \in SlotRec /\ Idle \in WorkerRec /\ <<>> \in Seq(Nat)
  BY EmptySeq DEF Free, Idle, SlotRec, WorkerRec, NoTime

LEMMA BaseBuild ==
  ASSUME BaseInv, Build
  PROVE  BaseInv'
<1> DEFINE ids == Slots'
<1>1. /\ UNCHANGED <<args, next_frame, clock, graph, node_cache>>
      /\ phase = "build" /\ phase' \in {"start", "failed"}
  BY DEF Build, Proceed
<1>2. PICK S : /\ slot' = [s \in S |-> Free] /\ served' = [s \in S |-> <<>>]
               /\ S \subseteq Int /\ (phase' = "failed" => S = {})
  <2> DEFINE ok == slots_used \in 1 .. MAX_SLOTS /\ args.batch_queue_capacity > 0 /\ check_receiver_threads
             top == (IF ok THEN slots_used ELSE 0) - 1
  <2>1. slot' = [s \in 0 .. top |-> Free] /\ served' = [s \in 0 .. top |-> <<>>]
    BY DEF Build
  <2>2. phase' = "failed" => 0 .. top = {}
    <3>1. phase' = IF ok THEN "start" ELSE "failed"
      BY DEF Build, Proceed
    <3>2. ~ok => top = -1
      OBVIOUS
    <3> QED BY <3>1, <3>2
  <2>3. top \in Int /\ 0 .. top \subseteq Int
    BY DEF MAX_SLOTS
  <2> QED BY <2>1, <2>2, <2>3
<1>3. worker' = [w \in 0 .. config.workers - 1 |-> Idle]
  BY DEF Build
<1>4. /\ Slots' = S /\ Busy' = {} /\ Working' = {} /\ \A s \in S : slot'[s] = Free
  BY <1>2, <1>3 DEF Slots, Workers, Busy, Working, Idle
<1>6. TypeInv'
  BY <1>1, <1>2, <1>3, <1>4, NothingTyped DEF BaseInv, TypeInv, Workers
<1>7. BootInv'
  BY <1>1, <1>2, <1>4 DEF BaseInv, BootInv, Booting, BeforeRun, Free
<1>8. SlotsInv'
  BY <1>4 DEF SlotsInv, Free
<1> QED BY <1>4, <1>6, <1>7, <1>8 DEF BaseInv, WorkersInv, KernelsInv

\* The running system: who is busy needs a run, and the names of sets stay.
LEMMA Running ==
  ASSUME BaseInv, UNCHANGED <<phase, args, graph, node_cache>>,
         Busy # {} \/ phase = "run" \/ \E s \in Slots : slot[s].state # "free"
  PROVE  /\ phase \notin BeforeRun
         /\ FrameTasks \subseteq Task /\ FrameTasks' = FrameTasks
         /\ Slots' = Slots => BootInv'
<1>1. phase \notin BeforeRun
  BY DEF BaseInv, BootInv, BeforeRun, Booting
<1>2. FrameTasks \subseteq Task
  BY <1>1, TasksTyped
<1>3. FrameTasks' = FrameTasks
  BY DEF FrameTasks
<1>4. Slots' = Slots => BootInv'
  BY <1>1 DEF BaseInv, BootInv, BeforeRun
<1> QED BY <1>1, <1>2, <1>3, <1>4

LEMMA BaseAssign ==
  ASSUME BaseInv, NEW s \in Slots, AssignFrame(s)
  PROVE  BaseInv'
<1>1. /\ UNCHANGED <<phase, args, graph, node_cache, worker>> /\ phase = "run"
      /\ slot[s] = Free /\ next_frame' = next_frame + 1 /\ clock' = clock + 1
      /\ slot' = [slot EXCEPT ![s] = [frame |-> next_frame, state |-> "open",
                                      todo |-> FrameTasks, done |-> {}]]
      /\ served' = [served EXCEPT ![s] = Append(@, next_frame)]
  BY DEF AssignFrame, Tick, argVars
<1>2. Slots' = Slots /\ Workers' = Workers /\ Busy' = Busy /\ Working' = Working
  BY <1>1 DEF Slots, Workers, Busy, Working, BaseInv, TypeInv
<1>3. FrameTasks \subseteq Task /\ FrameTasks' = FrameTasks /\ BootInv'
  BY <1>1, <1>2, Running
<1>4. /\ slot \in [Slots -> SlotRec] /\ served \in [Slots -> Seq(Nat)] /\ next_frame \in Nat /\ clock \in Nat
  BY DEF BaseInv, TypeInv
<1>5. /\ slot'[s].frame = next_frame /\ slot'[s].state = "open" /\ slot'[s].todo = FrameTasks
      /\ slot'[s].done = {}
      /\ \A u \in Slots : u # s => slot'[u] = slot[u]
  BY <1>1, <1>4
<1>6. TypeInv'
  <2>1. slot' \in [Slots -> SlotRec]
    BY <1>1, <1>3, <1>4 DEF SlotRec
  <2>2. served' \in [Slots -> Seq(Nat)]
    <3>1. Append(served[s], next_frame) \in Seq(Nat)
      BY <1>4, AppendProperties
    <3> QED BY <1>1, <1>4, <3>1
  <2> QED BY <1>1, <1>2, <1>4, <2>1, <2>2 DEF BaseInv, TypeInv
<1>7. SlotsInv'
  <2>1. ASSUME NEW u \in Slots PROVE slot[u].frame # next_frame
    <3>1. slot[u].frame = -1 \/ slot[u].frame \in 0 .. next_frame - 1
      BY DEF BaseInv, SlotsInv
    <3> QED BY <1>4, <3>1
  <2> QED BY <1>1, <1>2, <1>3, <1>4, <1>5, <2>1 DEF BaseInv, SlotsInv
<1>8. WorkersInv'
  <2>1. \A w \in Busy : worker[w].frame \in 0 .. next_frame - 1
    BY DEF BaseInv, WorkersInv
  <2>2. \A w \in Busy : worker[w].frame # next_frame /\ worker[w].frame \in 0 .. next_frame
    BY <1>4, <2>1
  <2>3. ASSUME NEW w \in Busy, NEW u \in Slots, slot'[u].frame = worker[w].frame
        PROVE  TasksOf(worker[w]) \cap slot'[u].todo = {}
    <3>1. u # s
      BY <1>5, <2>2, <2>3
    <3> QED BY <1>5, <2>3, <3>1 DEF BaseInv, WorkersInv
  <2>4. worker' = worker /\ 0 .. next_frame' - 1 = 0 .. next_frame
    BY <1>1, <1>4
  <2> QED BY <1>2, <1>3, <2>2, <2>3, <2>4 DEF BaseInv, WorkersInv
<1>9. KernelsInv'
  <2>1. slot[s].state = "free"
    BY <1>1 DEF Free
  <2>2. \A w \in Working : worker[w].slot \in Slots /\ worker[w].slot # s
    BY <2>1 DEF BaseInv, KernelsInv
  <2> QED BY <1>1, <1>2, <1>5, <2>2 DEF BaseInv, KernelsInv
<1> QED BY <1>3, <1>6, <1>7, <1>8, <1>9 DEF BaseInv

\* Worker w takes a chunk of waiting instances.
LEMMA BaseBegin ==
  ASSUME BaseInv, NEW w \in Workers, NEW s \in Slots, NEW id \in Int, NEW chunk \in SUBSET Nat,
         NEW left \in Seq(Nat), chunk # {}, {<<id, i>> : i \in chunk} \subseteq slot[s].todo,
         Range(left) \subseteq chunk, IsInjective(left),
         Begin(w, s, id, chunk, left), node_cache' = node_cache
  PROVE  BaseInv'
<1> DEFINE mine == {<<id, i>> : i \in chunk}
<1>1. /\ UNCHANGED <<phase, args, graph, node_cache, next_frame, served>> /\ phase = "run"
      /\ worker[w] = Idle /\ slot[s].state = "open" /\ clock' \in {clock, clock + 1}
      /\ slot' = [slot EXCEPT ![s].todo = @ \ mine]
      /\ worker' = [worker EXCEPT ![w] = [state |-> "task", slot |-> s, frame |-> slot[s].frame,
                                          id |-> id, chunk |-> chunk, left |-> left,
                                          since |-> IF timing_on THEN clock ELSE NoTime]]
  BY DEF Begin, Tick
<1>2. /\ slot \in [Slots -> SlotRec] /\ worker \in [Workers -> WorkerRec]
      /\ next_frame \in Nat /\ clock \in Nat
  BY DEF BaseInv, TypeInv
<1>3. /\ Slots' = Slots /\ Workers' = Workers /\ Busy' = Busy \cup {w} /\ Working' = Working \cup {w}
  BY <1>1, <1>2 DEF Slots, Workers, Busy, Working
<1>4. FrameTasks \subseteq Task /\ FrameTasks' = FrameTasks /\ BootInv'
  BY <1>1, <1>3, Running
<1>5. /\ \A u \in Slots : u # s => slot'[u] = slot[u]
      /\ slot'[s].frame = slot[s].frame /\ slot'[s].state = "open" /\ slot'[s].done = slot[s].done
      /\ slot'[s].todo = slot[s].todo \ mine
      /\ \A v \in Workers : v # w => worker'[v] = worker[v]
      /\ worker'[w].frame = slot[s].frame /\ worker'[w].id = id /\ worker'[w].chunk = chunk
      /\ worker'[w].left = left /\ worker'[w].slot = s /\ worker'[w].state = "task"
  BY <1>1, <1>2 DEF SlotRec
<1>6. w \notin Busy /\ w \notin Working /\ TasksOf(worker'[w]) = mine
  BY <1>1, <1>5 DEF Busy, Working, Idle, TasksOf
<1>7. TypeInv'
  <2>1. slot' \in [Slots -> SlotRec]
    BY <1>1, <1>2 DEF SlotRec
  <2>2. s \in Int /\ slot[s].frame \in Int /\ (IF timing_on THEN clock ELSE NoTime) \in Int
    BY <1>2 DEF SlotRec, NoTime, BaseInv, TypeInv
  <2>3. worker' \in [Workers -> WorkerRec]
    BY <1>1, <1>2, <2>2 DEF WorkerRec
  <2> QED BY <1>1, <1>2, <1>3, <2>1, <2>3 DEF BaseInv, TypeInv
<1>8. SlotsInv'
  BY <1>1, <1>3, <1>4, <1>5 DEF BaseInv, SlotsInv
<1>9. WorkersInv'
  <2>1. \A v \in Busy : v # w /\ worker[v].frame = slot[s].frame => TasksOf(worker[v]) \cap mine = {}
    BY <1>6 DEF BaseInv, WorkersInv
  <2>2. slot[s].frame \in 0 .. next_frame - 1 /\ mine \subseteq FrameTasks
    BY <1>1 DEF BaseInv, SlotsInv
  <2>3. \A u \in Slots : slot'[u].frame = slot[s].frame => mine \cap slot'[u].todo = {}
    BY <1>1, <1>5 DEF BaseInv, SlotsInv
  <2>4. ASSUME NEW v \in Busy, v # w
        PROVE  /\ worker'[v] = worker[v] /\ worker[v].frame \in 0 .. next_frame - 1
               /\ worker[v].chunk # {} /\ TasksOf(worker[v]) \subseteq FrameTasks
               /\ \A u \in Slots : slot'[u].frame = worker[v].frame => TasksOf(worker[v]) \cap slot'[u].todo = {}
               /\ \A x \in Busy : x # v /\ worker[x].frame = worker[v].frame =>
                    TasksOf(worker[x]) \cap TasksOf(worker[v]) = {}
    <3>1. v \in Workers /\ worker'[v] = worker[v]
      BY <1>5, <2>4 DEF Busy
    <3>2. \A u \in Slots : slot'[u].frame = slot[u].frame /\ slot'[u].todo \subseteq slot[u].todo
      BY <1>5
    <3> QED BY <2>4, <3>1, <3>2 DEF BaseInv, WorkersInv
  <2>5. /\ worker'[w].frame \in 0 .. next_frame - 1
        /\ worker'[w].chunk # {} /\ TasksOf(worker'[w]) \subseteq FrameTasks
        /\ \A u \in Slots : slot'[u].frame = worker'[w].frame => TasksOf(worker'[w]) \cap slot'[u].todo = {}
    BY <1>5, <1>6, <2>2, <2>3
  <2>6. ASSUME NEW v \in Busy, worker'[v].frame = worker'[w].frame
        PROVE  TasksOf(worker'[v]) \cap TasksOf(worker'[w]) = {}
    BY <1>5, <1>6, <2>1, <2>4, <2>6
  <2>7. ASSUME NEW v \in Busy, v # w, NEW x \in Busy \cup {w}, x # v, worker'[x].frame = worker'[v].frame
        PROVE  TasksOf(worker'[x]) \cap TasksOf(worker'[v]) = {}
    <3>1. CASE x = w
      BY <2>6, <2>7, <3>1
    <3>2. CASE x # w
      <4>1. worker'[x] = worker[x] /\ worker'[v] = worker[v] /\ x \in Busy
        BY <2>4, <2>7, <3>2
      <4> QED BY <2>4, <2>7, <4>1
    <3> QED BY <3>1, <3>2
  <2>8. ASSUME NEW v \in Busy \cup {w}
        PROVE  /\ worker'[v].frame \in 0 .. next_frame - 1
               /\ worker'[v].chunk # {} /\ TasksOf(worker'[v]) \subseteq FrameTasks
               /\ \A u \in Slots : slot'[u].frame = worker'[v].frame => TasksOf(worker'[v]) \cap slot'[u].todo = {}
               /\ \A x \in Busy \cup {w} : x # v /\ worker'[x].frame = worker'[v].frame =>
                    TasksOf(worker'[x]) \cap TasksOf(worker'[v]) = {}
    <3>1. CASE v = w
      BY <2>5, <2>6, <3>1
    <3>2. CASE v # w
      BY <2>4, <2>7, <2>8, <3>2
    <3> QED BY <3>1, <3>2
  <2> QED BY <1>1, <1>3, <1>4, <2>8 DEF WorkersInv
<1>10. KernelsInv'
  <2>1. mine \cap slot[s].done = {}
    BY DEF BaseInv, SlotsInv
  <2>2. ASSUME NEW v \in Working, v # w
        PROVE  /\ worker'[v] = worker[v] /\ worker[v].slot \in Slots
               /\ slot'[worker[v].slot].state = "open" /\ slot'[worker[v].slot].frame = worker[v].frame
               /\ slot'[worker[v].slot].done = slot[worker[v].slot].done
    <3>1. v \in Workers /\ worker'[v] = worker[v]
      BY <1>5, <2>2 DEF Working
    <3> QED BY <1>1, <1>5, <3>1 DEF BaseInv, KernelsInv
  <2> QED BY <1>1, <1>3, <1>5, <1>6, <2>1, <2>2 DEF BaseInv, KernelsInv
<1> QED BY <1>4, <1>7, <1>8, <1>9, <1>10 DEF BaseInv

\* Workers go on with what they carry, or put it down.
LEMMA WorkersKeep ==
  ASSUME BaseInv, UNCHANGED <<Slots, FrameTasks, next_frame>>, Busy' \subseteq Busy,
         \A w \in Busy' : /\ worker'[w].frame = worker[w].frame /\ worker'[w].id = worker[w].id
                          /\ worker'[w].chunk = worker[w].chunk,
         \A s \in Slots : \/ slot'[s].todo = {}
                          \/ slot'[s].frame = slot[s].frame /\ slot'[s].todo = slot[s].todo
  PROVE  WorkersInv'
<1>1. \A w \in Busy' : TasksOf(worker'[w]) = TasksOf(worker[w])
  BY DEF TasksOf
<1>2. ASSUME NEW w \in Busy', NEW s \in Slots, slot'[s].frame = worker'[w].frame
      PROVE  TasksOf(worker'[w]) \cap slot'[s].todo = {}
  BY <1>1, <1>2 DEF BaseInv, WorkersInv
<1>3. ASSUME NEW w \in Busy', NEW v \in Busy', v # w, worker'[v].frame = worker'[w].frame
      PROVE  TasksOf(worker'[v]) \cap TasksOf(worker'[w]) = {}
  BY <1>1, <1>3 DEF BaseInv, WorkersInv
<1>4. ASSUME NEW w \in Busy'
      PROVE  /\ worker'[w].frame \in 0 .. next_frame - 1 /\ worker'[w].chunk # {}
             /\ TasksOf(worker'[w]) \subseteq FrameTasks
  BY <1>1, <1>4 DEF BaseInv, WorkersInv
<1> QED BY <1>2, <1>3, <1>4 DEF WorkersInv

LEMMA BaseEndKernel ==
  ASSUME BaseInv, NEW w \in Workers, EndKernel(w)
  PROVE  BaseInv'
<1>1. /\ UNCHANGED <<phase, args, graph, node_cache, slot, served, next_frame>>
      /\ worker[w].state = "task" /\ worker[w].left # <<>> /\ clock' \in {clock, clock + 1}
      /\ worker' = [worker EXCEPT ![w].left = Tail(@),
                                  ![w].since = IF timing_on THEN clock ELSE NoTime]
  BY DEF EndKernel, Tick, argVars
<1>2. worker \in [Workers -> WorkerRec] /\ clock \in Nat /\ worker[w] \in WorkerRec
  BY DEF BaseInv, TypeInv
<1>3. w \in Busy /\ w \in Working
  BY <1>1 DEF Busy, Working
<1>4. /\ worker'[w].frame = worker[w].frame /\ worker'[w].id = worker[w].id /\ worker'[w].slot = worker[w].slot
      /\ worker'[w].chunk = worker[w].chunk /\ worker'[w].state = "task"
      /\ worker'[w].left = Tail(worker[w].left)
      /\ \A v \in Workers : v # w => worker'[v] = worker[v]
  BY <1>1, <1>2 DEF WorkerRec
<1>5. Slots' = Slots /\ Workers' = Workers /\ Busy' = Busy /\ Working' = Working
  BY <1>1, <1>2, <1>4 DEF Slots, Workers, Busy, Working
<1>6. FrameTasks' = FrameTasks /\ BootInv'
  BY <1>1, <1>3, <1>5, Running
<1>7. worker[w].left \in Seq(Nat) /\ IsInjective(worker[w].left)
  BY <1>2, <1>3 DEF WorkerRec, BaseInv, KernelsInv
<1>8. /\ Tail(worker[w].left) \in Seq(Nat) /\ IsInjective(Tail(worker[w].left))
      /\ Range(Tail(worker[w].left)) \subseteq Range(worker[w].left)
  BY <1>1, <1>7, ReceiveInjective
<1>9. TypeInv'
  <2> DEFINE now == IF timing_on THEN clock ELSE NoTime
             me == [worker[w] EXCEPT !.left = Tail(worker[w].left), !.since = now]
  <2>1. worker' = [worker EXCEPT ![w] = me]
    BY <1>1, <1>2
  <2>2. now \in Int
    BY <1>2 DEF NoTime
  <2>3. me \in WorkerRec
    BY <1>2, <1>8, <2>2 DEF WorkerRec
  <2>4. worker' \in [Workers -> WorkerRec]
    BY <1>2, <2>1, <2>3
  <2> QED BY <1>1, <1>2, <1>5, <2>4 DEF BaseInv, TypeInv
<1>10. SlotsInv'
  BY <1>1, <1>5, <1>6 DEF BaseInv, SlotsInv
<1>11. WorkersInv'
  <2>1. \A v \in Busy' : /\ worker'[v].frame = worker[v].frame /\ worker'[v].id = worker[v].id
                         /\ worker'[v].chunk = worker[v].chunk
    BY <1>4, <1>5 DEF Busy
  <2> QED BY <1>1, <1>5, <1>6, <2>1, WorkersKeep
<1>12. KernelsInv'
  <2>1. \A v \in Working : /\ worker'[v].frame = worker[v].frame /\ worker'[v].slot = worker[v].slot
                           /\ TasksOf(worker'[v]) = TasksOf(worker[v]) /\ worker'[v].chunk = worker[v].chunk
    BY <1>4 DEF Working, TasksOf
  <2>2. ASSUME NEW v \in Working
        PROVE  Range(worker'[v].left) \subseteq worker[v].chunk /\ IsInjective(worker'[v].left)
    <3>1. Range(worker[v].left) \subseteq worker[v].chunk /\ IsInjective(worker[v].left) /\ v \in Workers
      BY DEF BaseInv, KernelsInv, Working
    <3>2. CASE v = w
      BY <1>4, <1>8, <3>1, <3>2
    <3>3. CASE v # w
      BY <1>4, <3>1, <3>3
    <3> QED BY <3>2, <3>3
  <2>3. ASSUME NEW v \in Working
        PROVE  /\ worker'[v].slot \in Slots
               /\ slot[worker'[v].slot].state = "open" /\ slot[worker'[v].slot].frame = worker'[v].frame
               /\ TasksOf(worker'[v]) \cap slot[worker'[v].slot].done = {}
               /\ Range(worker'[v].left) \subseteq worker'[v].chunk /\ IsInjective(worker'[v].left)
    BY <2>1, <2>2 DEF BaseInv, KernelsInv
  <2>4. slot' = slot
    BY <1>1
  <2> QED BY <1>5, <2>3, <2>4 DEF KernelsInv
<1> QED BY <1>6, <1>9, <1>10, <1>11, <1>12 DEF BaseInv

LEMMA BaseCountTask ==
  ASSUME BaseInv, NEW w \in Workers, CountTask(w)
  PROVE  BaseInv'
<1> DEFINE u == worker[w].slot
           mine == TasksOf(worker[w])
<1>1. /\ UNCHANGED <<phase, args, graph, node_cache, served, next_frame, clock>>
      /\ worker[w].state = "task"
      /\ slot' = [slot EXCEPT ![u].done = @ \cup mine]
      /\ worker' = [worker EXCEPT ![w] = IF args.record THEN [worker[w] EXCEPT !.state = "job"] ELSE Idle]
  BY DEF CountTask, argVars, TasksOf
<1>2. worker \in [Workers -> WorkerRec] /\ worker[w] \in WorkerRec /\ slot \in [Slots -> SlotRec]
  BY DEF BaseInv, TypeInv
<1>3. w \in Busy /\ w \in Working /\ u \in Slots
  BY <1>1 DEF Busy, Working, BaseInv, KernelsInv
<1>4. /\ \A v \in Workers : v # w => worker'[v] = worker[v]
      /\ worker'[w].state # "task"
      /\ worker'[w].state # "idle" =>
           /\ worker'[w].frame = worker[w].frame /\ worker'[w].id = worker[w].id
           /\ worker'[w].chunk = worker[w].chunk
      /\ \A s \in Slots : s # u => slot'[s] = slot[s]
      /\ slot'[u].frame = slot[u].frame /\ slot'[u].state = slot[u].state /\ slot'[u].todo = slot[u].todo
      /\ slot'[u].done = slot[u].done \cup mine
  BY <1>1, <1>2, <1>3 DEF WorkerRec, SlotRec, Idle
<1>5. Slots' = Slots /\ Workers' = Workers /\ Busy' \subseteq Busy /\ Working' = Working \ {w}
  BY <1>1, <1>2, <1>3, <1>4 DEF Slots, Workers, Busy, Working
<1>6. FrameTasks \subseteq Task /\ FrameTasks' = FrameTasks /\ BootInv'
  BY <1>1, <1>3, <1>5, Running
<1>7. TypeInv'
  <2>1. [worker[w] EXCEPT !.state = "job"] \in WorkerRec
    BY <1>2 DEF WorkerRec
  <2>2. worker' \in [Workers -> WorkerRec]
    BY <1>1, <1>2, <2>1, NothingTyped
  <2>3. mine \subseteq Task
    BY <1>3, <1>6 DEF BaseInv, WorkersInv
  <2>4. slot' \in [Slots -> SlotRec]
    BY <1>1, <1>2, <1>3, <2>3 DEF SlotRec
  <2> QED BY <1>1, <1>5, <2>2, <2>4 DEF BaseInv, TypeInv
<1>8. mine \cap slot[u].todo = {}
  BY <1>3 DEF BaseInv, WorkersInv, KernelsInv
<1>9. SlotsInv'
  <2>1. \A s \in Slots : /\ slot'[s].frame = slot[s].frame /\ slot'[s].state = slot[s].state
                         /\ slot'[s].todo = slot[s].todo /\ slot'[s].todo \cap slot'[s].done = {}
    BY <1>4, <1>8 DEF BaseInv, SlotsInv
  <2> QED BY <1>1, <1>5, <1>6, <2>1 DEF BaseInv, SlotsInv
<1>10. WorkersInv'
  <2>1. \A v \in Busy' : /\ worker'[v].frame = worker[v].frame /\ worker'[v].id = worker[v].id
                         /\ worker'[v].chunk = worker[v].chunk
    BY <1>4, <1>5 DEF Busy
  <2>2. \A s \in Slots : slot'[s].frame = slot[s].frame /\ slot'[s].todo = slot[s].todo
    BY <1>4
  <2> QED BY <1>1, <1>5, <1>6, <2>1, <2>2, WorkersKeep
<1>11. KernelsInv'
  <2>1. ASSUME NEW v \in Working, v # w
        PROVE  /\ worker'[v] = worker[v] /\ worker[v].slot \in Slots
               /\ slot'[worker[v].slot].state = "open" /\ slot'[worker[v].slot].frame = worker[v].frame
               /\ TasksOf(worker[v]) \cap slot'[worker[v].slot].done = {}
    <3>1. v \in Busy /\ v \in Workers
      BY <2>1 DEF Working, Busy
    <3>2. worker[v].slot = u => TasksOf(worker[v]) \cap mine = {}
      BY <1>3, <2>1, <3>1 DEF BaseInv, WorkersInv, KernelsInv
    <3>3. /\ worker[v].slot \in Slots /\ slot[worker[v].slot].state = "open"
          /\ slot[worker[v].slot].frame = worker[v].frame
          /\ TasksOf(worker[v]) \cap slot[worker[v].slot].done = {}
      BY <2>1 DEF BaseInv, KernelsInv
    <3>4. CASE worker[v].slot = u
      BY <1>4, <2>1, <3>1, <3>2, <3>3, <3>4
    <3>5. CASE worker[v].slot # u
      BY <1>4, <2>1, <3>1, <3>3, <3>5
    <3> QED BY <3>4, <3>5
  <2> QED BY <1>5, <2>1 DEF BaseInv, KernelsInv
<1> QED BY <1>6, <1>7, <1>9, <1>10, <1>11 DEF BaseInv

LEMMA BaseRecordJob ==
  ASSUME BaseInv, NEW w \in Workers, RecordJob(w)
  PROVE  BaseInv'
<1>1. /\ UNCHANGED <<phase, args, graph, node_cache, slot, served, next_frame, clock>>
      /\ worker[w].state = "job" /\ worker' = [worker EXCEPT ![w] = Idle]
  BY DEF RecordJob, argVars
<1>2. worker \in [Workers -> WorkerRec]
  BY DEF BaseInv, TypeInv
<1>3. w \in Busy /\ w \notin Working
  BY <1>1 DEF Busy, Working
<1>4. worker'[w] = Idle /\ \A v \in Workers : v # w => worker'[v] = worker[v]
  BY <1>1, <1>2
<1>5. Slots' = Slots /\ Workers' = Workers /\ Busy' = Busy \ {w} /\ Working' = Working
  BY <1>1, <1>2, <1>4 DEF Slots, Workers, Busy, Working, Idle
<1>6. FrameTasks' = FrameTasks /\ BootInv'
  BY <1>1, <1>3, <1>5, Running
<1>7. TypeInv'
  <2>1. worker' \in [Workers -> WorkerRec]
    BY <1>1, <1>2, NothingTyped
  <2> QED BY <1>1, <1>5, <2>1 DEF BaseInv, TypeInv
<1>8. SlotsInv'
  BY <1>1, <1>5, <1>6 DEF BaseInv, SlotsInv
<1>9. WorkersInv'
  <2>1. \A v \in Busy' : worker'[v] = worker[v]
    BY <1>4, <1>5 DEF Busy
  <2> QED BY <1>1, <1>5, <1>6, <2>1, WorkersKeep
<1>10. KernelsInv'
  <2>1. \A v \in Working : worker'[v] = worker[v]
    BY <1>3, <1>4 DEF Working
  <2> QED BY <1>1, <1>5, <2>1 DEF BaseInv, KernelsInv
<1> QED BY <1>6, <1>7, <1>8, <1>9, <1>10 DEF BaseInv

\* A finishing frame has no task under way: a task in a worker's hands is not counted.
LEMMA NobodyWorksOn ==
  ASSUME BaseInv, NEW s \in Slots, slot[s].state # "open" \/ slot[s].done = FrameTasks,
         NEW w \in Working
  PROVE  worker[w].slot # s
<1>1. w \in Busy /\ w \in Workers
  BY DEF Busy, Working
<1>2. /\ TasksOf(worker[w]) \subseteq FrameTasks /\ worker[w].chunk # {}
      /\ slot[worker[w].slot].state = "open" /\ TasksOf(worker[w]) \cap slot[worker[w].slot].done = {}
  BY <1>1 DEF BaseInv, WorkersInv, KernelsInv
<1>3. TasksOf(worker[w]) # {}
  BY <1>2 DEF TasksOf
<1> QED BY <1>2, <1>3

LEMMA BaseFinish ==
  ASSUME BaseInv, NEW s \in Slots, FinishFrame(s) \/ ReleaseFrame(s)
  PROVE  BaseInv'
<1>1. /\ UNCHANGED <<phase, args, graph, node_cache, worker, served, next_frame>>
      /\ clock' \in {clock, clock + 1}
      /\ \/ /\ slot[s].state = "open" /\ slot[s].done = FrameTasks
            /\ slot' = [slot EXCEPT ![s].state = "finishing"]
         \/ slot[s].state = "finishing" /\ slot' = [slot EXCEPT ![s] = Free]
  BY DEF FinishFrame, ReleaseFrame, Tick, argVars
<1>2. slot \in [Slots -> SlotRec] /\ clock \in Nat /\ slot[s].state # "free"
  BY <1>1 DEF BaseInv, TypeInv
<1>3. /\ \A u \in Slots : u # s => slot'[u] = slot[u]
      /\ \/ /\ slot'[s].state = "finishing" /\ slot'[s].todo = slot[s].todo
            /\ slot'[s].frame = slot[s].frame /\ slot'[s].done = slot[s].done
         \/ slot'[s] = Free
  BY <1>1, <1>2 DEF SlotRec
<1>4. Slots' = Slots /\ Workers' = Workers /\ Busy' = Busy /\ Working' = Working
  BY <1>1, <1>2 DEF Slots, Workers, Busy, Working
<1>5. FrameTasks' = FrameTasks /\ BootInv'
  BY <1>1, <1>2, <1>4, Running
<1>6. TypeInv'
  <2>1. slot' \in [Slots -> SlotRec]
    BY <1>1, <1>2, NothingTyped DEF SlotRec
  <2> QED BY <1>1, <1>2, <1>4, <2>1 DEF BaseInv, TypeInv
<1>7. SlotsInv'
  <2>1. \A u \in Slots : slot'[u].todo \cap slot'[u].done = {}
    BY <1>3 DEF BaseInv, SlotsInv, Free
  <2>2. \A u \in Slots : IF slot'[u].state = "free" THEN slot'[u].frame = -1 /\ slot'[u].todo = {}
                         ELSE slot'[u].frame \in 0 .. next_frame - 1 /\ slot'[u].todo \subseteq FrameTasks
    BY <1>2, <1>3 DEF BaseInv, SlotsInv, Free
  <2>3. \A u \in Slots : slot'[u].state # "free" => slot'[u].frame = slot[u].frame /\ slot[u].state # "free"
    BY <1>2, <1>3 DEF Free
  <2>4. ASSUME NEW u \in Slots, NEW v \in Slots, slot'[u].state # "free", slot'[v].frame = slot'[u].frame
        PROVE  u = v
    <3>1. slot'[v].state # "free"
      <4>1. slot'[u].frame \in 0 .. next_frame - 1
        BY <2>2, <2>4
      <4> QED BY <2>2, <2>4, <4>1
    <3> QED BY <2>3, <2>4, <3>1 DEF BaseInv, SlotsInv
  <2> QED BY <1>1, <1>4, <1>5, <2>1, <2>2, <2>4 DEF SlotsInv
<1>8. WorkersInv'
  <2>1. Free.todo = {}
    BY DEF Free
  <2>2. ASSUME NEW u \in Slots
        PROVE  slot'[u].todo = {} \/ (slot'[u].frame = slot[u].frame /\ slot'[u].todo = slot[u].todo)
    BY <1>3, <2>1
  <2> QED BY <1>1, <1>4, <1>5, <2>2, WorkersKeep
<1>9. KernelsInv'
  <2>1. \A w \in Working : worker[w].slot \in Slots /\ worker[w].slot # s
    BY <1>1, NobodyWorksOn DEF BaseInv, KernelsInv
  <2> QED BY <1>1, <1>3, <1>4, <2>1 DEF BaseInv, KernelsInv
<1> QED BY <1>5, <1>6, <1>7, <1>8, <1>9 DEF BaseInv

\* Both ways to begin a task take waiting instances of one node; only a single task
\* is recorded, and only a bulk kernel is not timed.
Takes(w, s, id, chunk, left) ==
  /\ chunk # {} /\ {<<id, i>> : i \in chunk} \subseteq slot[s].todo
  /\ Range(left) \subseteq chunk /\ IsInjective(left)
  /\ UsesBulkKernel(graph, id) \/ Range(left) = chunk
  /\ Begin(w, s, id, chunk, left)
  /\ UNCHANGED <<registry, node_cache>>
  /\ \/ UNCHANGED <<recorder, submitted>>
     \/ \E i \in chunk : args.record /\ Submit(w, ExecRecord(s, id, i))

LEMMA OneTaken ==
  ASSUME NEW i \in Nat
  PROVE  <<i>> \in Seq(Nat) /\ Range(<<i>>) = {i} /\ IsInjective(<<i>>)
<1>1. <<i>> \in Seq(Nat) /\ DOMAIN <<i>> = 1 .. 1 /\ <<i>>[1] = i
  OBVIOUS
<1>2. DOMAIN <<i>> = {1}
  BY <1>1
<1> QED BY <1>1, <1>2 DEF Range, IsInjective

LEMMA RunTaken ==
  ASSUME NEW start \in Nat, NEW count \in Nat
  PROVE  LET left == [k \in 1 .. count |-> start + k - 1]
         IN  left \in Seq(Nat) /\ Range(left) = start .. start + count - 1 /\ IsInjective(left)
<1> DEFINE left == [k \in 1 .. count |-> start + k - 1]
<1>1. DOMAIN left = 1 .. count /\ \A k \in 1 .. count : left[k] = start + k - 1 /\ left[k] \in Nat
  OBVIOUS
<1>2. left \in Seq(Nat)
  OBVIOUS
<1> HIDE DEF left
<1>3. IsInjective(left)
  BY <1>1 DEF IsInjective
<1>4. ASSUME NEW i \in start .. start + count - 1 PROVE i \in Range(left)
  <2>1. i - start + 1 \in 1 .. count /\ left[i - start + 1] = i
    BY <1>1
  <2> QED BY <1>1, <2>1 DEF Range
<1>5. ASSUME NEW i \in Range(left) PROVE i \in start .. start + count - 1
  BY <1>1 DEF Range
<1>6. Range(left) = start .. start + count - 1
  BY <1>4, <1>5
<1> QED BY <1>2, <1>3, <1>6 DEF left

LEMMA BeginTakes ==
  ASSUME BaseInv, NEW w \in Workers, NEW s \in Slots, NEW task \in slot[s].todo,
         \/ BeginTask(w, s, task[1], task[2])
         \/ \E count \in 2 .. node_cache[task[1]].edges.factor - task[2] :
              BeginBulk(w, s, task[1], task[2], count)
  PROVE  \E id \in Int, chunk \in SUBSET Nat, left \in Seq(Nat) : Takes(w, s, id, chunk, left)
<1>1. slot[s].todo \subseteq Task
  BY DEF BaseInv, TypeInv, SlotRec
<1>2. PICK id \in Int, i \in Nat : task = <<id, i>> /\ task[1] = id /\ task[2] = i
  BY <1>1 DEF Task
<1>3. CASE BeginTask(w, s, task[1], task[2])
  <2>1. /\ Begin(w, s, id, {i}, <<i>>) /\ UNCHANGED <<registry, node_cache>>
        /\ \/ args.record /\ Submit(w, ExecRecord(s, id, i))
           \/ UNCHANGED <<recorder, submitted>>
    BY <1>2, <1>3 DEF BeginTask, execute_single_task
  <2>2. <<i>> \in Seq(Nat) /\ Range(<<i>>) = {i} /\ IsInjective(<<i>>)
    BY OneTaken
  <2>3. {i} \in SUBSET Nat /\ {i} # {} /\ {<<id, j>> : j \in {i}} \subseteq slot[s].todo /\ i \in {i}
    BY <1>2
  <2>4. Takes(w, s, id, {i}, <<i>>)
    BY <2>1, <2>2, <2>3 DEF Takes
  <2> QED BY <2>2, <2>3, <2>4
<1>4. ASSUME NEW count \in 2 .. node_cache[task[1]].edges.factor - task[2],
             BeginBulk(w, s, task[1], task[2], count)
      PROVE  \E ident \in Int, chunk \in SUBSET Nat, left \in Seq(Nat) : Takes(w, s, ident, chunk, left)
  <2> DEFINE chunk == i .. i + count - 1
             run == [k \in 1 .. count |-> i + k - 1]
             left == IF UsesBulkKernel(graph, id) THEN <<>> ELSE run
  <2>1. count \in Nat /\ count >= 2
    BY <1>4
  <2>2. /\ \A j \in chunk : <<id, j>> \in slot[s].todo
        /\ Begin(w, s, id, chunk, left) /\ UNCHANGED <<registry, node_cache, recorder, submitted>>
    BY <1>2, <1>4 DEF BeginBulk, execute_bulk_task
  <2>3. run \in Seq(Nat) /\ Range(run) = chunk /\ IsInjective(run)
    BY <2>1, RunTaken
  <2>4. <<>> \in Seq(Nat) /\ Range(<<>>) = {} /\ IsInjective(<<>>)
    BY EmptySeq DEF Range, IsInjective
  <2>5. chunk \in SUBSET Nat /\ chunk # {}
    <3>1. i \in chunk /\ \A j \in chunk : j \in Nat
      BY <2>1
    <3> QED BY <3>1
  <2>6. left \in Seq(Nat) /\ Takes(w, s, id, chunk, left)
    <3> HIDE DEF chunk, run
    <3>1. {<<id, j>> : j \in chunk} \subseteq slot[s].todo
      BY <2>2
    <3> QED BY <2>2, <2>3, <2>4, <2>5, <3>1 DEF Takes
  <2> QED BY <2>5, <2>6
<1> QED BY <1>3, <1>4

LEMMA BaseStep ==
  ASSUME BaseInv, [Next]_vars
  PROVE  BaseInv'
<1>1. CASE Startup
  <2>1. CASE StartRun
    <3>1. /\ UNCHANGED <<args, slot, worker, next_frame, served, graph, node_cache>>
          /\ clock' = clock + 1 /\ phase = "start" /\ phase' = "run"
      BY <2>1 DEF StartRun, Tick, argVars
    <3> QED BY <3>1, BaseQuiet DEF BaseInv, TypeInv
  <2> QED BY <1>1, <2>1, BaseBoot, BaseBuild DEF Startup
<1>2. ASSUME NEW w \in Workers, Worker(w) PROVE BaseInv'
  <2>1. ASSUME NEW s \in Slots, NEW id \in Int, NEW chunk \in SUBSET Nat, NEW left \in Seq(Nat),
               Takes(w, s, id, chunk, left)
        PROVE  BaseInv'
    BY <2>1, BaseBegin DEF Takes
  <2>2. ASSUME NEW s \in Slots, NEW task \in slot[s].todo,
               \/ BeginTask(w, s, task[1], task[2])
               \/ \E count \in 2 .. node_cache[task[1]].edges.factor - task[2] :
                    BeginBulk(w, s, task[1], task[2], count)
        PROVE  BaseInv'
    BY <2>1, <2>2, BeginTakes
  <2> QED BY <1>2, <2>2, BaseEndKernel, BaseCountTask, BaseRecordJob DEF Worker
<1>3. ASSUME NEW s \in Slots, Resolution(s) PROVE BaseInv'
  BY <1>3, BaseAssign, BaseFinish DEF Resolution
<1>4. CASE Shutdowns
  <2>1. /\ UNCHANGED <<args, slot, worker, next_frame, served, graph, node_cache, clock>>
        /\ phase \notin BeforeRun /\ phase' \notin BeforeRun
    BY <1>4 DEF Shutdowns, EndRun, PrintStatistics, RaiseFlag, WriteCsv, WriteReport, DropRuntime, Join,
                argVars, BeforeRun, Booting
  <2> QED BY <2>1, BaseQuiet DEF BaseInv, TypeInv
<1>5. CASE Controller \/ Collector \/ UNCHANGED vars
  <2>1. UNCHANGED <<args, slot, worker, next_frame, served, graph, node_cache, clock, phase>>
    BY <1>5 DEF Controller, Collector, vars, procVars, argVars
  <2> QED BY <2>1, BaseQuiet DEF BaseInv, TypeInv
<1> QED BY <1>1, <1>2, <1>3, <1>4, <1>5 DEF Next

-----------------------------------------------------------------------------
(***************************************************************************)
(* Records.  What the collector has and what is in the channels are        *)
(* different records, each of a task that is no longer waiting; a record   *)
(* of a whole job is of one that no worker is at any more.                 *)
(***************************************************************************)

Record == [kind : {"exec", "job"}, frame : Int, id : Int, index : Nat]
Channels == DOMAIN recorder.channels

Recorders ==
  [channels : UNION {[0 .. k - 1 -> Seq(Record)] : k \in Nat}, shutdown : BOOLEAN,
   at : {"check", "collect", "final", "done"}, next : Nat, got : Seq(Record),
   taken : Seq(Seq(Record))]

InChannel(r, c) == r \in Range(recorder.channels[c])
Recorded(r) == r \in Range(recorder.got) \/ \E c \in Channels : InChannel(r, c)

ChannelsInv ==
  /\ recorder \in Recorders
  /\ phase \in {"registry", "load", "scheduler"} =>
       config = <<>> /\ recorder = AsyncRecorder_new(0) /\ submitted = {} /\ csv = <<>>
  /\ phase \in BeforeRun => \A r \in Record : ~Recorded(r)
  /\ phase \notin {"registry", "load", "scheduler", "failed"} /\ args.record =>
       \A w \in 0 .. config.workers - 1 : channel_index(w) \in Channels
  /\ phase \notin Booting \cup {"build"} => Workers = 0 .. config.workers - 1

DistinctInv ==
  /\ IsInjective(recorder.got)
  /\ \A c \in Channels :
       /\ IsInjective(recorder.channels[c])
       /\ \A r \in Range(recorder.channels[c]) : r \notin Range(recorder.got)
       /\ \A d \in Channels : \A r \in Range(recorder.channels[c]) : InChannel(r, d) => c = d

\* A record that is held is not submitted again.
Spent(r) ==
  /\ r.frame < next_frame
  /\ \A s \in Slots : slot[s].frame = r.frame => <<r.id, r.index>> \notin slot[s].todo
  /\ r.kind = "job" => \A w \in Busy : worker[w].frame = r.frame => <<r.id, r.index>> \notin TasksOf(worker[w])
SpentInv == \A r \in Record : Recorded(r) => Spent(r)

\* Where the records submitted before the flag are, as the collector proceeds.
HandInv ==
  /\ submitted \subseteq Record
  /\ \A r \in submitted : Recorded(r)
  /\ recorder.at \in {"final", "done"} => recorder.shutdown
  /\ recorder.at = "final" =>
       \A r \in submitted : r \in Range(recorder.got) \/ \E c \in Channels : c >= recorder.next /\ InChannel(r, c)
  /\ recorder.at = "done" => submitted \subseteq Range(recorder.got)
  /\ recorder.taken = <<>> \/ (recorder.taken = <<recorder.got>> /\ recorder.at = "done")
  /\ csv = <<>> \/ (csv = <<recorder.got>> /\ recorder.at = "done")

RecordInv == ChannelsInv /\ DistinctInv /\ SpentInv /\ HandInv

LEMMA RecorderParts ==
  ASSUME recorder \in Recorders
  PROVE  /\ \E k \in Nat : Channels = 0 .. k - 1
         /\ recorder.channels \in [Channels -> Seq(Record)] /\ Channels \subseteq Nat
         /\ recorder.got \in Seq(Record) /\ recorder.next \in Nat /\ recorder.shutdown \in BOOLEAN
         /\ recorder.taken \in Seq(Seq(Record))
<1>1. PICK k \in Nat : recorder.channels \in [0 .. k - 1 -> Seq(Record)]
  BY DEF Recorders
<1>2. Channels = 0 .. k - 1 /\ 0 .. k - 1 \subseteq Nat
  BY <1>1 DEF Channels
<1> QED BY <1>1, <1>2 DEF Recorders

\* Waiting tasks become fewer, and a worker takes up only waiting ones.
LEMMA SpentKept ==
  ASSUME BaseInv, next_frame' \in {next_frame, next_frame + 1}, Slots' = Slots,
         \A s \in Slots : \/ slot'[s].frame = next_frame
                          \/ slot'[s].todo = {}
                          \/ slot'[s].frame = slot[s].frame /\ slot'[s].todo \subseteq slot[s].todo,
         \A w \in Busy' :
           \/ /\ w \in Busy /\ worker'[w].frame = worker[w].frame
              /\ TasksOf(worker'[w]) = TasksOf(worker[w])
           \/ \E s \in Slots : worker'[w].frame = slot[s].frame /\ TasksOf(worker'[w]) \subseteq slot[s].todo,
         NEW r \in Record, Spent(r)
  PROVE  Spent(r)'
<1>1. next_frame \in Nat /\ r.frame \in Int /\ r.frame < next_frame
  BY DEF BaseInv, TypeInv, Record, Spent
<1>2. r.frame < next_frame' /\ r.frame # next_frame
  BY <1>1
<1>3. ASSUME NEW s \in Slots, slot'[s].frame = r.frame
      PROVE  <<r.id, r.index>> \notin slot'[s].todo
  BY <1>2, <1>3 DEF Spent
<1>4. ASSUME r.kind = "job", NEW w \in Busy', worker'[w].frame = r.frame
      PROVE  <<r.id, r.index>> \notin TasksOf(worker'[w])
  BY <1>4 DEF Spent
<1> QED BY <1>2, <1>3, <1>4 DEF Spent

LEMMA SameHeld ==
  ASSUME recorder' = recorder
  PROVE  Channels' = Channels /\ \A r : Recorded(r)' <=> Recorded(r)
  BY DEF Channels, Recorded, InChannel

\* A step of the run that leaves the recorder alone.
LEMMA RecordQuiet ==
  ASSUME BaseInv, RecordInv, UNCHANGED <<recorder, submitted, csv, args, config, Workers>>,
         \/ phase' = phase
         \/ phase = "start" /\ phase' = "run"
         \/ phase \notin BeforeRun /\ phase' \notin BeforeRun,
         \A r \in Record : Spent(r) => Spent(r)'
  PROVE  RecordInv'
<1>1. Channels' = Channels /\ \A r : Recorded(r)' <=> Recorded(r)
  BY SameHeld
<1>2. ChannelsInv'
  <2>1. \A w : channel_index(w)' = channel_index(w)
    BY DEF channel_index, core_of
  <2> QED BY <1>1, <2>1 DEF RecordInv, ChannelsInv, BeforeRun, Booting
<1>3. DistinctInv' /\ HandInv'
  BY <1>1 DEF RecordInv, DistinctInv, HandInv, InChannel
<1>4. SpentInv'
  BY <1>1 DEF RecordInv, SpentInv
<1> QED BY <1>2, <1>3, <1>4 DEF RecordInv

\* A worker submits a record that was not submitted before.
LEMMA SubmitStep ==
  ASSUME BaseInv, RecordInv, NEW w \in Workers, NEW r \in Record, ~Recorded(r), args.record,
         phase \notin BeforeRun, Submit(w, r),
         UNCHANGED <<csv, args, config, phase, Workers>>,
         \A x \in Record : Spent(x) => Spent(x)', Spent(r)'
  PROVE  RecordInv'
<1> DEFINE c == channel_index(w)
           q == recorder.channels[c]
<1>1. /\ recorder.channels \in [Channels -> Seq(Record)] /\ Channels \subseteq Nat
      /\ \E k \in Nat : Channels = 0 .. k - 1
      /\ recorder \in Recorders
  BY RecorderParts DEF RecordInv, ChannelsInv
<1>2. c \in Channels
  BY DEF RecordInv, ChannelsInv, BeforeRun, Booting
<1>3. recorder' = [recorder EXCEPT !.channels[c] = Append(@, r)]
  BY <1>2 DEF Submit, submit_record, Channels
<1>4. q \in Seq(Record) /\ IsInjective(q) /\ r \notin Range(q)
  BY <1>1, <1>2 DEF RecordInv, DistinctInv, Recorded, InChannel
<1>5. /\ Append(q, r) \in Seq(Record) /\ IsInjective(Append(q, r))
      /\ Range(Append(q, r)) = Range(q) \cup {r}
  BY <1>4, SendInjective
<1>6. /\ recorder'.channels = [recorder.channels EXCEPT ![c] = Append(q, r)]
      /\ UNCHANGED <<recorder.got, recorder.at, recorder.next, recorder.shutdown, recorder.taken>>
  BY <1>1, <1>2, <1>3 DEF Recorders
<1>7. /\ Channels' = Channels
      /\ recorder'.channels[c] = Append(q, r)
      /\ \A d \in Channels : d # c => recorder'.channels[d] = recorder.channels[d]
      /\ recorder'.channels \in [Channels -> Seq(Record)]
  BY <1>1, <1>2, <1>5, <1>6 DEF Channels
<1>9. ASSUME NEW x, NEW d \in Channels
      PROVE  InChannel(x, d)' <=> InChannel(x, d) \/ (x = r /\ d = c)
  BY <1>5, <1>7 DEF InChannel
<1>10. \A x : Recorded(x)' <=> Recorded(x) \/ x = r
  BY <1>2, <1>6, <1>7, <1>9 DEF Recorded
<1>11. recorder' \in Recorders
  <2>1. PICK k \in Nat : Channels = 0 .. k - 1
    BY <1>1
  <2>2. recorder'.channels \in UNION {[0 .. j - 1 -> Seq(Record)] : j \in Nat}
    BY <1>7, <2>1
  <2>3. recorder' = [recorder EXCEPT !.channels = recorder'.channels]
    BY <1>1, <1>3, <1>6 DEF Recorders
  <2> QED BY <1>1, <2>2, <2>3 DEF Recorders
<1>12. ChannelsInv'
  <2>1. \A v : channel_index(v)' = channel_index(v)
    BY DEF channel_index, core_of
  <2> QED BY <1>7, <1>11, <2>1 DEF RecordInv, ChannelsInv, BeforeRun, Booting
<1>13. DistinctInv'
  <2>1. IsInjective(recorder'.got) /\ r \notin Range(recorder.got)
    BY <1>6 DEF RecordInv, DistinctInv, Recorded
  <2>2. ASSUME NEW d \in Channels
        PROVE  /\ IsInjective(recorder'.channels[d])
               /\ \A x \in Range(recorder'.channels[d]) : x \notin Range(recorder.got)
    BY <1>5, <1>7, <2>1 DEF RecordInv, DistinctInv
  <2>3. ASSUME NEW d \in Channels, NEW e \in Channels, NEW x, InChannel(x, d)', InChannel(x, e)'
        PROVE  d = e
    <3>1. \A f \in Channels : ~InChannel(r, f)
      BY DEF Recorded
    <3>2. (InChannel(x, d) \/ (x = r /\ d = c)) /\ (InChannel(x, e) \/ (x = r /\ e = c))
      BY <1>9, <2>3
    <3> QED BY <3>1, <3>2 DEF RecordInv, DistinctInv, InChannel
  <2> QED BY <1>6, <1>7, <2>1, <2>2, <2>3 DEF DistinctInv, InChannel
<1>14. HandInv'
  <2>1. submitted' \subseteq submitted \cup {r} /\ (recorder.shutdown => submitted' = submitted)
    BY DEF Submit
  <2>2. \A x \in submitted' : Recorded(x)'
    BY <1>10, <2>1 DEF RecordInv, HandInv
  <2>3. recorder.at = "final" => \A x \in submitted' :
          x \in Range(recorder.got) \/ \E d \in Channels : d >= recorder.next /\ InChannel(x, d)'
    BY <1>9, <2>1 DEF RecordInv, HandInv
  <2>4. recorder.at = "done" => submitted' \subseteq Range(recorder.got)
    BY <2>1 DEF RecordInv, HandInv
  <2> QED BY <1>6, <1>7, <2>1, <2>2, <2>3, <2>4 DEF RecordInv, HandInv
<1>15. SpentInv'
  BY <1>10 DEF RecordInv, SpentInv
<1> QED BY <1>12, <1>13, <1>14, <1>15 DEF RecordInv

LEMMA SameSpent ==
  ASSUME UNCHANGED <<slot, worker, next_frame>>
  PROVE  \A r : Spent(r)' <=> Spent(r)
<1>1. Slots' = Slots /\ Workers' = Workers /\ Busy' = Busy
  BY DEF Slots, Workers, Busy
<1> QED BY <1>1 DEF Spent

\* Reading an empty queue, or all of one, changes nobody's identity.
LEMMA ConcatInjective ==
  ASSUME NEW S, NEW p \in Seq(S), NEW q \in Seq(S), IsInjective(p), IsInjective(q),
         Range(p) \cap Range(q) = {}
  PROVE  p \o q \in Seq(S) /\ IsInjective(p \o q) /\ Range(p \o q) = Range(p) \cup Range(q)
<1> DEFINE a == p \o q
<1>1. /\ Len(p) \in Nat /\ Len(q) \in Nat /\ DOMAIN p = 1 .. Len(p) /\ DOMAIN q = 1 .. Len(q)
      /\ a \in Seq(S) /\ DOMAIN a = 1 .. Len(p) + Len(q)
      /\ \A i \in 1 .. Len(p) + Len(q) : a[i] = IF i <= Len(p) THEN p[i] ELSE q[i - Len(p)]
  OBVIOUS
<1>2. Range(a) = Range(p) \cup Range(q)
  BY RangeConcatenation
<1> HIDE DEF a
<1>3. ASSUME NEW i \in DOMAIN a, NEW j \in DOMAIN a, a[i] = a[j] PROVE i = j
  <2>1. CASE i <= Len(p) /\ j <= Len(p)
    BY <1>1, <1>3, <2>1 DEF IsInjective
  <2>2. CASE i > Len(p) /\ j > Len(p)
    <3>1. i - Len(p) \in DOMAIN q /\ j - Len(p) \in DOMAIN q /\ q[i - Len(p)] = q[j - Len(p)]
      BY <1>1, <1>3, <2>2
    <3>2. i - Len(p) = j - Len(p)
      BY <3>1 DEF IsInjective
    <3> QED BY <1>1, <3>2
  <2>3. ASSUME NEW k \in DOMAIN a, NEW m \in DOMAIN a, k <= Len(p), m > Len(p), a[k] = a[m] PROVE FALSE
    <3>1. k \in DOMAIN p /\ m - Len(p) \in DOMAIN q /\ p[k] = q[m - Len(p)]
      BY <1>1, <2>3
    <3>2. p[k] \in Range(p) /\ q[m - Len(p)] \in Range(q)
      BY <3>1 DEF Range
    <3> QED BY <3>1, <3>2
  <2> QED BY <1>1, <1>3, <2>1, <2>2, <2>3
<1>4. IsInjective(a)
  BY <1>3 DEF IsInjective
<1> QED BY <1>1, <1>2, <1>4 DEF a

LEMMA CollectorStep ==
  ASSUME BaseInv, RecordInv, Collector
  PROVE  RecordInv'
<1>1. /\ UNCHANGED <<args, phase, config, slot, worker, next_frame, csv, submitted>>
      /\ config # <<>> /\ (CheckShutdown \/ CollectChannel \/ PassEnds)
  BY DEF Collector, CollectorLoop, procVars
<1>2. /\ recorder.channels \in [Channels -> Seq(Record)] /\ Channels \subseteq Nat
      /\ recorder.got \in Seq(Record) /\ recorder.next \in Nat /\ recorder.shutdown \in BOOLEAN
      /\ recorder.taken \in Seq(Seq(Record)) /\ recorder \in Recorders
  BY RecorderParts DEF RecordInv, ChannelsInv
<1>3. \A r : Spent(r)' <=> Spent(r)
  BY <1>1, SameSpent
<1>4. \A v : channel_index(v)' = channel_index(v)
  BY <1>1 DEF channel_index, core_of
<1>5. Workers' = Workers
  BY <1>1 DEF Workers
<1>6. ASSUME recorder' \in Recorders, Channels' = Channels, \A r : Recorded(r)' <=> Recorded(r)
      PROVE  ChannelsInv' /\ SpentInv'
  <2>1. ChannelsInv'
    BY <1>1, <1>4, <1>5, <1>6 DEF RecordInv, ChannelsInv, BeforeRun, Booting
  <2>2. SpentInv'
    BY <1>3, <1>6 DEF RecordInv, SpentInv
  <2> QED BY <2>1, <2>2
<1>7. CASE CheckShutdown
  <2>1. /\ recorder' = [recorder EXCEPT !.at = IF recorder.shutdown THEN "final" ELSE "collect", !.next = 0]
        /\ recorder.at = "check"
    BY <1>7 DEF CheckShutdown
  <2>2. /\ UNCHANGED <<recorder.channels, recorder.got, recorder.shutdown, recorder.taken>>
        /\ recorder'.next = 0 /\ recorder'.at \in {"final", "collect"}
        /\ recorder'.at = "final" => recorder.shutdown
        /\ recorder' \in Recorders
    BY <1>2, <2>1 DEF Recorders
  <2>3. Channels' = Channels /\ (\A r : Recorded(r)' <=> Recorded(r)) /\ \A r, c : InChannel(r, c)' <=> InChannel(r, c)
    BY <2>2 DEF Channels, Recorded, InChannel
  <2>4. DistinctInv'
    BY <2>2, <2>3 DEF RecordInv, DistinctInv, InChannel
  <2>5. HandInv'
    <3>1. \A r \in submitted : r \in Range(recorder.got) \/ \E c \in Channels : c >= 0 /\ InChannel(r, c)
      BY <1>2 DEF RecordInv, HandInv, Recorded
    <3>2. recorder.taken = <<>> /\ csv = <<>>
      BY <2>1 DEF RecordInv, HandInv
    <3> QED BY <1>1, <2>2, <2>3, <3>1, <3>2 DEF RecordInv, HandInv
  <2> QED BY <1>6, <2>2, <2>3, <2>4, <2>5 DEF RecordInv
<1>8. CASE PassEnds
  <2>1. /\ recorder.at \in {"collect", "final"} /\ recorder.next \notin Channels
        /\ recorder' = IF recorder.at = "final"
                       THEN [recorder EXCEPT !.at = "done", !.taken = <<recorder.got>>]
                       ELSE [recorder EXCEPT !.at = "check"]
    BY <1>8 DEF PassEnds, Channels
  <2>2. <<recorder.got>> \in Seq(Seq(Record))
    BY <1>2
  <2>3. /\ UNCHANGED <<recorder.channels, recorder.got, recorder.shutdown, recorder.next>>
        /\ recorder.at = "final" => recorder'.at = "done" /\ recorder'.taken = <<recorder.got>>
        /\ recorder.at # "final" => recorder'.at = "check" /\ recorder'.taken = recorder.taken
        /\ recorder' \in Recorders
    BY <1>2, <2>1, <2>2 DEF Recorders
  <2>4. Channels' = Channels /\ (\A r : Recorded(r)' <=> Recorded(r)) /\ \A r, c : InChannel(r, c)' <=> InChannel(r, c)
    BY <2>3 DEF Channels, Recorded, InChannel
  <2>5. DistinctInv'
    BY <2>3, <2>4 DEF RecordInv, DistinctInv, InChannel
  <2>6. HandInv'
    <3>1. PICK k \in Nat : Channels = 0 .. k - 1
      BY <1>2, RecorderParts
    <3>2. \A c \in Channels : ~(c >= recorder.next)
      BY <1>2, <2>1, <3>1
    <3>3. recorder.at = "final" => submitted \subseteq Range(recorder.got) /\ recorder.shutdown
      BY <3>2 DEF RecordInv, HandInv
    <3>4. csv = <<>> /\ recorder.taken = <<>>
      BY <2>1 DEF RecordInv, HandInv
    <3> QED BY <1>1, <2>1, <2>3, <2>4, <3>3, <3>4 DEF RecordInv, HandInv
  <2> QED BY <1>6, <2>3, <2>4, <2>5, <2>6 DEF RecordInv
<1>9. CASE CollectChannel
  <2> DEFINE k == recorder.next
             q == recorder.channels[k]
  <2>1. /\ recorder.at \in {"collect", "final"} /\ k \in Channels
        /\ recorder' = [recorder EXCEPT !.got = @ \o q, !.channels[k] = <<>>, !.next = @ + 1]
    BY <1>9 DEF CollectChannel, Channels
  <2>2. q \in Seq(Record) /\ IsInjective(q) /\ IsInjective(recorder.got) /\ Range(recorder.got) \cap Range(q) = {}
    BY <1>2, <2>1 DEF RecordInv, DistinctInv
  <2>3. /\ recorder.got \o q \in Seq(Record) /\ IsInjective(recorder.got \o q)
        /\ Range(recorder.got \o q) = Range(recorder.got) \cup Range(q)
    BY <1>2, <2>2, ConcatInjective
  <2>4. /\ recorder'.got = recorder.got \o q /\ recorder'.next = k + 1
        /\ recorder'.channels = [recorder.channels EXCEPT ![k] = <<>>]
        /\ UNCHANGED <<recorder.at, recorder.shutdown, recorder.taken>>
    BY <1>2, <2>1 DEF Recorders
  <2>5. <<>> \in Seq(Record) /\ Range(<<>>) = {} /\ IsInjective(<<>>)
    BY EmptySeq DEF Range, IsInjective
  <2>6. /\ Channels' = Channels /\ recorder'.channels \in [Channels -> Seq(Record)]
        /\ recorder'.channels[k] = <<>>
        /\ \A d \in Channels : d # k => recorder'.channels[d] = recorder.channels[d]
    BY <1>2, <2>1, <2>4, <2>5 DEF Channels
  <2>7. recorder' \in Recorders
    <3>1. PICK j \in Nat : Channels = 0 .. j - 1
      BY <1>2, RecorderParts
    <3>2. recorder'.channels \in UNION {[0 .. i - 1 -> Seq(Record)] : i \in Nat}
      BY <2>6, <3>1
    <3>3. recorder' = [recorder EXCEPT !.got = recorder'.got, !.channels = recorder'.channels,
                                       !.next = recorder'.next]
      BY <1>2, <2>1, <2>4 DEF Recorders
    <3>4. recorder'.got \in Seq(Record) /\ recorder'.next \in Nat
      BY <1>2, <2>3, <2>4
    <3> QED BY <1>2, <3>2, <3>3, <3>4 DEF Recorders
  <2>8. ASSUME NEW r, NEW d \in Channels
        PROVE  InChannel(r, d)' <=> InChannel(r, d) /\ d # k
    BY <2>5, <2>6 DEF InChannel
  <2>9. ASSUME NEW r PROVE r \in Range(recorder'.got) <=> r \in Range(recorder.got) \/ InChannel(r, k)
    BY <2>3, <2>4 DEF InChannel
  <2>10. \A r : Recorded(r)' <=> Recorded(r)
    BY <2>1, <2>6, <2>8, <2>9 DEF Recorded
  <2>11. DistinctInv'
    <3>1. ASSUME NEW d \in Channels
          PROVE  /\ IsInjective(recorder'.channels[d])
                 /\ \A r \in Range(recorder'.channels[d]) : r \notin Range(recorder'.got)
      <4>1. CASE d = k
        BY <2>5, <2>6, <4>1
      <4>2. CASE d # k
        <5>1. recorder'.channels[d] = recorder.channels[d]
          BY <2>6, <4>2
        <5>2. \A r \in Range(recorder.channels[d]) : r \notin Range(recorder.got) /\ ~InChannel(r, k)
          BY <2>1, <4>2 DEF RecordInv, DistinctInv, InChannel
        <5> QED BY <2>9, <5>1, <5>2 DEF RecordInv, DistinctInv
      <4> QED BY <4>1, <4>2
    <3>2. ASSUME NEW d \in Channels, NEW e \in Channels, NEW r, InChannel(r, d)', InChannel(r, e)'
          PROVE  d = e
      BY <2>8, <3>2 DEF RecordInv, DistinctInv, InChannel
    <3> QED BY <2>3, <2>4, <2>6, <3>1, <3>2 DEF DistinctInv, InChannel
  <2>12. HandInv'
    <3>1. recorder.at = "final" => \A r \in submitted :
            r \in Range(recorder'.got) \/ \E c \in Channels : c >= k + 1 /\ InChannel(r, c)'
      <4>1. ASSUME recorder.at = "final", NEW r \in submitted, NEW c \in Channels, c >= k, InChannel(r, c)
            PROVE  r \in Range(recorder'.got) \/ (c >= k + 1 /\ InChannel(r, c)')
        BY <1>2, <2>8, <2>9, <4>1
      <4>2. recorder.at = "final" => \A r \in submitted :
              r \in Range(recorder.got) \/ \E c \in Channels : c >= k /\ InChannel(r, c)
        BY DEF RecordInv, HandInv
      <4> QED BY <2>9, <4>1, <4>2
    <3>2. recorder.taken = <<>> /\ csv = <<>>
      BY <2>1 DEF RecordInv, HandInv
    <3> QED BY <1>1, <2>1, <2>4, <2>6, <2>10, <3>1, <3>2 DEF RecordInv, HandInv
  <2> QED BY <1>6, <2>6, <2>7, <2>10, <2>11, <2>12 DEF RecordInv
<1> QED BY <1>1, <1>7, <1>8, <1>9

-----------------------------------------------------------------------------
(* The recorder of a run, from the command line to the first task. *)

LEMMA NewRecorder ==
  ASSUME NEW n \in Nat, NEW rec, rec = AsyncRecorder_new(n)
  PROVE  /\ rec \in Recorders /\ DOMAIN rec.channels = 0 .. n - 1
         /\ \A c \in 0 .. n - 1 : rec.channels[c] = <<>>
         /\ rec.got = <<>> /\ rec.taken = <<>> /\ rec.at = "check"
         /\ Range(<<>>) = {} /\ IsInjective(<<>>)
<1>1. /\ rec.channels = [c \in 0 .. n - 1 |-> <<>>] /\ rec.shutdown = FALSE
      /\ rec.at = "check" /\ rec.next = 0 /\ rec.got = <<>> /\ rec.taken = <<>>
  BY DEF AsyncRecorder_new
<1>2. <<>> \in Seq(Record) /\ <<>> \in Seq(Seq(Record)) /\ Range(<<>>) = {} /\ IsInjective(<<>>)
  BY EmptySeq DEF Range, IsInjective
<1>3. rec \in Recorders
  <2>1. rec.channels \in [0 .. n - 1 -> Seq(Record)]
    BY <1>1, <1>2
  <2>2. rec.channels \in UNION {[0 .. k - 1 -> Seq(Record)] : k \in Nat}
    BY <2>1
  <2>3. rec = [channels |-> rec.channels, shutdown |-> FALSE,
               at |-> "check", next |-> 0, got |-> <<>>, taken |-> <<>>]
    BY <1>1 DEF AsyncRecorder_new
  <2>4. ASSUME NEW ch \in UNION {[0 .. k - 1 -> Seq(Record)] : k \in Nat},
               NEW g \in Seq(Record), NEW t \in Seq(Seq(Record))
        PROVE  [channels |-> ch, shutdown |-> FALSE, at |-> "check", next |-> 0, got |-> g, taken |-> t]
                 \in Recorders
    BY DEF Recorders
  <2> QED BY <1>2, <2>2, <2>3, <2>4
<1> QED BY <1>1, <1>2, <1>3

LEMMA RecordInit ==
  ASSUME Init
  PROVE  RecordInv
<1>1. /\ recorder \in Recorders /\ DOMAIN recorder.channels = 0 .. 0 - 1
      /\ \A c \in 0 .. 0 - 1 : recorder.channels[c] = <<>>
      /\ recorder.got = <<>> /\ recorder.taken = <<>> /\ recorder.at = "check"
      /\ Range(<<>>) = {} /\ IsInjective(<<>>)
  BY NewRecorder DEF Init
<1>2. \A r : ~Recorded(r)
  BY <1>1 DEF Recorded, InChannel, Channels
<1>3. ChannelsInv
  BY <1>1, <1>2 DEF Init, ChannelsInv, Booting, BeforeRun
<1>4. SpentInv
  BY <1>2 DEF SpentInv
<1>5. HandInv
  BY <1>1 DEF Init, HandInv
<1>6. DistinctInv
  BY <1>1 DEF DistinctInv, Channels
<1> QED BY <1>3, <1>4, <1>5, <1>6 DEF RecordInv

HasChannels(l, n) ==
  \A w \in 0 .. l.workers - 1 : (l.worker_start + w) - l.sys_start \in 0 .. n - 1

\* Every allocated worker has a channel, although fewer or more cores than were asked
\* for may have been found: the channels are counted from what was asked for, and the
\* last branch of the allocator, which hands out other numbers, hands out fewer.
LEMMA WorkersHaveChannels ==
  ASSUME NEW available \in Nat, NEW offset \in Nat, NEW sys \in Nat, NEW recv \in Nat,
         NEW workers \in Nat, available >= 2
  PROVE  HasChannels(allocate_cores(available, offset, sys, recv, workers), sys + recv + workers)
<1> SUFFICES ASSUME NEW l, l = allocate_cores(available, offset, sys, recv, workers),
                    NEW w \in 0 .. l.workers - 1
             PROVE  (l.worker_start + w) - l.sys_start \in 0 .. sys + recv + workers - 1
  BY DEF HasChannels
<1> DEFINE needed == sys + recv + workers
           receivers == Least(recv, (available - 1) \div 2)
<1>1. receivers \in Nat /\ receivers <= (available - 1) \div 2 /\ (available - 1) \div 2 \in Nat
      /\ 2 * ((available - 1) \div 2) <= available - 1
  BY SMTT(30) DEF Least
<1>2. Most(available - 1 - receivers, 1) = available - 1 - receivers
  BY <1>1 DEF Most
<1>3. ASSUME NEW o \in Nat, NEW m, l = Layout(o, sys, recv, workers, m)
      PROVE  (l.worker_start + w) - l.sys_start \in 0 .. needed - 1
  BY <1>3 DEF Layout
<1>4. CASE offset + needed < available
  <2>1. l = Layout(offset + 1, sys, recv, workers, {offset}) /\ offset + 1 \in Nat
    BY <1>4 DEF allocate_cores
  <2> QED BY <1>3, <2>1
<1>5. CASE offset + needed = available
  BY <1>3, <1>5 DEF allocate_cores
<1>6. CASE offset + needed > available /\ needed <= available
  BY <1>3, <1>6 DEF allocate_cores
<1>7. CASE needed > available
  <2>1. l = Layout(0, 1, receivers, Most(available - 1 - receivers, 1), {})
    BY <1>7 DEF allocate_cores
  <2>2. l.workers = available - 1 - receivers /\ l.worker_start = 0 + 1 + receivers /\ l.sys_start = 0
    BY <1>2, <2>1 DEF Layout
  <2> HIDE DEF receivers
  <2> QED BY <1>1, <1>7, <2>2
<1> QED BY <1>4, <1>5, <1>6, <1>7

LEMMA RecordScheduler ==
  ASSUME BaseInv, RecordInv, CreateScheduler
  PROVE  RecordInv'
<1> DEFINE wanted == args.system_threads + receiver_threads + args.workers
           n == IF args.record THEN wanted ELSE 0
<1>1. /\ args' = args /\ submitted' = submitted /\ csv' = csv
      /\ phase = "scheduler" /\ phase' \in {"compile", "failed"}
      /\ phase' = "compile" => args.cores >= 2
      /\ config' = allocate_cores(args.cores, args.core_offset, args.system_threads,
                                  receiver_threads, args.workers)
      /\ recorder' = AsyncRecorder_new(n)
  BY DEF CreateScheduler, Proceed
<1>2. /\ args.cores \in Nat /\ args.core_offset \in Nat /\ args.workers \in Nat
      /\ args.system_threads \in Nat /\ args.receiver_threads \in Nat /\ args.record \in BOOLEAN
  BY ProgramAssumption DEF BaseInv, TypeInv
<1>3. receiver_threads \in Nat /\ n \in Nat
  BY <1>2 DEF receiver_threads
<1>4. /\ recorder' \in Recorders /\ DOMAIN recorder'.channels = 0 .. n - 1
      /\ \A c \in 0 .. n - 1 : recorder'.channels[c] = <<>>
      /\ recorder'.got = <<>> /\ recorder'.taken = <<>> /\ recorder'.at = "check"
      /\ Range(<<>>) = {} /\ IsInjective(<<>>)
  <2> HIDE DEF n
  <2> QED BY <1>1, <1>3, NewRecorder
<1>5. \A r : ~Recorded(r)'
  BY <1>4 DEF Recorded, InChannel, Channels
<1>6. submitted = {} /\ csv = <<>>
  BY <1>1 DEF RecordInv, ChannelsInv
<1>7. ChannelsInv'
  <2>1. ASSUME phase' = "compile", args.record, NEW w \in 0 .. config'.workers - 1
        PROVE  channel_index(w)' \in Channels'
    <3>1. (config'.worker_start + w) - config'.sys_start \in 0 .. wanted - 1
      <4>1. HasChannels(config', wanted)
        <5>1. args.cores >= 2
          BY <1>1, <2>1
        <5>2. receiver_threads \in Nat
          BY <1>3
        <5> QED BY <1>1, <1>2, <5>1, <5>2, WorkersHaveChannels
      <4> QED BY <2>1, <4>1 DEF HasChannels
    <3>2. channel_index(w)' = (config'.worker_start + w) - config'.sys_start
      BY DEF channel_index, core_of
    <3> QED BY <1>4, <2>1, <3>1, <3>2 DEF Channels
  <2> QED BY <1>1, <1>4, <1>5, <2>1 DEF ChannelsInv, Booting, BeforeRun
<1>8. SpentInv'
  BY <1>5 DEF SpentInv
<1>9. HandInv'
  BY <1>1, <1>4, <1>6 DEF HandInv
<1>10. DistinctInv'
  BY <1>4 DEF DistinctInv, Channels
<1> QED BY <1>7, <1>8, <1>9, <1>10 DEF RecordInv

\* The other steps of main up to the run.
LEMMA RecordBoot ==
  ASSUME BaseInv, RecordInv, InitRegistry \/ LoadGraph \/ Compile \/ Build
  PROVE  RecordInv'
<1>1. UNCHANGED <<recorder, submitted, csv, args, config>>
  BY DEF InitRegistry, LoadGraph, Compile, Build, teleVars
<1>2. /\ phase \in BeforeRun /\ phase' \in BeforeRun
      /\ phase' \in {"registry", "load", "scheduler"} => phase \in {"registry", "load", "scheduler"}
      /\ phase' \notin {"registry", "load", "scheduler", "failed"} =>
           phase \notin {"registry", "load", "scheduler", "failed"}
      /\ phase' \notin Booting \cup {"build"} => Workers' = 0 .. config.workers - 1
  <2>1. CASE InitRegistry
    BY <2>1 DEF InitRegistry, Proceed, BeforeRun, Booting
  <2>2. CASE LoadGraph
    BY <2>2 DEF LoadGraph, Proceed, BeforeRun, Booting
  <2>3. CASE Compile
    BY <2>3 DEF Compile, Proceed, BeforeRun, Booting
  <2>4. CASE Build
    <3>1. phase = "build" /\ phase' \in {"start", "failed"}
      BY <2>4 DEF Build, Proceed
    <3>2. worker' = [w \in 0 .. config.workers - 1 |-> Idle]
      BY <2>4 DEF Build
    <3>3. Workers' = 0 .. config.workers - 1
      BY <3>2 DEF Workers
    <3> QED BY <3>1, <3>3 DEF BeforeRun, Booting
  <2> QED BY <2>1, <2>2, <2>3, <2>4
<1>3. Channels' = Channels /\ \A r : Recorded(r)' <=> Recorded(r)
  BY <1>1, SameHeld
<1>4. \A w : channel_index(w)' = channel_index(w)
  BY <1>1 DEF channel_index, core_of
<1>5. \A r \in Record : ~Recorded(r)
  BY <1>2 DEF RecordInv, ChannelsInv
<1>6. ChannelsInv'
  BY <1>1, <1>2, <1>3, <1>4, <1>5 DEF RecordInv, ChannelsInv
<1>7. SpentInv'
  BY <1>3, <1>5 DEF SpentInv
<1>8. HandInv' /\ DistinctInv'
  BY <1>1, <1>3 DEF RecordInv, HandInv, DistinctInv, InChannel
<1> QED BY <1>6, <1>7, <1>8 DEF RecordInv

-----------------------------------------------------------------------------
(* The records of a run. *)

\* Only a run that records leaves a worker a job to record.
JobInv == \A w \in Workers : worker[w].state = "job" => args.record

LEMMA JobStep ==
  ASSUME BaseInv, JobInv, [Next]_vars
  PROVE  JobInv'
<1>1. worker \in [Workers -> WorkerRec]
  BY DEF BaseInv, TypeInv
<1>2. ASSUME args' = args, worker' = worker PROVE JobInv'
  BY <1>2 DEF JobInv, Workers
<1>3. ASSUME NEW w \in Workers, args' = args, NEW x, worker' = [worker EXCEPT ![w] = x],
             x.state = "job" => args.record
      PROVE  JobInv'
  BY <1>1, <1>3 DEF JobInv, Workers
<1>4. CASE Startup
  <2>1. CASE Build
    <3>1. args' = args /\ worker' = [w \in 0 .. config.workers - 1 |-> Idle]
      BY <2>1 DEF Build
    <3> QED BY <3>1 DEF JobInv, Workers, Idle
  <2>2. CASE InitRegistry \/ LoadGraph \/ CreateScheduler \/ Compile \/ StartRun
    BY <1>2, <2>2 DEF InitRegistry, LoadGraph, CreateScheduler, Compile, StartRun
  <2> QED BY <1>4, <2>1, <2>2 DEF Startup
<1>5. ASSUME NEW w \in Workers, Worker(w) PROVE JobInv'
  <2>1. ASSUME NEW s, NEW id, NEW chunk, NEW left, Begin(w, s, id, chunk, left) PROVE JobInv'
    BY <1>3, <2>1 DEF Begin
  <2>2. CASE EndKernel(w)
    <3>1. /\ args' = args /\ worker[w].state = "task"
          /\ worker' = [worker EXCEPT ![w] = [worker[w] EXCEPT !.left = Tail(worker[w].left),
                                              !.since = IF timing_on THEN clock ELSE NoTime]]
      BY <1>1, <2>2 DEF EndKernel
    <3>2. worker[w] \in WorkerRec
      BY <1>1
    <3>3. ASSUME NEW l, NEW t PROVE [worker[w] EXCEPT !.left = l, !.since = t].state = "task"
      BY <3>1, <3>2 DEF WorkerRec
    <3> QED BY <1>3, <3>1, <3>3
  <2>3. CASE CountTask(w)
    <3>1. /\ args' = args
          /\ worker' = [worker EXCEPT ![w] = IF args.record THEN [worker[w] EXCEPT !.state = "job"] ELSE Idle]
      BY <2>3 DEF CountTask
    <3>2. Idle.state = "idle"
      BY DEF Idle
    <3> QED BY <1>3, <3>1, <3>2
  <2>4. CASE RecordJob(w)
    BY <1>3, <2>4 DEF RecordJob, Idle
  <2> QED BY <1>5, <2>1, <2>2, <2>3, <2>4 DEF Worker, BeginTask, BeginBulk
<1>6. ASSUME NEW s \in Slots, Resolution(s) PROVE JobInv'
  BY <1>2, <1>6 DEF Resolution, AssignFrame, FinishFrame, ReleaseFrame
<1>7. CASE Shutdowns
  BY <1>2, <1>7 DEF Shutdowns, EndRun, PrintStatistics, RaiseFlag, WriteCsv, WriteReport, DropRuntime, Join
<1>8. CASE Controller \/ Collector \/ UNCHANGED vars
  BY <1>2, <1>8 DEF Controller, Collector, vars, procVars
<1> QED BY <1>4, <1>5, <1>6, <1>7, <1>8 DEF Next

LEMMA RecordTakes ==
  ASSUME BaseInv, RecordInv, NEW w \in Workers, NEW s \in Slots, NEW id \in Int,
         NEW chunk \in SUBSET Nat, NEW left \in Seq(Nat), Takes(w, s, id, chunk, left)
  PROVE  RecordInv'
<1> DEFINE mine == {<<id, i>> : i \in chunk}
<1>1. /\ UNCHANGED <<args, phase, config, next_frame, csv>> /\ phase = "run"
      /\ worker[w] = Idle /\ slot[s].state = "open" /\ mine \subseteq slot[s].todo
      /\ slot' = [slot EXCEPT ![s].todo = @ \ mine]
      /\ worker' = [worker EXCEPT ![w] = [state |-> "task", slot |-> s, frame |-> slot[s].frame,
                                          id |-> id, chunk |-> chunk, left |-> left,
                                          since |-> IF timing_on THEN clock ELSE NoTime]]
      /\ \/ UNCHANGED <<recorder, submitted>>
         \/ \E i \in chunk : args.record /\ Submit(w, ExecRecord(s, id, i))
  BY DEF Takes, Begin
<1>2. slot \in [Slots -> SlotRec] /\ worker \in [Workers -> WorkerRec] /\ next_frame \in Nat
  BY DEF BaseInv, TypeInv
<1>3. Slots' = Slots /\ Workers' = Workers /\ Busy' = Busy \cup {w}
  BY <1>1, <1>2 DEF Slots, Workers, Busy
<1>4. /\ \A u \in Slots : u # s => slot'[u] = slot[u]
      /\ slot'[s].frame = slot[s].frame /\ slot'[s].todo = slot[s].todo \ mine
      /\ \A v \in Workers : v # w => worker'[v] = worker[v]
      /\ worker'[w].frame = slot[s].frame /\ TasksOf(worker'[w]) = mine
  BY <1>1, <1>2 DEF SlotRec, TasksOf
<1>5. \A r \in Record : Spent(r) => Spent(r)'
  <2>1. \A u \in Slots : slot'[u].frame = slot[u].frame /\ slot'[u].todo \subseteq slot[u].todo
    BY <1>4
  <2>2. ASSUME NEW v \in Busy'
        PROVE  \/ /\ v \in Busy /\ worker'[v].frame = worker[v].frame
                  /\ TasksOf(worker'[v]) = TasksOf(worker[v])
               \/ \E u \in Slots : worker'[v].frame = slot[u].frame /\ TasksOf(worker'[v]) \subseteq slot[u].todo
    <3>1. CASE v = w
      BY <1>1, <1>4, <3>1
    <3>2. CASE v # w
      BY <1>3, <1>4, <3>2 DEF Busy
    <3> QED BY <3>1, <3>2
  <2> QED BY <1>1, <1>3, <2>1, <2>2, SpentKept
<1>6. phase \notin BeforeRun
  BY <1>1 DEF BeforeRun, Booting
<1>7. CASE UNCHANGED <<recorder, submitted>>
  BY <1>1, <1>3, <1>5, <1>7, RecordQuiet
<1>8. ASSUME NEW i \in chunk, args.record, Submit(w, ExecRecord(s, id, i)) PROVE RecordInv'
  <2>1. slot[s].frame \in Int /\ i \in Nat /\ <<id, i>> \in slot[s].todo /\ <<id, i>> \in mine
    BY <1>1, <1>2 DEF SlotRec
  <2>2. PICK r \in Record : r = ExecRecord(s, id, i)
    BY <2>1 DEF ExecRecord, Record
  <2>3. r.kind = "exec" /\ r.frame = slot[s].frame /\ r.id = id /\ r.index = i
    BY <2>2 DEF ExecRecord
  <2>4. ~Recorded(r)
    BY <2>1, <2>3 DEF RecordInv, SpentInv, Spent
  <2>5. Spent(r)'
    <3>1. slot[s].frame < next_frame
      BY <1>1, <1>2 DEF BaseInv, SlotsInv
    <3>2. ASSUME NEW u \in Slots, slot'[u].frame = r.frame PROVE <<id, i>> \notin slot'[u].todo
      <4>1. u = s
        BY <1>1, <1>4, <2>3, <3>2 DEF BaseInv, SlotsInv
      <4> QED BY <1>4, <2>1, <4>1
    <3> QED BY <1>1, <1>3, <2>3, <3>1, <3>2 DEF Spent
  <2> QED BY <1>1, <1>3, <1>5, <1>6, <1>8, <2>2, <2>4, <2>5, SubmitStep
<1> QED BY <1>1, <1>7, <1>8

LEMMA RecordJobStep ==
  ASSUME BaseInv, RecordInv, JobInv, NEW w \in Workers, RecordJob(w)
  PROVE  RecordInv'
<1> DEFINE me == worker[w]
<1>1. /\ UNCHANGED <<args, phase, config, graph, node_cache, slot, next_frame, csv>>
      /\ me.state = "job" /\ worker' = [worker EXCEPT ![w] = Idle]
      /\ UNCHANGED <<recorder, submitted>> \/ Submit(w, JobRecord(me))
  BY DEF RecordJob, argVars
<1>2. worker \in [Workers -> WorkerRec] /\ me \in WorkerRec /\ next_frame \in Nat
  BY DEF BaseInv, TypeInv
<1>3. worker'[w] = Idle /\ \A v \in Workers : v # w => worker'[v] = worker[v]
  BY <1>1, <1>2
<1>4. Slots' = Slots /\ Workers' = Workers /\ Busy' = Busy \ {w} /\ w \in Busy
  BY <1>1, <1>2, <1>3 DEF Slots, Workers, Busy, Idle
<1>5. phase \notin BeforeRun /\ args.record
  BY <1>1, <1>4, Running DEF JobInv
<1>6. \A r \in Record : Spent(r) => Spent(r)'
  <2>1. \A v \in Busy' : v \in Busy /\ worker'[v] = worker[v]
    BY <1>3, <1>4 DEF Busy
  <2> QED BY <1>1, <1>4, <2>1, SpentKept
<1>7. CASE UNCHANGED <<recorder, submitted>>
  BY <1>1, <1>4, <1>6, <1>7, RecordQuiet
<1>8. CASE Submit(w, JobRecord(me))
  <2>1. me.chunk \in SUBSET Nat /\ me.chunk # {} /\ me.frame \in Int /\ me.id \in Int
    BY <1>2, <1>4 DEF WorkerRec, BaseInv, WorkersInv
  <2>2. Min(me.chunk) \in me.chunk /\ Min(me.chunk) \in Nat
    BY <2>1, LeastElement
  <2>3. PICK r \in Record : r = JobRecord(me)
    BY <2>1, <2>2 DEF JobRecord, Record
  <2>4. r.kind = "job" /\ r.frame = me.frame /\ r.id = me.id /\ r.index = Min(me.chunk)
    BY <2>3 DEF JobRecord
  <2>5. <<r.id, r.index>> \in TasksOf(me)
    BY <2>2, <2>4 DEF TasksOf
  <2>6. ~Recorded(r)
    BY <1>4, <2>4, <2>5 DEF RecordInv, SpentInv, Spent
  <2>7. Spent(r)'
    <3>1. me.frame < next_frame
      BY <1>2, <1>4 DEF BaseInv, WorkersInv
    <3>2. \A s \in Slots : slot[s].frame = r.frame => <<r.id, r.index>> \notin slot[s].todo
      BY <1>4, <2>4, <2>5 DEF BaseInv, WorkersInv
    <3>3. ASSUME NEW v \in Busy', worker'[v].frame = r.frame PROVE <<r.id, r.index>> \notin TasksOf(worker'[v])
      <4>1. v \in Busy /\ v # w /\ worker'[v] = worker[v]
        BY <1>3, <1>4 DEF Busy
      <4> QED BY <1>4, <2>4, <2>5, <3>3, <4>1 DEF BaseInv, WorkersInv
    <3> QED BY <1>1, <1>4, <2>4, <3>1, <3>2, <3>3 DEF Spent
  <2> QED BY <1>1, <1>4, <1>5, <1>6, <1>8, <2>3, <2>6, <2>7, SubmitStep
<1> QED BY <1>1, <1>7, <1>8

\* The steps that move a frame or a task on without a record.
LEMMA RecordFrames ==
  ASSUME BaseInv, RecordInv,
         \/ \E w \in Workers : EndKernel(w) \/ CountTask(w)
         \/ \E s \in Slots : Resolution(s)
  PROVE  RecordInv'
<1>1. UNCHANGED <<recorder, submitted, csv, args, config, phase>>
  BY DEF EndKernel, CountTask, Resolution, AssignFrame, FinishFrame, ReleaseFrame, teleVars
<1>2. slot \in [Slots -> SlotRec] /\ worker \in [Workers -> WorkerRec]
  BY DEF BaseInv, TypeInv
<1>3. ASSUME NEW w \in Workers, EndKernel(w) \/ CountTask(w) PROVE RecordInv'
  <2>1. /\ next_frame' = next_frame /\ Slots' = Slots /\ Workers' = Workers /\ Busy' \subseteq Busy
        /\ \A s \in Slots : slot'[s].frame = slot[s].frame /\ slot'[s].todo = slot[s].todo
        /\ \A v \in Busy' : worker'[v].frame = worker[v].frame /\ TasksOf(worker'[v]) = TasksOf(worker[v])
    <3>1. CASE EndKernel(w)
      <4>1. /\ UNCHANGED <<slot, next_frame>> /\ worker[w].state = "task"
            /\ worker' = [worker EXCEPT ![w].left = Tail(@),
                                        ![w].since = IF timing_on THEN clock ELSE NoTime]
        BY <3>1 DEF EndKernel
      <4>2. Workers' = Workers /\ \A v \in Workers : /\ worker'[v].state = worker[v].state
                                  /\ worker'[v].frame = worker[v].frame
                                  /\ worker'[v].id = worker[v].id /\ worker'[v].chunk = worker[v].chunk
        BY <1>2, <4>1 DEF WorkerRec, Workers
      <4>3. Busy' = Busy /\ \A v \in Workers : TasksOf(worker'[v]) = TasksOf(worker[v])
        BY <4>2 DEF Busy, TasksOf
      <4>4. Busy \subseteq Workers
        BY DEF Busy
      <4>5. \A v \in Busy' : worker'[v].frame = worker[v].frame /\ TasksOf(worker'[v]) = TasksOf(worker[v])
        BY <4>2, <4>3, <4>4
      <4>6. Slots' = Slots /\ slot' = slot
        BY <4>1 DEF Slots
      <4> QED BY <4>1, <4>2, <4>3, <4>5, <4>6
    <3>2. CASE CountTask(w)
      <4> DEFINE u == worker[w].slot
      <4>1. /\ next_frame' = next_frame /\ worker[w].state = "task"
            /\ slot' = [slot EXCEPT ![u].done = @ \cup {<<worker[w].id, i>> : i \in worker[w].chunk}]
            /\ worker' = [worker EXCEPT ![w] = IF args.record THEN [worker[w] EXCEPT !.state = "job"] ELSE Idle]
        BY <3>2 DEF CountTask
      <4>2. w \in Busy
        BY <4>1 DEF Busy
      <4>3. /\ Slots' = Slots
            /\ \A s \in Slots : slot'[s].frame = slot[s].frame /\ slot'[s].todo = slot[s].todo
        BY <1>2, <4>1 DEF SlotRec, Slots
      <4>4. /\ Workers' = Workers /\ \A v \in Workers : v # w => worker'[v] = worker[v]
            /\ worker'[w].state # "idle" =>
                 /\ worker'[w].frame = worker[w].frame /\ worker'[w].id = worker[w].id
                 /\ worker'[w].chunk = worker[w].chunk
        BY <1>2, <4>1 DEF WorkerRec, Workers, Idle
      <4>5. Busy' \subseteq Busy /\ \A v \in Busy' : /\ worker'[v].frame = worker[v].frame
                                                      /\ TasksOf(worker'[v]) = TasksOf(worker[v])
        BY <4>2, <4>4 DEF Busy, TasksOf
      <4> QED BY <4>1, <4>3, <4>4, <4>5
    <3> QED BY <1>3, <3>1, <3>2
  <2>2. \A r \in Record : Spent(r) => Spent(r)'
    BY <2>1, SpentKept
  <2> QED BY <1>1, <2>1, <2>2, RecordQuiet
<1>4. ASSUME NEW s \in Slots, Resolution(s) PROVE RecordInv'
  <2>1. /\ worker' = worker /\ next_frame' \in {next_frame, next_frame + 1} /\ Slots' = Slots
        /\ \A u \in Slots : \/ slot'[u].frame = next_frame \/ slot'[u].todo = {}
                            \/ slot'[u].frame = slot[u].frame /\ slot'[u].todo \subseteq slot[u].todo
    <3>1. CASE AssignFrame(s)
      BY <1>2, <3>1 DEF AssignFrame, Slots
    <3>2. CASE FinishFrame(s)
      BY <1>2, <3>2 DEF FinishFrame, Slots, SlotRec
    <3>3. CASE ReleaseFrame(s)
      BY <1>2, <3>3 DEF ReleaseFrame, Slots, Free
    <3> QED BY <1>4, <3>1, <3>2, <3>3 DEF Resolution
  <2>2. Workers' = Workers /\ Busy' = Busy
    BY <2>1 DEF Workers, Busy
  <2>3. \A r \in Record : Spent(r) => Spent(r)'
    BY <2>1, <2>2, SpentKept
  <2> QED BY <1>1, <2>2, <2>3, RecordQuiet
<1> QED BY <1>3, <1>4

\* main after the run: the flag is raised, the file written, the threads joined.
LEMMA RecordShutdown ==
  ASSUME BaseInv, RecordInv, Shutdowns
  PROVE  RecordInv'
<1>1. /\ UNCHANGED <<submitted, args, config, slot, worker, next_frame>>
      /\ phase \notin BeforeRun /\ phase' \notin BeforeRun
  BY DEF Shutdowns, EndRun, PrintStatistics, RaiseFlag, WriteCsv, WriteReport, DropRuntime, Join,
         BeforeRun, Booting
<1>2. (\A r : Spent(r)' <=> Spent(r)) /\ Workers' = Workers
  BY <1>1, SameSpent DEF Workers
<1>3. CASE UNCHANGED <<recorder, csv>>
  BY <1>1, <1>2, <1>3, RecordQuiet
<1>4. recorder \in Recorders
  BY DEF RecordInv, ChannelsInv
<1>5. ASSUME recorder' \in Recorders, UNCHANGED <<recorder.channels, recorder.got>>, HandInv'
      PROVE  RecordInv'
  <2>1. Channels' = Channels /\ \A r : Recorded(r)' <=> Recorded(r)
    BY <1>5 DEF Channels, Recorded, InChannel
  <2>2. \A w : channel_index(w)' = channel_index(w)
    BY <1>1 DEF channel_index, core_of
  <2>3. ChannelsInv'
    BY <1>1, <1>2, <1>5, <2>1, <2>2 DEF RecordInv, ChannelsInv, BeforeRun, Booting
  <2>4. SpentInv' /\ DistinctInv'
    BY <1>2, <1>5, <2>1 DEF RecordInv, SpentInv, DistinctInv, InChannel, Channels
  <2> QED BY <1>5, <2>3, <2>4 DEF RecordInv
<1>6. CASE csv' = csv /\ recorder' = [recorder EXCEPT !.shutdown = TRUE]
  <2>1. /\ recorder' \in Recorders /\ recorder'.shutdown = TRUE
        /\ UNCHANGED <<recorder.channels, recorder.got, recorder.at, recorder.next, recorder.taken>>
    BY <1>4, <1>6 DEF Recorders
  <2>2. HandInv'
    BY <1>1, <1>6, <2>1 DEF RecordInv, HandInv, Recorded, InChannel, Channels
  <2> QED BY <1>5, <2>1, <2>2
<1>7. CASE WriteCsv
  <2>1. /\ csv' = IF recorder.taken \in {<<>>, <<<<>>>>} THEN csv ELSE recorder.taken
        /\ recorder' = [recorder EXCEPT !.taken = <<>>]
    BY <1>7 DEF WriteCsv
  <2>2. <<>> \in Seq(Seq(Record))
    BY EmptySeq
  <2>3. /\ recorder' \in Recorders /\ recorder'.taken = <<>>
        /\ UNCHANGED <<recorder.channels, recorder.got, recorder.at, recorder.next, recorder.shutdown>>
    BY <1>4, <2>1, <2>2 DEF Recorders
  <2>4. csv' = csv \/ (csv' = recorder.taken /\ recorder.taken # <<>>)
    BY <2>1
  <2>5. csv' = <<>> \/ (csv' = <<recorder.got>> /\ recorder.at = "done")
    BY <2>4 DEF RecordInv, HandInv
  <2>6. HandInv'
    BY <1>1, <2>3, <2>5 DEF RecordInv, HandInv, Recorded, InChannel, Channels
  <2> QED BY <1>5, <2>3, <2>6
<1> QED BY <1>3, <1>6, <1>7
     DEF Shutdowns, EndRun, PrintStatistics, RaiseFlag, WriteReport, DropRuntime, Join, teleVars

LEMMA RecordStep ==
  ASSUME BaseInv, RecordInv, JobInv, [Next]_vars
  PROVE  RecordInv'
<1>1. ASSUME UNCHANGED <<recorder, submitted, csv, args, config, slot, worker, next_frame>>,
             phase' = phase \/ (phase = "start" /\ phase' = "run")
      PROVE  RecordInv'
  <2>1. (\A r : Spent(r)' <=> Spent(r)) /\ Workers' = Workers
    BY <1>1, SameSpent DEF Workers
  <2> QED BY <1>1, <2>1, RecordQuiet
<1>2. CASE Startup
  <2>1. CASE StartRun
    BY <1>1, <2>1 DEF StartRun
  <2> QED BY <1>2, <2>1, RecordBoot, RecordScheduler DEF Startup
<1>3. ASSUME NEW w \in Workers, Worker(w) PROVE RecordInv'
  <2>1. ASSUME NEW s \in Slots, NEW id \in Int, NEW chunk \in SUBSET Nat, NEW left \in Seq(Nat),
               Takes(w, s, id, chunk, left)
        PROVE  RecordInv'
    BY <2>1, RecordTakes
  <2>2. ASSUME NEW s \in Slots, NEW task \in slot[s].todo,
               \/ BeginTask(w, s, task[1], task[2])
               \/ \E count \in 2 .. node_cache[task[1]].edges.factor - task[2] :
                    BeginBulk(w, s, task[1], task[2], count)
        PROVE  RecordInv'
    BY <2>1, <2>2, BeginTakes
  <2> QED BY <1>3, <2>2, RecordFrames, RecordJobStep DEF Worker
<1>4. ASSUME NEW s \in Slots, Resolution(s) PROVE RecordInv'
  BY <1>4, RecordFrames
<1>5. CASE Shutdowns
  BY <1>5, RecordShutdown
<1>6. CASE Controller
  <2>1. recorder' = recorder
    BY <1>6 DEF Controller, ControllerLoop
  <2> QED BY <1>1, <1>6, <2>1 DEF Controller, procVars
<1>7. CASE UNCHANGED vars
  BY <1>1, <1>7 DEF vars, procVars, teleVars
<1> QED BY <1>2, <1>3, <1>4, <1>5, <1>6, <1>7, CollectorStep DEF Next

LEMMA RecordsWritten ==
  ASSUME RecordInv
  PROVE  CsvComplete
<1>1. csv = <<>> \/ (csv = <<recorder.got>> /\ submitted \subseteq Range(recorder.got))
  BY DEF RecordInv, HandInv
<1>2. recorder.got \in Seq(Record) /\ IsInjective(recorder.got)
  BY RecorderParts DEF RecordInv, ChannelsInv, DistinctInv
<1>3. Cardinality(Range(recorder.got)) = Len(recorder.got)
  BY <1>2, InjectiveLength
<1>4. CASE csv = <<>>
  BY <1>4 DEF CsvComplete
<1>5. CASE csv = <<recorder.got>> /\ submitted \subseteq Range(recorder.got)
  <2>1. \A k \in DOMAIN csv : csv[k] = recorder.got
    BY <1>5
  <2> QED BY <1>3, <1>5, <2>1 DEF CsvComplete
<1> QED BY <1>1, <1>4, <1>5

\* Whatever the command line, the machine and the graph: a record file that is written
\* holds every record that a worker submitted before write_to_csv raised the flag, and
\* none twice.
THEOREM RecordFileIsComplete == Spec => []CsvComplete
<1> DEFINE IInv == BaseInv /\ RecordInv /\ JobInv
<1>1. Init => IInv
  <2>1. Init => JobInv
    BY DEF Init, JobInv, Workers
  <2> QED BY <2>1, BaseInit, RecordInit
<1>2. IInv /\ [Next]_vars => IInv'
  BY BaseStep, RecordStep, JobStep
<1>3. IInv => CsvComplete
  BY RecordsWritten
<1> QED BY <1>1, <1>2, <1>3, PTL DEF Spec

-----------------------------------------------------------------------------
(***************************************************************************)
(* Times.  What was reported of the frame in a slot is in the buffer of    *)
(* the slot or on its way there, in the one channel of the controller; the *)
(* request that closes the frame is behind all of it.                      *)
(***************************************************************************)

EntryNames == STRING \cup {"Slot Assignment"}
TimeEntry == [name : EntryNames, worker : Int, took : Int, task : Seq(Int)]
Stat == [start : Int, end : Int, tasks : Seq(TimeEntry)]
Requests ==
  {r \in [op : {"start", "add", "finish", "shutdown"}, slot : Nat, at : Int, entry : TimeEntry \cup {NoEntry}] :
     r.op = "add" => r.entry \in TimeEntry}
Buffers(n) ==
  [slots : Nat, system_threads : Nat, start_times : [0 .. n - 1 -> Int],
   current : [0 .. n - 1 -> Seq(TimeEntry)], statistics : [0 .. n - 1 -> Seq(Stat)]]

Timing == timing_on /\ controller = "run"
Current(s) == time_buffer.current[s]
Statistics(s) == time_buffer.statistics[s]

Adds(s) == {p \in DOMAIN requests : requests[p].op = "add" /\ requests[p].slot = s}
Ends(s) == {p \in DOMAIN requests : requests[p].op = "finish" /\ requests[p].slot = s}
Told(s, x) ==
  \/ \E i \in DOMAIN Current(s) : Current(s)[i].task = x
  \/ \E p \in Adds(s) : requests[p].entry.task = x
Settled(s) == slot[s].state = "free" \/ (slot[s].state = "finishing" /\ s \in responses)
Mark(f, t) == <<f, t[1], t[2]>>
HasTime(t) == ~UsesBulkKernel(graph, t[1])

\* The parts of what the run keeps about its slots.
BootTimes ==
  /\ phase \in BeforeRun => requests = <<>>
  /\ phase \in BeforeRun \ {"start"} => time_buffer = TimeBuffer_new(0, 0)
  /\ phase \notin {"registry", "load", "scheduler", "failed"} => config.sys \in Nat /\ config.worker_start \in Int
  /\ phase \notin Booting \cup {"build"} => Slots = 0 .. slots_used - 1 /\ slots_used \in Nat
TypeTimes ==
  /\ time_buffer \in Buffers(time_buffer.slots) /\ requests \in Seq(Requests)
  /\ timing_on => /\ worker_slots(time_buffer) = Slots /\ Slots \subseteq 0 .. time_buffer.slots - 1
ServedInv ==
  \A s \in Slots :
    /\ slot[s].state # "free" => served[s] # <<>> /\ served[s][Len(served[s])] = slot[s].frame
    /\ slot[s].state = "finishing" => slot[s].done = FrameTasks

\* The times of a frame: of every timed task, of the frame's tasks only, none twice.
TimesOf(f, tasks) ==
  /\ \A t \in FrameTasks : HasTime(t) => \E i \in DOMAIN tasks : tasks[i].task = Mark(f, t)
  /\ \A i \in DOMAIN tasks : \E t \in FrameTasks : tasks[i].task = Mark(f, t)
  /\ \A i, j \in DOMAIN tasks : tasks[i].task = tasks[j].task => i = j
StatsInv ==
  timing_on => \A s \in Slots :
    /\ Len(Statistics(s)) <= Len(served[s])
    /\ \A k \in 1 .. Len(Statistics(s)) : TimesOf(served[s][k], Statistics(s)[k].tasks)

\* Nothing is reported twice.
Once(s) ==
  /\ \A i, j \in DOMAIN Current(s) : Current(s)[i].task = Current(s)[j].task => i = j
  /\ \A p, q \in Adds(s) : requests[p].entry.task = requests[q].entry.task => p = q
  /\ \A p \in Adds(s), i \in DOMAIN Current(s) : requests[p].entry.task # Current(s)[i].task
\* What is reported was begun.
Own(s) ==
  \A x : Told(s, x) => \E t \in FrameTasks : t \notin slot[s].todo /\ x = Mark(slot[s].frame, t)
\* A worker has reported what it has done of its chunk, and nothing else of it.
Carried(s) ==
  \A w \in Working : worker[w].slot = s =>
    /\ \A i \in Range(worker[w].left) : ~Told(s, <<slot[s].frame, worker[w].id, i>>)
    /\ HasTime(<<worker[w].id, 0>>) =>
         \A i \in worker[w].chunk : i \in Range(worker[w].left) \/ Told(s, <<slot[s].frame, worker[w].id, i>>)
\* What is counted was reported.
Counted(s) == \A t \in slot[s].done : HasTime(t) => Told(s, Mark(slot[s].frame, t))

Flow(s) ==
  /\ Settled(s) => Adds(s) = {} /\ Current(s) = <<>>
  /\ Settled(s) \/ slot[s].state = "open" => Ends(s) = {}
  /\ Len(Statistics(s)) = Len(served[s]) - (IF Settled(s) THEN 0 ELSE 1)
  /\ \A p \in Ends(s) : (\A q \in Ends(s) : p = q) /\ \A q \in Adds(s) : q < p
  /\ Once(s) /\ Own(s) /\ Carried(s)
  /\ ~Settled(s) => Counted(s)
FlowInv == Timing => \A s \in Slots : Flow(s)

TimeInv == BootTimes /\ TypeTimes /\ ServedInv /\ StatsInv /\ FlowInv

-----------------------------------------------------------------------------
(* The channel of the controller. *)

LEMMA SentRequests ==
  ASSUME TypeTimes, NEW rs \in Seq(Requests), send(rs)
  PROVE  /\ requests' \in Seq(Requests) /\ (~Timing => requests' = requests)
         /\ Timing => /\ DOMAIN requests' = 1 .. Len(requests) + Len(rs)
                      /\ \A p \in 1 .. Len(requests) : requests'[p] = requests[p]
                      /\ \A k \in 1 .. Len(rs) : requests'[Len(requests) + k] = rs[k]
         /\ Len(requests) \in Nat /\ Len(rs) \in Nat
         /\ DOMAIN requests = 1 .. Len(requests) /\ DOMAIN rs = 1 .. Len(rs)
<1>1. requests \in Seq(Requests) /\ requests' = IF Timing THEN requests \o rs ELSE requests
  BY DEF TypeTimes, send, Timing
<1>2. ASSUME NEW S, NEW q \in Seq(S), NEW r \in Seq(S)
      PROVE  /\ q \o r \in Seq(S) /\ DOMAIN (q \o r) = 1 .. Len(q) + Len(r)
             /\ \A p \in 1 .. Len(q) : (q \o r)[p] = q[p]
             /\ \A k \in 1 .. Len(r) : (q \o r)[Len(q) + k] = r[k]
             /\ Len(q) \in Nat /\ Len(r) \in Nat /\ DOMAIN q = 1 .. Len(q) /\ DOMAIN r = 1 .. Len(r)
  OBVIOUS
<1> QED BY <1>1, <1>2

\* What is sent about other slots.
LEMMA NotAbout ==
  ASSUME TypeTimes, NEW rs \in Seq(Requests), send(rs), time_buffer' = time_buffer, NEW s,
         \A k \in DOMAIN rs : rs[k].slot # s \/ rs[k].op \notin {"add", "finish"}
  PROVE  Adds(s)' = Adds(s) /\ Ends(s)' = Ends(s) /\ \A p \in Adds(s) : requests'[p] = requests[p]
<1>1. CASE ~Timing
  BY <1>1, SentRequests DEF Adds, Ends
<1>2. CASE Timing
  <2>1. /\ DOMAIN requests' = 1 .. Len(requests) + Len(rs)
        /\ \A p \in 1 .. Len(requests) : requests'[p] = requests[p]
        /\ \A k \in 1 .. Len(rs) : requests'[Len(requests) + k] = rs[k]
        /\ Len(requests) \in Nat /\ Len(rs) \in Nat
        /\ DOMAIN requests = 1 .. Len(requests) /\ DOMAIN rs = 1 .. Len(rs)
    BY <1>2, SentRequests
  <2>2. ASSUME NEW p \in DOMAIN requests', p \notin DOMAIN requests
        PROVE  requests'[p].slot # s \/ requests'[p].op \notin {"add", "finish"}
    <3>1. p - Len(requests) \in 1 .. Len(rs) /\ p = Len(requests) + (p - Len(requests))
      BY <2>1, <2>2
    <3>2. requests'[p] = rs[p - Len(requests)]
      BY <2>1, <3>1
    <3> QED BY <2>1, <3>1, <3>2
  <2>3. DOMAIN requests \subseteq DOMAIN requests' /\ \A p \in DOMAIN requests : requests'[p] = requests[p]
    BY <2>1
  <2> QED BY <2>2, <2>3 DEF Adds, Ends
<1> QED BY <1>1, <1>2

\* Slot s, its buffer and its workers are left alone.
LEMMA FlowKept ==
  ASSUME NEW s \in Slots, Flow(s), Adds(s)' = Adds(s), Ends(s)' = Ends(s),
         \A p \in Adds(s) : requests'[p] = requests[p],
         time_buffer'.current[s] = Current(s), time_buffer'.statistics[s] = Statistics(s),
         served'[s] = served[s], slot'[s] = slot[s],
         s \in responses' <=> s \in responses, UNCHANGED <<FrameTasks, graph, registry, node_cache>>,
         \A w \in Working' : worker'[w].slot = s =>
           /\ w \in Working /\ worker[w].slot = s /\ worker'[w].left = worker[w].left
           /\ worker'[w].id = worker[w].id /\ worker'[w].chunk = worker[w].chunk
  PROVE  Flow(s)'
<1>1. Current(s)' = Current(s) /\ Statistics(s)' = Statistics(s) /\ (Settled(s)' <=> Settled(s))
  BY DEF Current, Statistics, Settled
<1>2. \A x : Told(s, x)' <=> Told(s, x)
  BY <1>1 DEF Told
<1>3. \A t : HasTime(t)' <=> HasTime(t)
  BY DEF HasTime, UsesBulkKernel
<1>4. Once(s)'
  BY <1>1 DEF Flow, Once
<1>5. Own(s)'
  BY <1>2 DEF Flow, Own
<1>6. Carried(s)'
  BY <1>2, <1>3 DEF Flow, Carried
<1>7. ~Settled(s) => Counted(s)'
  BY <1>2, <1>3 DEF Flow, Counted
<1> QED BY <1>1, <1>4, <1>5, <1>6, <1>7 DEF Flow

\* The statistics of a step that only lengthens what was served.
LEMMA StatsKept ==
  ASSUME BaseInv, StatsInv, TypeTimes, time_buffer' = time_buffer, Slots' = Slots,
         UNCHANGED <<FrameTasks, graph, registry, node_cache>>,
         \A s \in Slots : /\ served'[s] \in Seq(Nat) /\ Len(served[s]) <= Len(served'[s])
                          /\ \A k \in 1 .. Len(served[s]) : served'[s][k] = served[s][k]
  PROVE  StatsInv'
<1>1. \A t : HasTime(t)' <=> HasTime(t)
  BY DEF HasTime, UsesBulkKernel
<1>2. \A f, tasks : TimesOf(f, tasks)' <=> TimesOf(f, tasks)
  BY <1>1 DEF TimesOf
<1>3. \A s : Statistics(s)' = Statistics(s)
  BY DEF Statistics
<1>4. timing_on' <=> timing_on
  BY DEF timing_on
<1>5. ASSUME timing_on, NEW s \in Slots
      PROVE  /\ Len(Statistics(s)) <= Len(served'[s])
             /\ \A k \in 1 .. Len(Statistics(s)) : TimesOf(served'[s][k], Statistics(s)[k].tasks)
  <2>1. /\ Len(Statistics(s)) <= Len(served[s])
        /\ \A k \in 1 .. Len(Statistics(s)) : TimesOf(served[s][k], Statistics(s)[k].tasks)
    BY <1>5 DEF StatsInv
  <2>2. Statistics(s) \in Seq(Stat) /\ served[s] \in Seq(Nat)
    BY <1>5 DEF TypeTimes, Buffers, Statistics, BaseInv, TypeInv
  <2>3. Len(Statistics(s)) \in Nat /\ Len(served[s]) \in Nat /\ Len(served'[s]) \in Nat
    BY <2>2
  <2>4. ASSUME NEW k \in 1 .. Len(Statistics(s)) PROVE served'[s][k] = served[s][k]
    BY <2>1, <2>3
  <2> QED BY <2>1, <2>3, <2>4
<1> QED BY <1>2, <1>3, <1>4, <1>5 DEF StatsInv

\* A step that sends nothing about the frames of the slots and leaves them alone.
LEMMA TimeSend ==
  ASSUME BaseInv, TimeInv, NEW rs \in Seq(Requests), send(rs),
         \A k \in DOMAIN rs : rs[k].slot \notin Slots \/ rs[k].op \notin {"add", "finish"},
         UNCHANGED <<time_buffer, controller, responses, args, config, slot, served, graph, node_cache, registry>>,
         phase' \in BeforeRun => requests' = requests,
         \/ phase' = phase
         \/ phase = "start" /\ phase' = "run"
         \/ phase \notin BeforeRun /\ phase' \notin BeforeRun,
         \A w \in Working' :
           /\ w \in Working /\ worker'[w].slot = worker[w].slot /\ worker'[w].left = worker[w].left
           /\ worker'[w].id = worker[w].id /\ worker'[w].chunk = worker[w].chunk
  PROVE  TimeInv'
<1>1. Slots' = Slots /\ FrameTasks' = FrameTasks /\ slots_used' = slots_used /\ (timing_on' <=> timing_on)
  BY DEF Slots, FrameTasks, slots_used, timing_on
<1>2. BootTimes'
  BY <1>1 DEF TimeInv, BootTimes, BeforeRun, Booting
<1>3. TypeTimes'
  <2>1. requests' \in Seq(Requests)
    BY SentRequests DEF TimeInv
  <2> QED BY <1>1, <2>1 DEF TimeInv, TypeTimes, worker_slots
<1>4. ServedInv'
  BY <1>1 DEF TimeInv, ServedInv
<1>5. StatsInv'
  <2>1. \A s \in Slots : served[s] \in Seq(Nat)
    BY DEF BaseInv, TypeInv
  <2>2. \A s \in Slots : served'[s] = served[s] /\ Len(served[s]) \in Nat
    BY <2>1
  <2> QED BY <1>1, <2>1, <2>2, StatsKept DEF TimeInv
<1>6. FlowInv'
  <2>1. ASSUME Timing, NEW s \in Slots PROVE Flow(s)'
    <3>1. Flow(s) /\ \A k \in DOMAIN rs : rs[k].slot # s \/ rs[k].op \notin {"add", "finish"}
      BY <2>1 DEF TimeInv, FlowInv
    <3>2. Adds(s)' = Adds(s) /\ Ends(s)' = Ends(s) /\ \A p \in Adds(s) : requests'[p] = requests[p]
      BY <3>1, NotAbout DEF TimeInv
    <3>3. time_buffer'.current[s] = Current(s) /\ time_buffer'.statistics[s] = Statistics(s)
      BY DEF Current, Statistics
    <3> QED BY <1>1, <3>1, <3>2, <3>3, FlowKept
  <2> QED BY <1>1, <2>1 DEF FlowInv, Timing
<1> QED BY <1>2, <1>3, <1>4, <1>5, <1>6 DEF TimeInv

LEMMA SendNothing ==
  ASSUME TimeInv, requests' = requests
  PROVE  <<>> \in Seq(Requests) /\ send(<<>>) /\ DOMAIN <<>> = {}
<1>1. requests \in Seq(Requests)
  BY DEF TimeInv, TypeTimes
<1>2. \A S : \A q \in Seq(S) : q \o <<>> = q
  OBVIOUS
<1> QED BY <1>1, <1>2, EmptySeq DEF send

LEMMA TimeQuiet ==
  ASSUME BaseInv, TimeInv,
         UNCHANGED <<time_buffer, requests, controller, responses, args, config, slot, served,
                     graph, node_cache, registry>>,
         \/ phase' = phase
         \/ phase \notin BeforeRun /\ phase' \notin BeforeRun,
         \A w \in Working' :
           /\ w \in Working /\ worker'[w].slot = worker[w].slot /\ worker'[w].left = worker[w].left
           /\ worker'[w].id = worker[w].id /\ worker'[w].chunk = worker[w].chunk
  PROVE  TimeInv'
<1>1. <<>> \in Seq(Requests) /\ send(<<>>) /\ DOMAIN <<>> = {}
  BY SendNothing
<1> QED BY <1>1, TimeSend

\* An empty buffer.
LEMMA NewTimes ==
  ASSUME NEW n \in Nat, NEW m \in Nat, NEW tb, tb = TimeBuffer_new(n, m)
  PROVE  /\ tb \in Buffers(n) /\ tb.slots = n /\ tb.system_threads = m
         /\ \A s \in 0 .. n - 1 : tb.current[s] = <<>> /\ tb.statistics[s] = <<>>
<1>1. /\ tb.slots = n /\ tb.system_threads = m
      /\ tb.start_times = [s \in 0 .. n - 1 |-> NoTime] /\ tb.current = [s \in 0 .. n - 1 |-> <<>>]
      /\ tb.statistics = [s \in 0 .. n - 1 |-> <<>>]
      /\ tb = [slots |-> tb.slots, system_threads |-> tb.system_threads, start_times |-> tb.start_times,
               current |-> tb.current, statistics |-> tb.statistics]
  BY DEF TimeBuffer_new
<1>2. <<>> \in Seq(TimeEntry) /\ <<>> \in Seq(Stat)
  BY EmptySeq
<1>3. /\ tb.start_times \in [0 .. n - 1 -> Int] /\ tb.current \in [0 .. n - 1 -> Seq(TimeEntry)]
      /\ tb.statistics \in [0 .. n - 1 -> Seq(Stat)]
  BY <1>1, <1>2 DEF NoTime
<1>4. ASSUME NEW a \in [0 .. n - 1 -> Int], NEW c \in [0 .. n - 1 -> Seq(TimeEntry)],
             NEW d \in [0 .. n - 1 -> Seq(Stat)]
      PROVE  [slots |-> n, system_threads |-> m, start_times |-> a, current |-> c, statistics |-> d] \in Buffers(n)
  BY DEF Buffers
<1> QED BY <1>1, <1>3, <1>4

LEMMA TimeInit ==
  ASSUME Init
  PROVE  TimeInv
<1>1. time_buffer = TimeBuffer_new(0, 0) /\ requests = <<>> /\ phase = "registry" /\ slot = <<>>
  BY DEF Init
<1>2. time_buffer \in Buffers(0) /\ time_buffer.slots = 0
  BY <1>1, NewTimes
<1>3. Slots = {} /\ ~timing_on
  BY <1>1, <1>2 DEF Slots, timing_on
<1>4. <<>> \in Seq(Requests)
  BY EmptySeq
<1> QED BY <1>1, <1>2, <1>3, <1>4
     DEF TimeInv, BootTimes, TypeTimes, ServedInv, StatsInv, FlowInv, Timing, Booting, BeforeRun

LEMMA TimeBoot ==
  ASSUME BaseInv, TimeInv, InitRegistry \/ LoadGraph \/ CreateScheduler \/ Compile
  PROVE  TimeInv'
<1>1. /\ UNCHANGED <<args, slot, time_buffer, requests>>
      /\ phase \in {"registry", "load", "scheduler", "compile"}
      /\ phase' \in {"load", "scheduler", "compile", "build", "failed"}
  BY DEF InitRegistry, LoadGraph, CreateScheduler, Compile, teleVars, Proceed
<1>2. Slots' = Slots /\ Slots = {}
  BY <1>1 DEF Slots, BaseInv, BootInv, BeforeRun, Booting
<1>3. time_buffer = TimeBuffer_new(0, 0) /\ requests = <<>>
  BY <1>1 DEF TimeInv, BootTimes, BeforeRun, Booting
<1>4. time_buffer.slots = 0
  BY <1>3, NewTimes
<1>5. ~timing_on'
  BY <1>1, <1>4 DEF timing_on
<1>6. phase' \notin {"registry", "load", "scheduler", "failed"} => config'.sys \in Nat /\ config'.worker_start \in Int
  <2>1. CASE CreateScheduler
    <3>1. config' = allocate_cores(args.cores, args.core_offset, args.system_threads,
                                   receiver_threads, args.workers)
      BY <2>1 DEF CreateScheduler
    <3>2. /\ args.cores \in Nat /\ args.core_offset \in Nat /\ args.workers \in Nat
          /\ args.system_threads \in Nat /\ receiver_threads \in Nat
      BY ProgramAssumption DEF BaseInv, TypeInv, receiver_threads
    <3>3. ASSUME NEW l, NEW a \in Nat, NEW b \in Nat, NEW c \in Nat, NEW d \in Nat, NEW e \in Nat,
                 l = allocate_cores(a, b, c, d, e)
          PROVE  l.sys \in Nat /\ l.worker_start \in Int
      <4>1. ASSUME NEW o \in Nat, NEW p \in Nat, NEW q \in Int, NEW k, NEW m, l = Layout(o, p, q, k, m)
            PROVE  l.sys \in Nat /\ l.worker_start \in Int
        BY <4>1 DEF Layout
      <4>2. Least(d, (a - 1) \div 2) \in Int /\ b + 1 \in Nat
        BY DEF Least
      <4>3. \/ l = Layout(b + 1, c, d, e, {b})
            \/ l = Layout(b, c, d, e, {})
            \/ l = Layout(0, c, d, e, {})
            \/ l = Layout(0, 1, Least(d, (a - 1) \div 2), Most(a - 1 - Least(d, (a - 1) \div 2), 1), {})
        BY <3>3 DEF allocate_cores
      <4> QED BY <4>1, <4>2, <4>3
    <3> QED BY <3>1, <3>2, <3>3
  <2>2. CASE Compile
    <3>1. config' = config /\ phase = "compile"
      BY <2>2 DEF Compile
    <3> QED BY <3>1 DEF TimeInv, BootTimes
  <2>3. CASE InitRegistry \/ LoadGraph
    BY <2>3 DEF InitRegistry, LoadGraph, Proceed
  <2> QED BY <2>1, <2>2, <2>3
<1>7. BootTimes'
  BY <1>1, <1>3, <1>6 DEF BootTimes, Booting
<1> QED BY <1>1, <1>2, <1>5, <1>7 DEF TimeInv, TypeTimes, ServedInv, StatsInv, FlowInv, Timing

LEMMA TimeBuild ==
  ASSUME BaseInv, TimeInv, Build
  PROVE  TimeInv'
<1> DEFINE ok == slots_used \in 1 .. MAX_SLOTS /\ args.batch_queue_capacity > 0 /\ check_receiver_threads
           new == TimeBuffer_new(slots_used + config.sys, config.sys)
<1>1. /\ UNCHANGED <<args, config, requests>> /\ phase = "build"
      /\ phase' = IF ok THEN "start" ELSE "failed"
      /\ slot' = [s \in 0 .. (IF ok THEN slots_used ELSE 0) - 1 |-> Free]
      /\ served' = [s \in 0 .. (IF ok THEN slots_used ELSE 0) - 1 |-> <<>>]
      /\ worker' = [w \in 0 .. config.workers - 1 |-> Idle]
      /\ time_buffer' = time_buffer \/ (ok /\ time_buffer' = new)
  BY DEF Build, Proceed
<1>2. /\ time_buffer = TimeBuffer_new(0, 0) /\ requests = <<>> /\ config.sys \in Nat /\ config.worker_start \in Int
  BY <1>1 DEF TimeInv, BootTimes, BeforeRun, Booting
<1>3. time_buffer \in Buffers(0) /\ time_buffer.slots = 0 /\ time_buffer.system_threads = 0
  BY <1>2, NewTimes
<1>4. ok => slots_used \in Nat
  BY DEF MAX_SLOTS
<1>5. Slots' = 0 .. (IF ok THEN slots_used ELSE 0) - 1 /\ slots_used' = slots_used
  BY <1>1 DEF Slots, slots_used
<1> HIDE DEF ok
<1>6. \A s \in Slots' : slot'[s] = Free /\ served'[s] = <<>>
  BY <1>1, <1>5
<1>7. Working' = {} /\ <<>> \in Seq(Requests)
  BY <1>1, EmptySeq DEF Working, Workers, Idle
<1>8. BootTimes'
  BY <1>1, <1>2, <1>4, <1>5 DEF BootTimes, Booting, BeforeRun
<1>9. ServedInv'
  BY <1>6 DEF ServedInv, Free
<1>10. CASE time_buffer' = time_buffer
  <2>1. ~timing_on'
    BY <1>3, <1>10 DEF timing_on
  <2>2. TypeTimes'
    BY <1>1, <1>2, <1>3, <1>7, <1>10, <2>1 DEF TypeTimes
  <2> QED BY <1>8, <1>9, <2>1, <2>2 DEF TimeInv, StatsInv, FlowInv, Timing
<1>11. CASE ok /\ time_buffer' = new
  <2> DEFINE n == slots_used + config.sys
  <2>1. n \in Nat /\ 0 .. slots_used - 1 = Slots' /\ slots_used \in Nat /\ 0 .. slots_used - 1 \subseteq 0 .. n - 1
    BY <1>2, <1>4, <1>5, <1>11
  <2>2. /\ time_buffer' \in Buffers(n) /\ time_buffer'.slots = n /\ time_buffer'.system_threads = config.sys
        /\ \A s \in 0 .. n - 1 : time_buffer'.current[s] = <<>> /\ time_buffer'.statistics[s] = <<>>
    <3> HIDE DEF n
    <3> QED BY <1>2, <1>11, <2>1, NewTimes DEF n
  <2>3. worker_slots(time_buffer') = 0 .. slots_used - 1
    BY <1>2, <2>1, <2>2 DEF worker_slots
  <2>4. TypeTimes'
    BY <1>1, <1>2, <1>7, <2>1, <2>2, <2>3 DEF TypeTimes
  <2>5. ASSUME NEW s \in Slots'
        PROVE  Current(s)' = <<>> /\ Statistics(s)' = <<>> /\ Adds(s)' = {} /\ Ends(s)' = {} /\ Settled(s)'
    BY <1>1, <1>2, <1>6, <2>1, <2>2 DEF Current, Statistics, Adds, Ends, Settled, Free
  <2>6. Len(<<>>) = 0 /\ DOMAIN <<>> = {}
    OBVIOUS
  <2>7. StatsInv'
    BY <1>6, <2>5, <2>6 DEF StatsInv
  <2>8. FlowInv'
    <3>1. ASSUME NEW s \in Slots' PROVE Flow(s)'
      <4>1. \A x : ~Told(s, x)'
        BY <2>5, <2>6 DEF Told
      <4>2. Once(s)' /\ Own(s)' /\ Carried(s)'
        BY <1>7, <2>5, <2>6, <4>1 DEF Once, Own, Carried
      <4> QED BY <1>6, <2>5, <2>6, <4>2 DEF Flow
    <3> QED BY <3>1 DEF FlowInv
  <2> QED BY <1>8, <1>9, <2>4, <2>7, <2>8 DEF TimeInv
<1> QED BY <1>1, <1>10, <1>11

LEMMA RequestsTyped ==
  /\ \A s \in Nat, t \in Int : /\ Start(s, t) \in Requests /\ Start(s, t).op = "start"
                               /\ Finish(s, t) \in Requests /\ Finish(s, t).op = "finish" /\ Finish(s, t).slot = s
  /\ \A s \in Nat, e \in TimeEntry : /\ Add(s, e) \in Requests /\ Add(s, e).op = "add" /\ Add(s, e).slot = s
                                     /\ Add(s, e).entry = e
  /\ Shutdown \in Requests /\ Shutdown.op = "shutdown"
<1>1. ASSUME NEW op \in {"start", "add", "finish", "shutdown"}, NEW s \in Nat, NEW t \in Int,
             NEW e \in TimeEntry \cup {NoEntry}, op = "add" => e \in TimeEntry
      PROVE  /\ Request(op, s, t, e) \in Requests /\ Request(op, s, t, e).op = op
             /\ Request(op, s, t, e).slot = s /\ Request(op, s, t, e).entry = e
  BY <1>1 DEF Request, Requests
<1>2. NoTime \in Int
  BY DEF NoTime
<1>3. \A s \in Nat, t \in Int : /\ Start(s, t) \in Requests /\ Start(s, t).op = "start"
                                /\ Finish(s, t) \in Requests /\ Finish(s, t).op = "finish" /\ Finish(s, t).slot = s
  BY <1>1 DEF Start, Finish
<1>4. \A s \in Nat, e \in TimeEntry : /\ Add(s, e) \in Requests /\ Add(s, e).op = "add" /\ Add(s, e).slot = s
                                      /\ Add(s, e).entry = e
  BY <1>1, <1>2 DEF Add
<1>5. Shutdown \in Requests /\ Shutdown.op = "shutdown"
  BY <1>1, <1>2 DEF Shutdown
<1> QED BY <1>3, <1>4, <1>5

LEMMA TimeStartEnd ==
  ASSUME BaseInv, TimeInv, StartRun \/ EndRun
  PROVE  TimeInv'
<1>1. /\ UNCHANGED <<time_buffer, controller, responses, args, config, slot, served, graph, node_cache, registry, worker>>
      /\ (phase = "start" /\ phase' = "run") \/ (phase = "run" /\ phase' = "ending")
      /\ \/ send([t \in 1 .. config.sys |-> Start(slots_used + t - 1, clock)])
         \/ send([t \in 1 .. config.sys |-> Finish(slots_used + t - 1, clock)])
  BY DEF StartRun, EndRun, argVars
<1>2. config.sys \in Nat /\ slots_used \in Nat /\ Slots = 0 .. slots_used - 1 /\ clock \in Nat
  BY <1>1 DEF TimeInv, BootTimes, Booting, BaseInv, TypeInv
<1>3. \A t \in 1 .. config.sys : slots_used + t - 1 \in Nat /\ slots_used + t - 1 \notin Slots
  BY <1>2
<1>4. Working' = Working /\ worker' = worker /\ phase' \notin BeforeRun
      /\ ((phase = "start" /\ phase' = "run") \/ phase \notin BeforeRun)
  BY <1>1 DEF Working, Workers, BeforeRun, Booting
<1>5. ASSUME NEW rs \in [1 .. config.sys -> Requests], send(rs),
             \A t \in 1 .. config.sys : rs[t].slot \notin Slots \/ rs[t].op = "start"
      PROVE  TimeInv'
  <2>1. rs \in Seq(Requests) /\ DOMAIN rs = 1 .. config.sys
    BY <1>2
  <2> QED BY <1>1, <1>4, <1>5, <2>1, TimeSend
<1>6. CASE send([t \in 1 .. config.sys |-> Start(slots_used + t - 1, clock)])
  <2> DEFINE rs == [t \in 1 .. config.sys |-> Start(slots_used + t - 1, clock)]
  <2>1. rs \in [1 .. config.sys -> Requests] /\ \A t \in 1 .. config.sys : rs[t].op = "start"
    BY <1>2, <1>3, RequestsTyped
  <2> QED BY <1>5, <1>6, <2>1
<1>7. CASE send([t \in 1 .. config.sys |-> Finish(slots_used + t - 1, clock)])
  <2> DEFINE rs == [t \in 1 .. config.sys |-> Finish(slots_used + t - 1, clock)]
  <2>1. rs \in [1 .. config.sys -> Requests] /\ \A t \in 1 .. config.sys : rs[t].slot \notin Slots
    BY <1>2, <1>3, RequestsTyped
  <2> QED BY <1>5, <1>7, <2>1
<1> QED BY <1>1, <1>6, <1>7

\* The rest of the invariant after a step of a running slot.
LEMMA TimeRunning ==
  ASSUME BaseInv, TimeInv, BaseInv', phase \notin BeforeRun, phase' = phase, Slots' = Slots,
         UNCHANGED <<time_buffer, args, config, graph, node_cache, registry>>,
         requests' \in Seq(Requests),
         \A s \in Slots : served'[s] = served[s] \/ \E f \in Nat : served'[s] = Append(served[s], f),
         ServedInv', FlowInv'
  PROVE  TimeInv'
<1>1. FrameTasks' = FrameTasks /\ slots_used' = slots_used /\ (timing_on' <=> timing_on)
  BY DEF FrameTasks, slots_used, timing_on
<1>2. BootTimes'
  BY <1>1 DEF TimeInv, BootTimes, BeforeRun, Booting
<1>3. TypeTimes'
  BY <1>1 DEF TimeInv, TypeTimes, worker_slots
<1>4. ASSUME NEW s \in Slots
      PROVE  /\ served'[s] \in Seq(Nat) /\ Len(served[s]) <= Len(served'[s])
             /\ \A k \in 1 .. Len(served[s]) : served'[s][k] = served[s][k]
  <2>1. served[s] \in Seq(Nat)
    BY DEF BaseInv, TypeInv
  <2>2. \A q \in Seq(Nat), f \in Nat : /\ Append(q, f) \in Seq(Nat) /\ Len(q) <= Len(Append(q, f))
                                       /\ \A k \in 1 .. Len(q) : Append(q, f)[k] = q[k]
    OBVIOUS
  <2>3. \A q \in Seq(Nat) : Len(q) <= Len(q)
    OBVIOUS
  <2> QED BY <2>1, <2>2, <2>3
<1>5. StatsInv'
  BY <1>1, <1>4, StatsKept DEF TimeInv
<1> QED BY <1>2, <1>3, <1>5 DEF TimeInv

LEMMA EntryTyped ==
  ASSUME NEW n \in EntryNames, NEW v \in Int, NEW d \in Int, NEW t \in Seq(Int)
  PROVE  [name |-> n, worker |-> v, took |-> d, task |-> t] \in TimeEntry
  BY DEF TimeEntry

LEMMA TimeAssign ==
  ASSUME BaseInv, TimeInv, BaseInv', NEW s \in Slots, AssignFrame(s)
  PROVE  TimeInv'
<1> DEFINE e == [name |-> "Slot Assignment", worker |-> NoWorker, took |-> 1, task |-> <<next_frame>>]
           rs == <<Start(s, clock), Add(slots_used, e)>>
<1>1. /\ UNCHANGED <<phase, args, config, graph, node_cache, registry, worker, time_buffer, controller, responses>>
      /\ phase = "run" /\ slot[s] = Free
      /\ slot' = [slot EXCEPT ![s] = [frame |-> next_frame, state |-> "open",
                                      todo |-> FrameTasks, done |-> {}]]
      /\ served' = [served EXCEPT ![s] = Append(@, next_frame)]
      /\ send(rs)
  BY DEF AssignFrame, argVars
<1>2. /\ slot \in [Slots -> SlotRec] /\ served \in [Slots -> Seq(Nat)] /\ next_frame \in Nat /\ clock \in Nat
      /\ slots_used \in Nat /\ Slots = 0 .. slots_used - 1 /\ phase \notin BeforeRun
  BY <1>1 DEF BaseInv, TypeInv, TimeInv, BootTimes, Booting, BeforeRun
<1>3. e \in TimeEntry
  <2>1. <<next_frame>> \in Seq(Int) /\ NoWorker \in Int
    BY <1>2 DEF NoWorker
  <2>2. "Slot Assignment" \in EntryNames
    BY Zenon DEF EntryNames
  <2>3. 1 \in Int
    OBVIOUS
  <2> QED BY <2>1, <2>2, <2>3, EntryTyped, Zenon
<1>4. rs \in Seq(Requests) /\ \A u \in Slots : \A k \in DOMAIN rs : rs[k].slot # u \/ rs[k].op \notin {"add", "finish"}
  <2> HIDE DEF e
  <2>1. s \in Nat /\ slots_used \notin Slots
    BY <1>2
  <2>2. /\ Start(s, clock) \in Requests /\ Start(s, clock).op = "start"
        /\ Add(slots_used, e) \in Requests /\ Add(slots_used, e).slot = slots_used
    BY <1>2, <1>3, <2>1, RequestsTyped
  <2>3. ASSUME NEW a \in Requests, NEW b \in Requests PROVE <<a, b>> \in Seq(Requests) /\ \A k \in DOMAIN <<a, b>> : <<a, b>>[k] \in {a, b}
    OBVIOUS
  <2>4. rs \in Seq(Requests) /\ \A k \in DOMAIN rs : rs[k] \in {Start(s, clock), Add(slots_used, e)}
    BY <2>2, <2>3
  <2> HIDE DEF rs
  <2> QED BY <2>1, <2>2, <2>4
<1> HIDE DEF rs
<1>5. /\ Slots' = Slots /\ Working' = Working /\ FrameTasks' = FrameTasks
      /\ \A u \in Slots : u # s => slot'[u] = slot[u] /\ served'[u] = served[u]
      /\ slot'[s].frame = next_frame /\ slot'[s].state = "open" /\ slot'[s].todo = FrameTasks /\ slot'[s].done = {}
      /\ served'[s] = Append(served[s], next_frame)
  BY <1>1, <1>2 DEF Slots, Working, Workers, FrameTasks
<1>6. /\ Append(served[s], next_frame) # <<>> /\ Len(Append(served[s], next_frame)) = Len(served[s]) + 1
      /\ Append(served[s], next_frame)[Len(Append(served[s], next_frame))] = next_frame
      /\ Len(served[s]) \in Nat
  <2>1. ASSUME NEW q \in Seq(Nat), NEW f \in Nat
        PROVE  /\ Append(q, f) # <<>> /\ Len(Append(q, f)) = Len(q) + 1
               /\ Append(q, f)[Len(Append(q, f))] = f /\ Len(q) \in Nat
    BY AppendProperties
  <2>2. served[s] \in Seq(Nat)
    BY <1>2
  <2> QED BY <1>2, <2>1, <2>2
<1>7. ServedInv'
  BY <1>5, <1>6 DEF TimeInv, ServedInv
<1>8. ASSUME Timing, NEW u \in Slots PROVE Flow(u)'
  <2>1. Flow(u) /\ Adds(u)' = Adds(u) /\ Ends(u)' = Ends(u) /\ \A p \in Adds(u) : requests'[p] = requests[p]
    BY <1>1, <1>4, <1>8, NotAbout DEF TimeInv, FlowInv
  <2>2. Current(u)' = Current(u) /\ Statistics(u)' = Statistics(u)
    BY <1>1 DEF Current, Statistics
  <2>3. CASE u # s
    BY <1>1, <1>5, <2>1, <2>2, <2>3, FlowKept DEF Current, Statistics
  <2>4. CASE u = s
    <3>1. Settled(s) /\ ~Settled(s)'
      BY <1>1, <1>5 DEF Settled, Free
    <3>2. Adds(s) = {} /\ Current(s) = <<>> /\ Ends(s) = {} /\ Len(Statistics(s)) = Len(served[s])
      BY <1>6, <2>1, <2>4, <3>1 DEF Flow
    <3>3. Adds(s)' = {} /\ Current(s)' = <<>> /\ Ends(s)' = {} /\ DOMAIN <<>> = {}
      BY <2>1, <2>2, <2>4, <3>2
    <3>4. \A x : ~Told(s, x)'
      BY <3>3 DEF Told
    <3>5. \A w \in Working : worker[w].slot # s
      BY <1>1, NobodyWorksOn DEF Free
    <3>6. Once(s)' /\ Own(s)' /\ Carried(s)' /\ Counted(s)'
      BY <1>1, <1>5, <3>3, <3>4, <3>5 DEF Once, Own, Carried, Counted
    <3>7. Len(Statistics(s)') = Len(served'[s]) - 1
      BY <1>5, <1>6, <2>2, <2>4, <3>2
    <3> QED BY <2>4, <3>1, <3>3, <3>6, <3>7 DEF Flow
  <2> QED BY <2>3, <2>4
<1>9. FlowInv'
  BY <1>1, <1>5, <1>8 DEF FlowInv, Timing, timing_on
<1>10. requests' \in Seq(Requests)
  BY <1>1, <1>4, SentRequests DEF TimeInv
<1> QED BY <1>1, <1>2, <1>5, <1>7, <1>9, <1>10, TimeRunning

LEMMA SameRequests ==
  ASSUME UNCHANGED <<requests, time_buffer>>, NEW s
  PROVE  /\ Adds(s)' = Adds(s) /\ Ends(s)' = Ends(s) /\ \A p \in Adds(s) : requests'[p] = requests[p]
         /\ Current(s)' = Current(s) /\ Statistics(s)' = Statistics(s) /\ \A x : Told(s, x)' <=> Told(s, x)
  BY DEF Adds, Ends, Current, Statistics, Told

LEMMA TimeTakes ==
  ASSUME BaseInv, TimeInv, BaseInv', NEW w \in Workers, NEW s \in Slots, NEW id \in Int,
         NEW chunk \in SUBSET Nat, NEW left \in Seq(Nat), Takes(w, s, id, chunk, left)
  PROVE  TimeInv'
<1> DEFINE mine == {<<id, i>> : i \in chunk}
<1>1. /\ UNCHANGED <<args, phase, config, graph, node_cache, registry, served, time_buffer, requests, controller, responses>>
      /\ phase = "run" /\ worker[w] = Idle /\ slot[s].state = "open"
      /\ slot' = [slot EXCEPT ![s].todo = @ \ mine]
      /\ worker' = [worker EXCEPT ![w] = [state |-> "task", slot |-> s, frame |-> slot[s].frame,
                                          id |-> id, chunk |-> chunk, left |-> left,
                                          since |-> IF timing_on THEN clock ELSE NoTime]]
  BY DEF Takes, Begin
<1>2. /\ mine \subseteq slot[s].todo /\ Range(left) \subseteq chunk
      /\ UsesBulkKernel(graph, id) \/ Range(left) = chunk
  BY DEF Takes
<1>3. slot \in [Slots -> SlotRec] /\ worker \in [Workers -> WorkerRec] /\ phase \notin BeforeRun
  BY <1>1 DEF BaseInv, TypeInv, BeforeRun, Booting
<1>4. /\ Slots' = Slots /\ Working' = Working \cup {w} /\ w \notin Working /\ Working \subseteq Workers
      /\ \A u \in Slots : u # s => slot'[u] = slot[u]
      /\ slot'[s].frame = slot[s].frame /\ slot'[s].state = "open" /\ slot'[s].done = slot[s].done
      /\ slot'[s].todo = slot[s].todo \ mine
      /\ \A v \in Workers : v # w => worker'[v] = worker[v]
      /\ worker'[w].id = id /\ worker'[w].chunk = chunk /\ worker'[w].left = left /\ worker'[w].slot = s
  BY <1>1, <1>3 DEF Slots, Working, Workers, SlotRec, Idle
<1>5. FrameTasks' = FrameTasks /\ FrameTasks \subseteq Task /\ \A t : HasTime(t)' <=> HasTime(t)
  BY <1>1, <1>3, TasksTyped DEF FrameTasks, HasTime, UsesBulkKernel
<1>6. ServedInv'
  BY <1>1, <1>4, <1>5 DEF TimeInv, ServedInv
<1>7. ASSUME Timing, NEW u \in Slots PROVE Flow(u)'
  <2>1. /\ Flow(u) /\ Adds(u)' = Adds(u) /\ Ends(u)' = Ends(u) /\ (\A p \in Adds(u) : requests'[p] = requests[p])
        /\ Current(u)' = Current(u) /\ Statistics(u)' = Statistics(u)
        /\ \A x : Told(u, x)' <=> Told(u, x)
    BY <1>1, <1>7, SameRequests DEF TimeInv, FlowInv
  <2>2. CASE u # s
    <3>1. ASSUME NEW v \in Working', worker'[v].slot = u
          PROVE  v \in Working /\ worker'[v] = worker[v]
      BY <1>4, <2>2, <3>1
    <3> QED BY <1>1, <1>4, <1>5, <2>1, <2>2, <3>1, FlowKept DEF Current, Statistics
  <2>3. CASE u = s
    <3>1. ~Settled(s) /\ ~Settled(s)'
      BY <1>1, <1>4 DEF Settled
    <3>2. Once(s)'
      BY <1>1, <2>1, <2>3 DEF Flow, Once
    <3>3. Own(s)'
      <4>1. Own(s)
        BY <2>1, <2>3 DEF Flow
      <4> QED BY <1>4, <1>5, <2>1, <2>3, <4>1 DEF Own
    <3>4. Counted(s)'
      <4>1. Counted(s)
        BY <2>1, <2>3, <3>1 DEF Flow
      <4> QED BY <1>4, <1>5, <2>1, <2>3, <4>1 DEF Counted
    <3>5. ASSUME NEW i \in chunk PROVE ~Told(s, <<slot[s].frame, id, i>>)
      <4>1. SUFFICES ASSUME Told(s, <<slot[s].frame, id, i>>) PROVE FALSE
        OBVIOUS
      <4>2. PICK t \in FrameTasks : t \notin slot[s].todo /\ <<slot[s].frame, id, i>> = Mark(slot[s].frame, t)
        BY <2>1, <2>3, <4>1 DEF Flow, Own
      <4>3. PICK a \in Int, b \in Nat : t = <<a, b>>
        BY <1>5 DEF Task
      <4>4. a = id /\ b = i
        BY <4>2, <4>3 DEF Mark
      <4> QED BY <1>2, <4>2, <4>3, <4>4
    <3>6. Carried(s)'
      <4>1. Carried(s)
        BY <2>1, <2>3 DEF Flow
      <4>2. HasTime(<<id, 0>>) => Range(left) = chunk
        BY <1>2 DEF HasTime
      <4>3. ASSUME NEW v \in Working', worker'[v].slot = s
            PROVE  /\ \A i \in Range(worker'[v].left) : ~Told(s, <<slot[s].frame, worker'[v].id, i>>)
                   /\ HasTime(<<worker'[v].id, 0>>) => \A i \in worker'[v].chunk :
                        i \in Range(worker'[v].left) \/ Told(s, <<slot[s].frame, worker'[v].id, i>>)
        <5>1. CASE v = w
          BY <1>2, <1>4, <3>5, <4>2, <5>1
        <5>2. CASE v # w
          <6>1. v \in Working /\ worker'[v] = worker[v]
            BY <1>4, <5>2
          <6> QED BY <4>1, <4>3, <6>1 DEF Carried
        <5> QED BY <5>1, <5>2
      <4>4. \A x : Told(s, x)' <=> Told(s, x)
        BY <2>1, <2>3
      <4>5. slot'[s].frame = slot[s].frame /\ \A t : HasTime(t)' <=> HasTime(t)
        BY <1>4, <1>5
      <4> QED BY <4>3, <4>4, <4>5 DEF Carried
    <3>7. /\ Ends(s)' = {} /\ Len(Statistics(s)') = Len(served'[s]) - 1
      BY <1>1, <2>1, <2>3, <3>1 DEF Flow
    <3> QED BY <2>3, <3>1, <3>2, <3>3, <3>4, <3>6, <3>7 DEF Flow
  <2> QED BY <2>2, <2>3
<1>8. FlowInv'
  BY <1>1, <1>4, <1>7 DEF FlowInv, Timing, timing_on
<1>9. requests' \in Seq(Requests) /\ \A u \in Slots : served'[u] = served[u]
  BY <1>1 DEF TimeInv, TypeTimes
<1> QED BY <1>1, <1>3, <1>4, <1>6, <1>8, <1>9, TimeRunning

LEMMA TimeCount ==
  ASSUME BaseInv, TimeInv, BaseInv', NEW w \in Workers, CountTask(w)
  PROVE  TimeInv'
<1> DEFINE s == worker[w].slot
           mine == TasksOf(worker[w])
<1>1. /\ UNCHANGED <<args, phase, config, graph, node_cache, registry, served, time_buffer, requests, controller, responses>>
      /\ worker[w].state = "task" /\ worker[w].left = <<>>
      /\ slot' = [slot EXCEPT ![s].done = @ \cup mine]
      /\ worker' = [worker EXCEPT ![w] = IF args.record THEN [worker[w] EXCEPT !.state = "job"] ELSE Idle]
  BY DEF CountTask, argVars, teleVars, TasksOf
<1>2. /\ slot \in [Slots -> SlotRec] /\ worker \in [Workers -> WorkerRec] /\ worker[w] \in WorkerRec
      /\ w \in Working /\ w \in Busy
  BY <1>1 DEF BaseInv, TypeInv, Working, Busy
<1>3. s \in Slots /\ slot[s].state = "open" /\ slot[s].frame = worker[w].frame
  BY <1>2 DEF BaseInv, KernelsInv
<1>4. /\ Slots' = Slots /\ Working' = Working \ {w} /\ Working \subseteq Workers
      /\ \A u \in Slots : u # s => slot'[u] = slot[u]
      /\ slot'[s].frame = slot[s].frame /\ slot'[s].state = "open" /\ slot'[s].done = slot[s].done \cup mine
      /\ slot'[s].todo = slot[s].todo
      /\ \A v \in Workers : v # w => worker'[v] = worker[v]
  BY <1>1, <1>2, <1>3 DEF Slots, Working, Workers, SlotRec, WorkerRec, Idle
<1>5. /\ FrameTasks' = FrameTasks /\ phase \notin BeforeRun /\ \A t : HasTime(t)' <=> HasTime(t)
  BY <1>1, <1>2, Running DEF FrameTasks, HasTime, UsesBulkKernel
<1>6. ServedInv'
  BY <1>1, <1>3, <1>4, <1>5 DEF TimeInv, ServedInv
<1>7. ASSUME Timing, NEW u \in Slots PROVE Flow(u)'
  <2>1. /\ Flow(u) /\ Adds(u)' = Adds(u) /\ Ends(u)' = Ends(u) /\ (\A p \in Adds(u) : requests'[p] = requests[p])
        /\ Current(u)' = Current(u) /\ Statistics(u)' = Statistics(u)
        /\ \A x : Told(u, x)' <=> Told(u, x)
    BY <1>1, <1>7, SameRequests DEF TimeInv, FlowInv
  <2>2. \A v \in Working' : v \in Working /\ worker'[v] = worker[v]
    BY <1>4
  <2>3. CASE u # s
    BY <1>1, <1>4, <1>5, <2>1, <2>2, <2>3, FlowKept DEF Current, Statistics
  <2>4. CASE u = s
    <3>1. ~Settled(u) /\ ~Settled(u)' /\ slot'[u].frame = slot[u].frame /\ slot'[u].todo = slot[u].todo
      BY <1>3, <1>4, <2>4 DEF Settled
    <3>2. Once(u)'
      BY <1>1, <2>1 DEF Flow, Once
    <3>3. Own(u)'
      <4>1. Own(u)
        BY <2>1 DEF Flow
      <4> QED BY <1>5, <2>1, <3>1, <4>1 DEF Own
    <3>4. Carried(u)
      BY <2>1 DEF Flow
    <3>5. Carried(u)'
      BY <1>5, <2>1, <2>2, <3>1, <3>4 DEF Carried
    <3>6. Counted(u)'
      <4>1. Counted(u)
        BY <2>1, <3>1 DEF Flow
      <4>2. ASSUME NEW t \in mine, HasTime(t) PROVE Told(u, Mark(slot[u].frame, t))
        <5>1. PICK i \in worker[w].chunk : t = <<worker[w].id, i>>
          BY DEF TasksOf
        <5>2. HasTime(<<worker[w].id, 0>>) /\ Mark(slot[u].frame, t) = <<slot[u].frame, worker[w].id, i>>
          BY <4>2, <5>1 DEF HasTime, Mark
        <5>3. Range(worker[w].left) = {}
          BY <1>1 DEF Range
        <5> QED BY <1>2, <2>4, <3>4, <5>2, <5>3 DEF Carried
      <4>3. slot'[u].done = slot[u].done \cup mine
        BY <1>4, <2>4
      <4> QED BY <1>5, <2>1, <3>1, <4>1, <4>2, <4>3 DEF Counted
    <3>7. Ends(u)' = {} /\ Len(Statistics(u)') = Len(served'[u]) - 1
      BY <1>1, <1>3, <2>1, <2>4, <3>1 DEF Flow
    <3> QED BY <3>1, <3>2, <3>3, <3>5, <3>6, <3>7 DEF Flow
  <2> QED BY <2>3, <2>4
<1>8. FlowInv'
  BY <1>1, <1>4, <1>7 DEF FlowInv, Timing, timing_on
<1>9. requests' \in Seq(Requests) /\ \A u \in Slots : served'[u] = served[u]
  BY <1>1 DEF TimeInv, TypeTimes
<1> QED BY <1>1, <1>4, <1>5, <1>6, <1>8, <1>9, TimeRunning

\* A request about slot s goes to the end of the channel.
LEMMA SentAbout ==
  ASSUME TypeTimes, Timing, NEW r \in Requests, send(<<r>>), time_buffer' = time_buffer, NEW s, r.slot = s
  PROVE  /\ requests' \in Seq(Requests) /\ Len(requests) \in Nat
         /\ r.op = "add" => Adds(s)' = Adds(s) \cup {Len(requests) + 1} /\ Ends(s)' = Ends(s)
         /\ r.op = "finish" => Adds(s)' = Adds(s) /\ Ends(s)' = Ends(s) \cup {Len(requests) + 1}
         /\ \A p \in Adds(s) : requests'[p] = requests[p] /\ p \in 1 .. Len(requests)
         /\ requests'[Len(requests) + 1] = r
<1>1. <<r>> \in Seq(Requests) /\ Len(<<r>>) = 1 /\ <<r>>[1] = r
  OBVIOUS
<1>2. /\ requests' \in Seq(Requests) /\ DOMAIN requests' = 1 .. Len(requests) + 1
      /\ \A p \in 1 .. Len(requests) : requests'[p] = requests[p]
      /\ requests'[Len(requests) + 1] = r
      /\ Len(requests) \in Nat /\ DOMAIN requests = 1 .. Len(requests)
  <2>1. 1 \in 1 .. 1
    OBVIOUS
  <2> QED BY <1>1, <2>1, SentRequests
<1>3. DOMAIN requests' = DOMAIN requests \cup {Len(requests) + 1} /\ Len(requests) + 1 \notin DOMAIN requests
  BY <1>2
<1> QED BY <1>2, <1>3 DEF Adds, Ends

LEMMA WorkersTyped ==
  ASSUME RecordInv, phase \notin BeforeRun, NEW w \in Workers
  PROVE  w \in Int
<1>1. Workers = 0 .. config.workers - 1
  BY DEF RecordInv, ChannelsInv, BeforeRun
<1> QED BY <1>1

LEMMA TimeEndKernel ==
  ASSUME BaseInv, RecordInv, TimeInv, BaseInv', NEW w \in Workers, EndKernel(w)
  PROVE  TimeInv'
<1> DEFINE me == worker[w]
           task == <<me.frame, me.id, me.left[1]>>
           e == [name |-> graph.nodes[me.id + 1].name, worker |-> core_of(w),
                 took |-> clock - me.since, task |-> task]
<1>1. /\ UNCHANGED <<args, phase, config, graph, node_cache, registry, slot, served, time_buffer, controller, responses>>
      /\ me.state = "task" /\ me.left # <<>>
      /\ worker' = [worker EXCEPT ![w].left = Tail(@),
                                  ![w].since = IF timing_on THEN clock ELSE NoTime]
      /\ send(<<Add(me.slot, e)>>)
  BY DEF EndKernel, argVars
<1>2. /\ worker \in [Workers -> WorkerRec] /\ me \in WorkerRec /\ clock \in Nat /\ w \in Working /\ w \in Busy
  BY <1>1 DEF BaseInv, TypeInv, Working, Busy
<1>3. me.slot \in Slots /\ slot[me.slot].state = "open" /\ slot[me.slot].frame = me.frame
  BY <1>2 DEF BaseInv, KernelsInv
<1>4. /\ FrameTasks \subseteq Task /\ FrameTasks' = FrameTasks /\ phase \notin BeforeRun
      /\ \A t : HasTime(t)' <=> HasTime(t)
  BY <1>1, <1>2, Running DEF HasTime, UsesBulkKernel
<1>5. me.left \in Seq(Nat) /\ IsInjective(me.left) /\ Range(me.left) \subseteq me.chunk
  BY <1>2 DEF WorkerRec, BaseInv, KernelsInv
<1>6. /\ me.left[1] = Head(me.left) /\ Head(me.left) \in Nat /\ Head(me.left) \in Range(me.left)
      /\ Range(Tail(me.left)) = Range(me.left) \ {Head(me.left)}
  BY <1>1, <1>5, ReceiveInjective
<1>7. /\ <<me.id, me.left[1]>> \in FrameTasks /\ <<me.id, me.left[1]>> \in TasksOf(me)
      /\ me.left[1] \in Nat
  BY <1>2, <1>5, <1>6 DEF BaseInv, WorkersInv, TasksOf
<1>8. e \in TimeEntry
  <2>1. me.id \in DOMAIN node_cache
    <3>1. PICK id \in DOMAIN node_cache : \E i \in 0 .. graph.nodes[id + 1].factor - 1 : <<me.id, me.left[1]>> = <<id, i>>
      BY <1>7 DEF FrameTasks
    <3> QED BY <3>1
  <2>2. me.id \in 0 .. Len(graph.nodes) - 1
    BY <1>4, <2>1 DEF BaseInv, BootInv, BeforeRun
  <2>3. graph.nodes[me.id + 1].name \in STRING
    BY <1>4, <2>2 DEF BaseInv, BootInv, BeforeRun, Booting
  <2>4. graph.nodes[me.id + 1].name \in EntryNames
    BY <2>3, Zenon DEF EntryNames
  <2>5. w \in Int /\ config.worker_start \in Int
    <3>1. config.worker_start \in Int
      BY <1>4 DEF TimeInv, BootTimes, BeforeRun, Booting
    <3>2. w \in Int
      BY <1>4, WorkersTyped
    <3> QED BY <3>1, <3>2
  <2>6. core_of(w) \in Int
    BY <2>5 DEF core_of
  <2>7. clock - me.since \in Int /\ task \in Seq(Int)
    <3>1. me.since \in Int /\ me.frame \in Int /\ me.id \in Int /\ me.left[1] \in Int
      BY <1>2, <1>7 DEF WorkerRec
    <3>2. \A a, b, c \in Int : <<a, b, c>> \in Seq(Int)
      OBVIOUS
    <3> QED BY <1>2, <3>1, <3>2
  <2> HIDE DEF task
  <2> QED BY <2>4, <2>6, <2>7, EntryTyped
<1> HIDE DEF e
<1>9. /\ Slots' = Slots /\ Working' = Working /\ Working \subseteq Workers
      /\ \A v \in Workers : v # w => worker'[v] = worker[v]
      /\ worker'[w].slot = me.slot /\ worker'[w].id = me.id /\ worker'[w].chunk = me.chunk
      /\ worker'[w].left = Tail(me.left)
  BY <1>1, <1>2 DEF Slots, Working, Workers, WorkerRec
<1>10. me.slot \in Nat
  BY <1>3, <1>4 DEF TimeInv, BootTimes, BeforeRun
<1>11. /\ Add(me.slot, e) \in Requests /\ Add(me.slot, e).op = "add" /\ Add(me.slot, e).slot = me.slot
       /\ Add(me.slot, e).entry = e
  BY <1>8, <1>10, RequestsTyped
<1>12. <<Add(me.slot, e)>> \in Seq(Requests) /\ \A k \in DOMAIN <<Add(me.slot, e)>> : <<Add(me.slot, e)>>[k].slot = me.slot
  BY <1>11
<1>13. ServedInv'
  BY <1>1, <1>4, <1>9 DEF TimeInv, ServedInv
<1>14. ASSUME Timing, NEW u \in Slots PROVE Flow(u)'
  <2>1. Flow(u)
    BY <1>14 DEF TimeInv, FlowInv
  <2>2. CASE u # me.slot
    <3>1. Adds(u)' = Adds(u) /\ Ends(u)' = Ends(u) /\ \A p \in Adds(u) : requests'[p] = requests[p]
      BY <1>1, <1>12, <2>2, NotAbout DEF TimeInv
    <3>2. ASSUME NEW v \in Working', worker'[v].slot = u PROVE v \in Working /\ worker'[v] = worker[v]
      BY <1>9, <2>2, <3>2
    <3> QED BY <1>1, <1>4, <2>1, <3>1, <3>2, FlowKept DEF Current, Statistics
  <2>3. CASE u = me.slot
    <3> DEFINE n == Len(requests) + 1
    <3>1. /\ Adds(u)' = Adds(u) \cup {n} /\ Ends(u)' = Ends(u)
          /\ \A p \in Adds(u) : requests'[p] = requests[p] /\ p \in 1 .. Len(requests)
          /\ requests'[n] = Add(me.slot, e) /\ Len(requests) \in Nat
      BY <1>1, <1>11, <1>14, <2>3, SentAbout DEF TimeInv
    <3>2. requests'[n].entry.task = task /\ n \notin Adds(u)
      <4>1. e.task = task
        BY DEF e
      <4>2. n \notin 1 .. Len(requests)
        BY <3>1
      <4> HIDE DEF n, task
      <4> QED BY <1>11, <3>1, <4>1, <4>2
    <3>3. Current(u)' = Current(u) /\ Statistics(u)' = Statistics(u)
      BY <1>1 DEF Current, Statistics
    <3> HIDE DEF n, task
    <3>4. \A x : Told(u, x)' <=> Told(u, x) \/ x = task
      BY <3>1, <3>2, <3>3 DEF Told
    <3>5. ~Settled(u) /\ ~Settled(u)' /\ slot' = slot /\ slot[u].state = "open" /\ slot[u].frame = me.frame
      BY <1>1, <1>3, <2>3 DEF Settled
    <3>6. ~Told(u, task)
      <4>1. Carried(u) /\ me.left[1] \in Range(me.left) /\ w \in Working
        BY <1>2, <1>6, <2>1 DEF Flow
      <4>2. ~Told(u, <<slot[u].frame, me.id, me.left[1]>>)
        BY <2>3, <4>1 DEF Carried
      <4>3. task = <<slot[u].frame, me.id, me.left[1]>>
        BY <3>5 DEF task
      <4> QED BY <4>2, <4>3
    <3>7. Once(u)'
      <4>1. Once(u)
        BY <2>1 DEF Flow
      <4>2. \A p \in Adds(u) : requests[p].entry.task # task
        BY <3>6 DEF Told
      <4>3. \A i \in DOMAIN Current(u) : Current(u)[i].task # task
        BY <3>6 DEF Told
      <4> QED BY <3>1, <3>2, <3>3, <4>1, <4>2, <4>3 DEF Once
    <3>8. Own(u)'
      <4>1. <<me.id, me.left[1]>> \notin slot[u].todo
        BY <1>2, <1>7, <2>3, <3>5 DEF BaseInv, WorkersInv
      <4>2. task = Mark(slot[u].frame, <<me.id, me.left[1]>>)
        BY <3>5 DEF task, Mark
      <4> QED BY <1>4, <1>7, <2>1, <3>4, <3>5, <4>1, <4>2 DEF Flow, Own
    <3>9. Carried(u)'
      <4>1. Carried(u)
        BY <2>1 DEF Flow
      <4>2. ASSUME NEW v \in Working, worker[v].slot = u, v # w, NEW i \in Range(worker[v].left)
            PROVE  <<slot[u].frame, worker[v].id, i>> # task
        <5>1. v \in Busy /\ worker[v].frame = slot[u].frame /\ i \in worker[v].chunk
          BY <4>2 DEF Working, Busy, BaseInv, KernelsInv
        <5>2. <<worker[v].id, i>> \in TasksOf(worker[v])
          BY <5>1 DEF TasksOf
        <5>3. <<worker[v].id, i>> # <<me.id, me.left[1]>>
          BY <1>2, <1>7, <3>5, <4>2, <5>1, <5>2 DEF BaseInv, WorkersInv
        <5> QED BY <5>3 DEF task
      <4>3. ASSUME NEW v \in Working, worker'[v].slot = u
            PROVE  /\ \A i \in Range(worker'[v].left) :
                        ~(Told(u, <<slot[u].frame, worker'[v].id, i>>) \/ <<slot[u].frame, worker'[v].id, i>> = task)
                   /\ HasTime(<<worker'[v].id, 0>>) => \A i \in worker'[v].chunk :
                        \/ i \in Range(worker'[v].left)
                        \/ Told(u, <<slot[u].frame, worker'[v].id, i>>) \/ <<slot[u].frame, worker'[v].id, i>> = task
        <5>1. CASE v # w
          <6>1. worker'[v] = worker[v]
            BY <1>9, <5>1
          <6> QED BY <4>1, <4>2, <4>3, <5>1, <6>1 DEF Carried
        <5>2. CASE v = w
          <6>1. worker'[v].id = me.id /\ worker'[v].chunk = me.chunk /\ worker'[v].left = Tail(me.left)
            BY <1>9, <5>2
          <6>2. \A i : <<slot[u].frame, me.id, i>> = task <=> i = Head(me.left)
            BY <1>6, <3>5 DEF task
          <6>3. /\ \A i \in Range(me.left) : ~Told(u, <<slot[u].frame, me.id, i>>)
                /\ HasTime(<<me.id, 0>>) => \A i \in me.chunk :
                     i \in Range(me.left) \/ Told(u, <<slot[u].frame, me.id, i>>)
            BY <1>2, <2>3, <4>1 DEF Carried
          <6> QED BY <1>6, <6>1, <6>2, <6>3
        <5> QED BY <5>1, <5>2
      <4> QED BY <1>4, <1>9, <3>4, <3>5, <4>3 DEF Carried
    <3>10. Counted(u)'
      <4>1. Counted(u)
        BY <2>1, <3>5 DEF Flow
      <4> QED BY <1>4, <3>4, <3>5, <4>1 DEF Counted
    <3>11. Ends(u)' = {} /\ Len(Statistics(u)') = Len(served'[u]) - 1
      BY <1>1, <2>1, <3>1, <3>3, <3>5 DEF Flow
    <3> QED BY <3>5, <3>7, <3>8, <3>9, <3>10, <3>11 DEF Flow
  <2> QED BY <2>2, <2>3
<1>15. FlowInv'
  BY <1>1, <1>9, <1>14 DEF FlowInv, Timing, timing_on
<1>16. requests' \in Seq(Requests) /\ \A u \in Slots : served'[u] = served[u]
  BY <1>1, <1>12, SentRequests DEF TimeInv
<1> QED BY <1>1, <1>4, <1>9, <1>13, <1>15, <1>16, TimeRunning

LEMMA TimeFinish ==
  ASSUME BaseInv, TimeInv, BaseInv', NEW s \in Slots, FinishFrame(s)
  PROVE  TimeInv'
<1>1. /\ UNCHANGED <<args, phase, config, graph, node_cache, registry, served, worker, time_buffer, controller>>
      /\ slot[s].state = "open" /\ slot[s].done = FrameTasks
      /\ slot' = [slot EXCEPT ![s].state = "finishing"]
      /\ send(<<Finish(s, clock)>>) /\ responses' = responses \ {s}
  BY DEF FinishFrame, argVars
<1>2. slot \in [Slots -> SlotRec] /\ clock \in Nat
  BY DEF BaseInv, TypeInv
<1>3. /\ FrameTasks' = FrameTasks /\ phase \notin BeforeRun /\ \A t : HasTime(t)' <=> HasTime(t)
  BY <1>1, Running DEF HasTime, UsesBulkKernel
<1>4. /\ Slots' = Slots /\ Working' = Working
      /\ \A u \in Slots : u # s => slot'[u] = slot[u]
      /\ slot'[s].frame = slot[s].frame /\ slot'[s].state = "finishing" /\ slot'[s].done = slot[s].done
      /\ slot'[s].todo = slot[s].todo
  BY <1>1, <1>2 DEF Slots, Working, Workers, SlotRec
<1>5. s \in Nat
  BY <1>3 DEF TimeInv, BootTimes, BeforeRun
<1>6. Finish(s, clock) \in Requests /\ Finish(s, clock).op = "finish" /\ Finish(s, clock).slot = s
  BY <1>2, <1>5, RequestsTyped
<1>7. /\ <<Finish(s, clock)>> \in Seq(Requests)
      /\ \A k \in DOMAIN <<Finish(s, clock)>> : <<Finish(s, clock)>>[k].slot = s
  BY <1>6
<1>8. ServedInv'
  BY <1>1, <1>3, <1>4 DEF TimeInv, ServedInv
<1>9. ASSUME Timing, NEW u \in Slots PROVE Flow(u)'
  <2>1. Flow(u)
    BY <1>9 DEF TimeInv, FlowInv
  <2>2. CASE u # s
    <3>1. Adds(u)' = Adds(u) /\ Ends(u)' = Ends(u) /\ \A p \in Adds(u) : requests'[p] = requests[p]
      BY <1>1, <1>7, <2>2, NotAbout DEF TimeInv
    <3>2. u \in responses' <=> u \in responses
      BY <1>1, <2>2
    <3> QED BY <1>1, <1>3, <1>4, <2>1, <2>2, <3>1, <3>2, FlowKept DEF Current, Statistics
  <2>3. CASE u = s
    <3>1. /\ Adds(s)' = Adds(s) /\ Ends(s)' = Ends(s) \cup {Len(requests) + 1}
          /\ \A p \in Adds(s) : requests'[p] = requests[p] /\ p \in 1 .. Len(requests)
          /\ Len(requests) \in Nat
      BY <1>1, <1>6, <1>9, SentAbout DEF TimeInv
    <3>2. Current(s)' = Current(s) /\ Statistics(s)' = Statistics(s)
      BY <1>1 DEF Current, Statistics
    <3>3. \A x : Told(s, x)' <=> Told(s, x)
      BY <3>1, <3>2 DEF Told
    <3>4. ~Settled(s) /\ ~Settled(s)'
      BY <1>1, <1>4 DEF Settled
    <3>5. Ends(s) = {} /\ Len(Statistics(s)') = Len(served'[s]) - 1
      BY <1>1, <2>1, <2>3, <3>2, <3>4 DEF Flow
    <3>6. \A p \in Ends(s)' : (\A q \in Ends(s)' : p = q) /\ \A q \in Adds(s)' : q < p
      BY <3>1, <3>5
    <3>7. Once(s)'
      BY <2>1, <2>3, <3>1, <3>2 DEF Flow, Once
    <3>8. Own(s)'
      <4>1. Own(s)
        BY <2>1, <2>3 DEF Flow
      <4> QED BY <1>3, <1>4, <3>3, <4>1 DEF Own
    <3>9. Carried(s)'
      <4>1. Carried(s)
        BY <2>1, <2>3 DEF Flow
      <4> QED BY <1>1, <1>3, <1>4, <3>3, <4>1 DEF Carried
    <3>10. Counted(s)'
      <4>1. Counted(s)
        BY <2>1, <2>3, <3>4 DEF Flow
      <4> QED BY <1>3, <1>4, <3>3, <4>1 DEF Counted
    <3> QED BY <1>4, <2>3, <3>4, <3>5, <3>6, <3>7, <3>8, <3>9, <3>10 DEF Flow
  <2> QED BY <2>2, <2>3
<1>10. FlowInv'
  BY <1>1, <1>4, <1>9 DEF FlowInv, Timing, timing_on
<1>11. requests' \in Seq(Requests) /\ \A u \in Slots : served'[u] = served[u]
  BY <1>1, <1>7, SentRequests DEF TimeInv
<1> QED BY <1>1, <1>3, <1>4, <1>8, <1>10, <1>11, TimeRunning

\* The answer settles the slot, so its next frame starts with nothing on the way.
LEMMA TimeRelease ==
  ASSUME BaseInv, TimeInv, BaseInv', NEW s \in Slots, ReleaseFrame(s)
  PROVE  TimeInv'
<1>1. /\ UNCHANGED <<args, phase, config, graph, node_cache, registry, served, worker, time_buffer, controller,
                     requests, responses>>
      /\ slot[s].state = "finishing" /\ Answered(s)
      /\ slot' = [slot EXCEPT ![s] = Free]
  BY DEF ReleaseFrame, argVars, teleVars
<1>2. slot \in [Slots -> SlotRec]
  BY DEF BaseInv, TypeInv
<1>3. /\ FrameTasks' = FrameTasks /\ phase \notin BeforeRun /\ \A t : HasTime(t)' <=> HasTime(t)
  BY <1>1, Running DEF HasTime, UsesBulkKernel
<1>4. /\ Slots' = Slots /\ Working' = Working
      /\ \A u \in Slots : u # s => slot'[u] = slot[u]
      /\ slot'[s].state = "free"
  BY <1>1, <1>2 DEF Slots, Working, Workers, Free
<1>5. ServedInv'
  BY <1>1, <1>3, <1>4 DEF TimeInv, ServedInv
<1>6. ASSUME Timing, NEW u \in Slots PROVE Flow(u)'
  <2>1. /\ Flow(u) /\ Adds(u)' = Adds(u) /\ Ends(u)' = Ends(u) /\ (\A p \in Adds(u) : requests'[p] = requests[p])
        /\ Current(u)' = Current(u) /\ Statistics(u)' = Statistics(u)
        /\ \A x : Told(u, x)' <=> Told(u, x)
    BY <1>1, <1>6, SameRequests DEF TimeInv, FlowInv
  <2>2. CASE u # s
    BY <1>1, <1>3, <1>4, <2>1, <2>2, FlowKept DEF Current, Statistics
  <2>3. CASE u = s
    <3>1. Settled(s) /\ Settled(s)'
      BY <1>1, <1>4, <1>6 DEF Settled, Answered, Timing
    <3>2. /\ Adds(s)' = {} /\ Current(s)' = <<>> /\ Ends(s)' = {}
          /\ Len(Statistics(s)') = Len(served'[s]) - 0
      BY <1>1, <2>1, <2>3, <3>1 DEF Flow
    <3>3. \A x : ~Told(s, x)'
      <4>1. DOMAIN <<>> = {}
        OBVIOUS
      <4> QED BY <3>2, <4>1 DEF Told
    <3>4. \A w \in Working : worker[w].slot # s
      BY <1>1, NobodyWorksOn
    <3>5. Once(s)'
      BY <1>1, <2>1, <2>3 DEF Flow, Once
    <3>6. Own(s)' /\ Carried(s)'
      BY <1>1, <1>4, <3>3, <3>4 DEF Own, Carried
    <3> QED BY <2>3, <3>1, <3>2, <3>5, <3>6 DEF Flow
  <2> QED BY <2>2, <2>3
<1>7. FlowInv'
  BY <1>1, <1>4, <1>6 DEF FlowInv, Timing, timing_on
<1>8. requests' \in Seq(Requests) /\ \A u \in Slots : served'[u] = served[u]
  BY <1>1 DEF TimeInv, TypeTimes
<1> QED BY <1>1, <1>3, <1>4, <1>5, <1>7, <1>8, TimeRunning

-----------------------------------------------------------------------------
(* The controller. *)

\* The first request leaves the channel, the others move up.
LEMMA Popped ==
  ASSUME requests \in Seq(Requests), requests # <<>>, requests' = Tail(requests)
  PROVE  /\ requests' \in Seq(Requests) /\ Head(requests) = requests[1] /\ 1 \in DOMAIN requests
         /\ DOMAIN requests \subseteq Nat \ {0}
         /\ \A p \in Nat \ {0} : p \in DOMAIN requests' <=> p + 1 \in DOMAIN requests
         /\ \A p \in DOMAIN requests' : p \in Nat \ {0} /\ requests'[p] = requests[p + 1]
<1>1. ASSUME NEW S, NEW q \in Seq(S), q # <<>>
      PROVE  /\ Tail(q) \in Seq(S) /\ Head(q) = q[1] /\ DOMAIN q = 1 .. Len(q) /\ Len(q) \in Nat \ {0}
             /\ DOMAIN Tail(q) = 1 .. Len(q) - 1 /\ \A p \in 1 .. Len(q) - 1 : Tail(q)[p] = q[p + 1]
  BY <1>1, HeadTailProperties
<1>2. /\ requests' \in Seq(Requests) /\ Head(requests) = requests[1]
      /\ DOMAIN requests = 1 .. Len(requests) /\ Len(requests) \in Nat \ {0}
      /\ DOMAIN requests' = 1 .. Len(requests) - 1
      /\ \A p \in 1 .. Len(requests) - 1 : requests'[p] = requests[p + 1]
  BY <1>1
<1> QED BY <1>2

\* What the channel then holds about a slot.
LEMMA PoppedAbout ==
  ASSUME requests \in Seq(Requests), requests # <<>>, requests' = Tail(requests), NEW s
  PROVE  /\ Adds(s) \subseteq Nat \ {0} /\ Adds(s)' \subseteq Nat \ {0}
         /\ Ends(s) \subseteq Nat \ {0} /\ Ends(s)' \subseteq Nat \ {0}
         /\ \A p \in Nat \ {0} : p \in Adds(s)' <=> p + 1 \in Adds(s)
         /\ \A p \in Nat \ {0} : p \in Ends(s)' <=> p + 1 \in Ends(s)
         /\ \A p \in Adds(s)' : requests'[p] = requests[p + 1]
         /\ 1 \in Adds(s) <=> Head(requests).op = "add" /\ Head(requests).slot = s
         /\ 1 \in Ends(s) <=> Head(requests).op = "finish" /\ Head(requests).slot = s
<1>1. /\ Head(requests) = requests[1] /\ 1 \in DOMAIN requests /\ DOMAIN requests \subseteq Nat \ {0}
      /\ \A p \in Nat \ {0} : p \in DOMAIN requests' <=> p + 1 \in DOMAIN requests
      /\ \A p \in DOMAIN requests' : p \in Nat \ {0} /\ requests'[p] = requests[p + 1]
  BY Popped
<1>2. ASSUME NEW p \in Nat \ {0}
      PROVE  (p \in Adds(s)' <=> p + 1 \in Adds(s)) /\ (p \in Ends(s)' <=> p + 1 \in Ends(s))
  BY <1>1 DEF Adds, Ends
<1>3. Adds(s) \subseteq Nat \ {0} /\ Adds(s)' \subseteq Nat \ {0} /\ Ends(s) \subseteq Nat \ {0} /\ Ends(s)' \subseteq Nat \ {0}
  BY <1>1 DEF Adds, Ends
<1>4. \A p \in Adds(s)' : requests'[p] = requests[p + 1]
  BY <1>1 DEF Adds
<1>5. /\ 1 \in Adds(s) <=> Head(requests).op = "add" /\ Head(requests).slot = s
      /\ 1 \in Ends(s) <=> Head(requests).op = "finish" /\ Head(requests).slot = s
  BY <1>1 DEF Adds, Ends
<1> QED BY <1>2, <1>3, <1>4, <1>5

\* Nothing comes to be told, and nothing is forgotten.
LEMMA FlowMoved ==
  ASSUME NEW s \in Slots, Flow(s), requests \in Seq(Requests), requests # <<>>, requests' = Tail(requests),
         ~(Head(requests).op = "finish" /\ Head(requests).slot = s),
         UNCHANGED <<slot, served, worker, FrameTasks, graph, registry, node_cache>>,
         s \in responses' <=> s \in responses,
         Statistics(s)' = Statistics(s), Settled(s) => Current(s)' = <<>>,
         \A x : Told(s, x)' <=> Told(s, x), Once(s)'
  PROVE  Flow(s)'
<1>1. /\ Settled(s)' <=> Settled(s)
      /\ Working' = Working /\ worker' = worker /\ slot' = slot /\ served' = served
  BY DEF Settled, Working, Workers
<1>2. \A t : HasTime(t)' <=> HasTime(t)
  BY DEF HasTime, UsesBulkKernel
<1>3. Own(s)'
  BY <1>1 DEF Flow, Own
<1>4. Carried(s)'
  BY <1>1, <1>2 DEF Flow, Carried
<1>5. ~Settled(s) => Counted(s)'
  BY <1>1, <1>2 DEF Flow, Counted
<1>6. /\ Adds(s) \subseteq Nat \ {0} /\ Adds(s)' \subseteq Nat \ {0}
      /\ Ends(s) \subseteq Nat \ {0} /\ Ends(s)' \subseteq Nat \ {0}
      /\ \A p \in Nat \ {0} : p \in Adds(s)' <=> p + 1 \in Adds(s)
      /\ \A p \in Nat \ {0} : p \in Ends(s)' <=> p + 1 \in Ends(s)
  BY PoppedAbout
<1>7. Settled(s) => Adds(s)' = {} /\ Current(s)' = <<>>
  BY <1>6 DEF Flow
<1>8. Settled(s) \/ slot[s].state = "open" => Ends(s)' = {}
  BY <1>6 DEF Flow
<1>9. \A p \in Ends(s)' : (\A q \in Ends(s)' : p = q) /\ \A q \in Adds(s)' : q < p
  <2>1. \A p \in Ends(s) : (\A q \in Ends(s) : p = q) /\ \A q \in Adds(s) : q < p
    BY DEF Flow
  <2>2. ASSUME NEW p \in Ends(s)', NEW q \in Ends(s)' PROVE p = q
    <3>1. p \in Nat /\ q \in Nat /\ p + 1 \in Ends(s) /\ q + 1 \in Ends(s)
      BY <1>6
    <3>2. p + 1 = q + 1
      BY <2>1, <3>1
    <3> QED BY <3>1, <3>2
  <2>3. ASSUME NEW p \in Ends(s)', NEW q \in Adds(s)' PROVE q < p
    <3>1. p \in Nat /\ q \in Nat /\ p + 1 \in Ends(s) /\ q + 1 \in Adds(s)
      BY <1>6
    <3>2. q + 1 < p + 1
      BY <2>1, <3>1
    <3> QED BY <3>1, <3>2
  <2> QED BY <2>2, <2>3
<1>10. Len(Statistics(s)') = Len(served'[s]) - (IF Settled(s) THEN 0 ELSE 1)
  BY <1>1 DEF Flow
<1> QED BY <1>1, <1>3, <1>4, <1>5, <1>7, <1>8, <1>9, <1>10 DEF Flow

\* A request about something else.
LEMMA FlowPassed ==
  ASSUME NEW s \in Slots, Flow(s), requests \in Seq(Requests), requests # <<>>, requests' = Tail(requests),
         Head(requests).op \notin {"add", "finish"} \/ Head(requests).slot # s,
         UNCHANGED <<slot, served, worker, FrameTasks, graph, registry, node_cache>>,
         s \in responses' <=> s \in responses,
         Statistics(s)' = Statistics(s), Current(s)' = Current(s)
  PROVE  Flow(s)'
<1>1. /\ Adds(s) \subseteq Nat \ {0} /\ Adds(s)' \subseteq Nat \ {0}
      /\ \A p \in Nat \ {0} : p \in Adds(s)' <=> p + 1 \in Adds(s)
      /\ \A p \in Adds(s)' : requests'[p] = requests[p + 1]
      /\ 1 \notin Adds(s)
  BY PoppedAbout
<1>2. ASSUME NEW p \in Adds(s) PROVE p - 1 \in Adds(s)' /\ requests'[p - 1] = requests[p]
  <2>1. p \in Nat /\ p # 0 /\ p # 1
    BY <1>1
  <2>2. p - 1 \in Nat \ {0} /\ (p - 1) + 1 = p
    BY <2>1
  <2>3. p - 1 \in Adds(s)'
    BY <1>1, <2>2
  <2> QED BY <1>1, <2>2, <2>3
<1>3. ASSUME NEW p \in Adds(s)' PROVE p \in Nat /\ p + 1 \in Adds(s) /\ requests'[p] = requests[p + 1]
  BY <1>1
<1>4. \A x : Told(s, x)' <=> Told(s, x)
  <2>1. ASSUME NEW x, NEW p \in Adds(s), requests[p].entry.task = x
        PROVE  \E q \in Adds(s)' : requests'[q].entry.task = x
    BY <1>2, <2>1
  <2>2. ASSUME NEW x, NEW p \in Adds(s)', requests'[p].entry.task = x
        PROVE  \E q \in Adds(s) : requests[q].entry.task = x
    BY <1>3, <2>2
  <2> QED BY <2>1, <2>2 DEF Told
<1>5. Once(s)'
  <2>1. Once(s)
    BY DEF Flow
  <2>2. ASSUME NEW p \in Adds(s)', NEW q \in Adds(s)', requests'[p].entry.task = requests'[q].entry.task PROVE p = q
    <3>1. /\ p \in Nat /\ p + 1 \in Adds(s) /\ requests'[p] = requests[p + 1]
          /\ q \in Nat /\ q + 1 \in Adds(s) /\ requests'[q] = requests[q + 1]
      BY <1>3
    <3>2. p + 1 = q + 1
      BY <2>1, <2>2, <3>1 DEF Once
    <3> QED BY <3>1, <3>2
  <2>3. ASSUME NEW p \in Adds(s)', NEW i \in DOMAIN Current(s)' PROVE requests'[p].entry.task # Current(s)'[i].task
    <3>1. p + 1 \in Adds(s) /\ requests'[p] = requests[p + 1]
      BY <1>3
    <3>2. i \in DOMAIN Current(s) /\ Current(s)'[i] = Current(s)[i]
      OBVIOUS
    <3> QED BY <2>1, <3>1, <3>2 DEF Once
  <2> QED BY <2>1, <2>2, <2>3 DEF Once
<1>6. Settled(s) => Current(s)' = <<>>
  BY DEF Flow
<1> QED BY <1>4, <1>5, <1>6, FlowMoved

\* A time is taken from the channel into the buffer.
LEMMA FlowAdded ==
  ASSUME NEW s \in Slots, Flow(s), requests \in Seq(Requests), requests # <<>>, requests' = Tail(requests),
         Head(requests).op = "add", Head(requests).slot = s,
         Current(s) \in Seq(TimeEntry), Head(requests).entry \in TimeEntry,
         UNCHANGED <<slot, served, worker, FrameTasks, graph, registry, node_cache>>,
         s \in responses' <=> s \in responses,
         Statistics(s)' = Statistics(s), Current(s)' = Append(Current(s), Head(requests).entry)
  PROVE  Flow(s)'
<1> DEFINE e == Head(requests).entry
           n == Len(Current(s)) + 1
<1>1. /\ Adds(s) \subseteq Nat \ {0} /\ Adds(s)' \subseteq Nat \ {0}
      /\ \A p \in Nat \ {0} : p \in Adds(s)' <=> p + 1 \in Adds(s)
      /\ \A p \in Adds(s)' : requests'[p] = requests[p + 1]
      /\ 1 \in Adds(s)
  BY PoppedAbout
<1>2. requests[1] = Head(requests)
  BY Popped
<1>3. ASSUME NEW p \in Adds(s), p # 1 PROVE p - 1 \in Adds(s)' /\ requests'[p - 1] = requests[p]
  <2>1. p \in Nat /\ p # 0
    BY <1>1
  <2>2. p - 1 \in Nat \ {0} /\ (p - 1) + 1 = p
    BY <1>3, <2>1
  <2>3. p - 1 \in Adds(s)'
    BY <1>1, <2>2
  <2> QED BY <1>1, <2>2, <2>3
<1>4. ASSUME NEW p \in Adds(s)'
      PROVE  p \in Nat /\ p + 1 \in Adds(s) /\ p + 1 # 1 /\ requests'[p] = requests[p + 1]
  <2>1. p \in Nat \ {0}
    BY <1>1
  <2>2. p + 1 # 1
    BY <2>1
  <2> QED BY <1>1, <2>1, <2>2
<1>5. /\ DOMAIN Current(s)' = DOMAIN Current(s) \cup {n} /\ n \notin DOMAIN Current(s) /\ Current(s)'[n] = e
      /\ \A i \in DOMAIN Current(s) : Current(s)'[i] = Current(s)[i]
  <2>1. ASSUME NEW S, NEW q \in Seq(S), NEW x \in S
        PROVE  /\ DOMAIN Append(q, x) = DOMAIN q \cup {Len(q) + 1} /\ Len(q) + 1 \notin DOMAIN q
               /\ Append(q, x)[Len(q) + 1] = x /\ \A i \in DOMAIN q : Append(q, x)[i] = q[i]
    OBVIOUS
  <2> QED BY <2>1
<1>6. Once(s)
  BY DEF Flow
<1> HIDE DEF n
<1>7. \A x : Told(s, x)' <=> Told(s, x)
  <2>1. ASSUME NEW x, Told(s, x) PROVE Told(s, x)'
    <3>1. CASE \E i \in DOMAIN Current(s) : Current(s)[i].task = x
      BY <1>5, <3>1 DEF Told
    <3>2. ASSUME NEW p \in Adds(s), requests[p].entry.task = x PROVE Told(s, x)'
      BY <1>2, <1>3, <1>5, <3>2 DEF Told
    <3> QED BY <2>1, <3>1, <3>2 DEF Told
  <2>2. ASSUME NEW x, Told(s, x)' PROVE Told(s, x)
    <3>1. ASSUME NEW p \in Adds(s)', requests'[p].entry.task = x PROVE Told(s, x)
      <4>1. p + 1 \in Adds(s) /\ requests[p + 1].entry.task = x
        BY <1>4, <3>1
      <4> QED BY <4>1 DEF Told
    <3>2. ASSUME NEW i \in DOMAIN Current(s)', Current(s)'[i].task = x PROVE Told(s, x)
      BY <1>1, <1>2, <1>5, <3>2 DEF Told
    <3> QED BY <2>2, <3>1, <3>2 DEF Told
  <2> QED BY <2>1, <2>2
<1>8. \A p \in Adds(s)' : requests'[p].entry.task # e.task
  BY <1>1, <1>2, <1>4, <1>6 DEF Once
<1>9. \A i \in DOMAIN Current(s) : Current(s)[i].task # e.task
  <2>1. \A p \in Adds(s), i \in DOMAIN Current(s) : requests[p].entry.task # Current(s)[i].task
    BY <1>6 DEF Once
  <2> QED BY <1>1, <1>2, <2>1
<1>10. Once(s)'
  <2>1. ASSUME NEW p \in Adds(s)', NEW q \in Adds(s)', requests'[p].entry.task = requests'[q].entry.task PROVE p = q
    <3>1. /\ p \in Nat /\ p + 1 \in Adds(s) /\ requests'[p] = requests[p + 1]
          /\ q \in Nat /\ q + 1 \in Adds(s) /\ requests'[q] = requests[q + 1]
      BY <1>4
    <3>2. p + 1 = q + 1
      BY <1>6, <2>1, <3>1 DEF Once
    <3> QED BY <3>1, <3>2
  <2>2. ASSUME NEW i \in DOMAIN Current(s)', NEW j \in DOMAIN Current(s)', Current(s)'[i].task = Current(s)'[j].task
        PROVE  i = j
    BY <1>5, <1>6, <1>9, <2>2 DEF Once
  <2>3. ASSUME NEW p \in Adds(s)', NEW i \in DOMAIN Current(s)' PROVE requests'[p].entry.task # Current(s)'[i].task
    <3>1. p + 1 \in Adds(s) /\ requests'[p] = requests[p + 1]
      BY <1>4
    <3>2. CASE i \in DOMAIN Current(s)
      <4>1. requests[p + 1].entry.task # Current(s)[i].task
        BY <1>6, <3>1, <3>2 DEF Once
      <4> QED BY <1>5, <3>1, <3>2, <4>1
    <3>3. CASE i = n
      BY <1>5, <1>8, <3>3
    <3> QED BY <1>5, <3>2, <3>3
  <2> QED BY <2>1, <2>2, <2>3 DEF Once
<1>11. ~Settled(s)
  BY <1>1 DEF Flow
<1> QED BY <1>7, <1>10, <1>11, FlowMoved

\* The frame is closed: behind all its times, so they are all in the buffer.
LEMMA FlowClosed ==
  ASSUME BaseInv, ServedInv, NEW s \in Slots, Flow(s), requests \in Seq(Requests), requests # <<>>,
         requests' = Tail(requests), Head(requests).op = "finish", Head(requests).slot = s,
         Statistics(s) \in Seq(Stat), NEW st \in Stat, st.tasks = Current(s),
         UNCHANGED <<slot, served, worker, FrameTasks, graph, registry, node_cache>>, s \in responses',
         Statistics(s)' = Append(Statistics(s), st), Current(s)' = <<>>
  PROVE  /\ Flow(s)' /\ Len(Statistics(s)') = Len(served[s])
         /\ TimesOf(served[s][Len(served[s])], Current(s))
<1>1. /\ Adds(s) \subseteq Nat \ {0} /\ Adds(s)' \subseteq Nat \ {0}
      /\ Ends(s) \subseteq Nat \ {0} /\ Ends(s)' \subseteq Nat \ {0}
      /\ \A p \in Nat \ {0} : p \in Adds(s)' <=> p + 1 \in Adds(s)
      /\ \A p \in Nat \ {0} : p \in Ends(s)' <=> p + 1 \in Ends(s)
      /\ 1 \in Ends(s)
  BY PoppedAbout
<1>2. slot[s] \in SlotRec /\ served[s] \in Seq(Nat)
  BY DEF BaseInv, TypeInv
<1>3. ~Settled(s) /\ slot[s].state = "finishing"
  <2>1. ~(Settled(s) \/ slot[s].state = "open")
    BY <1>1 DEF Flow
  <2> QED BY <1>2, <2>1 DEF Settled, SlotRec
<1>4. /\ served[s] # <<>> /\ served[s][Len(served[s])] = slot[s].frame /\ slot[s].done = FrameTasks
  BY <1>3 DEF ServedInv
<1>5. Adds(s) = {} /\ Ends(s) = {1}
  <2>1. \A q \in Adds(s) : q < 1
    BY <1>1 DEF Flow
  <2>2. \A q \in Ends(s) : 1 = q
    BY <1>1 DEF Flow
  <2>3. ASSUME NEW q \in Adds(s) PROVE FALSE
    BY <1>1, <2>1
  <2> QED BY <1>1, <2>2, <2>3
<1>6. Adds(s)' = {} /\ Ends(s)' = {}
  <2>1. ASSUME NEW p \in Ends(s)' PROVE FALSE
    <3>1. p \in Nat \ {0} /\ p + 1 \in Ends(s)
      BY <1>1
    <3>2. p + 1 = 1
      BY <1>5, <3>1
    <3> QED BY <3>1, <3>2
  <2> QED BY <1>1, <1>5, <2>1
<1>7. TimesOf(slot[s].frame, Current(s))
  <2>1. \A x : Told(s, x) <=> \E i \in DOMAIN Current(s) : Current(s)[i].task = x
    BY <1>5 DEF Told
  <2>2. ASSUME NEW t \in FrameTasks, HasTime(t)
        PROVE  \E i \in DOMAIN Current(s) : Current(s)[i].task = Mark(slot[s].frame, t)
    <3>1. Told(s, Mark(slot[s].frame, t))
      BY <1>3, <1>4, <2>2 DEF Flow, Counted
    <3> QED BY <2>1, <3>1
  <2>3. ASSUME NEW i \in DOMAIN Current(s) PROVE \E t \in FrameTasks : Current(s)[i].task = Mark(slot[s].frame, t)
    <3>1. Told(s, Current(s)[i].task)
      BY <2>1
    <3> QED BY <3>1 DEF Flow, Own
  <2>4. \A i, j \in DOMAIN Current(s) : Current(s)[i].task = Current(s)[j].task => i = j
    BY DEF Flow, Once
  <2> QED BY <2>2, <2>3, <2>4 DEF TimesOf
<1>8. Len(Statistics(s)') = Len(served[s])
  <2>1. Len(Statistics(s)) = Len(served[s]) - 1
    BY <1>3 DEF Flow
  <2>2. Len(Append(Statistics(s), st)) = Len(Statistics(s)) + 1
    OBVIOUS
  <2>3. Len(served[s]) \in Nat
    BY <1>2
  <2> QED BY <2>1, <2>2, <2>3
<1>9. Settled(s)' /\ served' = served
  BY <1>3 DEF Settled
<1>10. \A x : ~Told(s, x)'
  <2>1. DOMAIN <<>> = {}
    OBVIOUS
  <2> QED BY <1>6, <2>1 DEF Told
<1>11. \A w \in Working : worker[w].slot # s
  BY <1>3, NobodyWorksOn
<1>12. Once(s)' /\ Own(s)' /\ Carried(s)'
  <2>1. Once(s)'
    <3>1. DOMAIN <<>> = {}
      OBVIOUS
    <3> QED BY <1>6, <3>1 DEF Once
  <2>2. Own(s)'
    BY <1>10 DEF Own
  <2>3. Carried(s)'
    <3>1. Working' = Working /\ worker' = worker
      BY DEF Working, Workers
    <3> QED BY <1>11, <3>1 DEF Carried
  <2> QED BY <2>1, <2>2, <2>3
<1>13. Len(Statistics(s)') = Len(served'[s]) - 0
  <2>1. Len(served[s]) \in Nat
    BY <1>2
  <2> QED BY <1>8, <1>9, <2>1
<1>14. Flow(s)'
  BY <1>6, <1>9, <1>12, <1>13 DEF Flow
<1> QED BY <1>4, <1>7, <1>8, <1>14

\* What the three requests make of the buffer.
LEMMA StartKept ==
  ASSUME NEW n \in Nat, NEW tb \in Buffers(n), tb.slots = n, NEW r \in Requests, r.slot \in 0 .. n - 1,
         NEW x, x = start_slot_processing_with_time(tb, r)
  PROVE  /\ x \in Buffers(n) /\ x.slots = n /\ x.system_threads = tb.system_threads
         /\ x.current = tb.current /\ x.statistics = tb.statistics
<1> DEFINE a == [tb.start_times EXCEPT ![r.slot] = r.at]
<1>1. a \in [0 .. n - 1 -> Int]
  BY DEF Buffers, Requests
<1>2. x = [tb EXCEPT !.start_times = a]
  BY DEF start_slot_processing_with_time
<1> HIDE DEF a
<1> QED BY <1>1, <1>2 DEF Buffers

LEMMA AddKept ==
  ASSUME NEW n \in Nat, NEW tb \in Buffers(n), tb.slots = n, NEW r \in Requests, r.slot \in 0 .. n - 1,
         r.entry \in TimeEntry, NEW x, x = add_task_time(tb, r)
  PROVE  /\ x \in Buffers(n) /\ x.slots = n /\ x.system_threads = tb.system_threads
         /\ x.current = [tb.current EXCEPT ![r.slot] = Append(@, r.entry)] /\ x.statistics = tb.statistics
<1> DEFINE c == [tb.current EXCEPT ![r.slot] = Append(@, r.entry)]
<1>1. tb.current \in [0 .. n - 1 -> Seq(TimeEntry)] /\ r.entry \in TimeEntry
  BY DEF Buffers, Requests
<1>2. c \in [0 .. n - 1 -> Seq(TimeEntry)]
  BY <1>1
<1>3. x = [tb EXCEPT !.current = c]
  BY DEF add_task_time
<1> HIDE DEF c
<1>4. /\ x \in Buffers(n) /\ x.slots = n /\ x.system_threads = tb.system_threads
      /\ x.current = c /\ x.statistics = tb.statistics
  BY <1>2, <1>3 DEF Buffers
<1> QED BY <1>4 DEF c

LEMMA FinishKept ==
  ASSUME NEW n \in Nat, NEW tb \in Buffers(n), tb.slots = n, NEW r \in Requests, r.slot \in 0 .. n - 1,
         NEW x, x = finish_slot_processing_with_time(tb, r),
         NEW st, st = [start |-> tb.start_times[r.slot], end |-> r.at, tasks |-> tb.current[r.slot]]
  PROVE  /\ x \in Buffers(n) /\ x.slots = n /\ x.system_threads = tb.system_threads
         /\ x.current = [tb.current EXCEPT ![r.slot] = <<>>]
         /\ x.statistics = [tb.statistics EXCEPT ![r.slot] = Append(@, st)]
         /\ st \in Stat /\ st.tasks = tb.current[r.slot]
<1> DEFINE a == [tb.start_times EXCEPT ![r.slot] = NoTime]
           c == [tb.current EXCEPT ![r.slot] = <<>>]
           d == [tb.statistics EXCEPT ![r.slot] = Append(@, st)]
<1>1. /\ tb.start_times \in [0 .. n - 1 -> Int] /\ r.at \in Int
      /\ tb.current \in [0 .. n - 1 -> Seq(TimeEntry)] /\ tb.statistics \in [0 .. n - 1 -> Seq(Stat)]
  BY DEF Buffers, Requests
<1>2. st \in Stat /\ st.tasks = tb.current[r.slot]
  BY <1>1 DEF Stat
<1>3. x = [tb EXCEPT !.start_times = a, !.statistics = d, !.current = c]
  BY DEF finish_slot_processing_with_time
<1>4. a \in [0 .. n - 1 -> Int]
  BY <1>1 DEF NoTime
<1>5. c \in [0 .. n - 1 -> Seq(TimeEntry)]
  BY <1>1, EmptySeq
<1>6. d \in [0 .. n - 1 -> Seq(Stat)]
  BY <1>1, <1>2
<1> HIDE DEF a, c, d
<1>7. /\ x \in Buffers(n) /\ x.slots = n /\ x.system_threads = tb.system_threads
      /\ x.current = c /\ x.statistics = d
  BY <1>3, <1>4, <1>5, <1>6 DEF Buffers
<1> QED BY <1>2, <1>7 DEF c, d

LEMMA TimeController ==
  ASSUME BaseInv, TimeInv, BaseInv', Controller
  PROVE  TimeInv'
<1> DEFINE r == Head(requests)
           n == time_buffer.slots
           stays == r.op # "shutdown" /\ ~Panics(time_buffer, r)
<1>1. /\ UNCHANGED <<args, phase, config, graph, node_cache, registry, slot, served, worker>>
      /\ controller = "run" /\ requests # <<>>
      /\ ~stays => controller' # "run" /\ requests' = <<>> /\ time_buffer' = time_buffer
      /\ stays => /\ controller' = "run" /\ requests' = Tail(requests)
                  /\ r.op = "start" => time_buffer' = start_slot_processing_with_time(time_buffer, r) /\ responses' = responses
                  /\ r.op = "add" => time_buffer' = add_task_time(time_buffer, r) /\ responses' = responses
                  /\ r.op = "finish" => /\ time_buffer' = finish_slot_processing_with_time(time_buffer, r)
                                        /\ responses' = responses \cup {r.slot}
  BY DEF Controller, ControllerLoop, procVars, argVars
<1>2. /\ Slots' = Slots /\ FrameTasks' = FrameTasks /\ slots_used' = slots_used /\ Working' = Working
      /\ phase \notin BeforeRun /\ \A t : HasTime(t)' <=> HasTime(t)
  BY <1>1 DEF Slots, FrameTasks, slots_used, Working, Workers, TimeInv, BootTimes, HasTime, UsesBulkKernel
<1>3. /\ n \in Nat /\ time_buffer \in Buffers(n) /\ requests \in Seq(Requests) /\ r \in Requests
      /\ r.slot \in Nat /\ r.op \in {"start", "add", "finish", "shutdown"} /\ (r.op = "add" => r.entry \in TimeEntry)
  <2>1. n \in Nat /\ time_buffer \in Buffers(n) /\ requests \in Seq(Requests)
    BY DEF TimeInv, TypeTimes, Buffers
  <2>2. r \in Requests
    BY <1>1, <2>1
  <2> QED BY <2>1, <2>2 DEF Requests
<1>4. BootTimes'
  BY <1>1, <1>2 DEF TimeInv, BootTimes, BeforeRun
<1>5. ServedInv'
  BY <1>1, <1>2 DEF TimeInv, ServedInv
<1>6. \A s \in Slots : served'[s] = served[s] /\ served[s] \in Seq(Nat) /\ Len(served[s]) \in Nat
  BY <1>1 DEF BaseInv, TypeInv
<1>7. CASE ~stays
  <2>1. TypeTimes' /\ FlowInv'
    <3>1. <<>> \in Seq(Requests)
      BY EmptySeq
    <3>2. TypeTimes'
      BY <1>1, <1>2, <1>7, <3>1 DEF TimeInv, TypeTimes, timing_on, worker_slots
    <3> QED BY <1>1, <1>7, <3>2 DEF FlowInv, Timing
  <2>2. StatsInv'
    BY <1>1, <1>2, <1>6, <1>7, StatsKept DEF TimeInv
  <2> QED BY <1>4, <1>5, <2>1, <2>2 DEF TimeInv
<1>8. CASE stays
  <2>1. r.slot \in 0 .. n - 1 /\ r.op \in {"start", "add", "finish"}
    BY <1>3, <1>8 DEF Panics
  <2>2. timing_on /\ Timing
    BY <1>1, <1>3, <2>1 DEF timing_on, Timing
  <2> DEFINE st == [start |-> time_buffer.start_times[r.slot], end |-> r.at, tasks |-> time_buffer.current[r.slot]]
  <2>3. /\ time_buffer' \in Buffers(n) /\ time_buffer'.slots = n
        /\ time_buffer'.system_threads = time_buffer.system_threads
        /\ r.op = "start" => /\ time_buffer'.current = time_buffer.current
                             /\ time_buffer'.statistics = time_buffer.statistics /\ responses' = responses
        /\ r.op = "add" => /\ time_buffer'.current = [time_buffer.current EXCEPT ![r.slot] = Append(@, r.entry)]
                           /\ time_buffer'.statistics = time_buffer.statistics /\ responses' = responses
        /\ r.op = "finish" => /\ time_buffer'.current = [time_buffer.current EXCEPT ![r.slot] = <<>>]
                              /\ time_buffer'.statistics = [time_buffer.statistics EXCEPT ![r.slot] = Append(@, st)]
                              /\ st \in Stat /\ st.tasks = time_buffer.current[r.slot]
                              /\ responses' = responses \cup {r.slot}
    <3>1. /\ n \in Nat /\ time_buffer \in Buffers(n) /\ time_buffer.slots = n /\ r \in Requests /\ r.slot \in 0 .. n - 1
      BY <1>3, <2>1
    <3>2. /\ r.op = "start" => time_buffer' = start_slot_processing_with_time(time_buffer, r) /\ responses' = responses
          /\ r.op = "add" => time_buffer' = add_task_time(time_buffer, r) /\ responses' = responses
          /\ r.op = "finish" => /\ time_buffer' = finish_slot_processing_with_time(time_buffer, r)
                                /\ responses' = responses \cup {r.slot}
      BY <1>1, <1>8
    <3>3. r.op \in {"start", "add", "finish"}
      BY <2>1
    <3> HIDE DEF n, r, stays
    <3>4. CASE r.op = "start"
      BY <3>1, <3>2, <3>4, StartKept
    <3>5. CASE r.op = "add"
      <4>1. time_buffer' = add_task_time(time_buffer, r) /\ responses' = responses
        BY <3>2, <3>5
      <4>2. r.entry \in TimeEntry
        BY <1>3, <3>5
      <4>3. /\ time_buffer' \in Buffers(n) /\ time_buffer'.slots = n
            /\ time_buffer'.system_threads = time_buffer.system_threads
            /\ time_buffer'.current = [time_buffer.current EXCEPT ![r.slot] = Append(@, r.entry)]
            /\ time_buffer'.statistics = time_buffer.statistics
        BY <3>1, <4>1, <4>2, AddKept
      <4> QED BY <3>5, <4>1, <4>2, <4>3
    <3>6. CASE r.op = "finish"
      <4>1. time_buffer' = finish_slot_processing_with_time(time_buffer, r) /\ responses' = responses \cup {r.slot}
        BY <3>2, <3>6
      <4>2. /\ time_buffer' \in Buffers(n) /\ time_buffer'.slots = n
            /\ time_buffer'.system_threads = time_buffer.system_threads
            /\ time_buffer'.current = [time_buffer.current EXCEPT ![r.slot] = <<>>]
            /\ time_buffer'.statistics = [time_buffer.statistics EXCEPT ![r.slot] = Append(@, st)]
            /\ st \in Stat /\ st.tasks = time_buffer.current[r.slot]
        BY <3>1, <4>1, FinishKept
      <4> HIDE DEF st
      <4> QED BY <3>6, <4>1, <4>2
    <3> QED BY <3>3, <3>4, <3>5, <3>6
  <2> HIDE DEF st
  <2>4. requests' \in Seq(Requests) /\ requests' = Tail(requests)
    BY <1>1, <1>3, <1>8, Popped
  <2>5. worker_slots(time_buffer) = Slots /\ Slots \subseteq 0 .. n - 1
    BY <2>2 DEF TimeInv, TypeTimes
  <2>6. TypeTimes'
    BY <1>2, <2>3, <2>4, <2>5 DEF TypeTimes, worker_slots
  <2>7. ASSUME NEW s \in 0 .. n - 1
        PROVE  Current(s) \in Seq(TimeEntry) /\ Statistics(s) \in Seq(Stat)
    BY <1>3 DEF Buffers, Current, Statistics
  <2>8. ASSUME NEW s \in Slots
        PROVE  /\ Flow(s) /\ Len(Statistics(s)) <= Len(served[s])
               /\ \A k \in 1 .. Len(Statistics(s)) : TimesOf(served[s][k], Statistics(s)[k].tasks)
    BY <2>2 DEF TimeInv, FlowInv, StatsInv
  <2>9. \A f, tasks : TimesOf(f, tasks)' <=> TimesOf(f, tasks)
    BY <1>2 DEF TimesOf
  <2>10. SUFFICES ASSUME NEW s \in Slots
                  PROVE  /\ Flow(s)' /\ Len(Statistics(s)') <= Len(served'[s])
                         /\ \A k \in 1 .. Len(Statistics(s)') : TimesOf(served[s][k], Statistics(s)'[k].tasks)
    BY <1>1, <1>2, <1>4, <1>5, <2>6, <2>9 DEF TimeInv, StatsInv, FlowInv
  <2>11. CASE r.op = "start"
    <3>1. Current(s)' = Current(s) /\ Statistics(s)' = Statistics(s)
      BY <2>3, <2>11 DEF Current, Statistics
    <3>2. Flow(s)'
      BY <1>1, <1>2, <1>3, <2>3, <2>4, <2>8, <2>11, <3>1, FlowPassed
    <3> QED BY <1>6, <2>8, <3>1, <3>2
  <2>12. CASE r.op = "add"
    <3>1. /\ time_buffer'.current = [time_buffer.current EXCEPT ![r.slot] = Append(@, r.entry)]
          /\ time_buffer'.statistics = time_buffer.statistics /\ responses' = responses
      BY <2>3, <2>12
    <3>2. time_buffer.current \in [0 .. n - 1 -> Seq(TimeEntry)]
      BY <1>3 DEF Buffers
    <3>3. Statistics(s)' = Statistics(s)
      BY <3>1 DEF Statistics
    <3>4. CASE s # r.slot
      <4>1. Current(s)' = Current(s)
        BY <2>5, <3>1, <3>2, <3>4 DEF Current
      <4>2. s \in responses' <=> s \in responses
        BY <3>1
      <4>3. Flow(s)'
        <5> HIDE DEF r
        <5> QED BY <1>1, <1>2, <1>3, <2>4, <2>8, <3>3, <3>4, <4>1, <4>2, FlowPassed DEF r
      <4> QED BY <1>6, <2>8, <3>3, <4>3
    <3>5. CASE s = r.slot
      <4>1. Current(s)' = Append(Current(s), r.entry)
        BY <2>1, <3>1, <3>2, <3>5 DEF Current
      <4>2. Flow(s)'
        BY <1>1, <1>2, <1>3, <2>1, <2>4, <2>7, <2>8, <2>12, <3>1, <3>3, <3>5, <4>1, FlowAdded
      <4> QED BY <1>6, <2>8, <3>3, <4>2
    <3> QED BY <3>4, <3>5
  <2>13. CASE r.op = "finish"
    <3>1. /\ time_buffer'.current = [time_buffer.current EXCEPT ![r.slot] = <<>>]
          /\ time_buffer'.statistics = [time_buffer.statistics EXCEPT ![r.slot] = Append(@, st)]
          /\ st \in Stat /\ st.tasks = time_buffer.current[r.slot] /\ responses' = responses \cup {r.slot}
      BY <2>3, <2>13
    <3>2. /\ time_buffer.current \in [0 .. n - 1 -> Seq(TimeEntry)]
          /\ time_buffer.statistics \in [0 .. n - 1 -> Seq(Stat)]
      BY <1>3 DEF Buffers
    <3>3. CASE s # r.slot
      <4>1. Current(s)' = Current(s) /\ Statistics(s)' = Statistics(s)
        BY <2>5, <3>1, <3>2, <3>3 DEF Current, Statistics
      <4>2. Flow(s)'
        BY <1>1, <1>2, <1>3, <2>4, <2>8, <3>1, <3>3, <4>1, FlowPassed
      <4> QED BY <1>6, <2>8, <4>1, <4>2
    <3>4. CASE s = r.slot
      <4>1. Current(s)' = <<>> /\ Statistics(s)' = Append(Statistics(s), st) /\ st.tasks = Current(s)
        BY <2>1, <3>1, <3>2, <3>4 DEF Current, Statistics
      <4>2. s \in responses' /\ Statistics(s) \in Seq(Stat)
        BY <2>1, <2>7, <3>1, <3>4
      <4>3. /\ Flow(s)' /\ Len(Statistics(s)') = Len(served[s])
            /\ TimesOf(served[s][Len(served[s])], Current(s))
        BY <1>1, <1>2, <1>3, <2>4, <2>8, <2>13, <3>1, <3>4, <4>1, <4>2, FlowClosed DEF TimeInv
      <4>4. /\ Len(Append(Statistics(s), st)) = Len(Statistics(s)) + 1 /\ Len(Statistics(s)) \in Nat
            /\ Append(Statistics(s), st)[Len(Statistics(s)) + 1] = st
            /\ \A k \in 1 .. Len(Statistics(s)) : Append(Statistics(s), st)[k] = Statistics(s)[k]
        <5>1. ASSUME NEW S, NEW q \in Seq(S), NEW x \in S
              PROVE  /\ Len(Append(q, x)) = Len(q) + 1 /\ Len(q) \in Nat
                     /\ Append(q, x)[Len(q) + 1] = x /\ \A k \in 1 .. Len(q) : Append(q, x)[k] = q[k]
          OBVIOUS
        <5> QED BY <3>1, <4>2, <5>1
      <4>5. ASSUME NEW k \in 1 .. Len(Statistics(s)') PROVE TimesOf(served[s][k], Statistics(s)'[k].tasks)
        <5>1. CASE k = Len(Statistics(s)) + 1
          <6>1. k = Len(served[s]) /\ Statistics(s)'[k] = st
            BY <4>1, <4>3, <4>4, <5>1
          <6> QED BY <4>1, <4>3, <6>1
        <5>2. CASE k # Len(Statistics(s)) + 1
          <6>1. k \in 1 .. Len(Statistics(s))
            BY <4>1, <4>4, <5>2
          <6> QED BY <2>8, <4>1, <4>4, <6>1
        <5> QED BY <5>1, <5>2
      <4> QED BY <1>6, <4>3, <4>5
    <3> QED BY <3>3, <3>4
  <2> QED BY <2>1, <2>11, <2>12, <2>13
<1> QED BY <1>7, <1>8

-----------------------------------------------------------------------------
(* Every step, and the statistics. *)

LEMMA TimeQuietSteps ==
  ASSUME BaseInv, TimeInv,
         \/ \E w \in Workers : RecordJob(w)
         \/ PrintStatistics \/ RaiseFlag \/ WriteCsv \/ WriteReport \/ Join \/ Collector \/ UNCHANGED vars
  PROVE  TimeInv'
<1>1. UNCHANGED <<time_buffer, requests, controller, responses, args, config, slot, served,
                  graph, node_cache, registry>>
  BY DEF RecordJob, PrintStatistics, RaiseFlag, WriteCsv, WriteReport, Join, Collector, CollectorLoop,
         vars, procVars, argVars, teleVars
<1>2. phase' = phase \/ (phase \notin BeforeRun /\ phase' \notin BeforeRun)
  BY DEF RecordJob, PrintStatistics, RaiseFlag, WriteCsv, WriteReport, Join, Collector,
         vars, procVars, BeforeRun, Booting
<1>3. worker' = worker \/ \E w \in Workers : worker' = [worker EXCEPT ![w] = Idle]
  BY DEF RecordJob, PrintStatistics, RaiseFlag, WriteCsv, WriteReport, Join, Collector, vars, procVars
<1>4. worker \in [Workers -> WorkerRec]
  BY DEF BaseInv, TypeInv
<1>5. \A w \in Working' : w \in Working /\ worker'[w] = worker[w]
  <2>1. CASE worker' = worker
    BY <2>1 DEF Working, Workers
  <2>2. ASSUME NEW w \in Workers, worker' = [worker EXCEPT ![w] = Idle]
        PROVE  \A v \in Working' : v \in Working /\ worker'[v] = worker[v]
    BY <1>4, <2>2 DEF Working, Workers, Idle
  <2> QED BY <1>3, <2>1, <2>2
<1> QED BY <1>1, <1>2, <1>5, TimeQuiet

LEMMA TimeDrop ==
  ASSUME BaseInv, TimeInv, DropRuntime
  PROVE  TimeInv'
<1>1. /\ UNCHANGED <<time_buffer, controller, responses, args, config, slot, served, graph, node_cache, registry, worker>>
      /\ phase = "drop" /\ phase' = "join" /\ send(<<Shutdown>>)
  BY DEF DropRuntime, argVars
<1>2. <<Shutdown>> \in Seq(Requests) /\ \A k \in DOMAIN <<Shutdown>> : <<Shutdown>>[k].op \notin {"add", "finish"}
  BY RequestsTyped
<1>3. phase \notin BeforeRun /\ phase' \notin BeforeRun /\ Working' = Working
  BY <1>1 DEF BeforeRun, Booting, Working, Workers
<1> QED BY <1>1, <1>2, <1>3, TimeSend

LEMMA TimeStep ==
  ASSUME BaseInv, RecordInv, TimeInv, [Next]_vars
  PROVE  TimeInv'
<1>1. BaseInv'
  BY BaseStep
<1>2. CASE Startup
  BY <1>2, TimeBoot, TimeBuild, TimeStartEnd DEF Startup
<1>3. ASSUME NEW w \in Workers, Worker(w) PROVE TimeInv'
  <2>1. ASSUME NEW s \in Slots, NEW id \in Int, NEW chunk \in SUBSET Nat, NEW left \in Seq(Nat),
               Takes(w, s, id, chunk, left)
        PROVE  TimeInv'
    BY <1>1, <2>1, TimeTakes
  <2>2. ASSUME NEW s \in Slots, NEW task \in slot[s].todo,
               \/ BeginTask(w, s, task[1], task[2])
               \/ \E count \in 2 .. node_cache[task[1]].edges.factor - task[2] :
                    BeginBulk(w, s, task[1], task[2], count)
        PROVE  TimeInv'
    BY <2>1, <2>2, BeginTakes
  <2> QED BY <1>1, <1>3, <2>2, TimeEndKernel, TimeCount, TimeQuietSteps DEF Worker
<1>4. ASSUME NEW s \in Slots, Resolution(s) PROVE TimeInv'
  BY <1>1, <1>4, TimeAssign, TimeFinish, TimeRelease DEF Resolution
<1>5. CASE Shutdowns
  BY <1>5, TimeStartEnd, TimeDrop, TimeQuietSteps DEF Shutdowns
<1>6. CASE Controller
  BY <1>1, <1>6, TimeController
<1> QED BY <1>2, <1>3, <1>4, <1>5, <1>6, TimeQuietSteps DEF Next

LEMMA TimesRight ==
  ASSUME BaseInv, TimeInv
  PROVE  TimesBelongToFrame
<1> SUFFICES ASSUME NEW s \in worker_slots(time_buffer), NEW k \in DOMAIN Statistics(s)
             PROVE  LET tasks == Statistics(s)[k].tasks
                        timed == {t \in FrameTasks : ~UsesBulkKernel(graph, t[1])}
                    IN  /\ {<<served[s][k], t[1], t[2]>> : t \in timed} \subseteq {e.task : e \in Range(tasks)}
                        /\ \A e \in Range(tasks) : e.task[1] = served[s][k]
                        /\ Cardinality({e.task : e \in Range(tasks)}) = Len(tasks)
  BY DEF TimesBelongToFrame, Statistics
<1> DEFINE n == time_buffer.slots
           tasks == Statistics(s)[k].tasks
           f == served[s][k]
           marks == [i \in DOMAIN tasks |-> tasks[i].task]
<1>1. n \in Nat /\ time_buffer \in Buffers(n) /\ time_buffer.system_threads \in Nat
  BY DEF TimeInv, TypeTimes, Buffers
<1>2. s \in Slots /\ s \in 0 .. n - 1 /\ timing_on
  <2>1. n > 0
    BY <1>1 DEF worker_slots
  <2>2. timing_on
    BY <2>1 DEF timing_on
  <2> QED BY <2>2 DEF TimeInv, TypeTimes
<1>3. Statistics(s) \in Seq(Stat) /\ Statistics(s)[k] \in Stat /\ k \in 1 .. Len(Statistics(s))
  <2>1. Statistics(s) \in Seq(Stat)
    BY <1>1, <1>2 DEF Buffers, Statistics
  <2> QED BY <2>1
<1>4. tasks \in Seq(TimeEntry) /\ DOMAIN tasks = 1 .. Len(tasks) /\ Len(tasks) \in Nat
  <2>1. tasks \in Seq(TimeEntry)
    BY <1>3 DEF Stat
  <2> QED BY <2>1
<1>5. TimesOf(f, tasks)
  BY <1>2, <1>3 DEF TimeInv, StatsInv
<1> HIDE DEF tasks, f
<1>6. \A i \in DOMAIN tasks : tasks[i].task \in Seq(Int)
  <2>1. \A i \in DOMAIN tasks : tasks[i] \in TimeEntry
    BY <1>4
  <2> QED BY <2>1 DEF TimeEntry
<1>7. marks \in Seq(Seq(Int)) /\ Len(marks) = Len(tasks) /\ IsInjective(marks)
  <2>1. marks \in [1 .. Len(tasks) -> Seq(Int)]
    BY <1>4, <1>6
  <2>2. marks \in Seq(Seq(Int)) /\ Len(marks) = Len(tasks)
    BY <1>4, <2>1
  <2>3. IsInjective(marks)
    BY <1>5 DEF IsInjective, TimesOf
  <2> QED BY <2>2, <2>3
<1>8. Range(marks) = {e.task : e \in Range(tasks)}
  BY DEF Range
<1>9. Cardinality(Range(marks)) = Len(tasks)
  <2> HIDE DEF marks
  <2> QED BY <1>7, InjectiveLength
<1>10. ASSUME NEW t \in FrameTasks, ~UsesBulkKernel(graph, t[1]) PROVE <<f, t[1], t[2]>> \in {e.task : e \in Range(tasks)}
  <2>1. PICK i \in DOMAIN tasks : tasks[i].task = Mark(f, t)
    BY <1>5, <1>10 DEF TimesOf, HasTime
  <2>2. tasks[i] \in Range(tasks)
    BY DEF Range
  <2> QED BY <2>1, <2>2 DEF Mark
<1>11. ASSUME NEW e \in Range(tasks) PROVE e.task[1] = f
  <2>1. PICK i \in DOMAIN tasks : e = tasks[i]
    BY DEF Range
  <2>2. PICK t \in FrameTasks : tasks[i].task = Mark(f, t)
    BY <1>5 DEF TimesOf
  <2> QED BY <2>1, <2>2 DEF Mark
<1> QED BY <1>8, <1>9, <1>10, <1>11 DEF tasks, f

\* Whatever the command line, the machine and the graph: the times that the controller
\* closes a frame with are those of the tasks of that frame, of every task whose kernel is
\* timed, and none twice, although slots are reused, workers report concurrently and the
\* requests pass through one channel that is drained behind them.
THEOREM TimesAreTheFrames == Spec => []TimesBelongToFrame
<1> DEFINE IInv == BaseInv /\ RecordInv /\ JobInv /\ TimeInv
<1>1. Init => IInv
  <2>1. Init => JobInv
    BY DEF Init, JobInv, Workers
  <2> QED BY <2>1, BaseInit, RecordInit, TimeInit
<1>2. IInv /\ [Next]_vars => IInv'
  BY BaseStep, RecordStep, JobStep, TimeStep
<1>3. IInv => TimesBelongToFrame
  BY TimesRight
<1> QED BY <1>1, <1>2, <1>3, PTL DEF Spec
=============================================================================
