----------------------------- MODULE SlotHandoff -----------------------------
(***************************************************************************)
(* What slot-priority mode promises: frames run one at a time, to the end, *)
(* in the order in which they got a slot.  It says nothing of slots,       *)
(* locks, states or the lock-free cache; SlotProtocol implements it.       *)
(***************************************************************************)
EXTENDS Naturals, Sequences

CONSTANTS
  Frames,    \* the frames of the run
  MaxQueue   \* at most this many of them hold a slot

VARIABLES
  queue,    \* the frames that hold a slot, oldest first
  active    \* the frames whose slot runs

vars == <<queue, active>>

Queued(f) == \E i \in DOMAIN queue : queue[i] = f

Init == queue = <<>> /\ active = {}

\* A frame gets a slot.  It runs at once iff no other frame holds one.
Arrive(f) ==
  /\ Len(queue) < MaxQueue
  /\ ~Queued(f)
  /\ queue' = Append(queue, f)
  /\ active' = IF queue = <<>> THEN {f} ELSE active

\* The running frame, which is the oldest, ends; the next oldest takes over.
Finish ==
  /\ queue # <<>>
  /\ active = {Head(queue)}
  /\ queue' = Tail(queue)
  /\ active' = IF Tail(queue) = <<>> THEN {} ELSE {Head(Tail(queue))}

Next == (\E f \in Frames : Arrive(f)) \/ Finish

Spec == Init /\ [][Next]_vars
=============================================================================
