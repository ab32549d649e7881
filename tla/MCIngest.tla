------------------------------ MODULE MCIngest ------------------------------
(***************************************************************************)
(* What arrives, for Ingest.                                               *)
(***************************************************************************)
EXTENDS Ingest, TLC

CacheCells == 4

Plain(packets, frames, stream) ==
  [stream |-> stream, frame_packets |-> packets, max_frames |-> frames, chunk |-> 0,
   threads |-> Threads, handover |-> FALSE, slow |-> FALSE, fails |-> FALSE]

\* Two sockets, each with one packet of every frame: frames overtake each other
\* by as much as one socket may run ahead of the other.
TwoSockets(frames) ==
  (1 :> [i \in 1 .. frames |-> <<i - 1, 0>>]) @@ (2 :> [i \in 1 .. frames |-> <<i - 1, 1>>])

\* One socket, frame after frame.
OneSocket(frames) == 1 :> [i \in 1 .. 2 * frames |-> <<(i - 1) \div 2, (i - 1) % 2>>]

\* One packet per frame, newest first after the first.
Burst(frames) == 1 :> [i \in 1 .. frames |-> <<IF i = 1 THEN 0 ELSE frames + 1 - i, 0>>]

\* Two packets per frame, far out of order: frames 5 and 4 overflow the parking
\* buffer, the window moves, and frame 3 is admitted before its parked packet.
Scrambled ==
  1 :> <<<<3, 0>>, <<2, 0>>, <<2, 1>>, <<4, 0>>, <<5, 0>>, <<4, 1>>, <<0, 0>>, <<3, 1>>,
         <<1, 0>>, <<1, 1>>, <<0, 1>>>>

Handover(sc) == [sc EXCEPT !.handover = TRUE]

\* One resolution thread.
Solo(sc) == [sc EXCEPT !.threads = {CHOOSE t \in Threads : TRUE}]

IngestScenarios ==
  {Plain(2, 3, TwoSockets(3)),
   [Plain(2, 2, TwoSockets(2)) EXCEPT !.chunk = 1],
   Plain(1, 3, Burst(5)),
   Handover(Plain(2, 2, OneSocket(2))),
   [Handover(Plain(2, 2, OneSocket(2))) EXCEPT !.slow = TRUE],
   [Handover(Plain(2, 2, OneSocket(2))) EXCEPT !.fails = TRUE],
   Solo(Plain(2, 4, TwoSockets(4))), Solo(Plain(1, 3, Burst(5))), Solo(Plain(2, 4, Scrambled))}
=============================================================================
