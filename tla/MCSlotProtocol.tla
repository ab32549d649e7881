--------------------------- MODULE MCSlotProtocol ---------------------------
(***************************************************************************)
(* SlotProtocol for TLC.                                                   *)
(***************************************************************************)
EXTENDS SlotProtocol

\* (2 * slots).next_power_of_two(): the cells the runtime builder allocates
\* (slots are at most 64).
CacheCells == Min({n \in {2^k : k \in 1 .. 7} : n >= 2 * NumSlots})
=============================================================================
