--------------------------- MODULE MCMemoryEngine ---------------------------
(* MemoryEngine with a counter of three bits, for TLC. *)
EXTENDS MemoryEngine

MCCycles == {0, 1, 2, 5, 7}
=============================================================================
