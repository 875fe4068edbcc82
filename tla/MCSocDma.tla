------------------------------ MODULE MCSocDma ------------------------------
(* SocDma with two processes and requests of a few pages, for TLC. *)
EXTENDS SocDma

CONSTANTS p1, p2

MCProcs == {p1, p2}
MCOne == {p1}
MCNoFaults == {}
MCSetupFaults == {"alloc", "range"}
MCTimeout == {"timeout"}
MCWaitFaults == {"timeout", "signal", "shared"}
MCBoth == [p \in MCProcs |-> BOOLEAN]
MCOneBoth == [p \in MCOne |-> BOOLEAN]
MCMixed == [p \in MCProcs |-> IF p = p1 THEN {FALSE} ELSE BOOLEAN]
=============================================================================
