----------------------------- MODULE MCSocProbe -----------------------------
(* SocProbe with two users, for TLC. *)
EXTENDS SocProbe

CONSTANTS u1, u2

MCUsers == {u1, u2}
=============================================================================
