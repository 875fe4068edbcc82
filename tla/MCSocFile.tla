------------------------------ MODULE MCSocFile ------------------------------
(* SocFile with a few threads, for TLC. *)
EXTENDS SocFile

CONSTANTS t1, t2, t3

MCThreads == {t1, t2, t3}
MCTwo == {t1, t2}
=============================================================================
