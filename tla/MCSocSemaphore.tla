--------------------------- MODULE MCSocSemaphore ---------------------------
(* SocSemaphore with a few threads and interrupt contexts, for TLC. *)
EXTENDS SocSemaphore

CONSTANTS t1, t2, t3, isr

MCTakers == {t1, t2, t3}
MCIsr == {isr}
=============================================================================
