--------------------------- MODULE SemaphoreSpec ---------------------------
(***************************************************************************)
(* What soc_sem_give and soc_sem_take of soc_miner.c promise together: a   *)
(* pool of permits.  A give adds a permit (a binary semaphore keeps at     *)
(* most one) and a take that returns 0 consumes exactly one.  A take that  *)
(* returns -1 changes nothing, so it is a stutter.  SocSemaphore           *)
(* implements this specification; SocDma is written on top of it.          *)
(***************************************************************************)
EXTENDS Integers

VARIABLES
  binary,             \* is the semaphore's field binary 1?
  permits,            \* how many takes could succeed now
  granted             \* how many takes have returned 0

semVars == <<binary, permits, granted>>

SemInit == binary \in BOOLEAN /\ permits = 0 /\ granted = 0

\* A give becomes visible.
Release ==
  /\ permits' = IF binary THEN 1 ELSE permits + 1
  /\ UNCHANGED <<binary, granted>>

\* A take returns 0.
Acquire ==
  /\ permits > 0
  /\ permits' = permits - 1
  /\ granted' = granted + 1
  /\ UNCHANGED binary

SemNext == Release \/ Acquire

Spec == SemInit /\ [][SemNext]_semVars
=============================================================================
