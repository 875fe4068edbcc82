------------------------------- MODULE SocFile -------------------------------
(***************************************************************************)
(* The character device as its users see it: soc_miner_open,               *)
(* soc_miner_release and the /proc entry of soc_miner.c, called by any     *)
(* number of threads, each with a descriptor of its own.  The counters of  *)
(* struct soc_miner_dev are guarded by its semaphore sem, taken with       *)
(* down_interruptible.  (busy is tested beside writers but this driver     *)
(* never sets it, so it is left out.  The ioctls, allowed on any           *)
(* descriptor, touch none of this.)                                        *)
(***************************************************************************)
EXTENDS Integers, FiniteSets

CONSTANTS
  Threads,            \* each opens, uses and closes its own descriptor
  Signals,            \* TRUE iff a signal can end a down_interruptible
  MaxOpens,           \* bound on the opens of a behaviour, for TLC only
  None                \* not a thread

ASSUME FileAssumption ==
  /\ Signals \in BOOLEAN
  /\ MaxOpens \in Nat
  /\ None \notin Threads
  /\ IsFiniteSet(Threads)

VARIABLES
  pc,                 \* where each thread is
  writable,           \* does its descriptor's mode include writing?
  sem,                \* who holds soc_miner_dev->sem, or None
  writers,            \* soc_miner_dev->writers
  opens, closes,      \* soc_miner_dev->opens, ->closes
  skipped             \* ghost: the releases a signal ended: readers', writers'

vars == <<pc, writable, sem, writers, opens, closes, skipped>>

\* A thread is away ("closed"), waits for the semaphore to open, to release
\* or to show the statistics, is inside one of those, or has its descriptor.
Waiting == {"open?", "release?", "show?"}
Holding == {"test", "count", "opened", "uncount", "closing", "showing"}
HasFile == {"file", "release?", "uncount", "closing"}

TypeOK ==
  /\ pc \in [Threads -> {"closed", "file"} \cup Waiting \cup Holding]
  /\ writable \in [Threads -> BOOLEAN]
  /\ sem \in Threads \cup {None}
  /\ writers \in Nat
  /\ opens \in Nat
  /\ closes \in Nat
  /\ skipped \in [{"reader", "writer"} -> Nat]

Init ==
  /\ pc = [t \in Threads |-> "closed"]
  /\ writable = [t \in Threads |-> FALSE]
  /\ sem = None
  /\ writers = 0
  /\ opens = 0
  /\ closes = 0
  /\ skipped = [k \in {"reader", "writer"} |-> 0]

Goto(t, from, to) == pc[t] = from /\ pc' = [pc EXCEPT ![t] = to]

-----------------------------------------------------------------------------
(* down_interruptible and up *)

\* Mutant: the semaphore is never really taken.
Down_Free(t, from, to) == Goto(t, from, to) /\ UNCHANGED sem

Down(t, from, to) ==
  /\ sem = None
  /\ Goto(t, from, to)
  /\ sem' = t

Up(t, from, to) ==
  /\ Goto(t, from, to)
  /\ sem' = None

\* Linux's semaphore: a free one is taken without a look at the signals, and
\* up hands it to the first waiter, which does not look at them either.  Only
\* a thread that waits for a semaphore which somebody holds is interrupted.
Interrupted(t, from, to) ==
  /\ Signals
  /\ sem # None
  /\ Goto(t, from, to)
  /\ UNCHANGED sem

-----------------------------------------------------------------------------
(* soc_miner_open *)

CallOpen(t) ==
  /\ Goto(t, "closed", "open?")
  /\ opens < MaxOpens
  /\ \E m \in BOOLEAN : writable' = [writable EXCEPT ![t] = m]
  /\ UNCHANGED <<sem, writers, opens, closes, skipped>>

\* -ERESTARTSYS: there is no descriptor.
OpenInterrupted(t) ==
  /\ Interrupted(t, "open?", "closed")
  /\ UNCHANGED <<writable, writers, opens, closes, skipped>>

EnterOpen(t) ==
  /\ Down(t, "open?", "test")
  /\ UNCHANGED <<writable, writers, opens, closes, skipped>>

\* A reader is not looked at; a writer only if there is no other.
TestWriters(t) ==
  /\ writable[t] => writers = 0
  /\ Goto(t, "test", IF writable[t] THEN "count" ELSE "opened")
  /\ UNCHANGED <<writable, sem, writers, opens, closes, skipped>>

\* goto out: -EBUSY.
Busy(t) ==
  /\ writable[t] /\ writers # 0
  /\ Up(t, "test", "closed")
  /\ UNCHANGED <<writable, writers, opens, closes, skipped>>

CountWriter(t) ==
  /\ Goto(t, "count", "opened")
  /\ writers' = writers + 1
  /\ UNCHANGED <<writable, sem, opens, closes, skipped>>

Opened(t) ==
  /\ Up(t, "opened", "file")
  /\ opens' = opens + 1
  /\ UNCHANGED <<writable, writers, closes, skipped>>

-----------------------------------------------------------------------------
(* soc_miner_release *)

CallRelease(t) ==
  /\ Goto(t, "file", "release?")
  /\ UNCHANGED <<writable, sem, writers, opens, closes, skipped>>

\* -EINTR: the kernel drops the descriptor all the same, nothing is counted.
ReleaseInterrupted(t) ==
  /\ Interrupted(t, "release?", "closed")
  /\ skipped' = [skipped EXCEPT ![IF writable[t] THEN "writer" ELSE "reader"] = @ + 1]
  /\ UNCHANGED <<writable, writers, opens, closes>>

EnterRelease(t) ==
  /\ Down(t, "release?", "uncount")
  /\ UNCHANGED <<writable, writers, opens, closes, skipped>>

\* Mutants: every release counts a writer out; none does.
UncountWriter_Always(t) ==
  /\ Goto(t, "uncount", "closing")
  /\ writers' = writers - 1
  /\ UNCHANGED <<writable, sem, opens, closes, skipped>>

UncountWriter_Never(t) ==
  /\ Goto(t, "uncount", "closing")
  /\ UNCHANGED <<writable, sem, writers, opens, closes, skipped>>

UncountWriter(t) ==
  /\ Goto(t, "uncount", "closing")
  /\ writers' = IF writable[t] THEN writers - 1 ELSE writers
  /\ UNCHANGED <<writable, sem, opens, closes, skipped>>

\* Mutant: up is left out.
Closed_NoUp(t) ==
  /\ Goto(t, "closing", "closed")
  /\ closes' = closes + 1
  /\ UNCHANGED <<writable, sem, writers, opens, skipped>>

Closed(t) ==
  /\ Up(t, "closing", "closed")
  /\ closes' = closes + 1
  /\ UNCHANGED <<writable, writers, opens, skipped>>

-----------------------------------------------------------------------------
(* soc_miner_proc_seq_show, by a thread that has no descriptor *)

CallShow(t) ==
  /\ Goto(t, "closed", "show?")
  /\ UNCHANGED <<writable, sem, writers, opens, closes, skipped>>

ShowInterrupted(t) ==
  /\ Interrupted(t, "show?", "closed")
  /\ UNCHANGED <<writable, writers, opens, closes, skipped>>

EnterShow(t) ==
  /\ Down(t, "show?", "showing")
  /\ UNCHANGED <<writable, writers, opens, closes, skipped>>

Shown(t) ==
  /\ Up(t, "showing", "closed")
  /\ UNCHANGED <<writable, writers, opens, closes, skipped>>

-----------------------------------------------------------------------------

Inside(t) ==
  \/ TestWriters(t) \/ Busy(t) \/ CountWriter(t) \/ Opened(t)
  \/ UncountWriter(t) \/ Closed(t) \/ Shown(t)

Enter(t) == EnterOpen(t) \/ EnterRelease(t) \/ EnterShow(t)

Next ==
  \E t \in Threads :
    \/ CallOpen(t) \/ OpenInterrupted(t)
    \/ CallRelease(t) \/ ReleaseInterrupted(t)
    \/ CallShow(t) \/ ShowInterrupted(t)
    \/ Enter(t) \/ Inside(t)

Spec == Init /\ [][Next]_vars

\* A thread in the kernel runs; the kernel's semaphore is FIFO, so a thread
\* that finds it free again and again gets it.
Fairness ==
  \A t \in Threads : WF_vars(Inside(t)) /\ SF_vars(Enter(t))

FairSpec == Spec /\ Fairness

-----------------------------------------------------------------------------
(* Properties *)

Writers == {t \in Threads : writable[t] /\ pc[t] \in HasFile}

\* At most one descriptor is open for writing, whatever the interleaving of
\* the opens, the releases and the signals that end them.
WriterExclusive == \A t, u \in Writers : t = u

\* While nobody is inside, the reference count is the open writers plus the
\* releases that a signal ended, and the statistics balance likewise.
CountsBalance ==
  sem = None =>
    /\ writers = Cardinality(Writers) + skipped["writer"]
    /\ opens = closes + skipped["reader"] + skipped["writer"]
                 + Cardinality({t \in Threads : pc[t] \in HasFile})

\* "Manage writes via reference counts" (soc_miner.c:965): with no writer
\* and nobody inside, a writer can be let in.
WriterAdmitted == sem = None /\ Writers = {} => writers = 0

\* A thread that waits for the semaphore, or is inside, gets out.
CallsReturn ==
  \A t \in Threads : (pc[t] \in Waiting \cup Holding) ~> (pc[t] \in {"closed", "file"})
=============================================================================
