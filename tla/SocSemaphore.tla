---------------------------- MODULE SocSemaphore ----------------------------
(***************************************************************************)
(* The counting/binary semaphore that soc_miner.c builds from an atomic    *)
(* counter and a wait queue (struct soc_semaphore, soc_sem_give,           *)
(* soc_sem_take).  Every atomic_* call on count is one step, so that a     *)
(* take's test of the counter and its decrement can be separated by steps  *)
(* of other takers and of the interrupt handler's give.                    *)
(*                                                                         *)
(* The wait queue is Linux's: wait_event_*_timeout evaluates its condition *)
(* after it has enqueued itself, so "the condition is false" and "asleep"  *)
(* are one step, and every wake_up wakes all the (non-exclusive) waiters,  *)
(* which evaluate the condition again.                                     *)
(***************************************************************************)
EXTENDS Integers, FiniteSets

CONSTANTS
  Takers,             \* threads that call soc_sem_take
  Givers,             \* contexts that call soc_sem_give (the driver: its ISR)
  Kinds,              \* values of sem->binary to consider: TRUE, FALSE or both
  Interruptible,      \* sem->interruptible
  MaxGives            \* bound on the gives of a behaviour, for TLC only

ASSUME SemaphoreAssumption ==
  /\ IsFiniteSet(Takers) /\ Takers # {}
  /\ Kinds \subseteq BOOLEAN
  /\ Interruptible \in BOOLEAN
  /\ MaxGives \in Nat

VARIABLES
  binary,             \* sem->binary
  count,              \* sem->count
  sleepers,           \* sem->sleepers
  tpc,                \* where each taker is in soc_sem_take
  left,               \* its local timeout: none (<= 0), timed, or forever
  gpc,                \* where each giver is in soc_sem_give
  gives,              \* ghost: permits made visible so far
  granted             \* ghost: takes that returned 0 so far

vars == <<binary, count, sleepers, tpc, left, gpc, gives, granted>>

Timeouts == {"none", "timed", "forever"}

TypeOK ==
  /\ binary \in BOOLEAN
  /\ count \in Int
  /\ sleepers \in Int
  /\ tpc \in [Takers -> {"out", "wait", "asleep", "test", "dec"}]
  /\ left \in [Takers -> Timeouts]
  /\ gpc \in [Givers -> {"idle", "set", "wake"}]
  /\ gives \in Nat
  /\ granted \in Nat

\* soc_miner_probe leaves the counter at 0: it sets 1 and takes it.
Init ==
  /\ binary \in Kinds
  /\ count = 0
  /\ sleepers = 0
  /\ tpc = [t \in Takers |-> "out"]
  /\ left = [t \in Takers |-> "none"]
  /\ gpc = [g \in Givers |-> "idle"]
  /\ gives = 0
  /\ granted = 0

-----------------------------------------------------------------------------
(* soc_sem_take *)

\* The head of the do-while loop with timeout = m: wait, or only test.
LoopHead(t, m) ==
  /\ left' = [left EXCEPT ![t] = m]
  /\ tpc' = [tpc EXCEPT ![t] = IF m = "none" THEN "test" ELSE "wait"]
  /\ sleepers' = IF m = "none" THEN sleepers ELSE sleepers + 1

\* The tail of the loop: go round while (timeout > 0), else return -1.
LoopTail(t) ==
  IF left[t] = "none"
    THEN tpc' = [tpc EXCEPT ![t] = "out"] /\ UNCHANGED <<sleepers, left>>
    ELSE LoopHead(t, left[t])

Call(t) ==
  /\ tpc[t] = "out"
  /\ \E m \in Timeouts : LoopHead(t, m)
  /\ UNCHANGED <<binary, count, gpc, gives, granted>>

\* Mutant: the error of an interrupted wait is taken for a timeout.
EndWait_Error(t, m) ==
  /\ tpc' = [tpc EXCEPT ![t] = "test"]
  /\ left' = [left EXCEPT ![t] = "error"]
  /\ sleepers' = sleepers - 1
  /\ UNCHANGED <<binary, count, gpc, gives, granted>>

\* The wait ends with what is left of the timeout, 0 or an error.
EndWait(t, m) ==
  /\ tpc' = [tpc EXCEPT ![t] = "test"]
  /\ left' = [left EXCEPT ![t] = m]
  /\ sleepers' = sleepers - 1
  /\ UNCHANGED <<binary, count, gpc, gives, granted>>

CondTrue(t) ==
  /\ tpc[t] = "wait" /\ count > 0
  /\ EndWait(t, left[t])

CondFalse(t) ==
  /\ tpc[t] = "wait" /\ count <= 0
  /\ tpc' = [tpc EXCEPT ![t] = "asleep"]
  /\ UNCHANGED <<binary, count, sleepers, left, gpc, gives, granted>>

\* Mutant: a timeout that has run out begins anew.
Expire_Restarts(t) ==
  /\ tpc[t] = "asleep" /\ left[t] = "timed"
  /\ EndWait(t, left[t])

Expire(t) ==
  /\ tpc[t] = "asleep" /\ left[t] = "timed"
  /\ EndWait(t, "none")

\* A signal: the condition, evaluated once more, is still false.
Interrupt(t) ==
  /\ Interruptible
  /\ tpc[t] = "asleep" /\ count <= 0
  /\ EndWait(t, "none")

\* Mutant: the counter is decremented without a look.
Test_NoLook(t) ==
  /\ tpc[t] = "test"
  /\ tpc' = [tpc EXCEPT ![t] = "dec"]
  /\ UNCHANGED <<binary, sleepers, left, count, gpc, gives, granted>>

Test(t) ==
  /\ tpc[t] = "test"
  /\ IF count > 0
       THEN tpc' = [tpc EXCEPT ![t] = "dec"] /\ UNCHANGED <<sleepers, left>>
       ELSE LoopTail(t)
  /\ UNCHANGED <<binary, count, gpc, gives, granted>>

\* Mutant: the result of the decrement is not looked at.
DecTaken_NoRecheck(t) ==
  /\ tpc[t] = "dec"
  /\ count' = count - 1
  /\ tpc' = [tpc EXCEPT ![t] = "out"]
  /\ granted' = granted + 1
  /\ UNCHANGED <<binary, sleepers, left, gpc, gives>>

\* atomic_dec_return(&sem->count) >= 0 : return 0.
DecTaken(t) ==
  /\ tpc[t] = "dec" /\ count - 1 >= 0
  /\ count' = count - 1
  /\ tpc' = [tpc EXCEPT ![t] = "out"]
  /\ granted' = granted + 1
  /\ UNCHANGED <<binary, sleepers, left, gpc, gives>>

\* Another taker was faster: the counter is now below what it should be.
DecLost(t) ==
  /\ tpc[t] = "dec" /\ count - 1 < 0
  /\ count' = count - 1
  /\ LoopTail(t)
  /\ UNCHANGED <<binary, gpc, gives, granted>>

Take(t) ==
  \/ Call(t)
  \/ CondTrue(t)
  \/ CondFalse(t)
  \/ Expire(t)
  \/ Interrupt(t)
  \/ Test(t)
  \/ DecTaken(t)
  \/ DecLost(t)

-----------------------------------------------------------------------------
(* soc_sem_give *)

GiveCall(g) ==
  /\ gpc[g] = "idle"
  /\ gives + Cardinality({h \in Givers : gpc[h] = "set"}) < MaxGives
  /\ gpc' = [gpc EXCEPT ![g] = "set"]
  /\ UNCHANGED <<binary, count, sleepers, tpc, left, gives, granted>>

SetBit(g) ==
  /\ binary
  /\ gpc[g] = "set"
  /\ count' = 1
  /\ gives' = gives + 1
  /\ gpc' = [gpc EXCEPT ![g] = "wake"]
  /\ UNCHANGED <<binary, sleepers, tpc, left, granted>>

\* while (atomic_inc_return(&sem->count) <= 0);
\* An increment that leaves the counter at or below 0 only makes up for a
\* taker that decremented without taking.
Increment(g) ==
  /\ ~binary
  /\ gpc[g] = "set"
  /\ count' = count + 1
  /\ IF count' > 0
       THEN gives' = gives + 1 /\ gpc' = [gpc EXCEPT ![g] = "wake"]
       ELSE UNCHANGED <<gives, gpc>>
  /\ UNCHANGED <<binary, sleepers, tpc, left, granted>>

\* Mutants: one waiter is woken; nobody is.
Wake_One(g) ==
  /\ gpc[g] = "wake"
  /\ IF \E t \in Takers : tpc[t] = "asleep"
       THEN \E t \in Takers : tpc[t] = "asleep" /\ tpc' = [tpc EXCEPT ![t] = "wait"]
       ELSE UNCHANGED tpc
  /\ gpc' = [gpc EXCEPT ![g] = "idle"]
  /\ UNCHANGED <<binary, count, sleepers, left, gives, granted>>

Wake_Nobody(g) ==
  /\ gpc[g] = "wake"
  /\ gpc' = [gpc EXCEPT ![g] = "idle"]
  /\ UNCHANGED <<binary, count, sleepers, tpc, left, gives, granted>>

Wake(g) ==
  /\ gpc[g] = "wake"
  /\ tpc' = [t \in Takers |-> IF tpc[t] = "asleep" THEN "wait" ELSE tpc[t]]
  /\ gpc' = [gpc EXCEPT ![g] = "idle"]
  /\ UNCHANGED <<binary, count, sleepers, left, gives, granted>>

Give(g) == GiveCall(g) \/ SetBit(g) \/ Increment(g) \/ Wake(g)

Next == (\E t \in Takers : Take(t)) \/ (\E g \in Givers : Give(g))

Spec == Init /\ [][Next]_vars

\* A thread inside soc_sem_take keeps running, a kernel timer fires, and an
\* interrupt handler that has started finishes.  Nobody has to call either.
InTake(t) ==
  CondTrue(t) \/ CondFalse(t) \/ Expire(t) \/ Test(t) \/ DecTaken(t) \/ DecLost(t)

Fairness ==
  /\ \A t \in Takers : WF_vars(InTake(t))
  /\ \A g \in Givers : WF_vars(SetBit(g) \/ Increment(g) \/ Wake(g))

FairSpec == Spec /\ Fairness

-----------------------------------------------------------------------------
(* Properties *)

\* The permits a take could still get.
Permits == IF count > 0 THEN count ELSE 0

\* No permit is invented by a race: what has been taken, plus what can still
\* be taken, is what has been given.  A counting semaphore loses none of
\* them; a binary one merges gives that nobody took in between.
PermitsConserved ==
  /\ binary => count <= 1 /\ granted + Permits <= gives
  /\ ~binary => granted + Permits = gives

\* No lost wake-up: a thread sleeps beside a permit only while the giver
\* that made it visible is about to wake everybody.
NoLostWakeup ==
  count > 0 => \/ \E g \in Givers : gpc[g] = "wake"
               \/ \A t \in Takers : tpc[t] # "asleep"

\* The takers between their test of the counter and their decrement.
Deciding == {t \in Takers : tpc[t] = "dec"}

\* The debt that losing takers leave in the counter is bounded by their
\* number, so a counting give's loop is short.
DebtBounded ==
  count - Cardinality(Deciding) >= 1 - Cardinality(Takers)

\* A permit is not left lying: while it is there and a thread is inside
\* soc_sem_take, some take succeeds or every one of them returns.
PermitTaken ==
  \A n \in 0 .. MaxGives :
    (granted = n /\ count > 0 /\ \E t \in Takers : tpc[t] # "out")
      ~> (granted > n \/ \A t \in Takers : tpc[t] = "out")

\* A take with SOC_NOWAIT, or one whose timeout has run out, returns after its
\* test.  One that has time left returns, or another permit is given: a wait
\* that finds the condition true keeps its whole timeout, so each round that it
\* loses to a faster taker costs a new permit and no time.  Without gives,
\* whatever the other takers do, it returns.
TimedTakeReturns ==
  \A t \in Takers :
    /\ (tpc[t] # "out" /\ left[t] = "none") ~> (tpc[t] = "out")
    /\ \A n \in 0 .. MaxGives :
         (tpc[t] # "out" /\ left[t] # "forever" /\ gives = n)
           ~> (tpc[t] = "out" \/ gives > n)

\* The semaphore implements the pool of permits of SemaphoreSpec: a taker
\* that loses the race, a timeout and a signal leave the permits alone.
Pool == INSTANCE SemaphoreSpec WITH permits <- Permits
ImplementsPool == Pool!Spec
=============================================================================
