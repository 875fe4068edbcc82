------------------------- MODULE SocSemaphore_proofs -------------------------
(***************************************************************************)
(* Theorems about SocSemaphore for any set of threads, any number of       *)
(* gives and both kinds of semaphore.                                      *)
(***************************************************************************)
EXTENDS SocSemaphore, FiniteSetTheorems, TLAPS

\* Every variable of the semaphore keeps its type: in particular a wait
\* leaves soc_sem_take with what is left of its timeout, and no state of the
\* do-while loop is reached in another order.
LEMMA TypeCorrect == Spec => []TypeOK
<1>1. Init => TypeOK
  BY SemaphoreAssumption DEF SemaphoreAssumption, Init, TypeOK, Timeouts
<1>2. TypeOK /\ [Next]_vars => TypeOK'
  <2> SUFFICES ASSUME TypeOK, [Next]_vars PROVE TypeOK'
    OBVIOUS
  <2> USE DEF TypeOK, Timeouts
  <2>1. ASSUME NEW t \in Takers, Call(t) PROVE TypeOK'
    BY <2>1 DEF Call, LoopHead
  <2>2. ASSUME NEW t \in Takers, CondTrue(t) PROVE TypeOK'
    BY <2>2 DEF CondTrue, EndWait
  <2>3. ASSUME NEW t \in Takers, CondFalse(t) PROVE TypeOK'
    BY <2>3 DEF CondFalse
  <2>4. ASSUME NEW t \in Takers, Expire(t) PROVE TypeOK'
    BY <2>4 DEF Expire, EndWait
  <2>5. ASSUME NEW t \in Takers, Interrupt(t) PROVE TypeOK'
    BY <2>5 DEF Interrupt, EndWait
  <2>6. ASSUME NEW t \in Takers, Test(t) PROVE TypeOK'
    BY <2>6 DEF Test, LoopTail, LoopHead
  <2>7. ASSUME NEW t \in Takers, DecTaken(t) PROVE TypeOK'
    BY <2>7 DEF DecTaken
  <2>8. ASSUME NEW t \in Takers, DecLost(t) PROVE TypeOK'
    BY <2>8 DEF DecLost, LoopTail, LoopHead
  <2>9. ASSUME NEW g \in Givers, GiveCall(g) PROVE TypeOK'
    BY <2>9 DEF GiveCall
  <2>10. ASSUME NEW g \in Givers, SetBit(g) PROVE TypeOK'
    BY <2>10 DEF SetBit
  <2>11. ASSUME NEW g \in Givers, Increment(g) PROVE TypeOK'
    BY <2>11 DEF Increment
  <2>12. ASSUME NEW g \in Givers, Wake(g) PROVE TypeOK'
    BY <2>12 DEF Wake
  <2>13. CASE UNCHANGED vars
    BY <2>13 DEF vars
  <2>14. QED
    BY <2>1, <2>2, <2>3, <2>4, <2>5, <2>6, <2>7, <2>8, <2>9, <2>10, <2>11,
       <2>12, <2>13 DEF Next, Take, Give
<1>3. QED
  BY <1>1, <1>2, PTL DEF Spec

-----------------------------------------------------------------------------
\* A semaphore keeps the kind that it has been given by soc_miner_probe.
LEMMA KindFixed == [Next]_vars => binary' = binary
<1>1. ASSUME NEW t \in Takers, Take(t) PROVE binary' = binary
  BY <1>1 DEF Take, Call, CondTrue, CondFalse, Expire, Interrupt, EndWait,
              Test, DecTaken, DecLost
<1>2. ASSUME NEW g \in Givers, Give(g) PROVE binary' = binary
  BY <1>2 DEF Give, GiveCall, SetBit, Increment, Wake
<1>3. CASE UNCHANGED vars
  BY <1>3 DEF vars
<1>4. QED
  BY <1>1, <1>2, <1>3 DEF Next

\* What a step of soc_sem_take or soc_sem_give does to the counter, whoever
\* makes it: nothing, a successful decrement, a losing decrement, a binary
\* give, an increment that makes a permit, or one that pays a debt.
LEMMA CounterSteps ==
  ASSUME TypeOK, [Next]_vars
  PROVE  \/ UNCHANGED <<count, gives, granted>>
         \/ /\ count >= 1 /\ count' = count - 1
            /\ granted' = granted + 1 /\ gives' = gives
         \/ /\ count <= 0 /\ count' = count - 1
            /\ UNCHANGED <<gives, granted>>
         \/ /\ binary /\ count' = 1
            /\ gives' = gives + 1 /\ granted' = granted
         \/ /\ ~binary /\ count >= 0 /\ count' = count + 1
            /\ gives' = gives + 1 /\ granted' = granted
         \/ /\ ~binary /\ count < 0 /\ count' = count + 1
            /\ UNCHANGED <<gives, granted>>
<1> USE DEF TypeOK
<1>1. ASSUME NEW t \in Takers, Take(t)
      PROVE  \/ UNCHANGED <<count, gives, granted>>
             \/ /\ count >= 1 /\ count' = count - 1
                /\ granted' = granted + 1 /\ gives' = gives
             \/ /\ count <= 0 /\ count' = count - 1
                /\ UNCHANGED <<gives, granted>>
  BY <1>1 DEF Take, Call, CondTrue, CondFalse, Expire, Interrupt, EndWait,
              Test, DecTaken, DecLost
<1>2. ASSUME NEW g \in Givers, SetBit(g)
      PROVE  binary /\ count' = 1 /\ gives' = gives + 1 /\ granted' = granted
  BY <1>2 DEF SetBit
<1>3. ASSUME NEW g \in Givers, Increment(g)
      PROVE  \/ /\ ~binary /\ count >= 0 /\ count' = count + 1
                /\ gives' = gives + 1 /\ granted' = granted
             \/ /\ ~binary /\ count < 0 /\ count' = count + 1
                /\ UNCHANGED <<gives, granted>>
  BY <1>3 DEF Increment
<1>4. ASSUME NEW g \in Givers, GiveCall(g) \/ Wake(g)
      PROVE  UNCHANGED <<count, gives, granted>>
  BY <1>4 DEF GiveCall, Wake
<1>5. CASE UNCHANGED vars
  BY <1>5 DEF vars
<1>6. QED
  BY <1>1, <1>2, <1>3, <1>4, <1>5 DEF Next, Give

\* No permit is invented by the race between a taker's test of the counter
\* and its decrement, and a counting semaphore loses none.
THEOREM Conservation == Spec => []PermitsConserved
<1>1. Init => PermitsConserved
  BY DEF Init, PermitsConserved, Permits
<1>2. TypeOK /\ PermitsConserved /\ [Next]_vars => PermitsConserved'
  <2> SUFFICES ASSUME TypeOK, PermitsConserved, [Next]_vars
               PROVE  PermitsConserved'
    OBVIOUS
  <2>1. count \in Int /\ gives \in Nat /\ granted \in Nat /\ binary \in BOOLEAN
    BY DEF TypeOK
  <2>2. QED
    BY <2>1, CounterSteps, KindFixed DEF PermitsConserved, Permits
<1>3. QED
  BY <1>1, <1>2, TypeCorrect, PTL DEF Spec

-----------------------------------------------------------------------------
\* A thread goes to sleep only when there is no permit, and a giver that
\* makes one visible has yet to wake everybody: no wake-up is lost.
THEOREM WakeupsReach == Spec => []NoLostWakeup
<1>1. Init => NoLostWakeup
  BY DEF Init, NoLostWakeup
<1>2. TypeOK /\ NoLostWakeup /\ [Next]_vars => NoLostWakeup'
  <2> SUFFICES ASSUME TypeOK, NoLostWakeup, [Next]_vars
               PROVE  NoLostWakeup'
    OBVIOUS
  <2> USE DEF TypeOK, NoLostWakeup
  \* These steps put nobody to sleep, wake nobody and do not raise count.
  <2>1. ASSUME NEW t \in Takers, Call(t) PROVE NoLostWakeup'
    BY <2>1 DEF Call, LoopHead
  <2>2. ASSUME NEW t \in Takers, CondTrue(t) PROVE NoLostWakeup'
    BY <2>2 DEF CondTrue, EndWait
  \* This one sleeps, with no permit in sight.
  <2>3. ASSUME NEW t \in Takers, CondFalse(t) PROVE NoLostWakeup'
    BY <2>3 DEF CondFalse
  <2>4. ASSUME NEW t \in Takers, Expire(t) PROVE NoLostWakeup'
    BY <2>4 DEF Expire, EndWait
  <2>5. ASSUME NEW t \in Takers, Interrupt(t) PROVE NoLostWakeup'
    BY <2>5 DEF Interrupt, EndWait
  <2>6. ASSUME NEW t \in Takers, Test(t) PROVE NoLostWakeup'
    BY <2>6 DEF Test, LoopTail, LoopHead
  <2>7. ASSUME NEW t \in Takers, DecTaken(t) PROVE NoLostWakeup'
    BY <2>7 DEF DecTaken
  <2>8. ASSUME NEW t \in Takers, DecLost(t) PROVE NoLostWakeup'
    BY <2>8 DEF DecLost
  <2>9. ASSUME NEW g \in Givers, GiveCall(g) PROVE NoLostWakeup'
    BY <2>9 DEF GiveCall
  \* These two may raise count above 0; their giver is then at "wake".
  <2>10. ASSUME NEW g \in Givers, SetBit(g) PROVE NoLostWakeup'
    BY <2>10 DEF SetBit
  <2>11. ASSUME NEW g \in Givers, Increment(g) PROVE NoLostWakeup'
    BY <2>11 DEF Increment
  \* Afterwards nobody is asleep.
  <2>12. ASSUME NEW g \in Givers, Wake(g) PROVE NoLostWakeup'
    BY <2>12 DEF Wake
  <2>13. CASE UNCHANGED vars
    BY <2>13 DEF vars
  <2>14. QED
    BY <2>1, <2>2, <2>3, <2>4, <2>5, <2>6, <2>7, <2>8, <2>9, <2>10, <2>11,
       <2>12, <2>13 DEF Next, Take, Give
<1>3. QED
  BY <1>1, <1>2, TypeCorrect, PTL DEF Spec

-----------------------------------------------------------------------------
\* Only the steps of a taker change who is deciding: a successful test adds
\* it, while there is a permit, and its decrement removes it.
LEMMA DecidingSteps ==
  ASSUME TypeOK, [Next]_vars
  PROVE  \/ Deciding' = Deciding /\ count' >= count
         \/ count' >= 1
         \/ \E t \in Deciding : Deciding' = Deciding \ {t} /\ count' = count - 1
<1> USE DEF TypeOK, Deciding
<1>1. ASSUME NEW t \in Takers,
             Call(t) \/ CondTrue(t) \/ CondFalse(t) \/ Expire(t) \/ Interrupt(t)
      PROVE  Deciding' = Deciding /\ count' = count
  BY <1>1 DEF Call, LoopHead, CondTrue, CondFalse, Expire, Interrupt, EndWait
<1>2. ASSUME NEW t \in Takers, Test(t), count <= 0
      PROVE  Deciding' = Deciding /\ count' = count
  BY <1>2 DEF Test, LoopTail, LoopHead
<1>3. ASSUME NEW t \in Takers, Test(t), count > 0
      PROVE  count' >= 1
  BY <1>3 DEF Test
<1>4. ASSUME NEW t \in Takers, DecTaken(t) \/ DecLost(t)
      PROVE  t \in Deciding /\ Deciding' = Deciding \ {t} /\ count' = count - 1
  BY <1>4 DEF DecTaken, DecLost, LoopTail, LoopHead
<1>5. ASSUME NEW g \in Givers, Give(g)
      PROVE  (Deciding' = Deciding /\ count' >= count) \/ count' >= 1
  BY <1>5 DEF Give, GiveCall, SetBit, Increment, Wake
<1>6. CASE UNCHANGED vars
  BY <1>6 DEF vars
<1>7. QED
  BY <1>1, <1>2, <1>3, <1>4, <1>5, <1>6 DEF Next, Take

\* The race between test and decrement cannot drive the counter below what
\* one round of all the takers can: a counting give's loop ends after at most
\* as many increments as there are takers.
THEOREM DebtIsBounded == Spec => []DebtBounded
<1> USE SemaphoreAssumption DEF SemaphoreAssumption
<1>1. /\ IsFiniteSet(Deciding) /\ Cardinality(Deciding) \in Nat
      /\ Cardinality(Deciding) <= Cardinality(Takers)
      /\ Cardinality(Takers) \in Nat
  <2>1. Deciding \in SUBSET Takers
    BY DEF Deciding
  <2>2. QED
    BY <2>1, FS_Subset, FS_CardinalityType
<1>2. Init => DebtBounded
  <2> SUFFICES ASSUME Init PROVE DebtBounded
    OBVIOUS
  <2>1. Deciding = {} /\ count = 0
    BY DEF Init, Deciding
  <2>2. Cardinality(Deciding) = 0 /\ Cardinality(Takers) # 0
    BY <2>1, FS_EmptySet
  <2>3. QED
    BY <1>1, <2>1, <2>2 DEF DebtBounded
<1>3. TypeOK /\ TypeOK' /\ DebtBounded /\ [Next]_vars => DebtBounded'
  <2> SUFFICES ASSUME TypeOK, TypeOK', DebtBounded, [Next]_vars
               PROVE  DebtBounded'
    OBVIOUS
  <2> DEFINE n == Cardinality(Deciding)
             m == Cardinality(Takers)
  <2>1. count \in Int /\ count' \in Int
    BY DEF TypeOK
  <2>2. n' \in Nat /\ n' <= m /\ n \in Nat /\ m \in Nat
    <3>1. Deciding' \in SUBSET Takers
      BY DEF Deciding
    <3>2. QED
      BY <1>1, <3>1, FS_Subset, FS_CardinalityType
  <2>3. count - n >= 1 - m
    BY DEF DebtBounded
  <2>4. CASE Deciding' = Deciding /\ count' >= count
    BY <2>1, <2>2, <2>3, <2>4 DEF DebtBounded
  <2>5. CASE count' >= 1
    BY <2>1, <2>2, <2>5 DEF DebtBounded
  <2>6. ASSUME NEW t \in Deciding, Deciding' = Deciding \ {t}, count' = count - 1
        PROVE  DebtBounded'
    <3>1. n' = n - 1
      BY <1>1, <2>6, FS_RemoveElement
    <3>2. QED
      BY <2>1, <2>2, <2>3, <2>6, <3>1 DEF DebtBounded
  <2>7. QED
    BY <2>4, <2>5, <2>6, DecidingSteps
<1>4. QED
  BY <1>2, <1>3, TypeCorrect, PTL DEF Spec

-----------------------------------------------------------------------------
\* soc_sem_give and soc_sem_take implement the pool of permits that callers
\* such as launchDma rely on, races, timeouts and signals included.
THEOREM PoolImplemented == Spec => ImplementsPool
<1>1. Init => Pool!SemInit
  BY SemaphoreAssumption DEF SemaphoreAssumption, Init, Pool!SemInit, Permits
<1>2. TypeOK /\ PermitsConserved /\ [Next]_vars => [Pool!SemNext]_(Pool!semVars)
  <2> SUFFICES ASSUME TypeOK, PermitsConserved, [Next]_vars
               PROVE  [Pool!SemNext]_(Pool!semVars)
    OBVIOUS
  <2>1. count \in Int /\ granted \in Nat /\ binary' = binary
    BY KindFixed DEF TypeOK
  <2>2. CASE UNCHANGED <<count, gives, granted>>
    BY <2>1, <2>2 DEF Permits, Pool!semVars
  <2>3. CASE count >= 1 /\ count' = count - 1 /\ granted' = granted + 1
    BY <2>1, <2>3 DEF Pool!SemNext, Pool!Acquire, Permits
  <2>4. CASE count <= 0 /\ count' = count - 1 /\ UNCHANGED <<gives, granted>>
    BY <2>1, <2>4 DEF Pool!semVars, Permits
  <2>5. CASE binary /\ count' = 1 /\ granted' = granted
    BY <2>1, <2>5 DEF Pool!SemNext, Pool!Release, Permits
  <2>6. CASE ~binary /\ count >= 0 /\ count' = count + 1 /\ granted' = granted
    BY <2>1, <2>6 DEF Pool!SemNext, Pool!Release, Permits
  <2>7. CASE ~binary /\ count < 0 /\ count' = count + 1 /\ UNCHANGED <<gives, granted>>
    BY <2>1, <2>7 DEF Pool!semVars, Permits
  <2>8. QED
    BY <2>2, <2>3, <2>4, <2>5, <2>6, <2>7, CounterSteps
<1>3. QED
  BY <1>1, <1>2, TypeCorrect, Conservation, PTL DEF Spec, ImplementsPool, Pool!Spec

-----------------------------------------------------------------------------
(* The count of sleepers, and the semaphore with a single caller *)

\* sem->sleepers, which the driver logs, is the number of threads between the
\* atomic_inc and the atomic_dec around their wait (soc_miner.c 136-144).
Waiting == {t \in Takers : tpc[t] \in {"wait", "asleep"}}

SleepersCounted == sleepers = Cardinality(Waiting)

\* A taker that has seen a permit gets it.
LoneTaker == \A t \in Takers : tpc[t] = "dec" => count >= 1

\* The threads that wait change only by the taker that counts itself in or out.
LEMMA WaitingSteps ==
  ASSUME TypeOK, [Next]_vars
  PROVE  \/ Waiting' = Waiting /\ sleepers' = sleepers
         \/ \E t \in Takers \ Waiting : Waiting' = Waiting \cup {t} /\ sleepers' = sleepers + 1
         \/ \E t \in Waiting : Waiting' = Waiting \ {t} /\ sleepers' = sleepers - 1
<1> USE DEF TypeOK, Waiting
<1>1. ASSUME NEW t \in Takers, tpc[t] \in {"out", "test", "dec"}, NEW m, LoopHead(t, m)
      PROVE  \/ Waiting' = Waiting /\ sleepers' = sleepers
             \/ /\ t \in Takers \ Waiting /\ Waiting' = Waiting \cup {t}
                /\ sleepers' = sleepers + 1
  BY <1>1 DEF LoopHead
<1>2. ASSUME NEW t \in Takers, tpc[t] \in {"test", "dec"}, LoopTail(t)
      PROVE  \/ Waiting' = Waiting /\ sleepers' = sleepers
             \/ /\ t \in Takers \ Waiting /\ Waiting' = Waiting \cup {t}
                /\ sleepers' = sleepers + 1
  BY <1>1, <1>2 DEF LoopTail
<1>3. ASSUME NEW t \in Takers, Call(t)
      PROVE  \/ Waiting' = Waiting /\ sleepers' = sleepers
             \/ /\ t \in Takers \ Waiting /\ Waiting' = Waiting \cup {t}
                /\ sleepers' = sleepers + 1
  BY <1>1, <1>3 DEF Call
<1>4. ASSUME NEW t \in Takers, Test(t) \/ DecTaken(t) \/ DecLost(t)
      PROVE  \/ Waiting' = Waiting /\ sleepers' = sleepers
             \/ /\ t \in Takers \ Waiting /\ Waiting' = Waiting \cup {t}
                /\ sleepers' = sleepers + 1
  BY <1>2, <1>4 DEF Test, DecTaken, DecLost
<1>5. ASSUME NEW t \in Takers, CondTrue(t) \/ Expire(t) \/ Interrupt(t)
      PROVE  t \in Waiting /\ Waiting' = Waiting \ {t} /\ sleepers' = sleepers - 1
  BY <1>5 DEF CondTrue, Expire, Interrupt, EndWait
<1>6. ASSUME NEW t \in Takers, CondFalse(t)
      PROVE  Waiting' = Waiting /\ sleepers' = sleepers
  BY <1>6 DEF CondFalse
<1>7. ASSUME NEW g \in Givers, Give(g)
      PROVE  Waiting' = Waiting /\ sleepers' = sleepers
  BY <1>7 DEF Give, GiveCall, SetBit, Increment, Wake
<1>8. CASE UNCHANGED vars
  BY <1>8 DEF vars
<1>9. QED
  BY <1>3, <1>4, <1>5, <1>6, <1>7, <1>8 DEF Next, Take

\* However a wait ends - a permit, its timeout or a signal - and however often
\* the loop goes round, sem->sleepers keeps count of the threads that wait: it
\* never goes below 0 nor above the number of callers.
THEOREM SleepersAreCounted == Spec => []SleepersCounted
<1> USE SemaphoreAssumption DEF SemaphoreAssumption
<1>1. Init => SleepersCounted
  <2> SUFFICES ASSUME Init PROVE SleepersCounted
    OBVIOUS
  <2>1. Waiting = {} /\ sleepers = 0
    BY DEF Init, Waiting
  <2>2. QED
    BY <2>1, FS_EmptySet DEF SleepersCounted
<1>2. TypeOK /\ SleepersCounted /\ [Next]_vars => SleepersCounted'
  <2> SUFFICES ASSUME TypeOK, SleepersCounted, [Next]_vars PROVE SleepersCounted'
    OBVIOUS
  <2>1. IsFiniteSet(Waiting) /\ sleepers = Cardinality(Waiting) /\ Cardinality(Waiting) \in Nat
    <3>1. Waiting \in SUBSET Takers
      BY DEF Waiting
    <3>2. QED
      BY <3>1, FS_Subset, FS_CardinalityType DEF SleepersCounted
  <2>2. CASE Waiting' = Waiting /\ sleepers' = sleepers
    BY <2>1, <2>2 DEF SleepersCounted
  <2>3. ASSUME NEW t \in Takers \ Waiting, Waiting' = Waiting \cup {t}, sleepers' = sleepers + 1
        PROVE  SleepersCounted'
    <3>1. Cardinality(Waiting') = Cardinality(Waiting) + 1
      BY <2>1, <2>3, FS_AddElement
    <3>2. QED
      BY <2>1, <2>3, <3>1 DEF SleepersCounted
  <2>4. ASSUME NEW t \in Waiting, Waiting' = Waiting \ {t}, sleepers' = sleepers - 1
        PROVE  SleepersCounted'
    <3>1. Cardinality(Waiting') = Cardinality(Waiting) - 1
      BY <2>1, <2>4, FS_RemoveElement
    <3>2. QED
      BY <2>1, <2>4, <3>1 DEF SleepersCounted
  <2>5. QED
    BY <2>2, <2>3, <2>4, WaitingSteps
<1>3. QED
  BY <1>1, <1>2, TypeCorrect, PTL DEF Spec

\* With one caller at a time, as when the callers of socDma take turns, the gap
\* between the test of the counter and its decrement is harmless: the decrement
\* never loses, so the counter never owes anything to a later give.
THEOREM LoneTakerWins ==
  ASSUME Cardinality(Takers) = 1
  PROVE  Spec => [](LoneTaker /\ count >= 0)
<1>1. TypeOK /\ DebtBounded => LoneTaker /\ count >= 0
  <2> SUFFICES ASSUME TypeOK, DebtBounded PROVE LoneTaker /\ count >= 0
    OBVIOUS
  <2>1. count \in Int /\ IsFiniteSet(Deciding)
    <3>1. Deciding \in SUBSET Takers
      BY DEF Deciding
    <3>2. QED
      BY <3>1, SemaphoreAssumption, FS_Subset DEF TypeOK, SemaphoreAssumption
  <2>2. Cardinality(Deciding) \in Nat /\ (Cardinality(Deciding) = 0 => Deciding = {})
    BY <2>1, FS_CardinalityType, FS_EmptySet
  <2>3. count >= Cardinality(Deciding)
    BY <2>1, <2>2 DEF DebtBounded
  <2>4. Deciding # {} => count >= 1
    BY <2>1, <2>2, <2>3
  <2>5. QED
    BY <2>1, <2>2, <2>3, <2>4 DEF LoneTaker, Deciding
<1>2. QED
  BY <1>1, TypeCorrect, DebtIsBounded, PTL
=============================================================================
