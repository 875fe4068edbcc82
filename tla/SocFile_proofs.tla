---------------------------- MODULE SocFile_proofs ----------------------------
(***************************************************************************)
(* At most one descriptor is open for writing: a theorem about SocFile for *)
(* any set of threads, with or without signals.                            *)
(*                                                                         *)
(* WriterExclusive is not inductive: it says nothing of the counter the    *)
(* open tests.  The invariant below ties the three together - who is       *)
(* inside is who holds sem; a thread that has been counted in and not yet  *)
(* counted out is the only one, and writers is then not 0; and a thread    *)
(* that is about to be counted in has seen 0.                              *)
(***************************************************************************)
EXTENDS SocFile, FiniteSetTheorems, TLAPS

\* The threads whose increment of writers has not been undone.
Counted ==
  {t \in Threads : writable[t] /\ pc[t] \in {"opened", "file", "release?", "uncount"}}

\* Being inside and holding the semaphore are the same.
HolderInside == \A t \in Threads : pc[t] \in Holding <=> sem = t

\* One thread at most is counted, and the counter shows it.
OneCounted ==
  /\ \A t, u \in Counted : t = u
  /\ Counted # {} => writers > 0

\* Between the test and the increment the counter stays 0.
TestStillHolds ==
  \A t \in Threads : pc[t] = "count" => writable[t] /\ writers = 0

\* Between its decrement and its up a writer is the last one.
LastWriterOut ==
  \A t \in Threads : writable[t] /\ pc[t] = "closing" => Counted = {}

FileInv == TypeOK /\ HolderInside /\ OneCounted /\ TestStillHolds /\ LastWriterOut

USE FileAssumption DEF FileAssumption

\* Nobody is inside and nobody is counted when probe has set the device up.
LEMMA InitInv == Init => FileInv
BY DEF Init, FileInv, TypeOK, HolderInside, OneCounted, TestStillHolds,
       LastWriterOut, Counted, Holding, Waiting

\* No step of open, release or /proc breaks FileInv.  Each step is by
\* its thread alone; only TestWriters, CountWriter and UncountWriter touch
\* what the invariant relates, and they run while their thread holds sem.
LEMMA StepInv == FileInv /\ [Next]_vars => FileInv'
<1> SUFFICES ASSUME FileInv, [Next]_vars PROVE FileInv'
  OBVIOUS
<1> USE DEF FileInv, TypeOK, HolderInside, OneCounted, TestStillHolds,
            LastWriterOut, Counted, Holding, Waiting, Goto, Down, Up, Interrupted
<1>1. ASSUME NEW t \in Threads, CallOpen(t) PROVE FileInv'
  BY <1>1 DEF CallOpen
<1>2. ASSUME NEW t \in Threads, OpenInterrupted(t) PROVE FileInv'
  BY <1>2 DEF OpenInterrupted
<1>3. ASSUME NEW t \in Threads, EnterOpen(t) PROVE FileInv'
  BY <1>3 DEF EnterOpen
<1>4. ASSUME NEW t \in Threads, TestWriters(t) PROVE FileInv'
  BY <1>4 DEF TestWriters
<1>5. ASSUME NEW t \in Threads, Busy(t) PROVE FileInv'
  BY <1>5 DEF Busy
<1>6. ASSUME NEW t \in Threads, CountWriter(t) PROVE FileInv'
  BY <1>6 DEF CountWriter
<1>7. ASSUME NEW t \in Threads, Opened(t) PROVE FileInv'
  BY <1>7 DEF Opened
<1>8. ASSUME NEW t \in Threads, CallRelease(t) PROVE FileInv'
  BY <1>8 DEF CallRelease
<1>9. ASSUME NEW t \in Threads, ReleaseInterrupted(t) PROVE FileInv'
  BY <1>9 DEF ReleaseInterrupted
<1>10. ASSUME NEW t \in Threads, EnterRelease(t) PROVE FileInv'
  BY <1>10 DEF EnterRelease
<1>11. ASSUME NEW t \in Threads, UncountWriter(t) PROVE FileInv'
  BY <1>11 DEF UncountWriter
<1>12. ASSUME NEW t \in Threads, Closed(t) PROVE FileInv'
  BY <1>12 DEF Closed
<1>13. ASSUME NEW t \in Threads, CallShow(t) \/ ShowInterrupted(t) PROVE FileInv'
  BY <1>13 DEF CallShow, ShowInterrupted
<1>14. ASSUME NEW t \in Threads, EnterShow(t) \/ Shown(t) PROVE FileInv'
  BY <1>14 DEF EnterShow, Shown
<1>15. CASE UNCHANGED vars
  BY <1>15 DEF vars
<1>16. QED
  BY <1>1, <1>2, <1>3, <1>4, <1>5, <1>6, <1>7, <1>8, <1>9, <1>10, <1>11,
     <1>12, <1>13, <1>14, <1>15 DEF Next, Enter, Inside

\* The type invariant; in particular the u32 counter writers never wraps
\* below 0.
THEOREM TypeCorrect == Spec => []TypeOK
<1>1. FileInv => TypeOK
  BY DEF FileInv
<1>2. QED
  BY <1>1, InitInv, StepInv, PTL DEF Spec

\* soc_miner_open never lets a second writer in.
THEOREM OneWriter == Spec => []WriterExclusive
<1>1. FileInv => WriterExclusive
  BY DEF FileInv, WriterExclusive, Writers, HasFile, OneCounted, LastWriterOut,
         Counted, HolderInside, Holding, TypeOK
<1>2. QED
  BY <1>1, InitInv, StepInv, PTL DEF Spec
-----------------------------------------------------------------------------
\* The threads that have a descriptor.
Open == {t \in Threads : pc[t] \in HasFile}

\* CountsBalance, stated for threads that are inside as well.
BalanceInv ==
  /\ writers = Cardinality(Counted) + skipped["writer"]
  /\ opens = closes + skipped["reader"] + skipped["writer"] + Cardinality(Open)

\* The sets that BalanceInv counts are finite.
LEMMA FiniteCounts ==
  /\ IsFiniteSet(Counted) /\ Cardinality(Counted) \in Nat
  /\ IsFiniteSet(Open) /\ Cardinality(Open) \in Nat
<1>1. Counted \in SUBSET Threads /\ Open \in SUBSET Threads
  BY DEF Counted, Open
<1>2. QED
  BY <1>1, FS_Subset, FS_CardinalityType

\* Whoever moves in or out of the counted sets moves the counters with it.
LEMMA StepBalance == FileInv /\ BalanceInv /\ [Next]_vars => BalanceInv'
<1> SUFFICES ASSUME FileInv, BalanceInv, [Next]_vars PROVE BalanceInv'
  OBVIOUS
<1> USE FiniteCounts DEF Goto, Down, Up, Interrupted
<1>1. TypeOK
  BY DEF FileInv
<1>2. CASE Counted' = Counted /\ Open' = Open
            /\ UNCHANGED <<writers, opens, closes, skipped>>
  BY <1>2 DEF BalanceInv
<1>3. ASSUME NEW t \in Threads, CountWriter(t) PROVE BalanceInv'
  <2>1. t \notin Counted /\ Counted' = Counted \cup {t} /\ Open' = Open
    BY <1>1, <1>3 DEF CountWriter, Counted, Open, HasFile, TypeOK, FileInv, TestStillHolds
  <2>2. Cardinality(Counted') = Cardinality(Counted) + 1
    BY <2>1, FS_AddElement
  <2>3. QED
    BY <1>1, <1>3, <2>1, <2>2 DEF CountWriter, BalanceInv, TypeOK
<1>4. ASSUME NEW t \in Threads, Opened(t) PROVE BalanceInv'
  <2>1. t \notin Open /\ Open' = Open \cup {t} /\ Counted' = Counted
    BY <1>1, <1>4 DEF Opened, Counted, Open, HasFile, TypeOK
  <2>2. Cardinality(Open') = Cardinality(Open) + 1
    BY <2>1, FS_AddElement
  <2>3. QED
    BY <1>1, <1>4, <2>1, <2>2 DEF Opened, BalanceInv, TypeOK
<1>5. ASSUME NEW t \in Threads, ReleaseInterrupted(t) PROVE BalanceInv'
  <2>1. t \in Open /\ Open' = Open \ {t}
    BY <1>1, <1>5 DEF ReleaseInterrupted, Open, HasFile, TypeOK
  <2>2. Cardinality(Open') = Cardinality(Open) - 1
    BY <2>1, FS_RemoveElement
  <2>3. CASE writable[t]
    <3>1. t \in Counted /\ Counted' = Counted \ {t}
      BY <1>1, <1>5, <2>3 DEF ReleaseInterrupted, Counted, TypeOK
    <3>2. Cardinality(Counted') = Cardinality(Counted) - 1
      BY <3>1, FS_RemoveElement
    <3>3. QED
      BY <1>1, <1>5, <2>2, <2>3, <3>2 DEF ReleaseInterrupted, BalanceInv, TypeOK
  <2>4. CASE ~writable[t]
    <3>1. Counted' = Counted
      BY <1>1, <1>5, <2>4 DEF ReleaseInterrupted, Counted, TypeOK
    <3>2. QED
      BY <1>1, <1>5, <2>2, <2>4, <3>1 DEF ReleaseInterrupted, BalanceInv, TypeOK
  <2>5. QED
    BY <2>3, <2>4
<1>6. ASSUME NEW t \in Threads, UncountWriter(t) PROVE BalanceInv'
  <2>1. Open' = Open
    BY <1>1, <1>6 DEF UncountWriter, Open, HasFile, TypeOK
  <2>2. CASE writable[t]
    <3>1. t \in Counted /\ Counted' = Counted \ {t}
      BY <1>1, <1>6, <2>2 DEF UncountWriter, Counted, TypeOK
    <3>2. Cardinality(Counted') = Cardinality(Counted) - 1
      BY <3>1, FS_RemoveElement
    <3>3. QED
      BY <1>1, <1>6, <2>1, <2>2, <3>2 DEF UncountWriter, BalanceInv, TypeOK
  <2>3. CASE ~writable[t]
    <3>1. Counted' = Counted
      BY <1>1, <1>6, <2>3 DEF UncountWriter, Counted, TypeOK
    <3>2. QED
      BY <1>1, <1>6, <2>1, <2>3, <3>1 DEF UncountWriter, BalanceInv, TypeOK
  <2>4. QED
    BY <2>2, <2>3
<1>7. ASSUME NEW t \in Threads, Closed(t) PROVE BalanceInv'
  <2>1. t \in Open /\ Open' = Open \ {t} /\ Counted' = Counted
    BY <1>1, <1>7 DEF Closed, Counted, Open, HasFile, TypeOK
  <2>2. Cardinality(Open') = Cardinality(Open) - 1
    BY <2>1, FS_RemoveElement
  <2>3. QED
    BY <1>1, <1>7, <2>1, <2>2 DEF Closed, BalanceInv, TypeOK
<1>8. ASSUME NEW t \in Threads,
             \/ CallOpen(t) \/ OpenInterrupted(t) \/ EnterOpen(t)
             \/ TestWriters(t) \/ Busy(t)
      PROVE  BalanceInv'
  <2>1. Counted' = Counted /\ Open' = Open
    BY <1>1, <1>8 DEF CallOpen, OpenInterrupted, EnterOpen, TestWriters, Busy,
                      Counted, Open, HasFile, TypeOK
  <2>2. UNCHANGED <<writers, opens, closes, skipped>>
    BY <1>8 DEF CallOpen, OpenInterrupted, EnterOpen, TestWriters, Busy
  <2>3. QED
    BY <1>2, <2>1, <2>2
<1>9. ASSUME NEW t \in Threads,
             \/ CallRelease(t) \/ EnterRelease(t)
             \/ CallShow(t) \/ ShowInterrupted(t) \/ EnterShow(t) \/ Shown(t)
      PROVE  BalanceInv'
  <2>1. Counted' = Counted /\ Open' = Open
    BY <1>1, <1>9 DEF CallRelease, EnterRelease, CallShow, ShowInterrupted, EnterShow,
                      Shown, Counted, Open, HasFile, TypeOK
  <2>2. UNCHANGED <<writers, opens, closes, skipped>>
    BY <1>9 DEF CallRelease, EnterRelease, CallShow, ShowInterrupted, EnterShow, Shown
  <2>3. QED
    BY <1>2, <2>1, <2>2
<1>10. CASE UNCHANGED vars
  BY <1>2, <1>10 DEF vars, Counted, Open
<1>11. QED
  BY <1>3, <1>4, <1>5, <1>6, <1>7, <1>8, <1>9, <1>10 DEF Next, Enter, Inside

\* The reference count and the statistics of /proc are off by exactly the
\* releases that a signal ended.
THEOREM Balance == Spec => []CountsBalance
<1>1. Init => BalanceInv
  <2> SUFFICES ASSUME Init PROVE BalanceInv
    OBVIOUS
  <2>1. Counted = {} /\ Open = {}
    BY DEF Init, Counted, Open, HasFile
  <2>2. QED
    BY <2>1, FS_EmptySet DEF Init, BalanceInv
<1>2. FileInv /\ BalanceInv => CountsBalance
  <2> SUFFICES ASSUME FileInv, BalanceInv, sem = None
               PROVE  /\ writers = Cardinality(Writers) + skipped["writer"]
                      /\ opens = closes + skipped["reader"] + skipped["writer"]
                                   + Cardinality({t \in Threads : pc[t] \in HasFile})
    BY DEF CountsBalance
  <2>1. \A t \in Threads : pc[t] \notin Holding
    BY DEF FileInv, HolderInside
  <2>2. Writers = Counted
    BY <2>1 DEF Writers, Counted, HasFile, Holding
  <2>3. QED
    BY <2>2 DEF BalanceInv, Open
<1>3. QED
  BY <1>1, <1>2, InitInv, StepInv, StepBalance, PTL DEF Spec
-----------------------------------------------------------------------------
\* The threads that are open for writing, or have been counted as such.
Active == Counted \cup Writers

\* Once the release of a writer has been skipped there is no such thread.
LeakInv ==
  /\ skipped["writer"] # 0 => Active = {}
  /\ skipped["writer"] <= 1

\* A writer is counted only when the counter is 0, which it is not once a
\* release has been skipped; and the one writer there is can skip one only.
LEMMA StepLeak == FileInv /\ BalanceInv /\ LeakInv /\ [Next]_vars => LeakInv'
<1> SUFFICES ASSUME FileInv, BalanceInv, LeakInv, [Next]_vars PROVE LeakInv'
  OBVIOUS
<1> USE DEF Goto, Down, Up, Interrupted
<1>1. TypeOK
  BY DEF FileInv
<1>2. skipped["writer"] \in Nat
  BY <1>1 DEF TypeOK
<1>3. CASE Active' \subseteq Active /\ UNCHANGED skipped
  BY <1>3 DEF LeakInv
<1>4. ASSUME NEW t \in Threads, CountWriter(t) PROVE LeakInv'
  <2>1. writers = 0
    BY <1>4 DEF CountWriter, FileInv, TestStillHolds
  <2>2. skipped["writer"] = 0
    BY <1>2, <2>1, FiniteCounts DEF BalanceInv
  <2>3. QED
    BY <1>4, <2>2 DEF CountWriter, LeakInv
<1>5. ASSUME NEW t \in Threads, ReleaseInterrupted(t) PROVE LeakInv'
  <2>1. CASE writable[t]
    <3>1. t \in Counted
      BY <1>5, <2>1 DEF ReleaseInterrupted, Counted
    <3>2. Active = {t}
      BY <3>1 DEF Active, Counted, Writers, HasFile, FileInv, OneCounted, LastWriterOut
    <3>3. Active' = {}
      BY <1>1, <1>5, <3>2 DEF ReleaseInterrupted, Active, Counted, Writers, HasFile, TypeOK
    <3>4. skipped["writer"] = 0
      BY <3>2 DEF LeakInv
    <3>5. skipped'["writer"] = 1
      BY <1>1, <1>5, <2>1, <3>4 DEF ReleaseInterrupted, TypeOK
    <3>6. QED
      BY <3>3, <3>5 DEF LeakInv
  <2>2. CASE ~writable[t]
    <3>1. Active' \subseteq Active
      BY <1>1, <1>5, <2>2 DEF ReleaseInterrupted, Active, Counted, Writers, HasFile, TypeOK
    <3>2. skipped'["writer"] = skipped["writer"]
      BY <1>1, <1>5, <2>2 DEF ReleaseInterrupted, TypeOK
    <3>3. QED
      BY <3>1, <3>2 DEF LeakInv
  <2>3. QED
    BY <2>1, <2>2
<1>6. ASSUME NEW t \in Threads,
             \/ CallOpen(t) \/ OpenInterrupted(t) \/ EnterOpen(t)
             \/ TestWriters(t) \/ Busy(t) \/ Opened(t)
      PROVE  LeakInv'
  <2>1. UNCHANGED skipped
    BY <1>6 DEF CallOpen, OpenInterrupted, EnterOpen, TestWriters, Busy, Opened
  <2>2. Active' \subseteq Active
    BY <1>1, <1>6 DEF CallOpen, OpenInterrupted, EnterOpen, TestWriters, Busy, Opened,
                      Active, Counted, Writers, HasFile, TypeOK
  <2>3. QED
    BY <1>3, <2>1, <2>2
<1>7. ASSUME NEW t \in Threads,
             \/ CallRelease(t) \/ EnterRelease(t) \/ UncountWriter(t) \/ Closed(t)
             \/ CallShow(t) \/ ShowInterrupted(t) \/ EnterShow(t) \/ Shown(t)
      PROVE  LeakInv'
  <2>1. UNCHANGED skipped
    BY <1>7 DEF CallRelease, EnterRelease, UncountWriter, Closed, CallShow,
                ShowInterrupted, EnterShow, Shown
  <2>2. Active' \subseteq Active
    BY <1>1, <1>7 DEF CallRelease, EnterRelease, UncountWriter, Closed, CallShow,
                      ShowInterrupted, EnterShow, Shown, Active,
                      Counted, Writers, HasFile, TypeOK
  <2>3. QED
    BY <1>3, <2>1, <2>2
<1>8. CASE UNCHANGED vars
  BY <1>3, <1>8 DEF vars, Active, Counted, Writers
<1>9. QED
  BY <1>4, <1>5, <1>6, <1>7, <1>8 DEF Next, Enter, Inside

\* The three together.
AllInv == FileInv /\ BalanceInv /\ LeakInv

\* The three invariants together are inductive.
LEMMA Inductive == (Init => AllInv) /\ (AllInv /\ [Next]_vars => AllInv')
<1>1. Init => BalanceInv /\ LeakInv
  <2> SUFFICES ASSUME Init PROVE BalanceInv /\ LeakInv
    OBVIOUS
  <2>1. Counted = {} /\ Open = {}
    BY DEF Init, Counted, Open, HasFile
  <2>2. QED
    BY <2>1, FS_EmptySet DEF Init, BalanceInv, LeakInv
<1>2. QED
  BY <1>1, InitInv, StepInv, StepBalance, StepLeak DEF AllInv

\* "Manage writes via reference counts": the count of a driver for one writer
\* is a bit, also while calls are inside and after releases were interrupted.
WritersIsABit == writers \in {0, 1}

\* The counter of writers (soc_miner.c 916-975) is never more than 1.
THEOREM CountIsABit == Spec => []WritersIsABit
<1>1. AllInv => WritersIsABit
  <2> SUFFICES ASSUME AllInv PROVE WritersIsABit
    OBVIOUS
  <2>1. writers = Cardinality(Counted) + skipped["writer"] /\ skipped["writer"] \in Nat
    BY DEF AllInv, BalanceInv, FileInv, TypeOK
  <2>2. CASE Counted = {}
    BY <2>1, <2>2, FS_EmptySet DEF AllInv, LeakInv, WritersIsABit
  <2>3. CASE Counted # {}
    <3>1. PICK t \in Threads : Counted = {t}
      BY <2>3 DEF AllInv, FileInv, OneCounted, Counted
    <3>2. Cardinality(Counted) = 1
      BY <3>1, FS_Singleton
    <3>3. skipped["writer"] = 0
      BY <2>3 DEF AllInv, LeakInv, Active
    <3>4. QED
      BY <2>1, <3>2, <3>3 DEF WritersIsABit
  <2>4. QED
    BY <2>2, <2>3
<1>2. QED
  BY <1>1, Inductive, PTL DEF Spec

\* The leak of the run FileLeak has one cause: while no signal ends a
\* down_interruptible, the count of a device that nobody writes is 0.
THEOREM OnlySignalsLeak == ~Signals => (Spec => []WriterAdmitted)
<1> SUFFICES ASSUME ~Signals PROVE Spec => []WriterAdmitted
  OBVIOUS
<1> DEFINE Inv == AllInv /\ skipped["writer"] = 0
<1>1. Init => Inv
  BY Inductive DEF Init
<1>2. Inv /\ [Next]_vars => Inv'
  <2> SUFFICES ASSUME Inv, [Next]_vars PROVE skipped'["writer"] = 0
    BY Inductive
  <2>1. skipped' = skipped
    BY DEF Next, vars, Enter, Inside, CallOpen, OpenInterrupted, EnterOpen, TestWriters,
           Busy, CountWriter, Opened, CallRelease, ReleaseInterrupted, EnterRelease,
           UncountWriter, Closed, CallShow, ShowInterrupted, EnterShow, Shown, Interrupted
  <2>2. QED
    BY <2>1
<1>3. Inv => WriterAdmitted
  <2> SUFFICES ASSUME Inv, sem = None, Writers = {} PROVE writers = 0
    BY DEF WriterAdmitted
  <2>1. \A t \in Threads : pc[t] \notin Holding
    BY DEF AllInv, FileInv, HolderInside
  <2>2. Writers = Counted
    BY <2>1 DEF Writers, Counted, HasFile, Holding
  <2>3. QED
    BY <2>2, FS_EmptySet DEF AllInv, BalanceInv
<1>4. QED
  BY <1>1, <1>2, <1>3, PTL DEF Spec

\* And it has one consequence, for good: once the release of a writer has been
\* interrupted nobody opens the device for writing again (open answers -EBUSY
\* until the driver is loaded anew).
THEOREM LeakIsForEver ==
  Spec => []((skipped["writer"] > 0) => [](Writers = {}))
<1> DEFINE Leaked == skipped["writer"] > 0
<1>1. AllInv /\ Leaked => Writers = {}
  BY DEF AllInv, LeakInv, Active
<1>2. AllInv /\ Leaked /\ [Next]_vars => Leaked'
  <2> SUFFICES ASSUME AllInv, Leaked, [Next]_vars PROVE Leaked'
    OBVIOUS
  <2>1. TypeOK
    BY DEF AllInv, FileInv
  <2>2. ASSUME NEW t \in Threads, ReleaseInterrupted(t) PROVE Leaked'
    BY <2>1, <2>2 DEF ReleaseInterrupted, TypeOK
  <2>3. (\E t \in Threads : ReleaseInterrupted(t)) \/ skipped' = skipped
    BY DEF Next, vars, Enter, Inside, CallOpen, OpenInterrupted, EnterOpen, TestWriters,
           Busy, CountWriter, Opened, CallRelease, EnterRelease,
           UncountWriter, Closed, CallShow, ShowInterrupted, EnterShow, Shown
  <2>4. QED
    BY <2>2, <2>3
<1>3. QED
  BY <1>1, <1>2, Inductive, PTL DEF Spec
=============================================================================
