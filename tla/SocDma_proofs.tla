---------------------------- MODULE SocDma_proofs ----------------------------
(***************************************************************************)
(* As long as calls of socDma do not overlap, no wait has failed and no    *)
(* other device has interrupted (CalmSpec), for any processes, any number  *)
(* of pages and any memory system: what launchDma waits for is the access  *)
(* it has launched, and that access is to a page that is still mapped.     *)
(*                                                                         *)
(* The invariant says where the one access is.  While nobody waits, the    *)
(* engine, the interrupt line and the semaphore are at rest; while a       *)
(* process waits, its access is in exactly one place on the way from the   *)
(* GO bit to the semaphore.                                                *)
(*                                                                         *)
(* The last sections are about any behaviour: a completion is left over    *)
(* only by a wait that failed or by another device, and every step of a    *)
(* call and of the hardware uses up some of the work that is left.         *)
(***************************************************************************)
EXTENDS SocDma, FiniteSetTheorems, TLAPS

\* What the theorems ask of a step: afterwards no two callers are inside, no
\* wait has failed, and the handler has not run for another device.
CalmNext ==
  /\ Next
  /\ MutualExclusion'
  /\ ~SharedIsr
  /\ \A p \in Procs : ~NotTaken(p)

\* The behaviours in which it so happens, whatever could have happened.
CalmSpec == Init /\ [][CalmNext]_vars

\* The instances in which nothing else can happen.
Orderly == TakeTurns /\ Faults \subseteq {"alloc", "range"}

NoRead == ~ar /\ reads = <<>>
NoWrite == ~aw /\ writes = <<>> /\ ~cnt_en /\ ~w /\ beats = 0
NothingDone == ~irq /\ sem = 0

\* The engine reads page a: the address is offered, or it has been accepted.
ReadRuns(a) ==
  /\ NoWrite /\ NothingDone /\ src = a
  /\ (ar /\ reads = <<>>) \/ (~ar /\ reads = <<a>>)

\* The engine writes page a: its address and its data are on their own ways.
WriteRuns(a) ==
  /\ NoRead /\ NothingDone /\ dst = a
  /\ (aw /\ writes = <<>>) \/ (~aw /\ writes = <<a>>)
  /\ \/ cnt_en /\ ~w /\ beats = 0
     \/ ~cnt_en /\ w /\ beats = 0
     \/ ~cnt_en /\ ~w /\ beats = 1

\* The access has been answered: its interrupt is pending or has been handled.
AccessDone ==
  /\ NoRead /\ NoWrite
  /\ (irq /\ sem = 0) \/ (~irq /\ sem = 1)

Launched(p) ==
  \/ /\ IF write[p] THEN ReadRuns(Descriptor(p)) ELSE WriteRuns(Descriptor(p))
     /\ moved[p] = 1 .. sg[p]
  \/ /\ AccessDone
     /\ moved[p] = 1 .. (sg[p] + 1)

Alone == \A p, q \in Procs : Inside(p) /\ Inside(q) => p = q

AtRest ==
  (\A p \in Procs : pc[p] # "wait") => NoRead /\ NoWrite /\ NothingDone

\* What is true of one process, by its place in socDma.
Place(p) ==
  /\ pc[p] = "idle" => sg[p] = 0 /\ total[p] = 0
  /\ pc[p] \in {"address", "other", "go", "wait"} => sg[p] < total[p]
  /\ pc[p] \in {"other", "go"} => Descriptor(p) = IF write[p] THEN src ELSE dst
  /\ pc[p] = "wait" => Launched(p)
  /\ pc[p] # "wait" => moved[p] = 1 .. sg[p]
  /\ pc[p] = "finish" /\ result[p] = "ok" => 0 < total[p] /\ sg[p] = total[p]

DmaInv == TypeOK /\ Alone /\ AtRest /\ \A p \in Procs : Place(p)

USE DmaAssumption DEF DmaAssumption

-----------------------------------------------------------------------------
\* At reset nobody is inside and everything is at rest.
LEMMA InitInv == Init => DmaInv
<1> SUFFICES ASSUME Init PROVE DmaInv
  OBVIOUS
<1>1. TypeOK
  <2>1. /\ pc \in [Procs -> {"idle", "address", "other", "go", "wait", "finish"}]
        /\ write \in [Procs -> BOOLEAN]
        /\ total \in [Procs -> 0 .. MaxPages] /\ sg \in [Procs -> 0 .. MaxPages]
        /\ result \in [Procs -> {"ok", "error"}]
        /\ moved \in [Procs -> SUBSET (1 .. MaxPages)]
    BY DEF Init, NoCalls
  <2>2. Ascii \in Addr /\ <<>> \in Seq(Addr)
    BY DEF Addr
  <2>3. QED
    BY <2>1, <2>2 DEF Init, QuietEngine, TypeOK
<1>2. Alone /\ \A p \in Procs : Place(p)
  BY DEF Init, NoCalls, Alone, Inside, Place
<1>3. AtRest
  BY DEF Init, QuietEngine, AtRest, NoRead, NoWrite, NothingDone
<1>4. QED
  BY <1>1, <1>2, <1>3 DEF DmaInv

\* A process inside is the only one.
LEMMA OthersIdle ==
  ASSUME DmaInv, NEW p \in Procs, Inside(p)
  PROVE  \A q \in Procs \ {p} : pc[q] = "idle"
BY DEF DmaInv, Alone, Inside

\* Everything is at rest when the one process inside does not wait.
LEMMA RestsWith ==
  ASSUME DmaInv, NEW p \in Procs, Inside(p), pc[p] # "wait"
  PROVE  NoRead /\ NoWrite /\ NothingDone
BY OthersIdle DEF DmaInv, AtRest, Inside

\* A step that only p's variables take part in leaves the others idle.
LEMMA OthersStay ==
  ASSUME DmaInv, NEW p \in Procs,
         \A q \in Procs \ {p} : /\ pc[q] = "idle" /\ pc'[q] = pc[q]
                                /\ sg'[q] = sg[q] /\ moved'[q] = moved[q]
                                /\ total'[q] = total[q]
  PROVE  Alone' /\ \A q \in Procs \ {p} : Place(q)'
<1>1. Alone'
  BY DEF Alone, Inside
<1>2. ASSUME NEW q \in Procs \ {p} PROVE Place(q)'
  <2>1. Place(q) /\ pc[q] = "idle"
    BY DEF DmaInv
  <2>2. pc'[q] = "idle" /\ sg'[q] = 0 /\ total'[q] = 0 /\ moved'[q] = 1 .. sg'[q]
    BY <2>1 DEF Place
  <2>3. QED
    BY <2>2 DEF Place
<1>3. QED
  BY <1>1, <1>2

\* The page a process works on is one of its own.
LEMMA DescriptorIsPage ==
  ASSUME DmaInv, NEW p \in Procs, pc[p] \in {"address", "other", "go", "wait"}
  PROVE  Descriptor(p) \in Page /\ sg[p] + 1 \in 1 .. MaxPages
<1>1. sg[p] \in 0 .. MaxPages /\ total[p] \in 0 .. MaxPages /\ sg[p] < total[p]
  BY DEF DmaInv, TypeOK, Place
<1>2. QED
  BY <1>1 DEF Descriptor, Page

-----------------------------------------------------------------------------
(* The steps of socDma and launchDma before the GO *)

LEMMA EntersAlone ==
  ASSUME DmaInv, NEW p \in Procs, Prepare(p) \/ MapFails(p), MutualExclusion'
  PROVE  \A q \in Procs : pc[q] = "idle"
<1>1. pc[p] = "idle" /\ pc'[p] # "idle" /\ \A q \in Procs \ {p} : pc'[q] = pc[q]
  BY DEF Prepare, MapFails, MayEnter, DmaInv, TypeOK
<1>2. QED
  BY <1>1 DEF MutualExclusion, Inside

\* Who enters alone finds everything at rest and leaves it so.
LEMMA EnterStep ==
  ASSUME DmaInv, NEW p \in Procs, Prepare(p) \/ MapFails(p), MutualExclusion'
  PROVE  DmaInv'
<1> USE DEF Prepare, MapFails, readVars, writeVars
<1>1. pc[p] = "idle" /\ \A q \in Procs : pc[q] = "idle"
  BY EntersAlone
<1>2. TypeOK'
  <2>1. CASE Prepare(p)
    <3>1. \A d \in Directions[p] : d \in BOOLEAN
      OBVIOUS
    <3>2. QED
      BY <2>1, <3>1 DEF DmaInv, TypeOK
  <2>2. CASE MapFails(p)
    <3>1. \A d \in Directions[p] : d \in BOOLEAN
      OBVIOUS
    <3>2. QED
      BY <2>2, <3>1 DEF DmaInv, TypeOK
  <2>3. QED
    BY <2>1, <2>2
<1>3. /\ pc'[p] \in {"address", "finish"}
      /\ \A q \in Procs \ {p} : pc'[q] = pc[q] /\ total'[q] = total[q]
  BY DEF DmaInv, TypeOK
<1>4. UNCHANGED <<sg, moved, readVars, writeVars, irq, sem>>
  OBVIOUS
<1>5. Alone' /\ \A q \in Procs \ {p} : Place(q)'
  BY <1>1, <1>3, <1>4, OthersStay
<1>6. AtRest'
  <2>1. NoRead /\ NoWrite /\ NothingDone
    BY <1>1 DEF DmaInv, AtRest
  <2>2. QED
    BY <2>1, <1>4 DEF AtRest, NoRead, NoWrite, NothingDone
<1>7. Place(p)'
  <2>1. sg[p] = 0 /\ moved[p] = 1 .. sg[p]
    BY <1>1 DEF DmaInv, Place
  <2>2. \/ pc'[p] = "address" /\ total'[p] > 0
        \/ pc'[p] = "finish" /\ result'[p] = "error"
    <3>1. CASE Prepare(p)
      <4>1. PICK n \in 1 .. MaxPages : total' = [total EXCEPT ![p] = n]
        BY <3>1
      <4>2. n > 0 /\ total'[p] = n
        BY <4>1 DEF DmaInv, TypeOK
      <4>3. pc'[p] = "address"
        BY <3>1 DEF DmaInv, TypeOK
      <4>4. QED
        BY <4>2, <4>3
    <3>2. CASE MapFails(p)
      BY <3>2 DEF DmaInv, TypeOK
    <3>3. QED
      BY <3>1, <3>2
  <2>3. QED
    BY <1>3, <1>4, <2>1, <2>2 DEF Place
<1>8. QED
  BY <1>2, <1>5, <1>6, <1>7 DEF DmaInv

\* Up to the GO nothing is put on its way, and an address that is out of
\* range ends the call with nothing under way.
LEMMA LaunchStep ==
  ASSUME DmaInv, NEW p \in Procs,
         OutOfRange(p) \/ WriteAddress(p) \/ WriteOther(p)
  PROVE  DmaInv'
<1> USE DEF OutOfRange, Fail, WriteAddress, WriteOther, readVars, writeVars
<1>1. Inside(p) /\ pc[p] \in {"address", "other"}
  BY DEF Inside
<1>2. pc'[p] \in {"other", "go", "finish"} /\ \A q \in Procs \ {p} : pc'[q] = pc[q]
  BY DEF DmaInv, TypeOK
<1>3. UNCHANGED <<write, total, sg, moved, readVars, writeVars, irq, sem>>
  OBVIOUS
<1>4. Descriptor(p) \in Page
  BY <1>1, DescriptorIsPage
<1>5. TypeOK'
  BY <1>4 DEF DmaInv, TypeOK, Addr
<1>6. Alone' /\ \A q \in Procs \ {p} : Place(q)'
  BY <1>1, <1>2, <1>3, OthersIdle, OthersStay
<1>7. AtRest'
  <2>1. NoRead /\ NoWrite /\ NothingDone
    BY <1>1, RestsWith
  <2>2. QED
    BY <2>1, <1>3 DEF AtRest, NoRead, NoWrite, NothingDone
<1>8. Place(p)'
  <2>1. sg[p] < total[p] /\ moved[p] = 1 .. sg[p]
    BY <1>1 DEF DmaInv, Place
  <2>2. Descriptor(p)' = Descriptor(p)
    BY <1>3 DEF Descriptor
  <2>3. pc'[p] \in {"other", "go"} => Descriptor(p) = IF write[p] THEN src' ELSE dst'
    BY DEF DmaInv, TypeOK, Place
  <2>4. pc'[p] = "finish" => result'[p] = "error"
    BY DEF DmaInv, TypeOK
  <2>5. QED
    BY <1>2, <1>3, <2>1, <2>2, <2>3, <2>4 DEF Place
<1>9. QED
  BY <1>5, <1>6, <1>7, <1>8 DEF DmaInv
-----------------------------------------------------------------------------
(* The GO, the wait and the end of the call *)

\* The GO starts the access to the process's current page.
LEMMA GoStep ==
  ASSUME DmaInv, NEW p \in Procs, Go(p)
  PROVE  DmaInv'
<1> USE DEF Go, readVars, writeVars
<1>1. Inside(p) /\ pc[p] = "go"
  BY DEF Inside
<1>2. pc'[p] = "wait" /\ \A q \in Procs \ {p} : pc'[q] = pc[q]
  BY DEF DmaInv, TypeOK
<1>3. NoRead /\ NoWrite /\ NothingDone
  BY <1>1, RestsWith
<1>4. TypeOK'
  BY DEF DmaInv, TypeOK
<1>5. Alone' /\ \A q \in Procs \ {p} : Place(q)'
  BY <1>1, <1>2, OthersIdle, OthersStay
<1>6. AtRest'
  BY <1>2 DEF AtRest
<1>7. Place(p)'
  <2>1. /\ sg[p] < total[p] /\ moved[p] = 1 .. sg[p]
        /\ Descriptor(p) = IF write[p] THEN src ELSE dst
    BY <1>1 DEF DmaInv, Place
  <2>2. Descriptor(p)' = Descriptor(p)
    BY DEF Descriptor
  <2>3. CASE write[p]
    <3>1. ReadRuns(Descriptor(p))'
      BY <1>3, <2>1, <2>2, <2>3 DEF ReadRuns, NoRead, NoWrite, NothingDone
    <3>2. QED
      BY <1>2, <2>1, <2>3, <3>1 DEF Place, Launched
  <2>4. CASE ~write[p]
    <3>1. WriteRuns(Descriptor(p))'
      BY <1>3, <2>1, <2>2, <2>4 DEF WriteRuns, NoRead, NoWrite, NothingDone
    <3>2. QED
      BY <1>2, <2>1, <2>4, <3>1 DEF Place, Launched
  <2>5. QED
    BY <2>3, <2>4
<1>8. QED
  BY <1>4, <1>5, <1>6, <1>7 DEF DmaInv

\* A permit means that the process's own access is done.
LEMMA PermitMeansDone ==
  ASSUME DmaInv, NEW p \in Procs, pc[p] = "wait", sem > 0
  PROVE  NoRead /\ NoWrite /\ ~irq /\ sem = 1 /\ moved[p] = 1 .. (sg[p] + 1)
<1>1. Launched(p)
  BY DEF DmaInv, Place
<1>2. AccessDone /\ moved[p] = 1 .. (sg[p] + 1)
  BY <1>1 DEF Launched, ReadRuns, WriteRuns, NothingDone
<1>3. QED
  BY <1>2 DEF AccessDone

\* The permit that a wait takes is that of its own access, which is done.
LEMMA TakenStep ==
  ASSUME DmaInv, NEW p \in Procs, Taken(p)
  PROVE  DmaInv'
<1> USE DEF Taken, readVars, writeVars
<1>1. Inside(p) /\ pc[p] = "wait" /\ sem > 0
  BY DEF Inside
<1>2. /\ pc'[p] = (IF sg[p] + 1 < total[p] THEN "address" ELSE "finish")
      /\ sg'[p] = sg[p] + 1
      /\ \A q \in Procs \ {p} : pc'[q] = pc[q] /\ sg'[q] = sg[q]
  BY DEF DmaInv, TypeOK
<1>3. NoRead /\ NoWrite /\ ~irq /\ sem = 1 /\ moved[p] = 1 .. (sg[p] + 1)
  BY <1>1, PermitMeansDone
<1>4. TypeOK'
  <2>1. sg[p] + 1 \in 0 .. MaxPages
    BY <1>1, DescriptorIsPage
  <2>2. QED
    BY <1>3, <2>1 DEF DmaInv, TypeOK
<1>5. Alone' /\ \A q \in Procs \ {p} : Place(q)'
  BY <1>1, <1>2, OthersIdle, OthersStay
<1>6. AtRest'
  BY <1>3 DEF AtRest, NoRead, NoWrite, NothingDone
<1>7. Place(p)'
  <2>1. sg[p] < total[p] /\ sg[p] \in Nat /\ total[p] \in Nat
    BY <1>1 DEF DmaInv, TypeOK, Place
  <2>2. QED
    BY <1>2, <1>3, <2>1 DEF Place
<1>8. QED
  BY <1>4, <1>5, <1>6, <1>7 DEF DmaInv

\* Nothing is left in the engine that the unmapping could pull away.
LEMMA FinishStep ==
  ASSUME DmaInv, NEW p \in Procs, Finish(p)
  PROVE  DmaInv'
<1> USE DEF Finish, readVars, writeVars
<1>1. Inside(p) /\ pc[p] = "finish"
  BY DEF Inside
<1>2. /\ pc'[p] = "idle" /\ sg'[p] = 0 /\ moved'[p] = {} /\ total'[p] = 0
      /\ \A q \in Procs \ {p} : /\ pc'[q] = pc[q] /\ sg'[q] = sg[q]
                               /\ moved'[q] = moved[q] /\ total'[q] = total[q]
  BY DEF DmaInv, TypeOK
<1>3. NoRead /\ NoWrite /\ NothingDone
  BY <1>1, RestsWith
<1>5. TypeOK'
  BY DEF DmaInv, TypeOK
<1>6. Alone' /\ \A q \in Procs \ {p} : Place(q)'
  BY <1>1, <1>2, OthersIdle, OthersStay
<1>7. AtRest'
  BY <1>3 DEF AtRest, NoRead, NoWrite, NothingDone
<1>8. Place(p)'
  <2>1. {} = 1 .. 0
    OBVIOUS
  <2>2. moved'[p] = 1 .. sg'[p]
    BY <1>2, <2>1
  <2>3. QED
    BY <1>2, <2>2 DEF Place
<1>9. QED
  BY <1>5, <1>6, <1>7, <1>8 DEF DmaInv

-----------------------------------------------------------------------------
(* The engine, the memory and the handler *)

\* Somebody waits for what the engine does.
LEMMA SomebodyWaits ==
  ASSUME DmaInv, ~(NoRead /\ NoWrite /\ NothingDone)
  PROVE  \E p \in Procs : pc[p] = "wait"
BY DEF DmaInv, AtRest

\* A step of the engine or of the handler is the waiting process's affair.
LEMMA HardwareStays ==
  ASSUME DmaInv, NEW p \in Procs, pc[p] = "wait", UNCHANGED procVars,
         \A q \in Procs \ {p} : moved'[q] = moved[q],
         TypeOK', Launched(p)'
  PROVE  DmaInv'
<1> USE DEF procVars
<1>1. Inside(p) /\ \A q \in Procs \ {p} : pc[q] = "idle"
  BY OthersIdle DEF Inside
<1>2. Alone' /\ \A q \in Procs \ {p} : Place(q)'
  BY <1>1, OthersStay
<1>3. Place(p)'
  BY DEF DmaInv, Place
<1>4. QED
  BY <1>2, <1>3 DEF DmaInv, AtRest

\* The memory takes the address that the process which waits has written.
LEMMA SourceAddressStep ==
  ASSUME DmaInv, ReadAddress
  PROVE  DmaInv'
<1> USE DEF ReadAddress, procVars, writeVars
<1>1. PICK p \in Procs : pc[p] = "wait"
  BY SomebodyWaits DEF NoRead
<1>2. write[p] /\ ReadRuns(Descriptor(p)) /\ moved[p] = 1 .. sg[p]
  BY <1>1 DEF DmaInv, Place, Launched, WriteRuns, AccessDone, NoRead
<1>3. reads' = <<Descriptor(p)>>
  BY <1>2 DEF ReadRuns
<1>4. TypeOK'
  <2>1. <<Descriptor(p)>> \in Seq(Addr)
    BY <1>1, DescriptorIsPage DEF Addr
  <2>2. QED
    BY <1>3, <2>1 DEF DmaInv, TypeOK
<1>5. Launched(p)'
  <2>1. Descriptor(p)' = Descriptor(p)
    BY DEF Descriptor
  <2>2. ReadRuns(Descriptor(p))'
    BY <1>2, <1>3, <2>1 DEF ReadRuns, NoWrite, NothingDone
  <2>3. QED
    BY <1>2, <2>2 DEF Launched
<1>6. QED
  BY <1>1, <1>4, <1>5, HardwareStays

\* The memory takes the write's address; its data is on a way of its own.
LEMMA DestAddressStep ==
  ASSUME DmaInv, DestAddress
  PROVE  DmaInv'
<1> USE DEF DestAddress, procVars, readVars
<1>1. PICK p \in Procs : pc[p] = "wait"
  BY SomebodyWaits DEF NoWrite
<1>2. ~write[p] /\ WriteRuns(Descriptor(p)) /\ moved[p] = 1 .. sg[p]
  BY <1>1 DEF DmaInv, Place, Launched, ReadRuns, AccessDone, NoWrite
<1>3. writes' = <<Descriptor(p)>>
  BY <1>2 DEF WriteRuns
<1>4. TypeOK'
  <2>1. <<Descriptor(p)>> \in Seq(Addr)
    BY <1>1, DescriptorIsPage DEF Addr
  <2>2. QED
    BY <1>3, <2>1 DEF DmaInv, TypeOK
<1>5. Launched(p)'
  <2>1. Descriptor(p)' = Descriptor(p)
    BY DEF Descriptor
  <2>2. WriteRuns(Descriptor(p))'
    BY <1>2, <1>3, <2>1 DEF WriteRuns, NoRead, NothingDone
  <2>3. QED
    BY <1>2, <2>2 DEF Launched
<1>6. QED
  BY <1>1, <1>4, <1>5, HardwareStays

\* The data of a write moves on its own: delayed, offered, accepted.
LEMMA DataStep ==
  ASSUME DmaInv, Delay \/ WriteData
  PROVE  DmaInv'
<1> USE DEF Delay, WriteData, procVars, readVars
<1>1. PICK p \in Procs : pc[p] = "wait"
  BY SomebodyWaits DEF NoWrite
<1>2. ~write[p] /\ WriteRuns(Descriptor(p)) /\ moved[p] = 1 .. sg[p]
  BY <1>1 DEF DmaInv, Place, Launched, ReadRuns, AccessDone, NoWrite
<1>3. TypeOK'
  <2>1. CASE Delay
    BY <2>1 DEF DmaInv, TypeOK
  <2>2. CASE WriteData
    <3>1. beats \in Nat /\ beats' = beats + 1
      BY <2>2 DEF DmaInv, TypeOK
    <3>2. beats' \in Nat
      BY <3>1
    <3>3. QED
      BY <2>2, <3>2 DEF DmaInv, TypeOK
  <2>3. QED
    BY <2>1, <2>2
<1>4. Launched(p)'
  <2>1. Descriptor(p)' = Descriptor(p)
    BY DEF Descriptor
  <2>2. WriteRuns(Descriptor(p))'
    BY <1>2, <2>1 DEF WriteRuns, NoRead, NothingDone
  <2>3. QED
    BY <1>2, <2>2 DEF Launched
<1>5. QED
  BY <1>1, <1>3, <1>4, HardwareStays

\* The answer to the access to the page that p works on.
LEMMA AccessOfDescriptor ==
  ASSUME DmaInv, NEW p \in Procs, pc[p] = "wait", moved[p] = 1 .. sg[p],
         Access(Descriptor(p))
  PROVE  /\ moved' \in [Procs -> SUBSET (1 .. MaxPages)]
         /\ moved'[p] = 1 .. (sg[p] + 1)
         /\ \A q \in Procs \ {p} : moved'[q] = moved[q]
<1>1. Descriptor(p) \in Page /\ sg[p] + 1 \in 1 .. MaxPages
  BY DescriptorIsPage
<1>2. moved' = [moved EXCEPT ![p] = (1 .. sg[p]) \cup {sg[p] + 1}]
  BY <1>1 DEF Access, Descriptor, DmaInv, TypeOK
<1>3. sg[p] \in Nat /\ (1 .. sg[p]) \cup {sg[p] + 1} = 1 .. (sg[p] + 1)
  BY DEF DmaInv, TypeOK
<1>4. (1 .. sg[p]) \cup {sg[p] + 1} \in SUBSET (1 .. MaxPages)
  BY <1>1, <1>3
<1>5. QED
  BY <1>2, <1>3, <1>4 DEF DmaInv, TypeOK

\* The answer moves the page, and its interrupt is on its way.
LEMMA ReadAnswerStep ==
  ASSUME DmaInv, ReadAnswer
  PROVE  DmaInv'
<1> USE DEF ReadAnswer, procVars, writeVars
<1>1. PICK p \in Procs : pc[p] = "wait"
  BY SomebodyWaits DEF NoRead
<1>2. write[p] /\ ReadRuns(Descriptor(p)) /\ moved[p] = 1 .. sg[p]
  BY <1>1 DEF DmaInv, Place, Launched, WriteRuns, AccessDone, NoRead
<1>3. reads = <<Descriptor(p)>> /\ ~ar
  BY <1>2 DEF ReadRuns
<1>4. reads' = <<>> /\ Access(Descriptor(p))
  BY <1>3
<1>5. /\ moved' \in [Procs -> SUBSET (1 .. MaxPages)]
      /\ moved'[p] = 1 .. (sg[p] + 1)
      /\ \A q \in Procs \ {p} : moved'[q] = moved[q]
  BY <1>1, <1>2, <1>4, AccessOfDescriptor
<1>6. TypeOK'
  BY <1>4, <1>5 DEF DmaInv, TypeOK
<1>7. Launched(p)'
  <2>1. AccessDone'
    BY <1>2, <1>3, <1>4 DEF ReadRuns, AccessDone, NoRead, NoWrite, NothingDone
  <2>2. QED
    BY <1>5, <2>1 DEF Launched
<1>8. QED
  BY <1>1, <1>5, <1>6, <1>7, HardwareStays

\* The same for a write.
LEMMA WriteAnswerStep ==
  ASSUME DmaInv, WriteAnswer
  PROVE  DmaInv'
<1> USE DEF WriteAnswer, procVars, readVars
<1>1. PICK p \in Procs : pc[p] = "wait"
  BY SomebodyWaits DEF NoWrite
<1>2. ~write[p] /\ WriteRuns(Descriptor(p)) /\ moved[p] = 1 .. sg[p]
  BY <1>1 DEF DmaInv, Place, Launched, ReadRuns, AccessDone, NoWrite
<1>3. writes = <<Descriptor(p)>> /\ ~aw /\ ~cnt_en /\ ~w /\ beats = 1
  BY <1>2 DEF WriteRuns
<1>4. writes' = <<>> /\ beats' = 0 /\ Access(Descriptor(p))
  BY <1>3
<1>5. /\ moved' \in [Procs -> SUBSET (1 .. MaxPages)]
      /\ moved'[p] = 1 .. (sg[p] + 1)
      /\ \A q \in Procs \ {p} : moved'[q] = moved[q]
  BY <1>1, <1>2, <1>4, AccessOfDescriptor
<1>6. TypeOK'
  BY <1>4, <1>5 DEF DmaInv, TypeOK
<1>7. Launched(p)'
  <2>1. AccessDone'
    BY <1>2, <1>3, <1>4 DEF WriteRuns, AccessDone, NoRead, NoWrite, NothingDone
  <2>2. QED
    BY <1>5, <2>1 DEF Launched
<1>8. QED
  BY <1>1, <1>5, <1>6, <1>7, HardwareStays

\* The pending interrupt becomes the permit.
LEMMA IsrStep ==
  ASSUME DmaInv, Isr
  PROVE  DmaInv'
<1> USE DEF Isr, procVars, readVars, writeVars
<1>1. PICK p \in Procs : pc[p] = "wait"
  BY SomebodyWaits DEF NothingDone
<1>2. AccessDone /\ moved[p] = 1 .. (sg[p] + 1)
  BY <1>1 DEF DmaInv, Place, Launched, ReadRuns, WriteRuns, NothingDone
<1>3. TypeOK'
  BY DEF DmaInv, TypeOK
<1>4. Launched(p)'
  <2>1. AccessDone'
    BY <1>2 DEF AccessDone, NoRead, NoWrite
  <2>2. QED
    BY <1>2, <2>1 DEF Launched
<1>5. QED
  BY <1>1, <1>3, <1>4, HardwareStays

-----------------------------------------------------------------------------
\* What no step changes keeps the invariant.
LEMMA StutterStep ==
  ASSUME DmaInv, UNCHANGED vars
  PROVE  DmaInv'
<1> USE DEF vars, procVars, readVars, writeVars
<1>1. TypeOK' /\ Alone' /\ AtRest'
  BY DEF DmaInv, TypeOK, Alone, AtRest, Inside, NoRead, NoWrite, NothingDone
<1>2. ASSUME NEW p \in Procs PROVE Place(p)'
  <2>1. Place(p)
    BY DEF DmaInv
  <2>2. QED
    BY <2>1 DEF Place, Launched, Descriptor, ReadRuns, WriteRuns, AccessDone,
                NoRead, NoWrite, NothingDone
<1>3. QED
  BY <1>1, <1>2 DEF DmaInv

\* The invariant is inductive.
LEMMA StepInv ==
  ASSUME DmaInv, [CalmNext]_vars
  PROVE  DmaInv'
<1>1. ASSUME NEW p \in Procs, Call(p), MutualExclusion', ~NotTaken(p) PROVE DmaInv'
  BY <1>1, EnterStep, LaunchStep, GoStep, TakenStep, FinishStep DEF Call
<1>2. CASE Engine
  BY <1>2, SourceAddressStep, DestAddressStep, DataStep, ReadAnswerStep, WriteAnswerStep
     DEF Engine
<1>3. CASE Isr
  BY <1>3, IsrStep
<1>4. CASE UNCHANGED vars
  BY <1>4, StutterStep
<1>5. QED
  BY <1>1, <1>2, <1>3, <1>4 DEF Next, CalmNext

-----------------------------------------------------------------------------
(* What follows for callers that take turns *)

\* The inductive invariant holds whatever the number of processes and pages.
THEOREM Invariance == CalmSpec => []DmaInv
<1>1. Init => DmaInv
  BY InitInv
<1>2. DmaInv /\ [CalmNext]_vars => DmaInv'
  BY StepInv
<1>3. QED
  BY <1>1, <1>2, PTL DEF CalmSpec, Spec

\* launchDma's wait never ends on somebody else's completion: what it counts
\* as done, the engine has done.
THEOREM CompletionIsOwn == CalmSpec => []DoneMeansMoved
<1>1. DmaInv => DoneMeansMoved
  <2> SUFFICES ASSUME DmaInv, NEW p \in Procs
               PROVE  1 .. sg[p] \subseteq moved[p]
    BY DEF DoneMeansMoved
  <2>2. Place(p) /\ sg[p] \in Nat
    <3>1. sg[p] \in Nat
      BY DEF DmaInv, TypeOK
    <3>2. QED
      BY <3>1 DEF DmaInv
  <2>3. moved[p] = 1 .. sg[p] \/ moved[p] = 1 .. (sg[p] + 1)
    BY <2>2 DEF Place, Launched
  <2>4. QED
    BY <2>2, <2>3
<1>2. QED
  BY <1>1, Invariance, PTL

\* The page an access in progress is for.
LEMMA AccessOfWaiting ==
  ASSUME DmaInv, ~(NoRead /\ NoWrite)
  PROVE  \E p \in Procs : /\ pc[p] = "wait"
                          /\ \/ write[p] /\ ReadRuns(Descriptor(p))
                             \/ ~write[p] /\ WriteRuns(Descriptor(p))
                          /\ Descriptor(p) \in Mapped
<1>1. PICK p \in Procs : pc[p] = "wait"
  BY SomebodyWaits
<1>2. Launched(p) /\ ~AccessDone
  BY <1>1 DEF DmaInv, Place, AccessDone
<1>3. Descriptor(p) \in Mapped
  <2>1. sg[p] \in Nat /\ total[p] \in Nat /\ sg[p] < total[p]
    BY <1>1 DEF DmaInv, TypeOK, Place
  <2>2. QED
    BY <1>1, <2>1, DescriptorIsPage DEF Mapped, Descriptor, Inside
<1>4. QED
  BY <1>1, <1>2, <1>3 DEF Launched

\* The engine's access never outlives the mapping of the page it is to.
THEOREM MappedAccesses == CalmSpec => []AccessesMappedPages
<1>1. DmaInv => AccessesMappedPages
  <2>1. CASE NoRead /\ NoWrite
    BY <2>1 DEF AccessesMappedPages, NoRead, NoWrite
  <2>2. ASSUME DmaInv, ~(NoRead /\ NoWrite) PROVE AccessesMappedPages
    <3>1. PICK p \in Procs : /\ \/ ReadRuns(Descriptor(p))
                                \/ WriteRuns(Descriptor(p))
                             /\ Descriptor(p) \in Mapped
      BY <2>2, AccessOfWaiting
    <3>2. QED
      BY <3>1 DEF AccessesMappedPages, ReadRuns, WriteRuns, NoRead, NoWrite
  <2>3. QED
    BY <2>1, <2>2
<1>2. QED
  BY <1>1, Invariance, PTL

\* One completion is on its way for the one process that waits, none else.
THEOREM OneCompletion == CalmSpec => []OneCompletionOnItsWay
<1>1. DmaInv => OneCompletionOnItsWay
  <2> DEFINE Waiting == \E p \in Procs : pc[p] = "wait"
             Out == UnderWay
  <2>1. ASSUME DmaInv, ~Waiting PROVE Out = 0
    <3>1. NoRead /\ NoWrite /\ NothingDone
      BY <2>1 DEF DmaInv, AtRest
    <3>2. QED
      BY <3>1 DEF UnderWay, One, NoRead, NoWrite, NothingDone
  <2>2. ASSUME DmaInv, Waiting PROVE Out = 1
    <3>1. PICK p \in Procs : pc[p] = "wait"
      BY <2>2
    <3>2. Launched(p)
      BY <2>2, <3>1 DEF DmaInv, Place
    <3>3. CASE ReadRuns(Descriptor(p))
      BY <3>3 DEF ReadRuns, NoWrite, NothingDone, UnderWay, One
    <3>4. CASE WriteRuns(Descriptor(p))
      BY <3>4 DEF WriteRuns, NoRead, NothingDone, UnderWay, One
    <3>5. CASE AccessDone
      BY <3>5 DEF AccessDone, NoRead, NoWrite, UnderWay, One
    <3>6. QED
      BY <3>2, <3>3, <3>4, <3>5 DEF Launched
  <2>3. One(Waiting) = IF Waiting THEN 1 ELSE 0
    BY Zenon DEF One
  <2> HIDE DEF Out
  <2>4. DmaInv => Out = One(Waiting)
    <3> HIDE DEF Waiting
    <3>1. QED
      BY <2>1, <2>2, <2>3
  <2>5. QED
    BY <2>4, Zenon DEF OneCompletionOnItsWay, Out
<1>2. QED
  BY <1>1, Invariance, PTL

\* The driver writes an address register only while the engine does not offer
\* the address it holds.
THEOREM AddressStable == CalmSpec => AddressHeld
<1>1. ASSUME DmaInv, CalmNext PROVE (ar /\ ar' => src' = src) /\ (aw /\ aw' => dst' = dst)
  <2>1. ASSUME NEW p \in Procs, WriteAddress(p) \/ WriteOther(p)
        PROVE  ~ar /\ ~aw
    BY <1>1, <2>1, RestsWith DEF WriteAddress, WriteOther, Inside, NoRead, NoWrite
  <2>2. ASSUME NEW p \in Procs, \/ Prepare(p) \/ MapFails(p) \/ OutOfRange(p)
                                \/ Go(p) \/ Taken(p) \/ Finish(p)
        PROVE  src' = src /\ dst' = dst
    BY <2>2 DEF Prepare, MapFails, OutOfRange, Go, Taken, Finish
  <2>3. ASSUME Engine \/ Isr PROVE src' = src /\ dst' = dst
    BY <2>3 DEF Engine, ReadAddress, DestAddress, Delay, WriteData, ReadAnswer,
                WriteAnswer, Isr
  <2>4. QED
    BY <1>1, <2>1, <2>2, <2>3 DEF Next, CalmNext, Call
<1>2. DmaInv /\ [CalmNext]_vars =>
        [(ar /\ ar' => src' = src) /\ (aw /\ aw' => dst' = dst)]_vars
  BY <1>1
<1>3. QED
  BY <1>2, Invariance, PTL DEF CalmSpec, AddressHeld

\* A step of the system is a step of the promise or none of its business, and
\* a call ends with the Return that its result stands for.
LEMMA PromiseStep ==
  ASSUME DmaInv, [CalmNext]_vars
  PROVE  /\ [Promise!DmaNext]_(Promise!specVars)
         /\ \A p \in Procs : Inside(p) /\ ~Inside(p)' => Promise!Return(p, result[p] = "ok")
<1> DEFINE Serving == {p \in Procs : Inside(p)}
           Kept == /\ [Promise!DmaNext]_(Promise!specVars)
                   /\ \A p \in Procs : Inside(p) /\ ~Inside(p)' =>
                        Promise!Return(p, result[p] = "ok")
<1>1. ASSUME UNCHANGED <<total, moved>>, \A q \in Procs : Inside(q)' <=> Inside(q)
      PROVE  Kept
  <2>1. Serving' = Serving
    BY <1>1
  <2>2. QED
    BY <1>1, <2>1 DEF Promise!specVars
<1>2. ASSUME NEW p \in Procs, Prepare(p) \/ MapFails(p), MutualExclusion' PROVE Kept
  <2>1. \A q \in Procs : ~Inside(q)
    BY <1>2, EntersAlone DEF Inside
  <2>2. Inside(p)' /\ \A q \in Procs \ {p} : ~Inside(q)'
    BY <1>2, <2>1 DEF Prepare, MapFails, Inside, DmaInv, TypeOK
  <2>3. Serving = {} /\ Serving' = {p}
    BY <2>1, <2>2
  <2>4. \E n \in 0 .. MaxPages : total' = [total EXCEPT ![p] = n]
    <3>1. CASE Prepare(p)
      <4>1. PICK n \in 1 .. MaxPages : total' = [total EXCEPT ![p] = n]
        BY <3>1 DEF Prepare
      <4>2. n \in 0 .. MaxPages
        OBVIOUS
      <4>3. QED
        BY <4>1, <4>2
    <3>2. CASE MapFails(p)
      <4>1. total[p] = 0
        BY <2>1 DEF DmaInv, Place, Inside
      <4>2. total' = [total EXCEPT ![p] = 0]
        BY <3>2, <4>1 DEF MapFails, DmaInv, TypeOK
      <4>3. 0 \in 0 .. MaxPages
        OBVIOUS
      <4>4. QED
        BY <4>2, <4>3
    <3>3. QED
      BY <1>2, <3>1, <3>2
  <2>5. moved' = moved
    BY <1>2 DEF Prepare, MapFails
  <2>6. Promise!Request(p)
    BY <2>3, <2>4, <2>5 DEF Promise!Request
  <2>7. QED
    BY <2>1, <2>6 DEF Promise!DmaNext
<1>3. ASSUME NEW p \in Procs,
             OutOfRange(p) \/ WriteAddress(p) \/ WriteOther(p) \/ Go(p) \/ Taken(p)
      PROVE  Kept
  <2>1. UNCHANGED <<total, moved>>
    BY <1>3 DEF OutOfRange, Fail, WriteAddress, WriteOther, Go, Taken
  <2>2. Inside(p) /\ Inside(p)' /\ \A q \in Procs \ {p} : Inside(q)' <=> Inside(q)
    BY <1>3 DEF OutOfRange, Fail, WriteAddress, WriteOther, Go, Taken, Inside,
                DmaInv, TypeOK
  <2>3. QED
    BY <1>1, <2>1, <2>2
<1>4. ASSUME NEW p \in Procs, Finish(p) PROVE Kept
  <2>1. Inside(p) /\ ~Inside(p)' /\ \A q \in Procs \ {p} : ~Inside(q) /\ ~Inside(q)'
    <3>1. Inside(p) /\ \A q \in Procs \ {p} : pc[q] = "idle"
      BY <1>4, OthersIdle DEF Finish, Inside
    <3>2. QED
      BY <1>4, <3>1 DEF Finish, Inside, DmaInv, TypeOK
  <2>2. Serving = {p} /\ Serving' = {}
    BY <2>1
  <2>3. result[p] = "ok" => total[p] > 0 /\ moved[p] = 1 .. total[p]
    BY <1>4 DEF Finish, DmaInv, TypeOK, Place
  <2>4. total' = [total EXCEPT ![p] = 0] /\ moved' = [moved EXCEPT ![p] = {}]
    BY <1>4 DEF Finish
  <2>5. Promise!Return(p, result[p] = "ok")
    BY <2>2, <2>3, <2>4 DEF Promise!Return
  <2>6. Promise!DmaNext
    BY <2>5 DEF Promise!DmaNext
  <2>7. QED
    BY <2>1, <2>5, <2>6
<1>5. ASSUME ReadAnswer \/ WriteAnswer PROVE Kept
  <2>1. PICK p \in Procs : /\ pc[p] = "wait"
                           /\ ReadAnswer => ReadRuns(Descriptor(p))
                           /\ WriteAnswer => WriteRuns(Descriptor(p))
    BY <1>5, AccessOfWaiting DEF ReadAnswer, WriteAnswer, ReadRuns, WriteRuns,
                                 NoRead, NoWrite
  <2>2. Access(Descriptor(p)) /\ UNCHANGED procVars
    BY <1>5, <2>1 DEF ReadAnswer, WriteAnswer, ReadRuns, WriteRuns
  <2>3. moved[p] = 1 .. sg[p] /\ sg[p] \in Nat /\ total[p] \in Nat /\ sg[p] < total[p]
    BY <1>5, <2>1 DEF DmaInv, TypeOK, Place, Launched, AccessDone, NoRead, NoWrite,
                      ReadAnswer, WriteAnswer
  <2>4. moved' = [moved EXCEPT ![p] = 1 .. (sg[p] + 1)]
    <3>1. /\ moved' \in [Procs -> SUBSET (1 .. MaxPages)]
          /\ moved'[p] = 1 .. (sg[p] + 1)
          /\ \A q \in Procs \ {p} : moved'[q] = moved[q]
      BY <2>1, <2>2, <2>3, AccessOfDescriptor
    <3>2. QED
      BY <3>1 DEF DmaInv, TypeOK
  <2>5. Inside(p) /\ \A q \in Procs : Inside(q)' <=> Inside(q)
    BY <2>1, <2>2 DEF Inside, procVars
  <2>6. p \in Serving /\ Serving' = Serving /\ total' = total
    BY <2>2, <2>5 DEF procVars
  <2>7. Promise!Move(p)
    <3>1. sg[p] + 1 \in 1 .. total[p] /\ moved[p] = 1 .. ((sg[p] + 1) - 1)
      BY <2>3
    <3>2. QED
      BY <2>4, <2>6, <3>1 DEF Promise!Move
  <2>8. QED
    BY <2>5, <2>7 DEF Promise!DmaNext
<1>6. ASSUME ReadAddress \/ DestAddress \/ Delay \/ WriteData \/ Isr \/ UNCHANGED vars
      PROVE  Kept
  <2>1. UNCHANGED <<total, moved>> /\ \A q \in Procs : Inside(q)' <=> Inside(q)
    BY <1>6 DEF ReadAddress, DestAddress, Delay, WriteData, Isr, vars, procVars, Inside
  <2>2. QED
    BY <1>1, <2>1
<1>7. Kept
  <2> HIDE DEF Kept
  <2>1. QED
    BY <1>2, <1>3, <1>4, <1>5, <1>6 DEF Next, CalmNext, Call, Engine
<1>8. QED
  BY <1>7

\* Callers that take turns get what DmaSpec promises.
THEOREM PromiseKept == CalmSpec => KeepsPromise
<1>1. Init => Promise!DmaInit
  BY DEF Init, NoCalls, Promise!DmaInit, Inside
<1>2. DmaInv /\ [CalmNext]_vars =>
        /\ [Promise!DmaNext]_(Promise!specVars)
        /\ [\A p \in Procs : Inside(p) /\ ~Inside(p)' =>
             Promise!Return(p, result[p] = "ok")]_vars
  BY PromiseStep
<1>3. QED
  BY <1>1, <1>2, Invariance, PTL DEF CalmSpec, Spec, KeepsPromise, Promise!Spec

\* probe takes the semaphore "so that interruptWait actually blocks": in a
\* calm behaviour no permit waits for the access that is about to be launched.
\* (The run DmaLate shows what one late interrupt does to it.)
THEOREM WaitsBlock == CalmSpec => []WaitBlocks
<1>1. DmaInv => WaitBlocks
  <2> SUFFICES ASSUME DmaInv, NEW p \in Procs, pc[p] = "go" PROVE sem = 0
    BY DEF WaitBlocks
  <2>1. QED
    BY RestsWith DEF Inside, NothingDone
<1>2. QED
  BY <1>1, Invariance, PTL

\* While launchDma waits and there is no permit, the hardware has a step to
\* make: an interrupt to deliver, an address or data the memory has room for,
\* or an access it can answer.  So nobody waits for ever for something that
\* nothing will bring about.
WaitIsServed ==
  \A p \in Procs : pc[p] = "wait" =>
    \/ sem > 0
    \/ irq
    \/ ar /\ Len(reads) < MaxOutstanding
    \/ reads # <<>>
    \/ aw /\ Len(writes) < MaxOutstanding
    \/ cnt_en
    \/ w /\ beats < MaxOutstanding
    \/ writes # <<>> /\ beats > 0

\* Calm callers never wait in launchDma (soc_miner.c 338-361) for what the
\* hardware has no step to bring about.
THEOREM WaitsAreServed == CalmSpec => []WaitIsServed
<1>1. DmaInv => WaitIsServed
  <2> SUFFICES ASSUME DmaInv, NEW p \in Procs, pc[p] = "wait"
               PROVE  \/ sem > 0 \/ irq \/ reads # <<>> \/ cnt_en
                      \/ ar /\ Len(reads) < MaxOutstanding
                      \/ aw /\ Len(writes) < MaxOutstanding
                      \/ w /\ beats < MaxOutstanding
                      \/ writes # <<>> /\ beats > 0
    BY DEF WaitIsServed
  <2>1. Launched(p)
    BY DEF DmaInv, Place
  <2>2. CASE ReadRuns(Descriptor(p))
    BY <2>2 DEF ReadRuns
  <2>3. CASE WriteRuns(Descriptor(p))
    <3>1. Len(<<>>) = 0 /\ 0 < MaxOutstanding
      OBVIOUS
    <3>2. writes = <<>> => Len(writes) < MaxOutstanding
      BY <3>1
    <3>3. beats = 0 => beats < MaxOutstanding
      BY <3>1
    <3>4. beats = 1 => beats > 0
      OBVIOUS
    <3>5. <<Descriptor(p)>> # <<>>
      OBVIOUS
    <3>6. CASE aw /\ writes = <<>>
      BY <3>2, <3>6
    <3>7. CASE writes = <<Descriptor(p)>>
      BY <2>3, <3>3, <3>4, <3>5, <3>7 DEF WriteRuns
    <3>. QED  BY <2>3, <3>6, <3>7 DEF WriteRuns
  <2>4. CASE AccessDone
    BY <2>4 DEF AccessDone
  <2>5. QED
    BY <2>1, <2>2, <2>3, <2>4 DEF Launched
<1>2. QED
  BY <1>1, Invariance, PTL

-----------------------------------------------------------------------------
(* Which instances are calm *)

\* The lock that the comments of socDma announce is all that is missing for
\* mutual exclusion: callers that take turns have it, whatever fails.  (The
\* run DmaNoLock shows callers that do not.)
THEOREM TurnsExclude ==
  ASSUME TakeTurns
  PROVE  Spec => []MutualExclusion
<1> DEFINE Inv == /\ pc \in [Procs -> {"idle", "address", "other", "go", "wait", "finish"}]
                  /\ MutualExclusion
<1>1. Init => Inv
  BY DEF Init, NoCalls, MutualExclusion, Inside
<1>2. Inv /\ [Next]_vars => Inv'
  <2> SUFFICES ASSUME Inv, [Next]_vars PROVE Inv'
    OBVIOUS
  <2>1. ASSUME NEW p \in Procs, Prepare(p) \/ MapFails(p) PROVE Inv'
    BY <2>1 DEF Prepare, MapFails, MayEnter, MutualExclusion, Inside
  <2>2. ASSUME NEW p \in Procs,
               \/ OutOfRange(p) \/ WriteAddress(p) \/ WriteOther(p) \/ Go(p)
               \/ Taken(p) \/ NotTaken(p) \/ Finish(p)
        PROVE  Inv'
    <3>1. pc[p] # "idle" /\ \E l \in {"idle", "address", "other", "go", "wait", "finish"} :
            pc' = [pc EXCEPT ![p] = l]
      BY <2>2 DEF OutOfRange, Fail, WriteAddress, WriteOther, Go, Taken, NotTaken, Finish
    <3>2. QED
      BY <3>1 DEF MutualExclusion, Inside
  <2>3. CASE Engine \/ Isr \/ SharedIsr \/ UNCHANGED vars
    <3>1. pc' = pc
      BY <2>3 DEF Engine, ReadAddress, DestAddress, Delay, WriteData, ReadAnswer,
                  WriteAnswer, Isr, SharedIsr, vars, procVars
    <3>2. QED
      BY <3>1 DEF MutualExclusion, Inside
  <2>4. QED
    BY <2>1, <2>2, <2>3 DEF Next, Call
<1>3. QED
  BY <1>1, <1>2, PTL DEF Spec

\* Callers that take turns on an interrupt line of their own, whose waits
\* neither time out nor are interrupted, are calm: the instances of the run
\* DmaTurns.
THEOREM TurnsAreCalm ==
  ASSUME Orderly
  PROVE  Spec => CalmSpec
<1>1. [Next]_vars /\ MutualExclusion' => [CalmNext]_vars
  BY DEF Orderly, CalmNext, SharedIsr, NotTaken
<1>2. Spec => []MutualExclusion
  BY TurnsExclude DEF Orderly
<1>3. QED
  BY <1>1, <1>2, PTL DEF Spec, CalmSpec

-----------------------------------------------------------------------------
(* Any callers and any faults *)

InLoop ==
  \A p \in Procs :
    /\ pc[p] = "idle" => sg[p] = 0
    /\ pc[p] \in {"address", "other", "go", "wait"} => sg[p] < total[p]

OpenInv == TypeOK /\ InLoop

\* The invariant of any callers holds at first.
LEMMA OpenInit == Init => OpenInv
  BY InitInv DEF DmaInv, Place, InLoop, OpenInv

\* Who enters has a descriptor to launch or is on the way out, whatever runs
\* beside it.
LEMMA OpenEnter ==
  ASSUME OpenInv, NEW p \in Procs, Prepare(p) \/ MapFails(p)
  PROVE  OpenInv'
<1> USE DEF Prepare, MapFails, MayEnter, readVars, writeVars
<1>1. PICK d \in BOOLEAN, n \in 0 .. MaxPages :
        /\ write' = [write EXCEPT ![p] = d]
        /\ total' = [total EXCEPT ![p] = n] \/ total' = total
        /\ pc' = [pc EXCEPT ![p] = "address"] => n > 0 /\ total' = [total EXCEPT ![p] = n]
  <2>1. CASE Prepare(p)
    <3>1. PICK d \in Directions[p], n \in 1 .. MaxPages :
            write' = [write EXCEPT ![p] = d] /\ total' = [total EXCEPT ![p] = n]
      BY <2>1
    <3>2. d \in BOOLEAN /\ n \in 0 .. MaxPages /\ n > 0
      OBVIOUS
    <3>. QED  BY <3>1, <3>2
  <2>2. CASE MapFails(p)
    <3>1. PICK d \in Directions[p] : write' = [write EXCEPT ![p] = d]
      BY <2>2
    <3>2. d \in BOOLEAN /\ 0 \in 0 .. MaxPages
      OBVIOUS
    <3>3. pc' # [pc EXCEPT ![p] = "address"]
      BY <2>2 DEF OpenInv, TypeOK
    <3>. QED  BY <2>2, <3>1, <3>2, <3>3
  <2>. QED  BY <2>1, <2>2
<1>2. /\ pc' = [pc EXCEPT ![p] = "address"] \/ pc' = [pc EXCEPT ![p] = "finish"]
      /\ UNCHANGED <<sg, moved, src, dst, reads, writes>> /\ pc[p] = "idle"
  OBVIOUS
<1>3. TypeOK'
  <2>1. write' \in [Procs -> BOOLEAN] /\ total' \in [Procs -> 0 .. MaxPages]
    <3>1. write \in [Procs -> BOOLEAN] /\ total \in [Procs -> 0 .. MaxPages]
      BY DEF OpenInv, TypeOK
    <3> HIDE DEF Prepare, MapFails
    <3>. QED  BY <1>1, <3>1
  <2>2. pc' \in [Procs -> {"idle", "address", "other", "go", "wait", "finish"}]
    BY <1>2 DEF OpenInv, TypeOK
  <2>3. result' \in [Procs -> {"ok", "error"}]
    BY DEF OpenInv, TypeOK
  <2>. QED  BY <1>2, <2>1, <2>2, <2>3 DEF OpenInv, TypeOK
<1>4. InLoop'
  BY <1>1, <1>2 DEF OpenInv, TypeOK, InLoop
<1>. QED  BY <1>3, <1>4 DEF OpenInv

\* launchDma stays within the descriptors of the call, and the permit it takes
\* is one that is there.
LEMMA OpenLaunch ==
  ASSUME OpenInv, NEW p \in Procs,
         \/ OutOfRange(p) \/ WriteAddress(p) \/ WriteOther(p)
         \/ Go(p) \/ Taken(p) \/ NotTaken(p)
  PROVE  OpenInv'
<1> USE DEF OutOfRange, Fail, WriteAddress, WriteOther, Go, Taken, NotTaken, readVars,
            writeVars
<1>1. /\ sg[p] \in Nat /\ total[p] \in 0 .. MaxPages /\ sg[p] < total[p]
      /\ UNCHANGED <<total, moved, reads, writes>>
  BY DEF OpenInv, TypeOK, InLoop
<1>2. /\ \A q \in Procs \ {p} : pc'[q] = pc[q] /\ sg'[q] = sg[q]
      /\ \/ pc[p] = "address" /\ pc'[p] \in {"other", "finish"} /\ sg'[p] = sg[p]
         \/ pc[p] = "other" /\ pc'[p] = "go" /\ sg'[p] = sg[p]
         \/ pc[p] = "go" /\ pc'[p] = "wait" /\ sg'[p] = sg[p]
         \/ pc[p] = "wait" /\ pc'[p] = "finish" /\ sg'[p] = sg[p]
         \/ /\ pc[p] = "wait" /\ sg'[p] = sg[p] + 1
            /\ pc'[p] = IF sg[p] + 1 < total[p] THEN "address" ELSE "finish"
  BY DEF OpenInv, TypeOK
<1>3. Descriptor(p) = <<p, sg[p] + 1>> /\ Descriptor(p) \in Page
  BY <1>1 DEF Descriptor, Page
<1>4. TypeOK'
  <2>1. sg' \in [Procs -> 0 .. MaxPages] /\ pc' \in [Procs -> {"idle", "address", "other",
                                                            "go", "wait", "finish"}]
    <3>1. sg[p] + 1 \in 0 .. MaxPages
      BY <1>1
    <3>2. sg' = sg \/ sg' = [sg EXCEPT ![p] = sg[p] + 1]
      OBVIOUS
    <3>3. sg' \in [Procs -> 0 .. MaxPages]
      BY <3>1, <3>2 DEF OpenInv, TypeOK
    <3>4. \E l \in {"address", "other", "go", "wait", "finish"} : pc' = [pc EXCEPT ![p] = l]
      OBVIOUS
    <3>. QED  BY <3>3, <3>4 DEF OpenInv, TypeOK
  <2>2. src' \in Addr /\ dst' \in Addr /\ sem' \in {0, 1}
    <3>1. src' \in {src, Ascii, Descriptor(p)} /\ dst' \in {dst, Ascii, Descriptor(p)}
      OBVIOUS
    <3>2. src' \in Addr /\ dst' \in Addr
      BY <1>3, <3>1 DEF OpenInv, TypeOK, Addr
    <3>3. sem' \in {0, 1}
      BY DEF OpenInv, TypeOK
    <3>. QED  BY <3>2, <3>3
  <2>3. ar' \in BOOLEAN /\ aw' \in BOOLEAN /\ cnt_en' \in BOOLEAN
        /\ UNCHANGED <<w, beats, irq>>
    BY DEF OpenInv, TypeOK
  <2>4. result' \in [Procs -> {"ok", "error"}] /\ write' = write
    BY DEF OpenInv, TypeOK
  <2>. QED  BY <1>1, <2>1, <2>2, <2>3, <2>4 DEF OpenInv, TypeOK
<1>5. InLoop'
  BY <1>1, <1>2 DEF OpenInv, InLoop
<1>. QED  BY <1>4, <1>5 DEF OpenInv

\* A call that ends leaves the hardware as it is.
LEMMA OpenFinish ==
  ASSUME OpenInv, NEW p \in Procs, Finish(p)
  PROVE  OpenInv'
  BY DEF Finish, readVars, writeVars, OpenInv, TypeOK, InLoop

\* What the engine puts on the bus it has read in a register.
LEMMA OpenAddress ==
  ASSUME OpenInv, ReadAddress \/ DestAddress
  PROVE  OpenInv'
<1> USE DEF ReadAddress, DestAddress, procVars, readVars, writeVars
<1>1. TypeOK'
  <2>1. reads \in Seq(Addr) /\ writes \in Seq(Addr) /\ src \in Addr /\ dst \in Addr
    BY DEF OpenInv, TypeOK
  <2>2. reads' \in Seq(Addr) /\ writes' \in Seq(Addr)
    <3>1. reads' = reads \/ reads' = Append(reads, src)
      OBVIOUS
    <3>2. writes' = writes \/ writes' = Append(writes, dst)
      OBVIOUS
    <3>3. Append(reads, src) \in Seq(Addr) /\ Append(writes, dst) \in Seq(Addr)
      BY <2>1
    <3> HIDE DEF ReadAddress, DestAddress
    <3>. QED  BY <2>1, <3>1, <3>2, <3>3
  <2>3. ar' \in BOOLEAN /\ aw' \in BOOLEAN
    BY DEF OpenInv, TypeOK
  <2>. QED  BY <2>2, <2>3 DEF OpenInv, TypeOK
<1>2. InLoop'
  BY DEF OpenInv, InLoop
<1>. QED  BY <1>1, <1>2 DEF OpenInv

\* An answer is to one of the accesses accepted, early or late.
LEMMA OpenAnswer ==
  ASSUME OpenInv, ReadAnswer \/ WriteAnswer
  PROVE  OpenInv'
<1> USE DEF ReadAnswer, WriteAnswer, procVars, readVars, writeVars
<1>1. reads \in Seq(Addr) /\ writes \in Seq(Addr)
  BY DEF OpenInv, TypeOK
<1>3. \E a : Access(a)
  OBVIOUS
<1>5. moved' \in [Procs -> SUBSET (1 .. MaxPages)]
  <2>1. PICK a : Access(a)
    BY <1>3
  <2>2. CASE a \in Page /\ pc[a[1]] # "idle"
    <3>1. PICK p \in Procs, n \in 1 .. MaxPages : a = <<p, n>>
      BY <2>2 DEF Page
    <3>2. moved' = [moved EXCEPT ![p] = @ \cup {n}]
      BY <2>1, <2>2, <3>1 DEF Access
    <3>. QED  BY <3>2 DEF OpenInv, TypeOK
  <2>3. CASE ~(a \in Page /\ pc[a[1]] # "idle")
    BY <2>1, <2>3 DEF Access, OpenInv, TypeOK
  <2>. QED  BY <2>2, <2>3
<1>7. TypeOK'
  <2>1. reads' \in Seq(Addr) /\ writes' \in Seq(Addr) /\ beats' \in Nat
    <3>1. reads # <<>> => Tail(reads) \in Seq(Addr)
      BY <1>1
    <3>2. writes # <<>> => Tail(writes) \in Seq(Addr)
      BY <1>1
    <3>3. beats > 0 /\ beats \in Nat => beats - 1 \in Nat
      OBVIOUS
    <3>4. beats \in Nat
      BY DEF OpenInv, TypeOK
    <3>. QED  BY <1>1, <3>1, <3>2, <3>3, <3>4
  <2>2. irq' \in BOOLEAN /\ UNCHANGED <<procVars, src, dst, ar, aw, cnt_en, w, sem>>
    OBVIOUS
  <2>. QED  BY <1>5, <2>1, <2>2 DEF OpenInv, TypeOK
<1>8. InLoop'
  BY DEF OpenInv, InLoop
<1>. QED  BY <1>7, <1>8 DEF OpenInv

\* The steps that move no address.
LEMMA OpenRest ==
  ASSUME OpenInv, Delay \/ WriteData \/ Isr \/ SharedIsr \/ UNCHANGED vars
  PROVE  OpenInv'
<1> USE DEF Delay, WriteData, Isr, SharedIsr, vars, procVars, readVars, writeVars
<1>1. TypeOK'
  <2>1. /\ irq' \in BOOLEAN /\ sem' \in {0, 1} /\ cnt_en' \in BOOLEAN /\ w' \in BOOLEAN
        /\ beats' \in Nat
    <3>1. irq' \in BOOLEAN /\ sem' \in {0, 1}
      BY DEF OpenInv, TypeOK
    <3>2. cnt_en' \in BOOLEAN /\ w' \in BOOLEAN
      BY DEF OpenInv, TypeOK
    <3>3. beats' = beats \/ beats' = beats + 1
      OBVIOUS
    <3>4. beats' \in Nat
      BY <3>3 DEF OpenInv, TypeOK
    <3>. QED  BY <3>1, <3>2, <3>4
  <2>2. UNCHANGED <<procVars, moved, src, dst, readVars, aw, writes>>
    OBVIOUS
  <2>. QED  BY <2>1, <2>2 DEF OpenInv, TypeOK
<1>2. InLoop'
  BY DEF OpenInv, InLoop
<1>. QED  BY <1>1, <1>2 DEF OpenInv

\* The types and the loop's bound hold whoever calls and whatever fails.
THEOREM OpenInvariance == Spec => []OpenInv
<1>1. OpenInv /\ [Next]_vars => OpenInv'
  <2> SUFFICES ASSUME OpenInv, [Next]_vars PROVE OpenInv'
    OBVIOUS
  <2>1. ASSUME NEW p \in Procs, Call(p) PROVE OpenInv'
    BY <2>1, OpenEnter, OpenLaunch, OpenFinish DEF Call
  <2>. QED  BY <2>1, OpenAddress, OpenAnswer, OpenRest DEF Next, Engine
<1>. QED  BY OpenInit, <1>1, PTL DEF Spec

\* Every variable keeps its type, whoever calls and whatever fails.
THEOREM TypeCorrect == Spec => []TypeOK
  BY OpenInvariance, PTL DEF OpenInv

-----------------------------------------------------------------------------
(* Where leftover completions come from *)

Waiters == {p \in Procs : pc[p] = "wait"}

\* The processes that wait are finitely many.
LEMMA WaitersAreFew ==
  /\ IsFiniteSet(Waiters) /\ Cardinality(Waiters) \in Nat
  /\ IsFiniteSet(Waiters') /\ Cardinality(Waiters') \in Nat
<1>1. Waiters \in SUBSET Procs /\ Waiters' \in SUBSET Procs
  BY DEF Waiters
<1>. QED  BY <1>1, FS_Subset, FS_CardinalityType

\* One counts a bit, now and after the step.
LEMMA OneIsBit ==
  /\ One(ar) \in {0, 1} /\ One(aw) \in {0, 1} /\ One(irq) \in {0, 1}
  /\ One(ar') \in {0, 1} /\ One(aw') \in {0, 1} /\ One(irq') \in {0, 1}
  BY DEF One

\* What a step adds to the parts of UnderWay.
Added ==
  (One(ar') - One(ar)) + (Len(reads') - Len(reads)) + (One(aw') - One(aw))
    + (Len(writes') - Len(writes)) + (One(irq') - One(irq)) + (sem' - sem)

\* Sums change with their parts.
LEMMA PartsAddUp ==
  \A a, b, c, d, e, f, a1, b1, c1, d1, e1, f1 \in Int :
    LET now == a + b + c + d + e + f
        then == a1 + b1 + c1 + d1 + e1 + f1
        added == (a1 - a) + (b1 - b) + (c1 - c) + (d1 - d) + (e1 - e) + (f1 - f)
    IN  /\ now \in Int /\ then \in Int
        /\ added <= -1 => then <= now - 1
        /\ added <= 0 => then <= now
        /\ added <= 1 => then <= now + 1
  OBVIOUS

\* UnderWay changes with its parts.
LEMMA Balance ==
  ASSUME TypeOK,
         Len(reads') \in Nat, Len(writes') \in Nat, sem' \in Nat
  PROVE  /\ UnderWay \in Int /\ UnderWay' \in Int
         /\ Added <= -1 => UnderWay' <= UnderWay - 1
         /\ Added <= 0 => UnderWay' <= UnderWay
         /\ Added <= 1 => UnderWay' <= UnderWay + 1
<1>1. Len(reads) \in Int /\ Len(writes) \in Int /\ sem \in Int
  BY DEF TypeOK
<1>2. /\ One(ar) \in Int /\ One(aw) \in Int /\ One(irq) \in Int
      /\ One(ar') \in Int /\ One(aw') \in Int /\ One(irq') \in Int
  BY OneIsBit
<1>3. Len(reads') \in Int /\ Len(writes') \in Int /\ sem' \in Int
  OBVIOUS
<1>. QED  BY <1>1, <1>2, <1>3, PartsAddUp, Zenon DEF UnderWay, Added

\* A GO adds one wait and at most one completion.
LEMMA GoBalance ==
  ASSUME TypeOK, NEW p \in Procs, Go(p)
  PROVE  Surplus' \in Int /\ Surplus' <= Surplus
<1>1. p \notin Waiters /\ Waiters' = Waiters \cup {p}
  BY DEF Go, TypeOK, Waiters
<1>2. Cardinality(Waiters') = Cardinality(Waiters) + 1
  BY <1>1, WaitersAreFew, FS_AddElement
<1>3. UnderWay \in Int /\ UnderWay' \in Int /\ UnderWay' <= UnderWay + 1
  <2>1. reads' = reads /\ writes' = writes /\ sem' = sem
    BY DEF Go, readVars, writeVars
  <2>2. One(irq') = One(irq) /\ (One(ar') = One(ar) \/ One(aw') = One(aw))
    BY DEF Go, readVars, writeVars
  <2>3. Len(reads) \in Nat /\ Len(writes) \in Nat /\ sem \in Nat
    BY DEF TypeOK
  <2>4. Len(reads') = Len(reads) /\ Len(writes') = Len(writes)
    BY <2>1
  <2>. QED  BY <2>1, <2>2, <2>3, <2>4, Balance, OneIsBit DEF Added
<1>. QED  BY <1>2, <1>3, WaitersAreFew DEF Surplus, Waiters

\* A wait ends with a completion, or without one when it fails.
LEMMA WaitBalance ==
  ASSUME TypeOK, NEW p \in Procs, Taken(p) \/ NotTaken(p)
  PROVE  /\ Surplus' \in Int /\ Surplus' <= Surplus + 1
         /\ Taken(p) => Surplus' <= Surplus
<1>1. p \in Waiters /\ Waiters' = Waiters \ {p}
  BY DEF Taken, NotTaken, Fail, TypeOK, Waiters
<1>2. Cardinality(Waiters') = Cardinality(Waiters) - 1
  BY <1>1, WaitersAreFew, FS_RemoveElement
<1>3. /\ UnderWay \in Int /\ UnderWay' \in Int /\ UnderWay' <= UnderWay
      /\ Taken(p) => UnderWay' <= UnderWay - 1
  <2>1. /\ reads' = reads /\ writes' = writes
        /\ One(ar') = One(ar) /\ One(aw') = One(aw) /\ One(irq') = One(irq)
    BY DEF Taken, NotTaken, readVars, writeVars
  <2>2. Len(reads) \in Nat /\ Len(writes) \in Nat /\ sem \in Nat
    BY DEF TypeOK
  <2>3. Len(reads') = Len(reads) /\ Len(writes') = Len(writes)
    BY <2>1
  <2>4. CASE Taken(p)
    <3>1. sem' = sem - 1 /\ sem > 0
      BY <2>4 DEF Taken
    <3>2. UnderWay \in Int /\ UnderWay' \in Int /\ UnderWay' <= UnderWay - 1
      BY <2>1, <2>2, <2>3, <3>1, Balance, OneIsBit DEF Added
    <3>. QED  BY <3>2
  <2>5. CASE ~Taken(p)
    <3>1. sem' = sem
      BY <2>5 DEF NotTaken
    <3>2. UnderWay \in Int /\ UnderWay' \in Int /\ UnderWay' <= UnderWay
      BY <2>1, <2>2, <2>3, <3>1, Balance, OneIsBit DEF Added
    <3>. QED  BY <2>5, <3>2
  <2>. QED  BY <2>4, <2>5
<1>4. Surplus = UnderWay - Cardinality(Waiters) /\ Surplus' = UnderWay' - Cardinality(Waiters')
  BY DEF Surplus, Waiters
<1>5. Surplus' \in Int /\ Surplus' <= Surplus + 1
  BY <1>2, <1>3, <1>4, WaitersAreFew
<1>6. ASSUME Taken(p) PROVE Surplus' <= Surplus
  <2>1. UnderWay' <= UnderWay - 1 /\ UnderWay \in Int /\ UnderWay' \in Int
    BY <1>3, <1>6
  <2>. QED  BY <1>2, <1>4, <2>1, WaitersAreFew
<1>. QED  BY <1>5, <1>6

\* The engine and the memory pass a completion on, at most merging two
\* interrupts into one.
LEMMA EngineBalance ==
  ASSUME TypeOK, Engine
  PROVE  UnderWay \in Int /\ UnderWay' \in Int /\ UnderWay' <= UnderWay
<1>1. /\ Len(reads) \in Nat /\ Len(writes) \in Nat /\ sem \in Nat
      /\ Len(Append(reads, src)) = Len(reads) + 1
      /\ Len(Append(writes, dst)) = Len(writes) + 1
      /\ reads # <<>> => Len(reads) > 0 /\ Len(Tail(reads)) = Len(reads) - 1
      /\ writes # <<>> => Len(writes) > 0 /\ Len(Tail(writes)) = Len(writes) - 1
  BY DEF TypeOK
<1>2. sem' = sem
  BY DEF Engine, ReadAddress, DestAddress, Delay, WriteData, ReadAnswer, WriteAnswer
<1>3. CASE ReadAddress
  <2>1. reads' = Append(reads, src) /\ writes' = writes
    BY <1>3 DEF ReadAddress, writeVars
  <2>2. One(ar) = 1 /\ One(ar') = 0 /\ One(aw') = One(aw) /\ One(irq') = One(irq)
    BY <1>3 DEF ReadAddress, writeVars, One
  <2>3. Len(reads') = Len(reads) + 1 /\ Len(writes') = Len(writes)
    BY <1>1, <2>1
  <2>. QED  BY <1>1, <1>2, <2>2, <2>3, Balance, OneIsBit DEF Added
<1>4. CASE DestAddress
  <2>1. writes' = Append(writes, dst) /\ reads' = reads
    BY <1>4 DEF DestAddress, readVars
  <2>2. One(aw) = 1 /\ One(aw') = 0 /\ One(ar') = One(ar) /\ One(irq') = One(irq)
    BY <1>4 DEF DestAddress, readVars, One
  <2>3. Len(writes') = Len(writes) + 1 /\ Len(reads') = Len(reads)
    BY <1>1, <2>1
  <2>. QED  BY <1>1, <1>2, <2>2, <2>3, Balance, OneIsBit DEF Added
<1>5. CASE Delay \/ WriteData
  <2>1. reads' = reads /\ writes' = writes
    BY <1>5 DEF Delay, WriteData, readVars
  <2>2. One(ar') = One(ar) /\ One(aw') = One(aw) /\ One(irq') = One(irq)
    BY <1>5 DEF Delay, WriteData, readVars
  <2>3. Len(writes') = Len(writes) /\ Len(reads') = Len(reads)
    BY <2>1
  <2>. QED  BY <1>1, <1>2, <2>2, <2>3, Balance, OneIsBit DEF Added
<1>6. CASE ReadAnswer
  <2>1. reads # <<>> /\ reads' = Tail(reads) /\ writes' = writes
    BY <1>6 DEF ReadAnswer, writeVars
  <2>2. One(irq') = 1 /\ One(ar') = One(ar) /\ One(aw') = One(aw)
    BY <1>6 DEF ReadAnswer, writeVars, One
  <2>3. Len(reads') = Len(reads) - 1 /\ Len(reads) > 0 /\ Len(writes') = Len(writes)
    BY <1>1, <2>1
  <2>. QED  BY <1>1, <1>2, <2>2, <2>3, Balance, OneIsBit DEF Added
<1>7. CASE WriteAnswer
  <2>1. writes # <<>> /\ writes' = Tail(writes) /\ reads' = reads
    BY <1>7 DEF WriteAnswer, readVars
  <2>2. One(irq') = 1 /\ One(ar') = One(ar) /\ One(aw') = One(aw)
    BY <1>7 DEF WriteAnswer, readVars, One
  <2>3. Len(writes') = Len(writes) - 1 /\ Len(writes) > 0 /\ Len(reads') = Len(reads)
    BY <1>1, <2>1
  <2>. QED  BY <1>1, <1>2, <2>2, <2>3, Balance, OneIsBit DEF Added
<1>. QED  BY <1>3, <1>4, <1>5, <1>6, <1>7 DEF Engine

\* The handler turns a pending interrupt into a permit, which may be there
\* already; for another device it makes one of nothing.
LEMMA IsrBalance ==
  ASSUME TypeOK, Isr \/ SharedIsr
  PROVE  /\ UnderWay \in Int /\ UnderWay' \in Int /\ UnderWay' <= UnderWay + 1
         /\ ~SharedIsr => UnderWay' <= UnderWay
<1>1. Len(reads) \in Nat /\ Len(writes) \in Nat /\ sem \in {0, 1}
  BY DEF TypeOK
<1>2. reads' = reads /\ writes' = writes /\ sem' = 1
  BY DEF Isr, SharedIsr, readVars, writeVars
<1>3. Len(reads') = Len(reads) /\ Len(writes') = Len(writes)
  BY <1>2
<1>4. One(ar') = One(ar) /\ One(aw') = One(aw)
  BY DEF Isr, SharedIsr, readVars, writeVars
<1>5. CASE Isr
  <2>1. One(irq) = 1 /\ One(irq') = 0
    BY <1>5 DEF Isr, One
  <2>2. UnderWay \in Int /\ UnderWay' \in Int /\ UnderWay' <= UnderWay
    BY <1>1, <1>2, <1>3, <1>4, <2>1, Balance, OneIsBit DEF Added
  <2>. QED  BY <2>2
<1>6. CASE SharedIsr
  <2>1. One(irq') = One(irq)
    BY <1>6 DEF SharedIsr
  <2>2. UnderWay \in Int /\ UnderWay' \in Int /\ UnderWay' <= UnderWay + 1
    BY <1>1, <1>2, <1>3, <1>4, <2>1, Balance, OneIsBit DEF Added
  <2>. QED  BY <1>6, <2>2
<1>. QED  BY <1>5, <1>6

\* So the hardware adds to the surplus only when another device interrupts.
LEMMA HardwareBalance ==
  ASSUME TypeOK, Engine \/ Isr \/ SharedIsr
  PROVE  /\ Surplus' \in Int /\ Surplus' <= Surplus + 1
         /\ ~SharedIsr => Surplus' <= Surplus
<1>1. Waiters' = Waiters
  BY DEF Engine, ReadAddress, DestAddress, Delay, WriteData, ReadAnswer, WriteAnswer, Isr,
         SharedIsr, Waiters, procVars
<1>2. Cardinality(Waiters') = Cardinality(Waiters) /\ Cardinality(Waiters) \in Nat
  BY <1>1, WaitersAreFew
<1>3. Surplus = UnderWay - Cardinality(Waiters) /\ Surplus' = UnderWay' - Cardinality(Waiters')
  BY DEF Surplus, Waiters
<1>4. CASE Engine
  <2>1. UnderWay \in Int /\ UnderWay' \in Int /\ UnderWay' <= UnderWay
    BY <1>4, EngineBalance
  <2>. QED  BY <1>2, <1>3, <2>1
<1>5. CASE Isr \/ SharedIsr
  <2>1. /\ UnderWay \in Int /\ UnderWay' \in Int /\ UnderWay' <= UnderWay + 1
        /\ ~SharedIsr => UnderWay' <= UnderWay
    BY <1>5, IsrBalance
  <2>. QED  BY <1>2, <1>3, <2>1
<1>. QED  BY <1>4, <1>5

\* A step that starts and ends no wait and reaches no hardware.
LEMMA RestBalance ==
  ASSUME TypeOK, UNCHANGED <<readVars, writeVars, irq, sem>>, Waiters' = Waiters
  PROVE  Surplus' = Surplus
  BY DEF Surplus, UnderWay, One, Waiters, readVars, writeVars

\* Whoever calls socDma and whatever fails: the only completions that can end
\* a wait they do not belong to, when calls do not overlap, are those of waits
\* that failed before and of other devices (soc_miner.c 238-244, 338-343).
THEOREM StraysAreFaults == Spec => StraysExplained
<1>1. ASSUME TypeOK, [Next]_vars
      PROVE  /\ Surplus' <= Surplus + 1
             /\ Surplus' > Surplus => SharedIsr \/ \E p \in Procs : NotTaken(p)
  <2>1. Surplus \in Int
    <3>1. Len(reads) \in Nat /\ Len(writes) \in Nat /\ sem \in Nat
      BY <1>1 DEF TypeOK
    <3>2. UnderWay \in Int
      BY <3>1, OneIsBit DEF UnderWay
    <3>. QED  BY <3>2, WaitersAreFew DEF Surplus, Waiters
  <2>2. ASSUME NEW p \in Procs,
               \/ Prepare(p) \/ MapFails(p) \/ OutOfRange(p) \/ WriteAddress(p)
               \/ WriteOther(p) \/ Finish(p)
        PROVE  Surplus' = Surplus
    <3>1. UNCHANGED <<readVars, writeVars, irq, sem>> /\ Waiters' = Waiters
      BY <1>1, <2>2 DEF Prepare, MapFails, MayEnter, OutOfRange, Fail, WriteAddress,
                        WriteOther, Finish, TypeOK, Waiters
    <3>. QED  BY <1>1, <3>1, RestBalance
  <2>3. ASSUME NEW p \in Procs, Taken(p) \/ NotTaken(p)
        PROVE  Surplus' <= Surplus + 1 /\ (Surplus' > Surplus => NotTaken(p))
    <3>1. /\ Surplus' \in Int /\ Surplus' <= Surplus + 1
          /\ Taken(p) => Surplus' <= Surplus
      BY <1>1, <2>3, WaitBalance
    <3>2. Surplus' <= Surplus => ~(Surplus' > Surplus)
      BY <2>1, <3>1
    <3>. QED  BY <2>3, <3>1, <3>2, Zenon
  <2>4. ASSUME NEW p \in Procs, Go(p) PROVE Surplus' \in Int /\ Surplus' <= Surplus
    BY <1>1, <2>4, GoBalance
  <2>5. ASSUME Engine \/ Isr \/ SharedIsr
        PROVE  /\ Surplus' \in Int /\ Surplus' <= Surplus + 1
               /\ ~SharedIsr => Surplus' <= Surplus
    BY <1>1, <2>5, HardwareBalance
  <2>6. CASE UNCHANGED vars
    <3>1. UNCHANGED <<readVars, writeVars, irq, sem>> /\ Waiters' = Waiters
      BY <2>6 DEF vars, procVars, Waiters
    <3>2. Surplus' = Surplus
      BY <1>1, <3>1, RestBalance
    <3>. QED  BY <2>1, <3>2
  <2>7. ASSUME NEW p \in Procs, Call(p)
        PROVE  Surplus' <= Surplus + 1 /\ (Surplus' > Surplus => NotTaken(p))
    <3>1. CASE Go(p)
      BY <2>1, <2>4, <3>1
    <3>2. CASE Taken(p) \/ NotTaken(p)
      BY <2>3, <3>2
    <3>3. CASE \/ Prepare(p) \/ MapFails(p) \/ OutOfRange(p) \/ WriteAddress(p)
               \/ WriteOther(p) \/ Finish(p)
      <4>1. Surplus' = Surplus
        BY <2>2, <3>3
      <4>. QED  BY <2>1, <4>1
    <3>. QED  BY <2>7, <3>1, <3>2, <3>3 DEF Call
  <2>8. CASE Engine \/ Isr \/ SharedIsr
    BY <2>1, <2>5, <2>8
  <2>. QED  BY <1>1, <2>6, <2>7, <2>8 DEF Next
<1>. QED  BY <1>1, TypeCorrect, PTL DEF Spec, StraysExplained

-----------------------------------------------------------------------------
(* What is left to do: why calls return *)

\* The handshakes and interrupts that the launched accesses still need.
HardwareWork ==
  4 * One(ar) + 3 * Len(reads) + 4 * One(aw) + 3 * Len(writes)
    + 3 * One(cnt_en) + 2 * One(w) + beats + One(irq)

\* Every step of the engine, the memory and the interrupt uses up some of it,
\* and only a GO adds to it: the hardware cannot keep a wait busy without
\* bringing it nearer to its end.  (SharedIsr is the other device's step.)
HardwareWinds ==
  [][(\A p \in Procs : ~Go(p)) =>
       \/ HardwareWork' < HardwareWork
       \/ UNCHANGED <<ar, aw, cnt_en, w, beats, irq>> /\ HardwareWork' = HardwareWork]_vars

\* The work left is a number, so it cannot decrease for ever.
LEMMA WorkIsNat == TypeOK => HardwareWork \in Nat
<1> SUFFICES ASSUME TypeOK PROVE HardwareWork \in Nat
  OBVIOUS
<1>1. Len(reads) \in Nat /\ Len(writes) \in Nat /\ beats \in Nat
  BY DEF TypeOK
<1>2. QED
  BY <1>1 DEF HardwareWork, One

\* Each step of the engine, the memory and the interrupt uses up some work.
LEMMA EngineWorks ==
  ASSUME TypeOK, Engine \/ Isr
  PROVE  HardwareWork' < HardwareWork
<1> USE DEF One, procVars, readVars, writeVars
<1>1. reads \in Seq(Addr) /\ writes \in Seq(Addr) /\ src \in Addr /\ dst \in Addr
  BY DEF TypeOK
<1>2. Len(reads) \in Nat /\ Len(writes) \in Nat /\ beats \in Nat
  BY DEF TypeOK
<1>3. /\ Len(Append(reads, src)) = Len(reads) + 1
      /\ Len(Append(writes, dst)) = Len(writes) + 1
      /\ reads # <<>> => Len(Tail(reads)) = Len(reads) - 1
      /\ writes # <<>> => Len(Tail(writes)) = Len(writes) - 1
  BY <1>1
<1>4. CASE ReadAddress
  BY <1>2, <1>3, <1>4 DEF ReadAddress, HardwareWork
<1>5. CASE DestAddress
  BY <1>2, <1>3, <1>5 DEF DestAddress, HardwareWork
<1>6. CASE Delay
  BY <1>2, <1>6 DEF Delay, HardwareWork
<1>7. CASE WriteData
  BY <1>2, <1>7 DEF WriteData, HardwareWork
<1>8. CASE ReadAnswer
  BY <1>2, <1>3, <1>8 DEF ReadAnswer, HardwareWork
<1>9. CASE WriteAnswer
  BY <1>2, <1>3, <1>9 DEF WriteAnswer, HardwareWork
<1>10. CASE Isr
  BY <1>2, <1>10 DEF Isr, HardwareWork
<1>11. QED
  BY <1>4, <1>5, <1>6, <1>7, <1>8, <1>9, <1>10 DEF Engine

\* Between two GOs the hardware makes finitely many steps, whoever calls
\* and whatever fails.
THEOREM HardwareTerminates == Spec => HardwareWinds
<1> DEFINE Rests == /\ UNCHANGED <<ar, aw, cnt_en, w, beats, irq>>
                    /\ HardwareWork' = HardwareWork
<1>1. ASSUME TypeOK, NEW p \in Procs, Call(p), ~Go(p) PROVE Rests
  <2>1. UNCHANGED <<ar, aw, cnt_en, w, beats, irq>>
    BY <1>1 DEF Call, Prepare, MapFails, OutOfRange, WriteAddress, WriteOther, Taken,
                NotTaken, Finish, readVars, writeVars
  <2>2. UNCHANGED <<reads, writes>>
    BY <1>1 DEF Call, Prepare, MapFails, OutOfRange, WriteAddress, WriteOther, Taken,
                NotTaken, Finish, readVars, writeVars
  <2>3. QED
    BY <2>1, <2>2 DEF HardwareWork
<1>2. SharedIsr => Rests
  BY DEF SharedIsr, readVars, writeVars, HardwareWork
<1>3. TypeOK /\ [Next]_vars =>
        [(\A p \in Procs : ~Go(p)) => HardwareWork' < HardwareWork \/ Rests]_vars
  <2> HIDE DEF Rests
  <2>1. QED
    BY <1>1, <1>2, EngineWorks DEF Next
<1>4. QED
  BY <1>3, TypeCorrect, PTL DEF Spec, HardwareWinds

\* The steps that the call of p has left: four for each page that is still to
\* be launched, and the tail of socDma.
StepsLeft(p) ==
  CASE pc[p] = "address" -> 4 * (total[p] - sg[p]) + 1
    [] pc[p] = "other"   -> 4 * (total[p] - sg[p])
    [] pc[p] = "go"      -> 4 * (total[p] - sg[p]) - 1
    [] pc[p] = "wait"    -> 4 * (total[p] - sg[p]) - 2
    [] pc[p] = "finish"  -> 1
    [] pc[p] = "idle"    -> 0

\* launchDma goes round once per descriptor and no more, whoever else is
\* inside and whatever fails: each step of a call leaves it with fewer, and no
\* step of anything else changes how many there are.
CallsWind ==
  [][\A p \in Procs : Inside(p) =>
       \/ StepsLeft(p)' < StepsLeft(p)
       \/ UNCHANGED <<pc[p], total[p], sg[p]>> /\ StepsLeft(p)' = StepsLeft(p)]_vars

\* It makes at most four steps per page and one.
StepsBounded == \A p \in Procs : StepsLeft(p) \in 0 .. (4 * MaxPages + 1)

\* A call to socDma makes at most four steps per page and one.
THEOREM StepsAreBounded == Spec => []StepsBounded
<1>1. OpenInv => StepsBounded
  <2> SUFFICES ASSUME OpenInv, NEW p \in Procs
               PROVE  StepsLeft(p) \in 0 .. (4 * MaxPages + 1)
    BY DEF StepsBounded
  <2>1. /\ sg[p] \in 0 .. MaxPages /\ total[p] \in 0 .. MaxPages
        /\ pc[p] \in {"idle", "address", "other", "go", "wait", "finish"}
        /\ pc[p] \in {"address", "other", "go", "wait"} => sg[p] < total[p]
    BY DEF OpenInv, TypeOK, InLoop
  <2>2. QED
    BY <2>1 DEF StepsLeft
<1>2. QED
  BY <1>1, OpenInvariance, PTL

\* A call's own steps bring it to its end, and nothing else takes it back.
THEOREM CallsTerminate == Spec => CallsWind
<1> DEFINE Winds(p) ==
      \/ StepsLeft(p)' < StepsLeft(p)
      \/ UNCHANGED <<pc[p], total[p], sg[p]>> /\ StepsLeft(p)' = StepsLeft(p)
<1>1. ASSUME OpenInv, NEW p \in Procs, Inside(p), NEW q \in Procs, Call(q) PROVE Winds(p)
  <2>1. CASE q # p
    <3>1. UNCHANGED <<pc[p], total[p], sg[p]>>
      BY <1>1, <2>1 DEF Call, Prepare, MapFails, OutOfRange, Fail, WriteAddress,
                        WriteOther, Go, Taken, NotTaken, Finish, OpenInv, TypeOK
    <3>2. QED
      BY <3>1 DEF StepsLeft
  <2>2. CASE q = p
    <3>1. /\ sg[p] \in Nat /\ total[p] \in Nat
          /\ pc[p] \in {"address", "other", "go", "wait"} => sg[p] < total[p]
      BY <1>1 DEF OpenInv, TypeOK, InLoop
    <3>2. \/ /\ UNCHANGED <<total[p], sg[p]>>
             /\ \/ pc[p] = "address" /\ pc'[p] \in {"other", "finish"}
                \/ pc[p] = "other" /\ pc'[p] = "go"
                \/ pc[p] = "go" /\ pc'[p] = "wait"
                \/ pc[p] = "wait" /\ pc'[p] = "finish"
          \/ /\ pc[p] = "wait" /\ total'[p] = total[p] /\ sg'[p] = sg[p] + 1
             /\ pc'[p] = IF sg[p] + 1 < total[p] THEN "address" ELSE "finish"
          \/ pc[p] = "finish" /\ pc'[p] = "idle"
      BY <1>1, <2>2 DEF Call, Prepare, MapFails, MayEnter, OutOfRange, Fail, WriteAddress,
                        WriteOther, Go, Taken, NotTaken, Finish, OpenInv, TypeOK, Inside
    <3>3. StepsLeft(p)' < StepsLeft(p)
      BY <3>1, <3>2 DEF StepsLeft
    <3>4. QED
      BY <3>3
  <2>3. QED
    BY <2>1, <2>2
<1>2. ASSUME NEW p \in Procs, Engine \/ Isr \/ SharedIsr PROVE Winds(p)
  <2>1. UNCHANGED procVars
    BY <1>2 DEF Engine, ReadAddress, DestAddress, Delay, WriteData, ReadAnswer,
                WriteAnswer, Isr, SharedIsr
  <2>2. QED
    BY <2>1 DEF procVars, StepsLeft
<1>3. OpenInv /\ [Next]_vars => [\A p \in Procs : Inside(p) => Winds(p)]_vars
  <2> HIDE DEF Winds
  <2>1. QED
    BY <1>1, <1>2 DEF Next
<1>4. QED
  BY <1>3, OpenInvariance, PTL DEF Spec, CallsWind
=============================================================================
