------------------------------- MODULE SocDma -------------------------------
(***************************************************************************)
(* The DMA path of the driver together with the hardware it drives:        *)
(* socDma and launchDma (soc_miner.c) run by any number of processes, the  *)
(* address registers and the GO register (soc_miner_regs.v), the engine    *)
(* that turns a GO into one AXI access (simple_memory_access.sv), the      *)
(* interrupt it raises per access, and the ISR that gives the semaphore    *)
(* launchDma waits on.                                                     *)
(*                                                                         *)
(* The engine is seen at the level of its bus transactions: what it does   *)
(* between two clock edges, and when within a clock, is MemoryEngine's     *)
(* subject.  The semaphore is the pool of permits of SemaphoreSpec, which  *)
(* SocSemaphore implements.                                                *)
(*                                                                         *)
(* A "write" DMA moves data to the device, so the engine READS memory at   *)
(* SOURCE_ADDRESS; a "read" DMA makes it WRITE memory at                   *)
(* DESTINATION_ADDRESS.  One descriptor is one page of the user's buffer.  *)
(***************************************************************************)
EXTENDS Integers, Sequences, FiniteSets

CONSTANTS
  Procs,              \* processes that may be inside socDma
  MaxPages,           \* bound on the descriptors of a request
  MaxOutstanding,     \* accesses the memory system accepts before answering
  Directions,         \* the values of the parameter write that each asks for
  Faults,             \* what may go wrong around the driver, see FaultKinds
  TakeTurns,          \* TRUE iff user space runs one DMA at a time
  Ascii               \* the constant the driver parks the unused register on

\* alloc: an allocation, find_vma, get_user_pages or the mapping fails;
\* range: a page lies at or above 1G; timeout: the second in soc_sem_take
\* runs out; signal: a signal ends the wait; shared: the handler runs for an
\* interrupt of another device (the line is requested with IRQF_SHARED).
FaultKinds == {"alloc", "range", "timeout", "signal", "shared"}

Page == Procs \X (1 .. MaxPages)
Addr == Page \cup {Ascii}

ASSUME DmaAssumption ==
  /\ IsFiniteSet(Procs)
  /\ MaxPages \in Nat \ {0}
  /\ MaxOutstanding \in Nat \ {0}
  /\ Directions \in [Procs -> SUBSET BOOLEAN]
  /\ Faults \subseteq FaultKinds
  /\ TakeTurns \in BOOLEAN
  /\ Ascii \notin Page

VARIABLES
  pc,                 \* where each process is in socDma
  write,              \* its parameter write
  total,              \* sgNumTotal: the descriptors dma_map_sg returned
  sg,                 \* sgNum: the descriptors already done
  result,             \* what the call returns: "ok" (0) or "error"
  moved,              \* ghost: its pages the engine has accessed during the call
  src, dst,           \* the registers SOURCE_ADDRESS, DESTINATION_ADDRESS
  ar, reads,          \* arvalid; read accesses accepted and not answered
  aw, writes,         \* awvalid; write accesses accepted and not answered
  cnt_en, w, beats,   \* the data delay runs; wvalid; data beats accepted
  irq,                \* the edge-triggered interrupt is pending
  sem                 \* permits of the semaphore

procVars == <<pc, write, total, sg, result>>
readVars == <<ar, reads>>
writeVars == <<aw, writes, cnt_en, w, beats>>
vars == <<procVars, moved, src, dst, readVars, writeVars, irq, sem>>

TypeOK ==
  /\ pc \in [Procs -> {"idle", "address", "other", "go", "wait", "finish"}]
  /\ write \in [Procs -> BOOLEAN]
  /\ total \in [Procs -> 0 .. MaxPages]
  /\ sg \in [Procs -> 0 .. MaxPages]
  /\ result \in [Procs -> {"ok", "error"}]
  /\ moved \in [Procs -> SUBSET (1 .. MaxPages)]
  /\ src \in Addr /\ dst \in Addr
  /\ ar \in BOOLEAN /\ reads \in Seq(Addr)
  /\ aw \in BOOLEAN /\ writes \in Seq(Addr)
  /\ cnt_en \in BOOLEAN /\ w \in BOOLEAN /\ beats \in Nat
  /\ irq \in BOOLEAN
  /\ sem \in {0, 1}

NoCalls ==
  /\ pc = [p \in Procs |-> "idle"]
  /\ write = [p \in Procs |-> FALSE]
  /\ total = [p \in Procs |-> 0]
  /\ sg = [p \in Procs |-> 0]
  /\ result = [p \in Procs |-> "ok"]
  /\ moved = [p \in Procs |-> {}]

\* What reset leaves in the engine.
QuietEngine ==
  /\ src = Ascii /\ dst = Ascii
  /\ ar = FALSE /\ reads = <<>>
  /\ aw = FALSE /\ writes = <<>>
  /\ cnt_en = FALSE /\ w = FALSE /\ beats = 0

\* Mutant: probe leaves the semaphore given.
Init_SemGiven == NoCalls /\ QuietEngine /\ irq = FALSE /\ sem = 1

Init == NoCalls /\ QuietEngine /\ irq = FALSE /\ sem = 0

-----------------------------------------------------------------------------
(* socDma, up to the loop over the descriptors *)

\* The descriptor launchDma is working on.
Descriptor(p) == <<p, sg[p] + 1>>

MayEnter(p) == pc[p] = "idle" /\ (TakeTurns => \A q \in Procs : pc[q] = "idle")

\* kmalloc, sg_alloc_table, find_vma, get_user_pages and the list building:
\* n descriptors are mapped.
Prepare(p) ==
  /\ MayEnter(p)
  /\ \E d \in Directions[p], n \in 1 .. MaxPages :
       /\ write' = [write EXCEPT ![p] = d]
       /\ total' = [total EXCEPT ![p] = n]
  /\ pc' = [pc EXCEPT ![p] = "address"]
  /\ UNCHANGED <<sg, result, moved, src, dst, readVars, writeVars, irq, sem>>

\* dma_map_sg returns 0: no descriptor, the tail of socDma and -1.  (An
\* earlier failure returns at once; nothing here can tell it from no call.)
MapFails(p) ==
  /\ "alloc" \in Faults
  /\ MayEnter(p)
  /\ write' \in {[write EXCEPT ![p] = d] : d \in Directions[p]}
  /\ result' = [result EXCEPT ![p] = "error"]
  /\ pc' = [pc EXCEPT ![p] = "finish"]
  /\ UNCHANGED <<total, sg, moved, src, dst, readVars, writeVars, irq, sem>>

-----------------------------------------------------------------------------
(* launchDma, one iteration *)

\* Mutant: the error code of launchDma is not returned.
Fail_CodeLost(p) ==
  /\ pc' = [pc EXCEPT ![p] = "finish"]
  /\ UNCHANGED <<write, total, sg, result>>

Fail(p) ==
  /\ result' = [result EXCEPT ![p] = "error"]
  /\ pc' = [pc EXCEPT ![p] = "finish"]
  /\ UNCHANGED <<write, total, sg>>

OutOfRange(p) ==
  /\ "range" \in Faults
  /\ pc[p] = "address"
  /\ Fail(p)
  /\ UNCHANGED <<moved, src, dst, readVars, writeVars, irq, sem>>

\* Mutant: the direction is taken the user's way round.
WriteAddress_Swapped(p) ==
  /\ pc[p] = "address"
  /\ IF write[p] THEN dst' = Descriptor(p) /\ UNCHANGED src
                 ELSE src' = Descriptor(p) /\ UNCHANGED dst
  /\ pc' = [pc EXCEPT ![p] = "other"]
  /\ UNCHANGED <<write, total, sg, result, moved, readVars, writeVars, irq, sem>>

\* The page's address goes to the register of the DMA's direction ...
WriteAddress(p) ==
  /\ pc[p] = "address"
  /\ IF write[p] THEN src' = Descriptor(p) /\ UNCHANGED dst
                 ELSE dst' = Descriptor(p) /\ UNCHANGED src
  /\ pc' = [pc EXCEPT ![p] = "other"]
  /\ UNCHANGED <<write, total, sg, result, moved, readVars, writeVars, irq, sem>>

\* ... and a constant to the other register.
WriteOther(p) ==
  /\ pc[p] = "other"
  /\ IF write[p] THEN dst' = Ascii /\ UNCHANGED src
                 ELSE src' = Ascii /\ UNCHANGED dst
  /\ pc' = [pc EXCEPT ![p] = "go"]
  /\ UNCHANGED <<write, total, sg, result, moved, readVars, writeVars, irq, sem>>

\* Mutant: GO = 0x11, both directions at once.
Go_Both(p) ==
  /\ pc[p] = "go"
  /\ ar' = TRUE /\ aw' = TRUE /\ cnt_en' = TRUE
  /\ pc' = [pc EXCEPT ![p] = "wait"]
  /\ UNCHANGED <<write, total, sg, result, moved, src, dst, reads, writes, w, beats,
                 irq, sem>>

\* The GO bit lives for one clock (auto_clear.sv).  A request that is still
\* waiting for the bus, or a delay that still runs, absorbs it.
Go(p) ==
  /\ pc[p] = "go"
  /\ IF write[p]
       THEN ar' = TRUE /\ UNCHANGED <<reads, writeVars>>
       ELSE aw' = TRUE /\ cnt_en' = TRUE /\ UNCHANGED <<readVars, writes, w, beats>>
  /\ pc' = [pc EXCEPT ![p] = "wait"]
  /\ UNCHANGED <<write, total, sg, result, moved, src, dst, irq, sem>>

\* Mutants: the loop does not look at sgNumTotal; the wait is left out.
Taken_NoLoopTest(p) ==
  /\ pc[p] = "wait"
  /\ sem > 0
  /\ sem' = sem - 1
  /\ sg' = [sg EXCEPT ![p] = @ + 1]
  /\ pc' = [pc EXCEPT ![p] = "address"]
  /\ UNCHANGED <<write, total, result, moved, src, dst, readVars, writeVars, irq>>

Taken_NoWait(p) ==
  /\ pc[p] = "wait"
  /\ sg' = [sg EXCEPT ![p] = @ + 1]
  /\ pc' = [pc EXCEPT ![p] = IF sg[p] + 1 < total[p] THEN "address" ELSE "finish"]
  /\ UNCHANGED <<write, total, result, moved, src, dst, readVars, writeVars, irq, sem>>

\* soc_sem_take returns 0.
Taken(p) ==
  /\ pc[p] = "wait"
  /\ sem > 0
  /\ sem' = sem - 1
  /\ sg' = [sg EXCEPT ![p] = @ + 1]
  /\ pc' = [pc EXCEPT ![p] = IF sg[p] + 1 < total[p] THEN "address" ELSE "finish"]
  /\ UNCHANGED <<write, total, result, moved, src, dst, readVars, writeVars, irq>>

\* soc_sem_take returns -1.
NotTaken(p) ==
  /\ Faults \cap {"timeout", "signal"} # {}
  /\ pc[p] = "wait"
  /\ sem = 0
  /\ Fail(p)
  /\ UNCHANGED <<moved, src, dst, readVars, writeVars, irq, sem>>

-----------------------------------------------------------------------------
(* socDma, after the loop: unmap, release the pages, return result.       *)
(* The hardware is not told: its registers and its accesses keep the       *)
(* addresses, and a request for the same buffer gets the same pages again. *)

\* The locals of the call are gone with it.
Finish(p) ==
  /\ pc[p] = "finish"
  /\ pc' = [pc EXCEPT ![p] = "idle"]
  /\ write' = [write EXCEPT ![p] = FALSE]
  /\ total' = [total EXCEPT ![p] = 0]
  /\ sg' = [sg EXCEPT ![p] = 0]
  /\ result' = [result EXCEPT ![p] = "ok"]
  /\ moved' = [moved EXCEPT ![p] = {}]
  /\ UNCHANGED <<src, dst, readVars, writeVars, irq, sem>>

Call(p) ==
  \/ Prepare(p)
  \/ MapFails(p)
  \/ OutOfRange(p)
  \/ WriteAddress(p)
  \/ WriteOther(p)
  \/ Go(p)
  \/ Taken(p)
  \/ NotTaken(p)
  \/ Finish(p)

-----------------------------------------------------------------------------
(* The engine and the memory: AXI handshakes *)

ReadAddress ==
  /\ ar /\ Len(reads) < MaxOutstanding
  /\ ar' = FALSE
  /\ reads' = Append(reads, src)
  /\ UNCHANGED <<procVars, moved, src, dst, writeVars, irq, sem>>

DestAddress ==
  /\ aw /\ Len(writes) < MaxOutstanding
  /\ aw' = FALSE
  /\ writes' = Append(writes, dst)
  /\ UNCHANGED <<procVars, moved, src, dst, readVars, cnt_en, w, beats, irq, sem>>

\* AXI_COMMAND_TO_DATA_CYCLES clocks after the GO the data is offered.
Delay ==
  /\ cnt_en
  /\ cnt_en' = FALSE /\ w' = TRUE
  /\ UNCHANGED <<procVars, moved, src, dst, readVars, aw, writes, beats, irq, sem>>

WriteData ==
  /\ w /\ beats < MaxOutstanding
  /\ w' = FALSE /\ beats' = beats + 1
  /\ UNCHANGED <<procVars, moved, src, dst, readVars, aw, writes, cnt_en, irq, sem>>

\* The access counts as the page's if its owner is inside, the call that
\* launched it or, when it is late, a retry on the same buffer.
Access(a) ==
  moved' = IF a \in Page /\ pc[a[1]] # "idle"
             THEN [moved EXCEPT ![a[1]] = @ \cup {a[2]}] ELSE moved

\* The memory answers; the engine is always ready and raises Interrupt.
ReadAnswer ==
  /\ reads # <<>>
  /\ reads' = Tail(reads)
  /\ Access(Head(reads))
  /\ irq' = TRUE
  /\ UNCHANGED <<procVars, src, dst, ar, writeVars, sem>>

WriteAnswer ==
  /\ writes # <<>> /\ beats > 0
  /\ writes' = Tail(writes)
  /\ beats' = beats - 1
  /\ Access(Head(writes))
  /\ irq' = TRUE
  /\ UNCHANGED <<procVars, src, dst, readVars, aw, cnt_en, w, sem>>

Engine ==
  ReadAddress \/ DestAddress \/ Delay \/ WriteData \/ ReadAnswer \/ WriteAnswer

\* Mutant: the interrupt is acknowledged and nothing is given.
Isr_NoGive ==
  /\ irq
  /\ irq' = FALSE
  /\ UNCHANGED <<procVars, moved, src, dst, readVars, writeVars, sem>>

\* isr: give the semaphore, whoever raised the interrupt.
Isr ==
  /\ irq
  /\ irq' = FALSE
  /\ sem' = 1
  /\ UNCHANGED <<procVars, moved, src, dst, readVars, writeVars>>

SharedIsr ==
  /\ "shared" \in Faults
  /\ sem' = 1
  /\ UNCHANGED <<procVars, moved, src, dst, readVars, writeVars, irq>>

Next == (\E p \in Procs : Call(p)) \/ Engine \/ Isr \/ SharedIsr

Spec == Init /\ [][Next]_vars

\* A process inside the call runs, its timeout fires; the memory accepts and
\* answers each access (AXI), and a pending interrupt is delivered.  Nobody
\* has to call socDma, and no fault has to happen, except that a second
\* passes.
Running(p) ==
  WriteAddress(p) \/ WriteOther(p) \/ Go(p) \/ Taken(p) \/ Finish(p)

Fairness ==
  /\ \A p \in Procs : WF_vars(Running(p) \/ ("timeout" \in Faults /\ NotTaken(p)))
  /\ WF_vars(ReadAddress) /\ WF_vars(DestAddress) /\ WF_vars(Delay)
  /\ WF_vars(WriteData) /\ WF_vars(ReadAnswer) /\ WF_vars(WriteAnswer)
  /\ WF_vars(Isr)

FairSpec == Spec /\ Fairness

-----------------------------------------------------------------------------
(* Properties *)

Inside(p) == pc[p] # "idle"

Mapped == {a \in Page : Inside(a[1]) /\ a[2] <= total[a[1]]}

\* A descriptor that launchDma counts as done has been accessed by the
\* engine: a completion is never taken for another one.
DoneMeansMoved == \A p \in Procs : 1 .. sg[p] \subseteq moved[p]

\* Every access the engine has in flight or is asking for is to a page that
\* socDma keeps mapped: it never outlives dma_unmap_sg.
AccessesMappedPages ==
  /\ \A i \in 1 .. Len(reads) : reads[i] \in Mapped
  /\ \A i \in 1 .. Len(writes) : writes[i] \in Mapped
  /\ ar => src \in Mapped
  /\ aw => dst \in Mapped

One(b) == IF b THEN 1 ELSE 0

\* The completions on their way from the engine to the semaphore.
UnderWay == One(ar) + Len(reads) + One(aw) + Len(writes) + One(irq) + sem

\* A process waits for exactly one completion, which is somewhere on its way
\* from the engine to the semaphore; nobody waits and nothing is on its way.
OneCompletionOnItsWay == UnderWay = One(\E p \in Procs : pc[p] = "wait")

\* soc_miner.c:1218 takes the semaphore at probe "so that interruptWait
\* actually blocks": no permit is there when an access is launched.
WaitBlocks == \A p \in Procs : pc[p] = "go" => sem = 0

\* The completions on their way that no process waits for, less the waits for
\* which none is on its way.
Surplus == UnderWay - Cardinality({p \in Procs : pc[p] = "wait"})

\* Where the leftover permit comes from that soc_sem_take hands to the wrong
\* wait: a failed wait leaves one completion that nobody waits for, another
\* device's interrupt adds one, and nothing else does.  Calls that overlap may
\* take each other's completions or lose some, but leave none over.
StraysExplained ==
  [][/\ Surplus' <= Surplus + 1
     /\ Surplus' > Surplus => SharedIsr \/ \E p \in Procs : NotTaken(p)]_vars

\* The comments "Get mutual exclusion." (soc_miner.c:497) and "Allow others
\* to do DMAs." (soc_miner.c:771) delimit the body of socDma.
MutualExclusion ==
  \A p, q \in Procs : Inside(p) /\ Inside(q) => p = q

\* AXI: an address does not change while its valid waits for ready.  The
\* engine wires the registers to the bus, so the driver has to see to it.
AddressHeld ==
  [][(ar /\ ar' => src' = src) /\ (aw /\ aw' => dst' = dst)]_vars

\* Every call of socDma returns.
CallReturns == \A p \in Procs : Inside(p) ~> ~Inside(p)

\* Callers that take turns get what DmaSpec promises.
Promise == INSTANCE DmaSpec WITH
  serving <- {p \in Procs : Inside(p)}, asked <- total, pages <- moved

KeepsPromise ==
  /\ Promise!Spec
  /\ [][\A p \in Procs : Inside(p) /\ ~Inside(p)' =>
         Promise!Return(p, result[p] = "ok")]_vars
=============================================================================
