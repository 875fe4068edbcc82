# SocMiner: a TLA+ model of the driver and of the chip's control logic

SocMiner is a bitcoin-mining experiment on a Xilinx Zynq: a Linux character
driver (`src/sw/linux_driver`) hands the physical addresses of user pages to a
small engine in the FPGA (`src/hw/rtl`), which accesses memory over AXI and
interrupts the processor when a word has been read or written.  This directory
models the driver, from `insmod` to the last unmapped page, and the chip's
control logic, checks both with TLC on small instances and proves most of the
results with TLAPS for every instance.

## The system

    user processes
       | soc_api.c: open, close, ioctl (each a thread of its own)
    soc_miner.c:  probe, remove, who may call when               SocProbe
       |          open/release/proc  -> counters under sem       SocFile
       |          ioctl -> handlers, chunk loops                 SocIoctl
       |          socDma: pages, list, what it holds             SgList
       |          socDma -> launchDma -> soc_sem_take            SocDma, DmaSpec
       |                                     ^ soc_sem_give      SocSemaphore, SemaphoreSpec
       | iowrite32/ioread32 (AXI4-Lite)      |
    axi4lite2regbus -> soc_miner_regs -> GO, addresses           RegBridge
                                   |         |
                       simple_memory_access  | Interrupt         MemoryEngine
                                   | AXI4    |                        |
                       multiplexer (acp_en)  |                        |
                           |         |       |                        |
                        memory      ACP   -> isr

| component | state it keeps | operations | what is hard about it |
|---|---|---|---|
| interrupt semaphore (`soc_miner.c` 62-155) | `count`, `sleepers`, a wait queue | `soc_sem_give` (from the ISR), `soc_sem_take` (threads) | lock-free: test and decrement are separate, losers push the counter below 0, sleeping races with waking |
| DMA path (`soc_miner.c` 257-776) | the call's locals, the device registers, the semaphore | `socDma`, `launchDma`, `isr` | any number of callers without a lock; timeout, signal and late interrupt; pages unmapped while the engine runs |
| character device (`soc_miner.c` 896-1128) | `writers`, `opens`, `closes` under `sem` | `open`, `release`, /proc show | races of opens and closes; signals in the middle |
| memory access engine (`simple_memory_access.sv`) | AXI valids, delay counter | GO pulses in, AXI access and Interrupt out | overlapping reads and writes, merged interrupts, counter compare by equality |
| register bridge and registers (`axi4lite2regbus.sv`, `soc_miner_regs.v`, `auto_clear.sv`) | one latched access, answers, a timeout counter, the registers | one AXI4-Lite read or write | channels in different clocks, GO bits that must pulse once, a timeout that is not reset |
| ioctl dispatch and transfers (`soc_miner_ioctl.c`, `soc_api.c`) | none across calls | dispatch, copy and loop in chunks | 32-bit arithmetic, sizes of 0, faults in any chunk, holes in the dispatch table |
| scatter-gather list (`soc_miner.c` 501-776) | the call's locals and what it holds | allocate, pin, cut into pages, map, release | a failure at each step, fewer pages than asked for, offsets |
| probe and remove (`soc_miner.c` 1151-1381) | what has been acquired | acquire in order, release all | a failure in the middle, users before the end, another driver |
| ACP/GP routing (`soc_miner.sv` 189-330) | a register bit | route the engine's port | switching with an access in flight |
| debug SRAMs (`debug_sram.sv`) | 256 words and a write pointer | log a handshake, read | wrap-around, reading while it is written |
| userland tools, wrapper, interfaces, test benches, `xfifo_dma.c`, `hello/`, `lib_example/` | - | - | thin wrappers, wiring, vendor code and toys: not modelled |

What makes each correct:

- semaphore: no permit is invented or lost, no thread sleeps beside a permit,
  a take with a timeout returns unless others take permit after permit;
- DMA: a page counted as done has been accessed, the engine touches only pages
  that are mapped, addresses on the bus are stable, a call returns, and returns
  success only if all pages have been moved;
- character device: at most one writer, counters that balance, every way out
  gives the kernel semaphore back;
- ioctls: a call that returns 0 has moved the whole request, chunk after chunk;
  however it returns it holds nothing, and where the kernel kills it, nothing
  that others wait for;
- scatter-gather list: it covers exactly the bytes of the request;
- probe and remove: a callback finds what it uses, nothing stays behind, nothing
  of another driver is taken;
- engine and multiplexer: one AXI access at one port and one interrupt per GO,
  AXI's rules for valids at each port, the data delay, an answer for everything;
- registers: reads return what was written, GO bits pulse exactly once,
  answers go to the access that waits for them, nothing hangs.

## The modules

Each module's head says what it abstracts; PROJECT.json maps each definition to
the lines it stands for.  Operators named `X_Something` under the comment
"Mutant" are broken variants of the operator `X` that follows: the property
that catches each is listed in PROJECT.json, which shows that the property
depends on that line of the code.  They are used nowhere else.

**SocSemaphore** (`soc_miner.c` 84-155).  One action per atomic operation:
`Call`/`LoopHead` is the head of the do-while loop, `CondTrue`, `CondFalse`,
`Expire` and `Interrupt` are the outcomes of `wait_event_*_timeout`, `Test` and
`DecTaken`/`DecLost` the two halves of the take, `SetBit` or `Increment` and
`Wake` the halves of the give.  `binary` is the kind, chosen once.  `left` abstracts the remaining timeout to none,
some, or for ever.  Linux's wait queue is external: a wake-up makes all the
sleepers look again, and a thread that enqueues itself looks once more before
it sleeps.  When a timeout expires while the condition has just become true,
newer kernels return one jiffy instead of 0; this is the behaviour of being
woken first and is covered by `Wake` and `CondTrue`.

**SemaphoreSpec** is the abstract pool of permits; `SocSemaphore` implements it
(`ImplementsPool`), and `SocDma` uses it.

**SocDma** (`soc_miner.c` 257-776, with the engine and the ISR).  `pc` is where a
process is in `socDma`: `Prepare` or `MapFails` stands for everything up to the
loop, then one descriptor goes through `OutOfRange` or `WriteAddress`,
`WriteOther`, `Go`, and `Taken` or `NotTaken`; `Finish` is the unmapping and the
release.  Each register write is a step.  The engine is seen at its AXI
handshakes.  `moved` is a ghost: the pages whose access the memory has answered
while a call of their process lasts, the one that launched it or, for a late
one, a retry on the same buffer: `Finish` tells the hardware nothing, and its
registers and accesses keep the addresses.  The registers are mapped (SgList has
the other case).  "Moved" means what the
engine does, one 64-bit access per descriptor: `LENGTH` feeds the data bus
(`simple_memory_access.sv` 150), not a burst length.  Earlier failures
(`kmalloc`, `find_vma`, `get_user_pages`) return before anything here changes;
what they leave behind is SgList's subject.

**DmaSpec** is what a caller expects: requests one at a time, pages in order,
success only when all are moved.

**SocFile** (`soc_miner.c` 896-1128).  `sem` is the kernel semaphore, taken with
`down_interruptible`; a signal can end each wait (`OpenInterrupted`,
`ReleaseInterrupted`, `ShowInterrupted`).  The ioctls touch none of its
variables.  A signal ends a wait only while another thread holds
`sem`: `down_interruptible` takes a free one without looking at signals.  Test
and increment are separate steps, so that it is `sem` that makes them atomic.

**SgList** (`soc_miner.c` 367-776) is the same function seen from its resources.
`at` is where the call is; `AllocPages`, `AllocTable`, `DownRead`, `FindVma` and
`GetUserPages` each succeed or return early with what is `held`;
`GetUserPages` pins any prefix of the pages.  `OnlyEntry`, `FirstEntry` and
`NextEntry` write the entries, with the unsigned comparison of `bytesLeft`;
`MapSg`, `Launch` (which here works or fails: SocDma says what it does),
`Unmap`, `Peek` (the debugging print that reads 8 bytes at the user's address)
and `Release` end the call.  `dev_virtaddr` is chosen once: whether probe's
`ioremap`, which the code does not check, has worked; a launch without it kills
the caller.  So may the print, even of a pinned page: another thread can have
unmapped it from that address during the wait.  The checks of a chained or missing first entry
(603-606, 630-633) cannot be true of a table just allocated and are left out.

**SocIoctl** (`soc_miner.c` 197-232 and 1031-1061, `soc_miner_ioctl.c`,
`soc_miner_defines.h`, `soc_api.c`) extends SgList.  The caller is a program that
uses `soc_api.c` (`CallTransfer`, `CallDma`, `CallStartup`, `CallStop`) or makes
up any argument (`CallIoctl`).  `soc_miner_ioctl` looks the command up;
`CopyBlock` is the head of the handlers, `PrepareRegisters` and `PrepareMemory`
choose the bounce buffer and compute the chunks, `MoveChunk` is one turn of the
loop, `ChunkFault` its failure, `FreeBuffer` the way out; `CallSocDma`,
`InSocDma` and `DmaReturns` are the DMA handlers.  Every `copy_*_user` and
`kmalloc` may fail; `NoRegisters` is a register access when `ioremap` has.  The
length of command 1's parameter is signed, and a negative one, which only
`CallIoctl` sends, kills the caller.  `touched` and `copied` are ghosts: the bus addresses
accessed and the bytes of the user's buffer moved.  A division by 0 (`count` =
0) gives 0, which is what the ARM kernel's `__div0` returns.  A request's
buffer and registers exist (they end below `SPACE`, the user's part of the
addresses), which is why the sums do not overflow; one call runs at a time,
because handlers share nothing but the registers.

**SocProbe** (`soc_miner.c` 1151-1381).  `pc` is where the load, probe or remove
is, one acquisition or release per step.  Every step that the code lets fail
may fail; those whose failure it does not look at (`Ioremap`,
`CreateProcEntry`, `RequestIrq`) go on.  Between any two steps users open and
close, the ISR runs, and another driver takes or returns the major number and
the region.  The driver core (`Bind`, `Unbind`) and the other driver are
external.  `files` says when a descriptor was opened, since that decides what it
can rely on.

**MemoryEngine** (`simple_memory_access.sv` behind `soc_miner.sv` 189-330).  A
step is a clock edge; each `always_ff` block is the definition of a register's
next value and all of them move together, so that a comparison with `cnt` reads
the clock before: data with delay 0 comes up one clock after its address.  `Port` is the multiplexer: the port
that sees the engine's valids and whose readies and answers it sees.  Inputs
(GO, the readies and answers at that port) are chosen freely within AXI.  The
memories are external.

**RegBridge** (`axi4lite2regbus.sv`, `soc_miner_regs.v`, `auto_clear.sv`,
`soc_miner.sv` 369-484).  A step is a clock edge.  One address of each kind and
two interesting bits per word, the GO bits; those for the ACP
(`soc_miner_regs.v` 256-258), which the top level connects to nothing, are left
out.  The master raises a write's address and data
together, as `axi_driver.svh` does, or the data afterwards.

**MC\*** modules give the constants their values.

## The runs

| run | instance | shows |
|---|---|---|
| SemBothKinds | 3 takers, the ISR, 2 gives, binary (the driver's) and counting | safety, debts, a permit is taken, a timed take returns or another permit is given, refinement of the pool |
| DmaTurns | 2 processes in turn, up to 4 pages, both directions, failures of the mapping and the address range | the whole promise of a call |
| DmaContention | a process that reads and one that reads or writes at once, 1 page, 1 access outstanding, all failures of the wait, foreign interrupts | leftover completions come only from failed waits and other devices, one from each |
| FileSignals | 3 threads, signals, 3 opens | one writer; counters off only by interrupted releases; every call returns |
| EngineOrderly | 3-bit counter, delays 0, 1, 2, 5, 7, 2 accesses outstanding, both ports | one access per GO at one port, AXI's rules there, the delay between address and data, answers |
| Registers | an address of each kind, both orders of a write, answers taken at once or late | right data, GO pulses, no hang |
| IoctlCalls | every command and length, requests of 0 to 4 chunks and 0 to 6 pages, every failure | success is whole, order, nothing held, what a killed call leaves, the list's bytes, an end |
| ProbeCycle | loads, failed loads, unloads and unbinds, 2 users, the ISR, another driver | callbacks, descriptors, ownership |

Four runs end in a counterexample, each against a sentence of the source:

- **DmaNoLock**: two processes are inside `socDma`, between "Get mutual
  exclusion." and "Allow others to do DMAs."; the calls are commented out.
- **DmaLate**: after a timeout the late interrupt leaves a permit, so the next
  wait does not block, which the comment in `probe` wants it to.
- **FileLeak**: a signal during a close that waits for `sem`, because another
  thread is inside, leaves `writers` counted for ever.
- **EngineMerge**: a read and a write answered in one clock make one interrupt.

More weaknesses were met that no sentence of the repository speaks about, so
no run is kept for them: the DMA ioctls look neither at the mode of the
descriptor nor at `sem`, so the one-writer rule of `open` does not reach them; a
read answered while the master holds `rready`
low can be overwritten by `0xdeaddead` (every SRAM read advances the timeout
counter by 2 and nothing resets it); write data accepted before its address
goes to the previous address; after a timeout the engine may access a page that
`dma_unmap_sg` has released, or one that a retry has pinned again, before its
launch; the print at the end of `socDma` can kill a caller whose buffer is
shorter than 8 bytes or has been unmapped meanwhile, and one of no pages is
killed at `pages[0]`; a negative length of command 1 makes `copy_from_user` clear
the stack; a `get_user_pages` that falls short is reported as success; the
dispatch table has null pointers at commands that `soc_miner_defines.h`
declares; a failed `ioremap` keeps the I/O region for ever and leaves a bound
device whose registers kill their user, and a failed
`register_chrdev` takes the number away from its owner; unbinding frees the
structure under open descriptors; registers of one chunk are accessed one byte
apart.  A property that one of these cases would break names it as its exception
or is checked where the case does not occur; the hazards in PROJECT.json say
which of them no property covers.

### Bounds

`MaxGives` (SocSemaphore) and `MaxOpens` (SocFile) bound the length of a
behaviour.  The first also bounds how often a taker can lose: a wait that finds
its condition true keeps its whole timeout, so against gives without end a timed
take may lose for ever.  `TimedTakeReturns` is therefore stated per give: such a
take returns or another permit is given.  2 gives to 3 takers already make two of them race for each
permit and leave a debt of two, which the counting give has to repair; 3 opens
let a writer come after an interrupted release while a third thread waits.
`MaxPages` = 4 lets the loop of `launchDma` run to its first, middle and last
page; with two processes at once a single page lets one take the other's
completion and overwrite its registers.  `Directions` is what each process
asks for: with contention one reads and the other reads or writes, so that they
share one half of the engine or use both at once.  `MaxOutstanding` is the depth of the memory system: 2 lets an
address be accepted while an earlier access is unanswered; with 1 it waits in
the engine, where a further GO is absorbed.  `CNT` = 8
instead of 2^16: the delay reaches 0, the maximum and values between.  `Wrap`
bounds the ghost `unannounced` of MemoryEngine.  In IoctlCalls a word has 64
values instead of 2^32, a page 8 bytes, the bounce buffers hold 2 registers on
the stack and 16 bytes (4 registers) on the heap;
addresses and sizes below `SPACE` = 48 give requests on the stack, of exactly
one chunk, of several, with a partial last one, and of none; buffers that begin
in the middle of a page and span up to 6.  The proofs cover every
other size.  ProbeCycle has no bound but the number of users.  No run uses
symmetry.

### Fairness

A thread in the kernel keeps running and a kernel timer fires (weak fairness of
the thread's steps, in SocIoctl of `Kernel`; calls themselves are not fair); an ISR that has started
finishes; a pending interrupt is delivered; the clock runs; an AXI slave accepts
and answers in the end, and the processor takes its answer.  Strong fairness is
assumed only for getting the kernel's semaphore, which is FIFO.  No fault has to
happen, except that a second passes.  DmaContention, ProbeCycle and the runs
that end in a counterexample check safety only and assume none.

### Deadlock

TLC checks it in every passing run: none of the systems stops.

## The proofs

**SocSemaphore_proofs**, for any threads, any number of gives and both kinds:
`TypeCorrect`; `CounterSteps` (what one step does to the counter); from it
`Conservation` (`PermitsConserved` is inductive with the types) and
`PoolImplemented` (each kind of counter step is a give, a take or a stutter of
`SemaphoreSpec`); `WakeupsReach` (`NoLostWakeup` is inductive with the types:
only `CondFalse` puts to sleep, and it sees no permit).

`DebtIsBounded` counts the takers between test and decrement (`DecidingSteps`):
each step leaves them and the counter as good as they were, or a permit is
there, in which case all the takers could still be deciding and the bound holds
anyway, or one of them decrements and leaves.  With one taker the bound says
that the counter is never below 0 and the taker never loses (`LoneTakerWins`):
the gap between test and decrement is harmless in the driver as long as calls
of `socDma` do not overlap.  `SleepersAreCounted` counts the takers in the wait
in the same way (`WaitingSteps`): `sem->sleepers`, which the driver logs and no
give reads, agrees with them at every step.

**SocFile_proofs**, for any finite set of threads, with or without signals:
`FileInv` is inductive and gives `TypeCorrect` (so `writers` never drops below
0) and `OneWriter`.  `WriterExclusive` alone is not inductive, since it does not
mention the counter that `open` tests; `FileInv` adds that being inside is
holding `sem`, that a counted thread makes `writers` positive, and that a thread
between test and increment still sees 0.  `Balance` strengthens `CountsBalance`
to the states in which somebody is inside (`BalanceInv`: the sets of counted
threads, instead of the open descriptors).

Three theorems are about the leak that the run FileLeak finds.  `LeakInv` says
that a release of a writer that was interrupted leaves no writer behind, and
none can come.  So `writers` is 0 or 1 (`CountIsABit`); where no signal arrives
it is 0 whenever nobody writes (`OnlySignalsLeak`: the interrupted release is
the only cause); and once it has happened nobody opens the device for writing
again (`LeakIsForEver`).

**SocDma_proofs**, for any processes, pages per request and depth of the memory
system.  The first part is about `CalmSpec`: the behaviours of `SocDma` in which
no two calls have overlapped, no wait has failed and the handler has not run for
another device, so far.  It restricts the steps that happen, not the instance: a
system in which all of that is possible has these theorems up to the moment it
does happen, which is what DmaNoLock and DmaLate show.  `DmaInv` says where the
one access is: nothing is anywhere while nobody waits (`AtRest`), and while a
process waits its access is either in the engine and the memory, with the
process's own page (`ReadRuns`, `WriteRuns`), or done (`AccessDone`); `Place`
ties the pages moved to the loop counter.  One lemma per action shows that
`DmaInv` is inductive (`StepInv`).  From it: `CompletionIsOwn`,
`MappedAccesses`, `OneCompletion`, the action property `AddressStable`, and
`PromiseKept`, the refinement of DmaSpec (`PromiseStep` maps the set-up to
`Request`, an answer of the memory to `Move`, `Finish` to `Return`, the rest to
stutters); `WaitsBlock`, the property that the run DmaLate refutes for waits that
fail; and `WaitsAreServed`: whoever waits without a permit has a step of the
hardware ahead of it.

Which instances are calm is a theorem too: `TurnsExclude` (callers that take
turns exclude one another, whatever fails) and `TurnsAreCalm` (if they also have
the interrupt line to themselves and no wait of theirs fails, every behaviour is
calm: the instance of DmaTurns).

The second part is about every behaviour, with any callers and any faults.
`OpenInv` is inductive: the types, and that a call in the loop has a descriptor
left; it gives `TypeCorrect`.  `StraysAreFaults` proves the property of
DmaContention: `Surplus` is the number of completions on their way (asked for,
in the memory, pending, given) less that of the waits, and one lemma for each
part of the path (`GoBalance`, `WaitBalance`, `EngineBalance`, `IsrBalance`)
shows that only a failed wait and another device raise it, by one.  Calls that
overlap merge completions and so lower it, which is why some of them time out.
And two variants: the steps a call has left (`StepsLeft`), at
most four per page and one (`StepsAreBounded`), which each of its steps lowers
and no other step changes (`CallsTerminate`); and the handshakes and interrupts
that the hardware has left (`HardwareWork`), which each of its steps lowers and
only a GO raises (`HardwareTerminates`).

**SgList_proofs**, for every size of a word and a page and every request that,
rounded up, fits a word: `SgInv` says for each step what the call holds and how
many pages are pinned (`HoldInv`), how many are wanted (`CountInv`), and which
entries have been written (`ListInv`: the first begins at the offset, each other
one at 0, and `bytesLeft` is the request less the pages filled).  The arithmetic
is in lemmas of its own (`Quotient` bounds a division, `ModSmall` removes a
modulus, `WantedPages` says that the pages counted are exactly those the buffer
lies on).  `Cover` derives `SegmentsCover`, which the entries imply only together
with the number of pages.  `SgStepUsed`: every step lowers `SgStepsLeft`.

**SocIoctl_proofs** extends it to the whole call.  `SuccessIsWhole` speaks of the
end of a loop that counts chunks, whose body counts what is left; `LoopInv` ties
the two: the chunks to come are enough for what is left, and what has been moved
is the request without what is left.  `PlaceInv` and `QuietInv` say where the
call is and that nothing moves elsewhere.  From `IoctlInv`: `TypeCorrect` (no
address, size or count leaves its word), `WholeOrError`, `ChunksInOrder`,
`CallsReleaseAll`, `DeathIsContained`, `ListCovers`.  `WholeOrError` counts what
the driver's access functions were handed: it excepts the short pin (583-588),
and the memory functions behind it are empty (835-842).  `DeathIsContained` says
what a call that dies in the kernel leaves: no `mmap_sem`, which its own exit
would wait for, and, with the registers mapped, no mapping and no bounce buffer;
a DMA that has built its list leaves all its pages pinned, so that a late access
of the engine meets them and not somebody else's.  `CallsWind` is the argument
behind `IoctlReturns`: while the kernel runs a call, each step lowers `StepsLeft`,
a positive number made of the chunks to come and of `SgStepsLeft`.

**SocProbe_proofs**, for any users: `ProbeInv` says for every step of probe and
remove what has been acquired by then (`Structure`, `Callable`, `Mapping`,
`LateBound`); each property is the conjunction of what its steps need.

**MemoryEngine_proofs**, for any counter, delays and memories.  For software that
awaits each answer (`OneAtATime`): `EngineInv` strengthens `GoIsOneAccess` with
at most one access of each direction, and `DelayRuns` (`cnt` is the age of the
delay and has not passed the register it is compared with, so the comparison by
equality stops it).  `ReadStep`, `WriteStep` and `DelayStep` show that a clock
keeps it; `OneAccess`, `ValidsStay` and `DelayExact` (data `cycles + 1` clocks
after its address, so that `cycles` clocks lie between) follow, and `GosComeNearer`:
every clock lowers what an access has left (its handshakes, its delay, its
answer), or the memory is letting the engine wait.

For any software, which may repeat a GO, change the delay or switch the port at
any time: `AnyInv` gives `TypeCorrect` and `NoneInvented` (no more is under way
than GOs have asked for; summed over both ports, since the port may have been
switched in between).  `SoloInterrupts` says what software has to do for an
interrupt per word, which the run EngineMerge shows to be missing: besides
awaiting each answer, never have a read and a write under way at once (`Solo`).

**RegBridge_proofs**, for a master with one access at a time that offers its
writes in either way and takes its answers when it likes: `Phases` lists the
seven states of an access in the bridge, and `PhaseStep` takes each to its
successors.  `RegistersKept` says that a register is what was written to it or
that the write is at its input, which gives `GoOnce`.  `Reads` needs
`CounterKept` besides: the timeout counter is not reset by an access, only by
reaching 7, and each late SRAM read moves it by two; it is therefore even until
an answer is on the wires, and 32'hdeaddead never answers an access.
`AnswersInTime` counts the clocks: an access has its answer after at most four,
which stays on the wires until the master takes it.

All of them assume only the named ASSUMEs of the modules, which TLC evaluates in
every run, and `OneAtATime`, `TakeTurns`, `Orderly`, `~Signals` or one taker
where a theorem says so.  Every safety property of a passing run is a theorem.
Of the runs that end in a violation the counterexamples are TLC's, and a theorem
says for each what excludes it (`OnlySignalsLeak`, `WaitsBlock`, `TurnsExclude`,
`SoloInterrupts`).

Liveness under fairness, statements with ENABLED, and what recursion over data
computes are beyond the prover used and are checked by TLC only.  Behind
`IoctlReturns`, `CallReturns`, `GosAnswered` and `AccessAnswered` the decreasing
number is proved (above), so what TLC adds is that fairness lets the next step
happen; `PermitTaken`, `TimedTakeReturns` and `CallsReturn` have none, since
threads that lose a race or queue for a lock may be overtaken.

## Not modelled, and the plan

Done: SemaphoreSpec, SocSemaphore, DmaSpec, SocDma, SocFile, SgList, SocIoctl,
SocProbe, MemoryEngine with the ACP multiplexer, RegBridge, with the runs and
theorems above.

Not modelled, by part:

- RegBridge's master makes one access at a time and never offers a write's data
  before its address.  A master with a read and a write at once loses accesses
  (`axi4lite2regbus.sv` 145: a read accepted in the clock in which another
  access completes is dropped), for which the repository has no sentence to
  check against.
- The contents of the debug SRAMs (`debug_sram.sv`): a ring that logs
  handshakes, whose reader shares nothing with its writer; RegBridge models when
  a read of one completes.
- SocIoctl: requests whose buffer or registers do not exist (32-bit overflow),
  and calls that overlap; the register and memory accesses themselves are
  single-word bus accesses (RegBridge).  `socReadMemory` and `socWriteMemory` of
  the driver are empty in the source, and are here.
- SocProbe: file operations on a structure that was freed are not followed
  further; `SocFile` and `SocDma` assume a bound device.
- The command-line tools parse, make one call and print; wiring, test benches,
  vendor code and toys have no control of their own (PROJECT.json gives the
  reason for each).

Left to do: the ring of the debug SRAMs.
