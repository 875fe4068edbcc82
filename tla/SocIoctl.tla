------------------------------ MODULE SocIoctl ------------------------------
(***************************************************************************)
(* soc_miner_ioctl (soc_miner.c), the handlers of soc_miner_ioctl.c and    *)
(* the wrappers of userland/soc_api.c: the dispatch table, the chunk loops *)
(* that move a block of registers or memory through a bounce buffer, and   *)
(* the DMA commands, which enter socDma (SgList).  One call at a time: a   *)
(* handler keeps no state between calls and takes no lock.                 *)
(*                                                                         *)
(* uint32_t is 0 .. WORD - 1.  A request is one whose user buffer and      *)
(* registers exist: they end below SPACE (TASK_SIZE for the buffer), so    *)
(* that the sizes computed from it do not overflow.                        *)
(***************************************************************************)
EXTENDS SgList

CONSTANTS
  SPACE,              \* one more than the largest address
  MAX_LOCAL_REGS,     \* DRIVER_MAX_LOCAL_REGS, registers in the stack buffer
  MAX_BUFFER_SIZE,    \* DRIVER_MAX_BUFFER_SIZE, bytes in the heap buffer
  Addresses, Values   \* the members address and value of the requests

ASSUME IoctlAssumption ==
  /\ MAX_LOCAL_REGS \in Nat
  /\ MAX_BUFFER_SIZE \in Nat \ {0} /\ MAX_BUFFER_SIZE % 4 = 0
  /\ 4 * MAX_LOCAL_REGS <= MAX_BUFFER_SIZE
  /\ SPACE \in Nat
  /\ SPACE + MAX_BUFFER_SIZE <= WORD /\ SPACE + 2 * PAGE_SIZE <= WORD
  /\ Addresses \subseteq 0 .. SPACE - 1
  /\ Values \subseteq 0 .. SPACE - 1

VARIABLES
  pc,                 \* where the call is
  arg,                \* the command and the argument as the caller gave them
  address, value, count,        \* the handler's copy of the TransferBlock
  size, loops, i,     \* bytes per chunk, chunks, chunks done
  buf,                \* the bounce buffer
  touched,            \* ghost: the bus addresses accessed
  copied,             \* ghost: the bytes of the user's buffer moved
  errno               \* what ioctl returns

block == <<address, value, count>>
chunks == <<size, loops, i, buf>>
ghosts == <<touched, copied>>
vars == <<sgVars, pc, arg, block, chunks, ghosts, errno>>

ioctlFunctionArray ==
  [c \in 0 .. 30 |->
     CASE c = 1 -> "startup"     [] c = 2 -> "stop"
       [] c = 5 -> "readReg"     [] c = 8 -> "writeReg"
       [] c = 9 -> "readMem"     [] c = 10 -> "writeMem"
       [] c = 11 -> "dmaRead"    [] c = 12 -> "dmaWrite"
       [] OTHER -> "none"]

Registers == {"readReg", "writeReg"}
Memory == {"readMem", "writeMem"}
Dma == {"dmaRead", "dmaWrite"}

Handler == ioctlFunctionArray[arg.nr]

\* Bytes per unit of count.
Unit(h) == IF h \in Registers THEN 4 ELSE 1

\* data and datalen, an int32_t: no data, a TransferBlock, another length up
\* to PARAMETER_LEN, one above it, and a negative one.
Lengths == {"none", "block", "other", "long", "negative"}

Argument == [type : BOOLEAN, nr : 0 .. 31, datalen : Lengths,
             address : Addresses, value : Values, count : 0 .. SPACE]

\* What count means to a command is the handler's business; for one without
\* a TransferBlock it is unused.
Sensible(a) ==
  LET bytes == (IF a.nr \in {5, 8} THEN 4 ELSE 1) * a.count
  IN  a.value + bytes < SPACE /\ a.address + bytes < SPACE

Bytes(a, n) == a .. (a + n - 1)

NoArgument == [type |-> FALSE, nr |-> 0, datalen |-> "none",
               address |-> 0, value |-> 0, count |-> 0]

Init ==
  /\ SgInit
  /\ pc = "idle" /\ arg = NoArgument
  /\ address = 0 /\ value = 0 /\ count = 0
  /\ size = 0 /\ loops = 0 /\ i = 0 /\ buf = "none"
  /\ touched = {} /\ copied = {}
  /\ errno = "ok"

-----------------------------------------------------------------------------
(* The caller *)

Ioctl(a) ==
  /\ Sensible(a)
  /\ arg' = a
  /\ pc' = "dispatch"
  /\ UNCHANGED <<sgVars, block, chunks, ghosts, errno>>

\* A program with its own idea of the argument.
CallIoctl == pc = "idle" /\ \E a \in Argument : Ioctl(a)

Wrapped(n, lengths) ==
  [type : {TRUE}, nr : n, datalen : lengths,
   address : Addresses, value : Values, count : 0 .. SPACE]

\* socReadRegister32, socWriteRegister32, socReadMemory, socWriteMemory.
CallTransfer == pc = "idle" /\ \E a \in Wrapped({5, 8, 9, 10}, {"block"}) : Ioctl(a)

CallDma == pc = "idle" /\ \E a \in Wrapped({11, 12}, {"block"}) : Ioctl(a)

\* socStartup refuses a parameter that is too long without a system call.
CallStartup ==
  /\ pc = "idle"
  /\ \/ \E a \in Wrapped({1}, Lengths \ {"long", "negative"}) : Ioctl(a)
     \/ /\ pc' = "returned" /\ errno' = "refused"
        /\ UNCHANGED <<sgVars, arg, block, chunks, ghosts>>

\* socStop leaves data and datalen uninitialised.
CallStop == pc = "idle" /\ \E a \in Wrapped({2}, Lengths) : Ioctl(a)

\* What the wrappers make of the result.
ApiResult == IF errno = "ok" THEN 0 ELSE -1

\* The caller goes on, or another one comes when the last was killed; what
\* it held is lost.  The device stays as it was bound.
Resume ==
  /\ pc \in {"returned", "oops"}
  /\ pc' = "idle" /\ arg' = NoArgument
  /\ address' = 0 /\ value' = 0 /\ count' = 0
  /\ size' = 0 /\ loops' = 0 /\ i' = 0 /\ buf' = "none"
  /\ touched' = {} /\ copied' = {} /\ errno' = "ok"
  /\ at' = "idle" /\ host' = 0 /\ nbyte' = 0 /\ nr_pages' = 0
  /\ UNCHANGED dev_virtaddr
  /\ held' = {} /\ pins' = 0 /\ bytesLeft' = 0
  /\ sg' = <<>> /\ sgNumTotal' = 0 /\ sgNum' = 0 /\ result' = "ok"

-----------------------------------------------------------------------------
(* soc_miner_ioctl, and the head of every handler *)

Return(e) ==
  /\ pc' = "returned"
  /\ errno' = e

soc_miner_ioctl ==
  /\ pc = "dispatch"
  /\ \/ ~arg.type /\ Return("EINVAL")
     \/ arg.type /\ arg.nr >= 31 /\ Return("ENOSYS")
     \/ arg.type /\ arg.nr < 31 /\ Return("EFAULT")
     \/ /\ arg.type /\ arg.nr < 31
        /\ pc' = IF Handler = "none" THEN "oops" ELSE "handler"
        /\ UNCHANGED errno
  /\ UNCHANGED <<sgVars, arg, block, chunks, ghosts>>

\* socStartup and socStop of the driver return 0.  The length is compared as
\* a signed number: a negative one passes, and copy_from_user, which takes it
\* for a huge one and refuses the address, clears that much of the stack.
StartupStop ==
  /\ pc = "handler"
  /\ \/ /\ Handler = "startup" /\ arg.datalen = "long"
        /\ Return("EINVAL")
     \/ /\ Handler = "startup" /\ arg.datalen \in {"block", "other"}
        /\ Return("EFAULT")
     \/ /\ Handler = "startup" /\ arg.datalen = "negative"
        /\ pc' = "oops"
        /\ UNCHANGED errno
     \/ /\ Handler \in {"startup", "stop"}
        /\ Handler = "startup" => arg.datalen \notin {"long", "negative"}
        /\ Return("ok")
  /\ UNCHANGED <<sgVars, arg, block, chunks, ghosts>>

CopyBlock ==
  /\ pc = "handler"
  /\ Handler \in Registers \cup Memory \cup Dma
  /\ \/ /\ arg.datalen # "block" /\ Return("EINVAL")
        /\ UNCHANGED block
     \/ /\ arg.datalen = "block" /\ Return("EFAULT")
        /\ UNCHANGED block
     \/ /\ arg.datalen = "block"
        /\ address' = arg.address /\ value' = arg.value /\ count' = arg.count
        /\ pc' = "block"
        /\ UNCHANGED errno
  /\ UNCHANGED <<sgVars, arg, chunks, ghosts>>

-----------------------------------------------------------------------------
(* Registers and memory, in chunks of the bounce buffer *)

\* The ARM kernel's division by 0 returns 0.
Div(a, b) == IF b = 0 THEN 0 ELSE a \div b

Smaller(a, b) == IF a > b THEN b ELSE a

\* Mutant: the last, partial chunk is not counted.
LoopsOf_RoundedDown(bytes, s) == Div(bytes, s)

LoopsOf(bytes, s) == Div((bytes + s - 1) % WORD, s)

Start(s, bytes, b) ==
  /\ size' = s
  /\ loops' = LoopsOf(bytes, s)
  /\ i' = 0
  /\ buf' = b
  /\ pc' = "loop"
  /\ UNCHANGED errno

NoMemory == Return("ENOMEM") /\ UNCHANGED chunks

PrepareRegisters ==
  LET bytes == (count * 4) % WORD IN
  /\ pc = "block" /\ Handler \in Registers
  /\ \/ count <= MAX_LOCAL_REGS /\ Start(bytes, bytes, "stack")
     \/ count > MAX_LOCAL_REGS /\ Start(Smaller(bytes, MAX_BUFFER_SIZE), bytes, "heap")
     \/ count > MAX_LOCAL_REGS /\ NoMemory
  /\ UNCHANGED <<sgVars, arg, block, ghosts>>

PrepareMemory ==
  LET s == Smaller(count, MAX_BUFFER_SIZE) IN
  /\ pc = "block" /\ Handler \in Memory
  /\ IF Handler = "readMem" /\ s = 0
       THEN Return("EINVAL") /\ UNCHANGED chunks
       ELSE Start(s, count, "heap") \/ NoMemory
  /\ UNCHANGED <<sgVars, arg, block, ghosts>>

\* The units of this chunk: nreg registers, nbyte bytes.
ChunkUnits ==
  IF Handler \in Registers
    THEN IF size > (count * 4) % WORD THEN count ELSE size \div 4
    ELSE Smaller(size, count)

ChunkBytes == (ChunkUnits * Unit(Handler)) % WORD

\* socReadRegister32 and socWriteRegister32 access address + i for the i-th
\* register of the chunk; socReadMemory and socWriteMemory are empty.
Access ==
  touched' = IF Handler \in Registers THEN touched \cup Bytes(address, ChunkUnits)
             ELSE touched

\* Mutants: what is left is not counted; nothing is counted.
Advance_CountStays ==
  /\ address' = (address + ChunkBytes) % WORD
  /\ value' = (value + ChunkBytes) % WORD
  /\ i' = i + 1
  /\ UNCHANGED count

Advance_NotCounted ==
  /\ address' = (address + ChunkBytes) % WORD
  /\ value' = (value + ChunkBytes) % WORD
  /\ UNCHANGED <<count, i>>

Advance ==
  /\ address' = (address + ChunkBytes) % WORD
  /\ value' = (value + ChunkBytes) % WORD
  /\ count' = count - ChunkUnits
  /\ i' = i + 1

MoveChunk ==
  /\ pc = "loop" /\ i < loops
  /\ Access
  /\ copied' = copied \cup Bytes(value, ChunkBytes)
  /\ Advance
  /\ UNCHANGED <<sgVars, pc, arg, size, loops, buf, errno>>

\* copy_to_user fails after the chunk was read from the device, and may have
\* copied a part of it; copy_from_user fails before anything is written.
ChunkFault ==
  /\ pc = "loop" /\ i < loops
  /\ IF Handler \in {"readReg", "readMem"}
       THEN Access /\ \E n \in 0 .. ChunkBytes - 1 : copied' = copied \cup Bytes(value, n)
       ELSE UNCHANGED ghosts
  /\ errno' = "EFAULT"
  /\ pc' = "free"
  /\ UNCHANGED <<sgVars, arg, block, chunks>>

\* The registers are at address 0 when ioremap has failed: an access to them
\* kills the caller, if nothing else is mapped there.
NoRegisters ==
  /\ pc = "loop" /\ i < loops
  /\ Handler \in Registers /\ ~dev_virtaddr
  /\ pc' = "oops"
  /\ UNCHANGED <<sgVars, arg, block, chunks, ghosts, errno>>

LoopEnds ==
  /\ pc = "loop" /\ i >= loops
  /\ pc' = "free"
  /\ UNCHANGED <<sgVars, arg, block, chunks, ghosts, errno>>

FreeBuffer ==
  /\ pc = "free"
  /\ pc' = "returned"
  /\ buf' = "none"
  /\ UNCHANGED <<sgVars, arg, block, size, loops, i, ghosts, errno>>

-----------------------------------------------------------------------------
(* DMA: every failure of socDma becomes -EFAULT *)

CallSocDma ==
  /\ pc = "block" /\ Handler \in Dma
  /\ Enter(value, count)
  /\ pc' = "dma"
  /\ UNCHANGED <<arg, block, chunks, ghosts, errno>>

InSocDma ==
  /\ pc = "dma"
  /\ SgNext
  /\ pc' = IF at' = "oops" THEN "oops" ELSE pc
  /\ UNCHANGED <<arg, block, chunks, ghosts, errno>>

DmaReturns ==
  /\ pc = "dma" /\ at = "done"
  /\ Return(IF result = "ok" THEN "ok" ELSE "EFAULT")
  /\ UNCHANGED <<sgVars, arg, block, chunks, ghosts>>

Kernel ==
  \/ soc_miner_ioctl \/ StartupStop \/ CopyBlock
  \/ PrepareRegisters \/ PrepareMemory
  \/ MoveChunk \/ ChunkFault \/ NoRegisters \/ LoopEnds \/ FreeBuffer
  \/ CallSocDma \/ InSocDma \/ DmaReturns

Next ==
  \/ CallIoctl \/ CallTransfer \/ CallDma \/ CallStartup \/ CallStop
  \/ Resume
  \/ Kernel

Spec == Init /\ [][Next]_vars

\* Code in the kernel runs on; nobody has to call.
FairSpec == Spec /\ WF_vars(Kernel)

-----------------------------------------------------------------------------
(* Properties *)

TypeOK ==
  /\ SgTypeOK
  /\ pc \in {"idle", "dispatch", "handler", "block", "loop", "free", "dma", "returned",
             "oops"}
  /\ arg \in Argument \/ arg = NoArgument
  /\ address \in 0 .. WORD - 1 /\ value \in 0 .. WORD - 1 /\ count \in 0 .. WORD - 1
  /\ size \in 0 .. WORD - 1 /\ loops \in 0 .. WORD - 1 /\ i \in 0 .. loops
  /\ buf \in {"none", "stack", "heap"}
  /\ touched \subseteq 0 .. WORD - 1 /\ copied \subseteq 0 .. WORD - 1
  /\ errno \in {"ok", "refused", "EINVAL", "ENOSYS", "EFAULT", "ENOMEM"}

Returned(h) == pc = "returned" /\ errno # "refused" /\ arg.type /\ arg.nr < 31
               /\ Handler \in h

\* A wrapper that returns 0 has moved every byte of the user's buffer to or from
\* the driver (whose memory functions, 835-842, are empty), or launched a
\* descriptor for every page of the buffer: or, when fewer pages were pinned
\* than asked for, for those, which socDma reports as success (583-588).
SuccessIsWhole ==
  /\ Returned(Registers \cup Memory) /\ ApiResult = 0 =>
       copied = Bytes(arg.value, Unit(Handler) * arg.count)
  /\ Returned(Dma) /\ ApiResult = 0 => sgNum = IF ShortPin THEN nr_pages ELSE Wanted

\* At every moment the bytes moved are a prefix of the user's buffer, with no
\* gap between chunks, and no register beyond the request's is accessed.
InOrder ==
  arg.nr \in {5, 8, 9, 10} =>
    /\ \E n \in 0 .. Unit(Handler) * arg.count : copied = Bytes(arg.value, n)
    /\ touched \subseteq Bytes(arg.address, Unit(Handler) * arg.count)

\* However a call ends, it leaves no bounce buffer behind, and what socDma
\* acquired is given back as Released says.
NothingLeft ==
  /\ pc = "returned" => buf # "heap"
  /\ Released

\* A call can die in the kernel: in a command that has no handler, in the
\* negative length of socStartup, in a DMA of no page or in the print that
\* ends every DMA (726), and at registers that are not mapped.  None dies with
\* mmap_sem held, which its own exit would need; with the registers mapped,
\* none dies between dma_map_sg and dma_unmap_sg or with a bounce buffer; and
\* one that has built its list leaves every page pinned, so that an access
\* that comes late meets no page that has gone to somebody else.
KilledHoldsLittle ==
  pc = "oops" =>
    /\ "mmap_sem" \notin held
    /\ "map" \in held \/ buf = "heap" => ~dev_virtaddr
    /\ sg # <<>> => pins = nr_pages /\ pins > 0

\* Every ioctl returns, or is killed.
IoctlReturns == pc = "dispatch" ~> pc \in {"returned", "oops"}
=============================================================================
