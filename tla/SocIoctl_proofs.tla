---------------------------- MODULE SocIoctl_proofs ----------------------------
(***************************************************************************)
(* The ioctl calls, for every request that exists and every size of the    *)
(* bounce buffer: what a call that succeeds has moved, in which order, and *)
(* what it leaves behind.  DMA commands rest on SgList_proofs.             *)
(*                                                                         *)
(* SuccessIsWhole speaks of the end of a loop that counts chunks, whose    *)
(* body counts what is left.  The invariant ties the two: the chunks to    *)
(* come are enough for what is left, and what has been moved is the        *)
(* request without what is left.                                           *)
(***************************************************************************)
EXTENDS SocIoctl, SgList_proofs

USE SgAssumption, IoctlAssumption DEF SgAssumption, IoctlAssumption

Transfers == Registers \cup Memory

\* The request in bytes, and what is left of it.
Total == Unit(Handler) * arg.count
Left == Unit(Handler) * count

Request == arg \in Argument /\ Sensible(arg)

\* Who is where.
PlaceInv ==
  /\ pc = "idle" => arg = NoArgument
  /\ pc \in {"dispatch", "oops"} => Request
  /\ pc = "returned" => Request \/ (errno = "refused" /\ arg = NoArgument)
  /\ pc \in {"handler", "block", "loop", "free", "dma"} =>
       Request /\ arg.type /\ arg.nr \in 0 .. 30
  /\ pc = "block" => Handler \in Transfers \cup Dma
  /\ pc \in {"loop", "free"} => Handler \in Transfers
  /\ pc = "dma" => Handler \in Dma /\ nbyte = arg.count /\ at \notin {"idle", "oops"}
  /\ pc \in {"idle", "dispatch", "handler", "block", "loop", "free"} => at = "idle"
  /\ pc = "oops" => at \in {"idle", "oops"}
  /\ pc \notin {"free", "returned"} => errno = "ok"

\* Before and outside a loop nothing has been moved and no buffer is held.
QuietInv ==
  /\ pc \notin {"loop", "free", "returned", "oops"} => touched = {} /\ copied = {}
  /\ pc = "block" => address = arg.address /\ value = arg.value /\ count = arg.count
  /\ pc \notin {"loop", "free", "oops"} => buf # "heap"
  /\ pc = "oops" /\ buf = "heap" => ~dev_virtaddr

\* The chunks to come are enough, and the transfer is at the right place.
LoopInv ==
  pc = "loop" =>
    /\ count \in 0 .. arg.count
    /\ value = arg.value + Total - Left
    /\ address = arg.address + Total - Left
    /\ copied = Bytes(arg.value, Total - Left)
    /\ Handler \in Registers => size = 4 * (size \div 4)
    /\ Left <= (loops - i) * size

\* A call that has not failed has moved all of its request.
EndInv ==
  pc = "free" /\ errno = "ok" => copied = Bytes(arg.value, Total)

IoctlInv ==
  /\ TypeOK /\ SgInv /\ PlaceInv /\ QuietInv /\ LoopInv /\ EndInv
  /\ SuccessIsWhole /\ InOrder /\ NothingLeft
-----------------------------------------------------------------------------
(* Requests and handlers *)

\* Which commands have which handlers.
LEMMA HandlerOf ==
  ASSUME arg.nr \in 0 .. 30
  PROVE  /\ Handler \in Registers <=> arg.nr \in {5, 8}
         /\ Handler \in Memory <=> arg.nr \in {9, 10}
         /\ Handler \in Dma <=> arg.nr \in {11, 12}
         /\ Handler \in {"startup", "stop"} <=> arg.nr \in {1, 2}
         /\ Handler \in {"none", "startup", "stop"} \cup Transfers \cup Dma
BY DEF Handler, ioctlFunctionArray, Registers, Memory, Dma, Transfers

\* A register is four bytes, anything else is counted in bytes.
LEMMA UnitOf ==
  /\ Handler \in Registers => Unit(Handler) = 4
  /\ Handler \notin Registers => Unit(Handler) = 1
BY DEF Unit

\* A request ends below SPACE.
LEMMA RequestFits ==
  ASSUME Request, arg.nr \in 0 .. 30
  PROVE  /\ arg.address \in Nat /\ arg.value \in Nat /\ arg.count \in Nat
         /\ Total \in Nat
         /\ arg.value + Total < SPACE /\ arg.address + Total < SPACE
<1>1. arg.address \in Nat /\ arg.value \in Nat /\ arg.count \in Nat
  <2>1. arg.address \in Addresses /\ arg.value \in Values /\ arg.count \in 0 .. SPACE
    BY DEF Request, Argument
  <2>2. arg.address \in 0 .. SPACE - 1 /\ arg.value \in 0 .. SPACE - 1
    BY <2>1
  <2>3. QED
    BY <2>1, <2>2
<1>2. Unit(Handler) = IF arg.nr \in {5, 8} THEN 4 ELSE 1
  BY HandlerOf DEF Unit
<1>3. Total \in Nat
  BY <1>1, <1>2 DEF Total
<1>4. arg.value + Total < SPACE /\ arg.address + Total < SPACE
  BY <1>2 DEF Request, Sensible, Total
<1>5. QED
  BY <1>1, <1>3, <1>4

\* Ranges of bytes that follow each other, begin, and end.
LEMMA BytesOf ==
  ASSUME NEW a \in Nat, NEW m \in Nat, NEW n \in Nat
  PROVE  /\ Bytes(a, 0) = {}
         /\ Bytes(a, m) \cup Bytes(a + m, n) = Bytes(a, m + n)
         /\ Bytes(a + m, n) \subseteq Bytes(a, m + n)
         /\ m <= n => Bytes(a, m) \subseteq Bytes(a, n)
BY DEF Bytes

\* Rounding up gives enough chunks, and no more than a word counts.
LEMMA ChunksSuffice ==
  ASSUME NEW n \in Nat, NEW s \in Nat, n < SPACE, s <= MAX_BUFFER_SIZE, s = 0 => n = 0
  PROVE  /\ LoopsOf(n, s) \in 0 .. WORD - 1
         /\ n <= (LoopsOf(n, s) - 0) * s
<1>1. CASE s = 0
  BY <1>1 DEF LoopsOf, Div
<1>2. CASE s > 0
  <2> DEFINE x == n + s - 1
             q == x \div s
  <2>1. x \in 0 .. WORD - 1 /\ x \in Nat
    BY <1>2
  <2>2. LoopsOf(n, s) = q
    BY <1>2, <2>1, ModSmall DEF LoopsOf, Div
  <2>3. q \in Nat /\ q * s <= x /\ x < q * s + s
    BY <1>2, <2>1, Quotient
  <2> HIDE DEF q
  <2>4. q <= q * s
    <3>1. 1 * q <= s * q
      BY <1>2, <2>3, TimesMono
    <3>2. QED
      BY <2>3, <3>1
  <2>5. q * s \in Nat
    BY <2>3
  <2>6. QED
    BY <1>2, <2>1, <2>2, <2>3, <2>4, <2>5
<1>3. QED
  BY <1>1, <1>2

\* The size of the next chunk: a bufferful, or what is left.
LEMMA ChunkOf ==
  ASSUME IoctlInv, pc = "loop", i < loops
  PROVE  /\ ChunkUnits \in 0 .. count
         /\ ChunkBytes = Unit(Handler) * ChunkUnits
         /\ ChunkBytes = Smaller(size, Left)
         /\ ChunkBytes \in 0 .. Left /\ Left \in 0 .. Total
<1>1. /\ Request /\ arg.nr \in 0 .. 30 /\ Handler \in Transfers
      /\ count \in 0 .. arg.count /\ size \in Nat
      /\ Handler \in Registers => size = 4 * (size \div 4)
  BY DEF IoctlInv, PlaceInv, LoopInv, TypeOK
<1>2. arg.count \in Nat /\ Total \in Nat /\ Total < WORD
  BY <1>1, RequestFits
<1>3. Left \in 0 .. Total
  BY <1>1, <1>2, UnitOf DEF Left, Total
<1>4. CASE Handler \in Registers
  <2>1. Unit(Handler) = 4 /\ Left = count * 4 /\ (count * 4) % WORD = count * 4
    <3>1. Unit(Handler) = 4 /\ Left = count * 4
      BY <1>1, <1>2, <1>4, UnitOf DEF Left
    <3>2. count * 4 \in 0 .. WORD - 1
      BY <1>2, <1>3, <3>1
    <3>3. QED
      BY <3>1, <3>2, ModSmall
  <2>2. ChunkUnits = IF size > count * 4 THEN count ELSE size \div 4
    BY <1>4, <2>1 DEF ChunkUnits
  <2>3. size \div 4 \in Nat
    BY <1>1
  <2>4. ChunkUnits \in 0 .. count /\ ChunkUnits * 4 = Smaller(size, Left)
    BY <1>1, <1>2, <1>4, <2>1, <2>2, <2>3 DEF Smaller
  <2>5. ChunkBytes = ChunkUnits * 4
    <3>1. ChunkUnits * 4 \in 0 .. WORD - 1
      BY <1>1, <1>2, <1>3, <2>1, <2>4 DEF Smaller
    <3>2. QED
      BY <2>1, <3>1, ModSmall DEF ChunkBytes
  <2>6. QED
    BY <1>1, <1>2, <1>3, <2>1, <2>4, <2>5
<1>5. CASE Handler \notin Registers
  <2>1. Unit(Handler) = 1 /\ Left = count
    BY <1>1, <1>2, <1>5, UnitOf DEF Left
  <2>2. ChunkUnits = Smaller(size, count) /\ ChunkUnits \in 0 .. count
    BY <1>1, <1>2, <1>5 DEF ChunkUnits, Smaller
  <2>3. ChunkBytes = ChunkUnits
    BY <1>1, <1>2, <1>3, <2>1, <2>2, ModSmall DEF ChunkBytes
  <2>4. QED
    BY <1>1, <1>2, <1>3, <2>1, <2>2, <2>3
<1>6. QED
  BY <1>4, <1>5
-----------------------------------------------------------------------------
(* The steps *)

\* Nobody calls, nothing is held.
LEMMA InitInv == Init => IoctlInv
<1> SUFFICES ASSUME Init PROVE IoctlInv
  OBVIOUS
<1>1. SgInv
  BY SgInitInv DEF Init
<1>2. TypeOK
  BY <1>1 DEF Init, TypeOK, SgInv, CallInv
<1>3. PlaceInv /\ QuietInv /\ LoopInv /\ EndInv
  BY DEF Init, SgInit, PlaceInv, QuietInv, LoopInv, EndInv
<1>4. SuccessIsWhole /\ InOrder
  BY DEF Init, SuccessIsWhole, InOrder, Returned, NoArgument
<1>5. NothingLeft
  BY <1>1 DEF Init, NothingLeft, SgInv, DoneInv
<1>6. QED
  BY <1>1, <1>2, <1>3, <1>4, <1>5 DEF IoctlInv

\* A call before its first byte is in order.
LEMMA NothingMoved == Request /\ touched = {} /\ copied = {} => InOrder
<1> SUFFICES ASSUME Request, touched = {}, copied = {}, arg.nr \in {5, 8, 9, 10}
             PROVE  InOrder
  BY DEF InOrder
<1>1. arg.value \in Nat /\ Total \in Nat
  BY RequestFits
<1>2. copied = Bytes(arg.value, 0) /\ 0 \in 0 .. Total
  BY <1>1, BytesOf
<1>3. QED
  BY <1>2 DEF InOrder, Total

\* What does not touch socDma's state keeps its invariant.
LEMMA SameSg == ASSUME SgInv, UNCHANGED sgVars PROVE SgInv'
<1>1. UNCHANGED <<at, host, nbyte, dev_virtaddr, nr_pages, held, pins, bytesLeft, sg,
                 sgNumTotal, sgNum, result>>
  BY DEF sgVars, request, list, launches
<1>2. Wanted' = Wanted /\ Fits' = Fits /\ FilledIn' = FilledIn /\ Offset' = Offset
  BY <1>1 DEF Wanted, PagesOf, Fits, FilledIn, Filled, Offset
<1>3. CallInv' /\ HoldInv' /\ CountInv'
  BY <1>1, <1>2 DEF SgInv, CallInv, HoldInv, CountInv, SgTypeOK
<1>4. ListInv' /\ LaunchInv' /\ DoneInv'
  BY <1>1, <1>2 DEF SgInv, ListInv, LaunchInv, DoneInv, Released
<1>5. QED
  BY <1>3, <1>4 DEF SgInv

\* Nor does what moves nothing change the order.
LEMMA SameOrder == ASSUME InOrder, UNCHANGED <<arg, ghosts>> PROVE InOrder'
BY DEF InOrder, ghosts, Handler

\* A call begins: by one of the wrappers, or any other program.
LEMMA CallStep == ASSUME IoctlInv, NEW a \in Argument, pc = "idle", Ioctl(a) PROVE IoctlInv'
<1>1. SgInv' /\ at' = "idle"
  BY SameSg DEF Ioctl, IoctlInv, PlaceInv, sgVars
<1>2. Request'
  BY DEF Ioctl, Request, Sensible
<1>3. pc' = "dispatch" /\ touched' = {} /\ copied' = {} /\ errno' = "ok" /\ buf' = buf
  BY DEF Ioctl, IoctlInv, QuietInv, PlaceInv, ghosts, chunks
<1>4. TypeOK'
  BY <1>1, <1>2 DEF Ioctl, IoctlInv, TypeOK, SgInv, CallInv, Request, block, chunks, ghosts
<1>5. PlaceInv' /\ QuietInv' /\ LoopInv' /\ EndInv'
  BY <1>1, <1>2, <1>3 DEF IoctlInv, PlaceInv, QuietInv, LoopInv, EndInv
<1>6. InOrder'
  <2>1. (Request /\ touched = {} /\ copied = {})'
    BY <1>2, <1>3
  <2>2. QED
    BY <2>1, NothingMoved, PTL
<1>7. SuccessIsWhole' /\ NothingLeft'
  BY <1>1, <1>3 DEF SuccessIsWhole, NothingLeft, Returned, SgInv, DoneInv
<1>8. QED
  BY <1>1, <1>4, <1>5, <1>6, <1>7 DEF IoctlInv

\* The head of a call, up to the copy of its block.
LEMMA DispatchStep ==
  ASSUME IoctlInv, soc_miner_ioctl \/ StartupStop \/ CopyBlock
  PROVE  IoctlInv'
<1>1. /\ pc \in {"dispatch", "handler"} /\ at = "idle" /\ errno = "ok" /\ Request
      /\ arg' = arg /\ UNCHANGED <<sgVars, chunks, ghosts>>
  BY DEF soc_miner_ioctl, StartupStop, CopyBlock, IoctlInv, PlaceInv
<1>2. SgInv' /\ InOrder' /\ at' = "idle"
  BY <1>1, SameSg, SameOrder DEF IoctlInv, sgVars
<1>3. Request' /\ Handler' = Handler
  BY <1>1 DEF Request, Sensible, Handler
<1>4. TypeOK'
  <2>1. /\ address' \in 0 .. WORD - 1 /\ value' \in 0 .. WORD - 1
        /\ count' \in 0 .. WORD - 1
    <3>1. CASE UNCHANGED block
      BY <3>1 DEF block, IoctlInv, TypeOK
    <3>2. CASE address' = arg.address /\ value' = arg.value /\ count' = arg.count
      <4>1. arg.address \in Addresses /\ arg.value \in Values /\ arg.count \in 0 .. SPACE
        BY <1>1 DEF Request, Argument
      <4>2. arg.address \in 0 .. SPACE - 1 /\ arg.value \in 0 .. SPACE - 1
        BY <4>1
      <4>3. QED
        BY <3>2, <4>1, <4>2
    <3>3. QED
      BY <3>1, <3>2 DEF soc_miner_ioctl, StartupStop, CopyBlock
  <2>2. pc' \in {"returned", "oops", "handler", "block"}
    BY DEF soc_miner_ioctl, StartupStop, CopyBlock, Return
  <2>3. errno' \in {"ok", "EINVAL", "ENOSYS", "EFAULT"}
    BY <1>1 DEF soc_miner_ioctl, StartupStop, CopyBlock, Return
  <2>4. QED
    BY <1>1, <1>2, <2>1, <2>2, <2>3 DEF IoctlInv, TypeOK, SgInv, CallInv, chunks, ghosts
<1>5. CASE soc_miner_ioctl
  <2>1. PlaceInv' /\ QuietInv' /\ LoopInv' /\ EndInv'
    BY <1>1, <1>2, <1>3, <1>5 DEF soc_miner_ioctl, Return, IoctlInv, PlaceInv, QuietInv,
       LoopInv, EndInv, Request, Argument, chunks, ghosts
  <2>2. SuccessIsWhole' /\ NothingLeft'
    <3>1. pc' = "returned" => errno' # "ok"
      BY <1>5 DEF soc_miner_ioctl, Return
    <3>2. QED
      BY <1>1, <1>2, <3>1 DEF IoctlInv, QuietInv, SuccessIsWhole, NothingLeft,
         Returned, ApiResult, SgInv, DoneInv, chunks
  <2>3. QED
    BY <1>2, <1>4, <2>1, <2>2 DEF IoctlInv
<1>6. CASE StartupStop
  <2>1. PlaceInv' /\ QuietInv' /\ LoopInv' /\ EndInv'
    BY <1>1, <1>2, <1>3, <1>6 DEF StartupStop, Return, IoctlInv, PlaceInv, QuietInv,
       LoopInv, EndInv, chunks, ghosts
  <2>2. SuccessIsWhole' /\ NothingLeft'
    BY <1>1, <1>2, <1>3, <1>6 DEF StartupStop, Return, IoctlInv, QuietInv,
       SuccessIsWhole, NothingLeft, Returned, ApiResult, SgInv, DoneInv,
       Registers, Memory, Dma, chunks
  <2>3. QED
    BY <1>2, <1>4, <2>1, <2>2 DEF IoctlInv
<1>7. CASE CopyBlock
  <2>1. PlaceInv' /\ QuietInv' /\ LoopInv' /\ EndInv'
    BY <1>1, <1>2, <1>3, <1>7 DEF CopyBlock, Return, IoctlInv, PlaceInv, QuietInv,
       LoopInv, EndInv, Transfers, chunks, ghosts
  <2>2. SuccessIsWhole' /\ NothingLeft'
    BY <1>1, <1>2, <1>3, <1>7 DEF CopyBlock, Return, IoctlInv, QuietInv,
       SuccessIsWhole, NothingLeft, Returned, ApiResult, SgInv, DoneInv,
       chunks
  <2>3. QED
    BY <1>2, <1>4, <2>1, <2>2 DEF IoctlInv
<1>8. QED
  BY <1>5, <1>6, <1>7

\* A transfer gets its bounce buffer, or no memory.
LEMMA PrepareStep ==
  ASSUME IoctlInv, PrepareRegisters \/ PrepareMemory
  PROVE  IoctlInv'
<1>1. /\ pc = "block" /\ Handler \in Transfers /\ Request
      /\ arg.type /\ arg.nr \in 0 .. 30
      /\ address = arg.address /\ value = arg.value /\ count = arg.count
      /\ touched = {} /\ copied = {} /\ errno = "ok" /\ at = "idle"
      /\ UNCHANGED <<sgVars, arg, block, ghosts>>
  BY DEF PrepareRegisters, PrepareMemory, IoctlInv, PlaceInv, QuietInv, Transfers
<1>2. SgInv' /\ InOrder' /\ at' = "idle"
  BY <1>1, SameSg, SameOrder DEF IoctlInv, sgVars
<1>3. Request' /\ Handler' = Handler /\ Total' = Total /\ Left' = Total
  BY <1>1 DEF Request, Sensible, Handler, Total, Left, block
<1>4. /\ arg.value \in Nat /\ arg.address \in Nat /\ arg.count \in Nat
      /\ Total \in Nat /\ Total < SPACE
  BY <1>1, RequestFits
<1>5. CASE NoMemory \/ (Return("EINVAL") /\ UNCHANGED chunks)
  <2>1. pc' = "returned" /\ errno' \in {"ENOMEM", "EINVAL"} /\ UNCHANGED chunks
    BY <1>5 DEF NoMemory, Return
  <2>2. TypeOK' /\ PlaceInv' /\ QuietInv' /\ LoopInv' /\ EndInv'
    BY <1>1, <1>2, <1>3, <2>1 DEF IoctlInv, TypeOK, SgInv, CallInv, PlaceInv, QuietInv,
       LoopInv, EndInv, block, chunks, ghosts
  <2>3. SuccessIsWhole' /\ NothingLeft'
    BY <1>1, <1>2, <2>1 DEF IoctlInv, QuietInv, SuccessIsWhole, NothingLeft,
       Returned, ApiResult, SgInv, DoneInv, chunks
  <2>4. QED
    BY <1>2, <2>2, <2>3 DEF IoctlInv
<1>6. ASSUME NEW s, NEW b \in {"stack", "heap"}, Start(s, Total, b),
             s \in 0 .. Total, s <= MAX_BUFFER_SIZE, s = 0 => Total = 0,
             Handler \in Registers => s = 4 * (s \div 4)
      PROVE  IoctlInv'
  <2>1. LoopsOf(Total, s) \in 0 .. WORD - 1 /\ Total <= (LoopsOf(Total, s) - 0) * s
    BY <1>4, <1>6, ChunksSuffice
  <2>2. /\ size' = s /\ loops' = LoopsOf(Total, s) /\ i' = 0 /\ buf' = b
        /\ pc' = "loop" /\ errno' = "ok"
    BY <1>1, <1>6 DEF Start
  <2>3. TypeOK'
    BY <1>1, <1>2, <1>4, <1>6, <2>1, <2>2 DEF IoctlInv, TypeOK, SgInv, CallInv, block, ghosts
  <2>4. PlaceInv' /\ QuietInv' /\ EndInv'
    BY <1>1, <1>2, <1>3, <2>2 DEF PlaceInv, QuietInv, EndInv
  <2>5. LoopInv'
    <3>1. count' \in 0 .. arg'.count
      BY <1>1, <1>4 DEF block
    <3>2. value' = arg'.value + Total' - Left' /\ address' = arg'.address + Total' - Left'
      BY <1>1, <1>3, <1>4 DEF block
    <3>3. copied' = Bytes(arg'.value, Total' - Left')
      BY <1>1, <1>3, <1>4, BytesOf DEF ghosts
    <3>4. Handler' \in Registers => size' = 4 * (size' \div 4)
      BY <1>3, <1>6, <2>2
    <3>5. Left' <= (loops' - i') * size'
      BY <1>3, <2>1, <2>2
    <3>6. QED
      BY <3>1, <3>2, <3>3, <3>4, <3>5 DEF LoopInv
  <2>6. SuccessIsWhole' /\ NothingLeft'
    BY <1>2, <2>2 DEF SuccessIsWhole, NothingLeft, Returned, SgInv, DoneInv
  <2>7. QED
    BY <1>2, <2>3, <2>4, <2>5, <2>6 DEF IoctlInv
<1>7. CASE PrepareRegisters /\ ~NoMemory
  <2>1. Handler \in Registers /\ Total = 4 * count /\ (count * 4) % WORD = Total
    <3>1. Handler \in Registers /\ Total = 4 * count
      BY <1>1, <1>7, UnitOf DEF PrepareRegisters, Total
    <3>2. count * 4 \in 0 .. WORD - 1
      BY <1>1, <1>4, <3>1
    <3>3. QED
      BY <1>1, <1>4, <3>1, <3>2, ModSmall
  <2>2. Total = 4 * (Total \div 4) /\ MAX_BUFFER_SIZE = 4 * (MAX_BUFFER_SIZE \div 4)
    BY <1>1, <1>4, <2>1
  <2>3. CASE count <= MAX_LOCAL_REGS /\ Start(Total, Total, "stack")
    BY <1>1, <1>4, <1>6, <2>1, <2>2, <2>3
  <2>4. CASE Start(Smaller(Total, MAX_BUFFER_SIZE), Total, "heap")
    <3>1. Smaller(Total, MAX_BUFFER_SIZE) \in {Total, MAX_BUFFER_SIZE}
      BY DEF Smaller
    <3>2. /\ Smaller(Total, MAX_BUFFER_SIZE) \in 0 .. Total
          /\ Smaller(Total, MAX_BUFFER_SIZE) <= MAX_BUFFER_SIZE
          /\ Smaller(Total, MAX_BUFFER_SIZE) = 0 => Total = 0
      BY <1>4 DEF Smaller
    <3>3. QED
      BY <1>6, <2>2, <2>4, <3>1, <3>2
  <2>5. QED
    BY <1>7, <2>1, <2>3, <2>4 DEF PrepareRegisters
<1>8. CASE PrepareMemory /\ ~NoMemory /\ ~(Return("EINVAL") /\ UNCHANGED chunks)
  <2>1. Handler \notin Registers /\ Total = count
    BY <1>1, <1>4, <1>8, UnitOf DEF PrepareMemory, Total, Memory, Registers
  <2>2. Start(Smaller(Total, MAX_BUFFER_SIZE), Total, "heap")
    BY <1>8, <2>1 DEF PrepareMemory
  <2>3. /\ Smaller(Total, MAX_BUFFER_SIZE) \in 0 .. Total
        /\ Smaller(Total, MAX_BUFFER_SIZE) <= MAX_BUFFER_SIZE
        /\ Smaller(Total, MAX_BUFFER_SIZE) = 0 => Total = 0
    BY <1>4 DEF Smaller
  <2>4. QED
    BY <1>6, <2>1, <2>2, <2>3
<1>9. QED
  BY <1>5, <1>7, <1>8

\* A chunk is moved: the next one follows it without a gap.
LEMMA MoveStep == ASSUME IoctlInv, MoveChunk PROVE IoctlInv'
<1> DEFINE c == ChunkBytes
           m == Total - Left
<1>1. /\ pc = "loop" /\ pc' = "loop" /\ i < loops /\ Handler \in Transfers
      /\ Request /\ arg.nr \in 0 .. 30 /\ at = "idle" /\ errno = "ok"
      /\ UNCHANGED <<sgVars, pc, arg, size, loops, buf, errno>>
      /\ Access /\ Advance /\ copied' = copied \cup Bytes(value, c)
  BY DEF MoveChunk, IoctlInv, PlaceInv
<1>2. /\ ChunkUnits \in 0 .. count
      /\ c = Unit(Handler) * ChunkUnits
      /\ c = Smaller(size, Left)
      /\ c \in 0 .. Left /\ Left \in 0 .. Total
  BY <1>1, ChunkOf
<1>3. /\ arg.value \in Nat /\ arg.address \in Nat /\ arg.count \in Nat /\ Total \in Nat
      /\ arg.value + Total < SPACE /\ arg.address + Total < SPACE
  BY <1>1, RequestFits
<1>4. /\ count \in 0 .. arg.count
      /\ value = arg.value + m /\ address = arg.address + m
      /\ copied = Bytes(arg.value, m)
      /\ Handler \in Registers => size = 4 * (size \div 4)
      /\ Left <= (loops - i) * size
      /\ size \in 0 .. WORD - 1 /\ loops \in 0 .. WORD - 1 /\ i \in 0 .. loops
  BY <1>1, <1>2, <1>3 DEF IoctlInv, LoopInv, TypeOK
<1> HIDE DEF c
<1>5. Request' /\ Handler' = Handler /\ Total' = Total /\ Left' = Left - c
  <2>1. Request' /\ Handler' = Handler /\ Total' = Total
    BY <1>1 DEF Request, Sensible, Handler, Total
  <2>2. count' = count - ChunkUnits
    BY <1>1 DEF Advance
  <2>3. Unit(Handler) * (count - ChunkUnits)
          = Unit(Handler) * count - Unit(Handler) * ChunkUnits
    BY <1>2, <1>3, <1>4, UnitOf
  <2>4. QED
    BY <1>2, <2>1, <2>2, <2>3 DEF Left
<1>6. address' = address + c /\ value' = value + c /\ i' = i + 1
  <2>1. address + c \in 0 .. WORD - 1 /\ value + c \in 0 .. WORD - 1
    BY <1>2, <1>3, <1>4
  <2>2. QED
    BY <1>1, <2>1, ModSmall DEF Advance, c
<1>7. copied' = Bytes(arg.value, m + c)
  BY <1>1, <1>2, <1>3, <1>4, BytesOf
<1>8. SgInv' /\ at' = "idle"
  BY <1>1, SameSg DEF IoctlInv, sgVars
<1>9. InOrder'
  <2>1. touched \subseteq Bytes(arg.address, Total)
    BY <1>1, HandlerOf DEF IoctlInv, InOrder, Total, Transfers
  <2>2. Bytes(address, ChunkUnits) \subseteq Bytes(arg.address, Total)
    <3>1. ChunkUnits \in 0 .. c
      BY <1>2, <1>3, <1>4, UnitOf
    <3>2. Bytes(address, ChunkUnits) \subseteq Bytes(arg.address, m + ChunkUnits)
      BY <1>2, <1>3, <1>4, <3>1, BytesOf
    <3>3. m + ChunkUnits \in Nat /\ m + ChunkUnits <= Total
      BY <1>2, <1>3, <3>1
    <3>4. Bytes(arg.address, m + ChunkUnits) \subseteq Bytes(arg.address, Total)
      BY <1>3, <3>3, BytesOf
    <3>5. QED
      BY <3>2, <3>4
  <2>3. touched' \subseteq Bytes(arg.address, Total)
    BY <1>1, <2>1, <2>2 DEF Access
  <2>4. m + c \in 0 .. Total
    BY <1>2, <1>3
  <2>5. QED
    BY <1>1, <1>5, <1>7, <2>3, <2>4 DEF InOrder, Total
<1>10. LoopInv'
  <2>1. /\ count' \in 0 .. arg'.count
        /\ Left' \in Int /\ Total' - Left' = m + c
    BY <1>1, <1>2, <1>3, <1>4, <1>5 DEF Advance
  <2>2. value' = arg'.value + Total' - Left' /\ address' = arg'.address + Total' - Left'
    BY <1>1, <1>2, <1>3, <1>4, <1>5, <1>6
  <2>3. Left' <= (loops' - i') * size'
    <3>1. (loops - (i + 1)) * size = (loops - i) * size - size
      BY <1>4
    <3>2. 0 * size <= (loops - (i + 1)) * size
      BY <1>1, <1>4, TimesMono
    <3>3. (loops - (i + 1)) * size \in Int
      BY <1>4
    <3>4. Left - c <= (loops - (i + 1)) * size
      BY <1>2, <1>3, <1>4, <3>1, <3>2, <3>3 DEF Smaller
    <3>5. QED
      BY <1>1, <1>5, <1>6, <3>4
  <2>4. QED
    BY <1>1, <1>4, <1>5, <1>7, <2>1, <2>2, <2>3 DEF LoopInv
<1>11. TypeOK'
  <2>1. /\ address' \in 0 .. WORD - 1 /\ value' \in 0 .. WORD - 1
        /\ count' \in 0 .. WORD - 1 /\ i' \in 0 .. loops'
    <3>1. address' \in 0 .. WORD - 1 /\ value' \in 0 .. WORD - 1
      BY <1>2, <1>3, <1>4, <1>6
    <3>2. count' \in 0 .. WORD - 1
      <4>1. count \in 0 .. WORD - 1
        BY DEF IoctlInv, TypeOK
      <4>2. QED
        BY <1>1, <1>2, <4>1 DEF Advance
    <3>3. QED
      BY <1>1, <1>4, <1>6, <3>1, <3>2
  <2>2. Bytes(arg.address, Total) \subseteq 0 .. WORD - 1
    BY <1>3 DEF Bytes
  <2>3. touched' \subseteq 0 .. WORD - 1 /\ copied' \subseteq 0 .. WORD - 1
    <3>1. touched' \subseteq Bytes(arg.address, Total)
      BY <1>1, <1>5, <1>9, HandlerOf DEF InOrder, Total, Transfers
    <3>2. Bytes(arg.value, m + c) \subseteq 0 .. WORD - 1
      BY <1>2, <1>3 DEF Bytes
    <3>3. QED
      BY <1>7, <2>2, <3>1, <3>2
  <2>4. QED
    BY <1>1, <1>8, <2>1, <2>3 DEF IoctlInv, TypeOK, SgInv, CallInv
<1>12. PlaceInv' /\ QuietInv' /\ EndInv'
  BY <1>1, <1>5, <1>8 DEF IoctlInv, PlaceInv, QuietInv, EndInv
<1>13. SuccessIsWhole' /\ NothingLeft'
  BY <1>1, <1>8 DEF SuccessIsWhole, NothingLeft, Returned, SgInv, DoneInv
<1>14. QED
  BY <1>8, <1>9, <1>10, <1>11, <1>12, <1>13 DEF IoctlInv

\* A chunk that cannot be copied to or from the user ends the call with
\* -EFAULT: a prefix of the request has been moved.
LEMMA FaultStep == ASSUME IoctlInv, ChunkFault PROVE IoctlInv'
<1> DEFINE m == Total - Left
<1>1. /\ pc = "loop" /\ pc' = "free" /\ i < loops /\ Handler \in Transfers
      /\ Request /\ arg.type /\ arg.nr \in 0 .. 30 /\ at = "idle" /\ errno' = "EFAULT"
      /\ UNCHANGED <<sgVars, arg, block, chunks>>
  BY DEF ChunkFault, IoctlInv, PlaceInv
<1>2. /\ ChunkUnits \in 0 .. count
      /\ ChunkBytes = Unit(Handler) * ChunkUnits
      /\ ChunkBytes \in 0 .. Left /\ Left \in 0 .. Total
  BY <1>1, ChunkOf
<1>3. /\ arg.value \in Nat /\ arg.address \in Nat /\ arg.count \in Nat /\ Total \in Nat
      /\ arg.value + Total < SPACE /\ arg.address + Total < SPACE
  BY <1>1, RequestFits
<1>4. /\ count \in 0 .. arg.count
      /\ value = arg.value + m /\ address = arg.address + m
      /\ copied = Bytes(arg.value, m)
  BY <1>1, <1>2, <1>3 DEF IoctlInv, LoopInv, TypeOK
<1>5. Request' /\ Handler' = Handler /\ Total' = Total
  BY <1>1 DEF Request, Sensible, Handler, Total
<1>6. \E n \in 0 .. Total : copied' = Bytes(arg.value, n)
  <2>1. CASE Handler \in {"readReg", "readMem"}
    <3>1. PICK n \in 0 .. ChunkBytes - 1 : copied' = copied \cup Bytes(value, n)
      BY <2>1 DEF ChunkFault
    <3>2. n \in Nat /\ m \in Nat /\ m + n \in 0 .. Total
      BY <1>2, <1>3
    <3>3. copied' = Bytes(arg.value, m + n)
      <4>1. copied' = Bytes(arg.value, m) \cup Bytes(arg.value + m, n)
        BY <1>4, <3>1
      <4> HIDE DEF m
      <4>2. arg.value \in Nat /\ m \in Nat /\ n \in Nat
        BY <1>3, <3>2
      <4>3. Bytes(arg.value, m) \cup Bytes(arg.value + m, n) = Bytes(arg.value, m + n)
        BY <4>2, BytesOf
      <4>4. QED
        BY <4>1, <4>3
    <3>4. QED
      BY <3>2, <3>3
  <2>2. CASE Handler \notin {"readReg", "readMem"}
    <3>1. copied' = Bytes(arg.value, m)
      BY <1>4, <2>2 DEF ChunkFault, ghosts
    <3>2. QED
      BY <1>2, <1>3, <3>1
  <2>3. QED
    BY <2>1, <2>2
<1>7. touched' \subseteq Bytes(arg.address, Total)
  <2>1. touched \subseteq Bytes(arg.address, Total)
    BY <1>1, HandlerOf DEF IoctlInv, InOrder, Total, Transfers
  <2>2. Bytes(address, ChunkUnits) \subseteq Bytes(arg.address, Total)
    <3>1. ChunkUnits \in 0 .. ChunkBytes
      BY <1>2, <1>3, <1>4, UnitOf
    <3>2. Bytes(address, ChunkUnits) \subseteq Bytes(arg.address, m + ChunkUnits)
      BY <1>2, <1>3, <1>4, <3>1, BytesOf
    <3>3. m + ChunkUnits \in Nat /\ m + ChunkUnits <= Total
      BY <1>2, <1>3, <3>1
    <3>4. Bytes(arg.address, m + ChunkUnits) \subseteq Bytes(arg.address, Total)
      BY <1>3, <3>3, BytesOf
    <3>5. QED
      BY <3>2, <3>4
  <2>3. QED
    BY <2>1, <2>2 DEF ChunkFault, Access, ghosts
<1>8. SgInv' /\ at' = "idle"
  BY <1>1, SameSg DEF IoctlInv, sgVars
<1>9. InOrder'
  BY <1>1, <1>5, <1>6, <1>7 DEF InOrder, Total
<1>10. TypeOK'
  <2>1. Bytes(arg.address, Total) \subseteq 0 .. WORD - 1
    BY <1>3 DEF Bytes
  <2>2. copied' \subseteq 0 .. WORD - 1
    <3>1. PICK n \in 0 .. Total : copied' = Bytes(arg.value, n)
      BY <1>6
    <3>2. Bytes(arg.value, n) \subseteq 0 .. WORD - 1
      BY <1>3 DEF Bytes
    <3>3. QED
      BY <3>1, <3>2
  <2>3. QED
    BY <1>1, <1>7, <1>8, <2>1, <2>2 DEF IoctlInv, TypeOK, SgInv, CallInv, block, chunks
<1>11. PlaceInv' /\ QuietInv' /\ LoopInv' /\ EndInv'
  BY <1>1, <1>5, <1>8 DEF PlaceInv, QuietInv, LoopInv, EndInv
<1>12. SuccessIsWhole' /\ NothingLeft'
  BY <1>1, <1>8 DEF SuccessIsWhole, NothingLeft, Returned, SgInv, DoneInv
<1>13. QED
  BY <1>8, <1>9, <1>10, <1>11, <1>12 DEF IoctlInv

\* Registers that are not mapped: the call dies with what it holds.
LEMMA NoRegistersStep == ASSUME IoctlInv, NoRegisters PROVE IoctlInv'
<1>1. /\ pc = "loop" /\ pc' = "oops" /\ ~dev_virtaddr /\ ~dev_virtaddr' /\ errno' = "ok"
      /\ Request /\ at = "idle" /\ UNCHANGED <<sgVars, arg, block, chunks, ghosts, errno>>
  BY DEF NoRegisters, IoctlInv, PlaceInv, sgVars, request
<1>2. SgInv' /\ InOrder' /\ at' = "idle"
  BY <1>1, SameSg, SameOrder DEF IoctlInv, sgVars
<1>3. Request'
  BY <1>1 DEF Request, Sensible
<1>4. TypeOK'
  BY <1>1, <1>2 DEF IoctlInv, TypeOK, SgInv, CallInv, block, chunks, ghosts
<1>5. PlaceInv' /\ QuietInv' /\ LoopInv' /\ EndInv'
  BY <1>1, <1>2, <1>3 DEF PlaceInv, QuietInv, LoopInv, EndInv
<1>6. SuccessIsWhole' /\ NothingLeft'
  BY <1>1, <1>2 DEF SuccessIsWhole, NothingLeft, Returned, SgInv, DoneInv
<1>7. QED
  BY <1>2, <1>4, <1>5, <1>6 DEF IoctlInv

\* After the last chunk nothing is left.
LEMMA EndStep == ASSUME IoctlInv, LoopEnds PROVE IoctlInv'
<1>1. /\ pc = "loop" /\ pc' = "free" /\ i >= loops /\ Handler \in Transfers
      /\ Request /\ arg.type /\ arg.nr \in 0 .. 30 /\ at = "idle"
      /\ UNCHANGED <<sgVars, arg, block, chunks, ghosts, errno>>
  BY DEF LoopEnds, IoctlInv, PlaceInv
<1>2. SgInv' /\ InOrder' /\ at' = "idle"
  BY <1>1, SameSg, SameOrder DEF IoctlInv, sgVars
<1>3. Request' /\ Handler' = Handler /\ Total' = Total
  BY <1>1 DEF Request, Sensible, Handler, Total
<1>4. copied = Bytes(arg.value, Total)
  <2>1. arg.count \in Nat /\ Total \in Nat
    BY <1>1, RequestFits
  <2>2. /\ count \in 0 .. arg.count /\ Left <= (loops - i) * size
        /\ copied = Bytes(arg.value, Total - Left)
        /\ size \in Nat /\ i \in 0 .. loops /\ loops \in Nat
    BY <1>1 DEF IoctlInv, LoopInv, TypeOK
  <2>3. (loops - i) * size = 0
    BY <1>1, <2>2
  <2>4. Left = 0
    BY <2>1, <2>2, <2>3, UnitOf DEF Left
  <2>5. QED
    BY <2>1, <2>2, <2>4
<1>5. TypeOK'
  BY <1>1, <1>2 DEF IoctlInv, TypeOK, SgInv, CallInv, block, chunks, ghosts
<1>6. PlaceInv' /\ QuietInv' /\ LoopInv' /\ EndInv'
  BY <1>1, <1>2, <1>3, <1>4 DEF PlaceInv, QuietInv, LoopInv, EndInv, ghosts
<1>7. SuccessIsWhole' /\ NothingLeft'
  BY <1>1, <1>2 DEF SuccessIsWhole, NothingLeft, Returned, SgInv, DoneInv
<1>8. QED
  BY <1>2, <1>5, <1>6, <1>7 DEF IoctlInv

\* The buffer goes, and the caller gets the result.
LEMMA FreeStep == ASSUME IoctlInv, FreeBuffer PROVE IoctlInv'
<1>1. /\ pc = "free" /\ pc' = "returned" /\ buf' = "none" /\ Handler \in Transfers
      /\ Request /\ arg.type /\ arg.nr \in 0 .. 30 /\ at = "idle"
      /\ UNCHANGED <<sgVars, arg, block, size, loops, i, ghosts, errno>>
  BY DEF FreeBuffer, IoctlInv, PlaceInv
<1>2. SgInv' /\ InOrder' /\ at' = "idle"
  BY <1>1, SameSg, SameOrder DEF IoctlInv, sgVars
<1>3. Request' /\ Handler' = Handler
  BY <1>1 DEF Request, Sensible, Handler
<1>4. TypeOK'
  BY <1>1, <1>2 DEF IoctlInv, TypeOK, SgInv, CallInv, block, ghosts
<1>5. PlaceInv' /\ QuietInv' /\ LoopInv' /\ EndInv'
  BY <1>1, <1>2, <1>3 DEF PlaceInv, QuietInv, LoopInv, EndInv
<1>6. SuccessIsWhole'
  <2>1. Handler \notin Dma
    BY <1>1 DEF Transfers, Registers, Memory, Dma
  <2>2. errno = "ok" => copied = Bytes(arg.value, Total)
    BY <1>1 DEF IoctlInv, EndInv
  <2>3. ApiResult' = 0 => errno = "ok"
    BY <1>1 DEF ApiResult
  <2>4. QED
    BY <1>1, <1>3, <2>1, <2>2, <2>3 DEF SuccessIsWhole, Returned, Total, ghosts
<1>7. NothingLeft'
  BY <1>1, <1>2 DEF NothingLeft, SgInv, DoneInv
<1>8. QED
  BY <1>2, <1>4, <1>5, <1>6, <1>7 DEF IoctlInv

\* A DMA command enters socDma, runs it, and hands its result on.
LEMMA DmaStep == ASSUME IoctlInv, CallSocDma \/ InSocDma \/ DmaReturns PROVE IoctlInv'
<1>1. /\ pc \in {"block", "dma"} /\ Handler \in Dma
      /\ Request /\ arg.type /\ arg.nr \in 0 .. 30 /\ errno = "ok"
      /\ touched = {} /\ copied = {} /\ buf # "heap"
      /\ UNCHANGED <<arg, block, chunks, ghosts>>
  BY DEF CallSocDma, InSocDma, DmaReturns, IoctlInv, PlaceInv, QuietInv
<1>2. Request' /\ Handler' = Handler
  BY <1>1 DEF Request, Sensible, Handler
<1>3. Handler \notin Transfers /\ arg.nr \in {11, 12}
  BY <1>1, HandlerOf DEF Transfers, Registers, Memory, Dma
<1>4. InOrder'
  BY <1>1, SameOrder DEF IoctlInv
<1>5. CASE CallSocDma
  <2>1. /\ pc = "block" /\ pc' = "dma" /\ errno' = "ok" /\ Enter(value, count)
        /\ value = arg.value /\ count = arg.count
    BY <1>1, <1>5 DEF CallSocDma, IoctlInv, QuietInv
  <2>2. /\ arg.value \in Nat /\ arg.count \in Nat
        /\ arg.count + 2 * PAGE_SIZE <= WORD
    <3>1. /\ arg.value \in Nat /\ arg.count \in Nat /\ Total \in Nat
          /\ arg.value + Total < SPACE
      BY <1>1, RequestFits
    <3>2. Total = arg.count
      BY <1>3, <3>1, UnitOf DEF Total, Transfers
    <3>3. QED
      BY <3>1, <3>2
  <2>3. SgInv'
    BY <2>1, <2>2, EnterInv DEF IoctlInv
  <2>4. at' = "pages" /\ nbyte' = arg.count
    BY <2>1 DEF Enter
  <2>5. TypeOK' /\ PlaceInv' /\ QuietInv' /\ LoopInv' /\ EndInv'
    BY <1>1, <1>2, <2>1, <2>3, <2>4 DEF IoctlInv, TypeOK, SgInv, CallInv, PlaceInv,
       QuietInv, LoopInv, EndInv, block, chunks, ghosts
  <2>6. SuccessIsWhole' /\ NothingLeft'
    BY <2>1, <2>3 DEF SuccessIsWhole, NothingLeft, Returned, SgInv, DoneInv
  <2>7. QED
    BY <1>4, <2>3, <2>5, <2>6 DEF IoctlInv
<1>6. CASE InSocDma
  <2>1. /\ pc = "dma" /\ SgNext /\ errno' = "ok"
        /\ pc' = IF at' = "oops" THEN "oops" ELSE "dma"
        /\ nbyte = arg.count
    BY <1>1, <1>6 DEF InSocDma, IoctlInv, PlaceInv
  <2>2. SgInv'
    BY <2>1, SgStepInv DEF IoctlInv
  <2>3. at' # "idle" /\ nbyte' = nbyte
    BY <2>1 DEF SgNext, AllocPages, AllocTable, DownRead, FindVma, GetUserPages, Fail,
       NoPage, OnlyEntry, FirstEntry, NextEntry, MapSg, Launch, Unmap, Peek, Release,
       request
  <2>4. TypeOK' /\ PlaceInv' /\ QuietInv' /\ LoopInv' /\ EndInv'
    BY <1>1, <1>2, <2>1, <2>2, <2>3 DEF IoctlInv, TypeOK, SgInv, CallInv, PlaceInv,
       QuietInv, LoopInv, EndInv, block, chunks, ghosts
  <2>5. SuccessIsWhole' /\ NothingLeft'
    BY <2>1, <2>2 DEF SuccessIsWhole, NothingLeft, Returned, SgInv, DoneInv
  <2>6. QED
    BY <1>4, <2>2, <2>4, <2>5 DEF IoctlInv
<1>7. CASE DmaReturns
  <2>1. /\ pc' = "returned" /\ at = "done" /\ UNCHANGED sgVars
        /\ errno' = IF result = "ok" THEN "ok" ELSE "EFAULT"
    BY <1>7 DEF DmaReturns, Return
  <2>2. SgInv'
    BY <2>1, SameSg DEF IoctlInv
  <2>3. TypeOK' /\ PlaceInv' /\ QuietInv' /\ LoopInv' /\ EndInv'
    BY <1>1, <1>2, <2>1, <2>2 DEF IoctlInv, TypeOK, SgInv, CallInv, PlaceInv,
       QuietInv, LoopInv, EndInv, block, chunks, ghosts
  <2>4. result = "ok" => sgNum = IF ShortPin THEN nr_pages ELSE Wanted
    BY <2>1, Launched DEF IoctlInv
  <2>5. sgNum' = sgNum /\ nr_pages' = nr_pages /\ Wanted' = Wanted /\ ShortPin' = ShortPin
    BY <2>1 DEF sgVars, launches, request, Wanted, PagesOf, ShortPin
  <2>6. ApiResult' = 0 => result = "ok"
    BY <2>1 DEF ApiResult
  <2>7. SuccessIsWhole'
    BY <1>2, <1>3, <2>4, <2>5, <2>6 DEF SuccessIsWhole, Returned, Transfers
  <2>8. NothingLeft'
    BY <1>1, <2>1, <2>2 DEF NothingLeft, SgInv, DoneInv, chunks
  <2>9. QED
    BY <1>4, <2>2, <2>3, <2>7, <2>8 DEF IoctlInv
<1>8. QED
  BY <1>5, <1>6, <1>7

\* A refusal by socStartup, and the next caller.
LEMMA RefusedStep ==
  ASSUME IoctlInv, pc = "idle", pc' = "returned", errno' = "refused",
         UNCHANGED <<sgVars, arg, block, chunks, ghosts>>
  PROVE  IoctlInv'
<1>1. SgInv' /\ InOrder' /\ arg' = NoArgument /\ buf' # "heap" /\ at' = "idle"
  BY SameSg, SameOrder DEF IoctlInv, PlaceInv, QuietInv, chunks, sgVars
<1>2. TypeOK' /\ PlaceInv' /\ QuietInv' /\ LoopInv' /\ EndInv'
  BY <1>1 DEF IoctlInv, TypeOK, SgInv, CallInv, PlaceInv, QuietInv, LoopInv, EndInv,
     block, chunks, ghosts
<1>3. SuccessIsWhole' /\ NothingLeft'
  BY <1>1 DEF SuccessIsWhole, NothingLeft, Returned, SgInv, DoneInv
<1>4. QED
  BY <1>1, <1>2, <1>3 DEF IoctlInv

\* The wrappers' arguments are arguments.
LEMMA WrappedArgument ==
  ASSUME NEW n \in SUBSET (0 .. 31), NEW l \in SUBSET Lengths, NEW a \in Wrapped(n, l)
  PROVE  a \in Argument
<1>1. /\ a = [type |-> a.type, nr |-> a.nr, datalen |-> a.datalen, address |-> a.address,
               value |-> a.value, count |-> a.count]
      /\ a.type \in BOOLEAN /\ a.nr \in n /\ a.datalen \in l /\ a.address \in Addresses
      /\ a.value \in Values /\ a.count \in 0 .. SPACE
  BY DEF Wrapped
<1>2. a.nr \in 0 .. 31 /\ a.datalen \in Lengths
  BY <1>1
<1>3. QED
  BY <1>1, <1>2 DEF Argument

\* No step of a caller or of the kernel breaks IoctlInv.
LEMMA StepInv == IoctlInv /\ [Next]_vars => IoctlInv'
<1> SUFFICES ASSUME IoctlInv, [Next]_vars PROVE IoctlInv'
  OBVIOUS
<1>1. CASE CallIoctl
  BY <1>1, CallStep DEF CallIoctl
<1>2. CASE CallTransfer \/ CallDma \/ CallStop
  <2>1. pc = "idle" /\ \E a \in Argument : Ioctl(a)
    <3>1. CASE CallTransfer
      BY <3>1, WrappedArgument, {5, 8, 9, 10} \in SUBSET (0 .. 31),
         {"block"} \in SUBSET Lengths DEF CallTransfer, Lengths
    <3>2. CASE CallDma
      BY <3>2, WrappedArgument, {11, 12} \in SUBSET (0 .. 31),
         {"block"} \in SUBSET Lengths DEF CallDma, Lengths
    <3>3. CASE CallStop
      BY <3>3, WrappedArgument, {2} \in SUBSET (0 .. 31),
         Lengths \in SUBSET Lengths DEF CallStop
    <3>4. QED
      BY <1>2, <3>1, <3>2, <3>3
  <2>2. QED
    BY <2>1, CallStep
<1>3. CASE CallStartup
  <2>1. CASE \E a \in Wrapped({1}, Lengths \ {"long", "negative"}) : Ioctl(a)
    <3>1. pc = "idle" /\ \E a \in Argument : Ioctl(a)
      BY <1>3, <2>1, WrappedArgument, {1} \in SUBSET (0 .. 31),
         Lengths \ {"long", "negative"} \in SUBSET Lengths DEF CallStartup
    <3>2. QED
      BY <3>1, CallStep
  <2>2. CASE ~ \E a \in Wrapped({1}, Lengths \ {"long", "negative"}) : Ioctl(a)
    BY <1>3, <2>2, RefusedStep DEF CallStartup
  <2>3. QED
    BY <2>1, <2>2
<1>4. CASE Resume
  <2>1. Init'
    BY <1>4 DEF Resume, Init, SgInit, IoctlInv, TypeOK, SgTypeOK
  <2>2. QED
    BY <2>1, InitInv, PTL
<1>5. CASE Kernel
  BY <1>5, DispatchStep, PrepareStep, MoveStep, FaultStep, NoRegistersStep, EndStep,
     FreeStep, DmaStep
  DEF Kernel
<1>6. CASE UNCHANGED vars
  <2>1. SgInv' /\ InOrder'
    BY <1>6, SameSg, SameOrder DEF IoctlInv, vars
  <2>2. TypeOK' /\ PlaceInv' /\ QuietInv' /\ LoopInv' /\ EndInv'
    BY <1>6, <2>1 DEF vars, IoctlInv, TypeOK, SgInv, CallInv, PlaceInv, QuietInv, LoopInv,
       EndInv, Request, Sensible, Handler, Total, Left, block, chunks, ghosts, sgVars,
       request
  <2>3. SuccessIsWhole' /\ NothingLeft'
    BY <1>6, <2>1 DEF vars, IoctlInv, SuccessIsWhole, NothingLeft,
       Returned, ApiResult, Handler, SgInv, DoneInv, Wanted, PagesOf, ShortPin, chunks,
       ghosts, sgVars, request, launches
  <2>4. QED
    BY <2>1, <2>2, <2>3 DEF IoctlInv
<1>7. QED
  BY <1>1, <1>2, <1>3, <1>4, <1>5, <1>6 DEF Next

\* IoctlInv always holds.
LEMMA InvAlways == Spec => []IoctlInv
BY InitInv, StepInv, PTL DEF Spec
-----------------------------------------------------------------------------
\* The type invariant: no address, size or count leaves its word.
THEOREM TypeCorrect == Spec => []TypeOK
<1>1. IoctlInv => TypeOK
  BY DEF IoctlInv
<1>2. QED
  BY <1>1, InvAlways, PTL

\* A wrapper of soc_api.c that returns 0 has moved every byte of the user's
\* buffer, or launched a descriptor for every page of it that was pinned: all
\* of them, unless get_user_pages pinned fewer (soc_miner.c 583-588).  What the
\* driver's empty memory functions (835-842) do with the bytes is not counted.
THEOREM WholeOrError == Spec => []SuccessIsWhole
<1>1. IoctlInv => SuccessIsWhole
  BY DEF IoctlInv
<1>2. QED
  BY <1>1, InvAlways, PTL

\* The chunks of a transfer follow one another without a gap.
THEOREM ChunksInOrder == Spec => []InOrder
<1>1. IoctlInv => InOrder
  BY DEF IoctlInv
<1>2. QED
  BY <1>1, InvAlways, PTL

\* No way out of a call keeps a bounce buffer, mmap_sem, a pin or a mapping.
THEOREM CallsReleaseAll == Spec => []NothingLeft
<1>1. IoctlInv => NothingLeft
  BY DEF IoctlInv
<1>2. QED
  BY <1>1, InvAlways, PTL

\* Wherever a call dies in the kernel, it dies without mmap_sem and, if the
\* registers are mapped, without a DMA mapping or a bounce buffer; a DMA that
\* has built its list leaves all its pages pinned.
THEOREM DeathIsContained == Spec => []KilledHoldsLittle
<1>1. IoctlInv => KilledHoldsLittle
  <2> SUFFICES ASSUME IoctlInv, pc = "oops"
               PROVE  /\ "mmap_sem" \notin held
                      /\ "map" \in held \/ buf = "heap" => ~dev_virtaddr
                      /\ sg # <<>> => pins = nr_pages /\ pins > 0
    BY DEF KilledHoldsLittle
  <2>1. at \in {"idle", "oops"} /\ (buf = "heap" => ~dev_virtaddr)
    BY DEF IoctlInv, PlaceInv, QuietInv
  <2>2. CASE at = "idle"
    BY <2>1, <2>2 DEF IoctlInv, SgInv, CallInv, HoldInv, Before
  <2>3. CASE at = "oops"
    BY <2>1, <2>3 DEF IoctlInv, SgInv, HoldInv, Pinned
  <2>4. QED
    BY <2>1, <2>2, <2>3
<1>2. QED
  BY <1>1, InvAlways, PTL

\* The scatter-gather list covers the request, page by page.
THEOREM ListCovers == Spec => []SegmentsCover
<1>1. IoctlInv => SegmentsCover
  BY Cover DEF IoctlInv
<1>2. QED
  BY <1>1, InvAlways, PTL
-----------------------------------------------------------------------------
(* Why a call ends: the argument behind IoctlReturns *)

\* The bytes or registers of the request, and the pages of its buffer.
Units == (IF arg.nr \in {5, 8} THEN 4 ELSE 1) * arg.count
Pages == PagesOf(arg.value, arg.count)

\* The most steps a handler makes once it has its TransferBlock: two per page,
\* or one per chunk, of which there are no more than bytes.
Longest == IF arg.nr \in {11, 12} THEN 2 * Pages + 12 ELSE Units + 3

\* The steps the call has left.
StepsLeft ==
  CASE pc = "dispatch" -> Longest + 2
    [] pc = "handler"  -> Longest + 1
    [] pc = "block"    -> Longest
    [] pc = "loop"     -> loops - i + 2
    [] pc = "free"     -> 1
    [] pc = "dma"      -> SgStepsLeft + 1
    [] pc \in {"idle", "returned", "oops"} -> 0

\* How many steps a call has left, by the place it is at.
LEMMA StepsAt ==
  /\ pc = "dispatch" => StepsLeft = Longest + 2
  /\ pc = "handler" => StepsLeft = Longest + 1
  /\ pc = "block" => StepsLeft = Longest
  /\ pc = "loop" => StepsLeft = loops - i + 2
  /\ pc = "free" => StepsLeft = 1
  /\ pc = "dma" => StepsLeft = SgStepsLeft + 1
  /\ pc \in {"idle", "returned", "oops"} => StepsLeft = 0
BY DEF StepsLeft

\* The same after a step.
LEMMA StepsAfter ==
  /\ pc' = "dispatch" => StepsLeft' = Longest' + 2
  /\ pc' = "handler" => StepsLeft' = Longest' + 1
  /\ pc' = "block" => StepsLeft' = Longest'
  /\ pc' = "loop" => StepsLeft' = loops' - i' + 2
  /\ pc' = "free" => StepsLeft' = 1
  /\ pc' = "dma" => StepsLeft' = SgStepsLeft' + 1
  /\ pc' \in {"idle", "returned", "oops"} => StepsLeft' = 0
BY DEF StepsLeft

Running == {"dispatch", "handler", "block", "loop", "free", "dma"}

\* As long as the kernel runs a call, every step leaves it with fewer, whatever
\* the command, the sizes and the failures: no loop over chunks, entries or
\* descriptors goes round for ever, and none waits.
CallWinds == [][(pc \in Running) => StepsLeft \in Nat \ {0} /\ StepsLeft' < StepsLeft]_vars

\* A request is made of a natural number of pages and bytes.
LEMMA LongestIsNat ==
  ASSUME Request
  PROVE  Pages \in Nat /\ Units \in Nat /\ Longest \in Nat /\ Longest >= 3
<1>1. arg.value \in Nat /\ arg.count \in Nat
  <2>1. arg.value \in Values /\ arg.count \in 0 .. SPACE
    BY DEF Request, Argument
  <2>2. arg.value \in 0 .. SPACE - 1
    BY <2>1
  <2>3. QED
    BY <2>1, <2>2
<1>2. Pages \in Nat
  <2>1. ASSUME NEW x \in Nat PROVE (x % WORD) \div PAGE_SIZE \in Nat
    BY ModRange, Quotient
  <2>2. arg.value % PAGE_SIZE \in 0 .. PAGE_SIZE - 1
    <3>1. \A x \in Int : x % PAGE_SIZE \in 0 .. PAGE_SIZE - 1
      BY ModRange
    <3>2. arg.value \in Int
      BY <1>1
    <3>3. QED
      BY <3>1, <3>2, Zenon
  <2>3. (arg.value % PAGE_SIZE) + arg.count + PAGE_SIZE - 1 \in Nat
    BY <1>1, <2>2
  <2>4. QED
    BY <2>1, <2>3 DEF Pages, PagesOf
<1>3. Units \in Nat
  BY <1>1 DEF Units
<1>4. QED
  BY <1>2, <1>3 DEF Longest

\* There are no more chunks than bytes.
LEMMA ChunksAreFew ==
  ASSUME NEW n \in Nat, NEW s \in Nat, n < SPACE, s <= MAX_BUFFER_SIZE, s = 0 => n = 0
  PROVE  LoopsOf(n, s) \in 0 .. n
<1>1. CASE s = 0
  BY <1>1 DEF LoopsOf, Div
<1>2. CASE s > 0
  <2> DEFINE x == n + s - 1
             q == x \div s
  <2>1. x \in 0 .. WORD - 1 /\ x \in Nat
    BY <1>2
  <2>2. LoopsOf(n, s) = q
    BY <1>2, <2>1, ModSmall DEF LoopsOf, Div
  <2>3. q \in Nat /\ q * s <= x
    BY <1>2, <2>1, Quotient
  <2> HIDE DEF q
  <2>4. CASE q = 0
    BY <2>2, <2>4
  <2>5. CASE q > 0
    <3>1. (q - 1) * s = q * s - s
      BY <2>3
    <3>2. q - 1 <= (q - 1) * s
      <4>1. 1 * (q - 1) <= s * (q - 1)
        BY <1>2, <2>3, <2>5, TimesMono
      <4>2. QED
        BY <2>3, <4>1
    <3>3. q * s \in Nat
      BY <2>3
    <3>4. q <= n
      BY <2>3, <3>1, <3>2, <3>3
    <3>5. QED
      BY <2>2, <2>3, <3>4
  <2>6. QED
    BY <2>3, <2>4, <2>5
<1>3. QED
  BY <1>1, <1>2

\* The steps before a loop: dispatch and the head of the handlers.
LEMMA HeadUses ==
  ASSUME IoctlInv, soc_miner_ioctl \/ StartupStop \/ CopyBlock
  PROVE  StepsLeft' < StepsLeft
<1>1. Request
  BY DEF soc_miner_ioctl, StartupStop, CopyBlock, IoctlInv, PlaceInv
<1>2. Longest' = Longest
  BY DEF soc_miner_ioctl, StartupStop, CopyBlock, Longest, Pages, Units
<1>3. \/ pc = "dispatch" /\ pc' \in {"handler", "returned", "oops"}
      \/ pc = "handler" /\ pc' \in {"block", "returned", "oops"}
  BY DEF soc_miner_ioctl, StartupStop, CopyBlock, Return
<1>4. QED
  BY <1>1, <1>2, <1>3, LongestIsNat, StepsAt, StepsAfter

\* Before the loop the chunks are counted.
LEMMA PrepareUses ==
  ASSUME IoctlInv, PrepareRegisters \/ PrepareMemory
  PROVE  StepsLeft' < StepsLeft
<1>1. /\ pc = "block" /\ Handler \in Transfers /\ Request /\ arg.nr \in 0 .. 30
      /\ count = arg.count
  BY DEF PrepareRegisters, PrepareMemory, IoctlInv, PlaceInv, QuietInv, Transfers
<1>2. /\ Total = Units /\ Units \in Nat /\ Units < SPACE /\ Longest = Units + 3
  <2>1. arg.nr \notin {11, 12} /\ Unit(Handler) = IF arg.nr \in {5, 8} THEN 4 ELSE 1
    BY <1>1, HandlerOf DEF Unit, Transfers
  <2>2. arg.value \in Nat /\ Total \in Nat /\ arg.value + Total < SPACE
    BY <1>1, RequestFits
  <2>3. QED
    BY <2>1, <2>2 DEF Total, Units, Longest
<1>3. CASE pc' = "returned"
  BY <1>1, <1>2, <1>3, StepsAt, StepsAfter
<1>4. ASSUME NEW s, NEW b, Start(s, Units, b), s \in Nat, s <= MAX_BUFFER_SIZE,
             s = 0 => Units = 0
      PROVE  StepsLeft' < StepsLeft
  <2>1. LoopsOf(Units, s) \in 0 .. Units
    BY <1>2, <1>4, ChunksAreFew
  <2>2. loops' \in 0 .. Units /\ i' = 0 /\ pc' = "loop"
    BY <1>4, <2>1 DEF Start
  <2>3. StepsLeft = Units + 3 /\ StepsLeft' = loops' - i' + 2
    BY <1>1, <1>2, <2>2, StepsAt, StepsAfter
  <2>4. Units \in Nat /\ loops' \in Nat /\ loops' <= Units
    BY <1>2, <2>2
  <2>5. StepsLeft' = loops' + 2
    BY <2>2, <2>3, <2>4
  <2>6. \A m, n \in Nat : m <= n => m + 2 < n + 3
    OBVIOUS
  <2>7. loops' + 2 < Units + 3
    BY <2>4, <2>6
  <2>8. QED
    BY <2>3, <2>5, <2>7
<1>5. CASE PrepareRegisters /\ pc' # "returned"
  <2>1. Units = 4 * count /\ (count * 4) % WORD = Units
    <3>1. Units = 4 * count
      BY <1>1, <1>2, <1>5, UnitOf DEF PrepareRegisters, Total
    <3>2. count * 4 \in 0 .. WORD - 1
      BY <1>1, <1>2, <3>1, RequestFits
    <3>3. QED
      BY <1>1, <1>2, <3>1, <3>2, ModSmall, RequestFits
  <2>2. CASE count <= MAX_LOCAL_REGS /\ Start(Units, Units, "stack")
    <3>1. Units <= MAX_BUFFER_SIZE
      BY <1>1, <2>1, <2>2, RequestFits
    <3>2. QED
      BY <1>2, <1>4, <2>2, <3>1
  <2>3. CASE Start(Smaller(Units, MAX_BUFFER_SIZE), Units, "heap")
    BY <1>2, <1>4, <2>3 DEF Smaller
  <2>4. QED
    BY <1>5, <2>1, <2>2, <2>3 DEF PrepareRegisters, NoMemory, Return
<1>6. CASE PrepareMemory /\ pc' # "returned"
  <2>1. Units = count
    BY <1>1, <1>2, <1>6, UnitOf, RequestFits DEF PrepareMemory, Total, Memory, Registers
  <2>2. Start(Smaller(Units, MAX_BUFFER_SIZE), Units, "heap")
    BY <1>6, <2>1 DEF PrepareMemory, NoMemory, Return
  <2>3. QED
    BY <1>2, <1>4, <2>2 DEF Smaller
<1>7. QED
  BY <1>3, <1>5, <1>6

\* A chunk, or the end of the loop.
LEMMA LoopUses ==
  ASSUME IoctlInv, MoveChunk \/ ChunkFault \/ NoRegisters \/ LoopEnds \/ FreeBuffer
  PROVE  StepsLeft' < StepsLeft
<1>1. loops \in Nat /\ i \in 0 .. loops
  BY DEF IoctlInv, TypeOK
<1>2. \/ /\ pc = "loop" /\ pc' = "loop" /\ i < loops /\ i' = i + 1 /\ loops' = loops
      \/ pc = "loop" /\ pc' \in {"free", "oops"}
      \/ pc = "free" /\ pc' = "returned"
  BY DEF MoveChunk, Advance, ChunkFault, NoRegisters, LoopEnds, FreeBuffer
<1>3. QED
  BY <1>1, <1>2, StepsAt, StepsAfter

SgMeasured == SgStepsLeft \in Nat

\* The steps that socDma has left are a number.
LEMMA SgStepsKept == SgInv => SgMeasured
BY SgStepsNat DEF SgMeasured

\* A DMA command runs socDma once.
LEMMA DmaUses ==
  ASSUME IoctlInv, CallSocDma \/ InSocDma \/ DmaReturns
  PROVE  StepsLeft' < StepsLeft
<1>1. SgInv /\ SgStepsLeft \in Nat
  BY SgStepsNat DEF IoctlInv
<1>2. CASE CallSocDma
  <2>1. /\ pc = "block" /\ Handler \in Dma /\ Request /\ arg.nr \in 0 .. 30
        /\ value = arg.value /\ count = arg.count
    BY <1>2 DEF CallSocDma, IoctlInv, PlaceInv, QuietInv
  <2>2. pc' = "dma" /\ at' = "pages" /\ nr_pages' = Pages
    BY <1>2, <2>1 DEF CallSocDma, Enter, Pages
  <2>3. Longest = 2 * Pages + 12
    BY <2>1, HandlerOf DEF Longest
  <2>4. StepsLeft' = 2 * Pages + 10 + 1
    BY <2>2, StepsAfter, SgStepsAfter
  <2>5. QED
    BY <2>1, <2>3, <2>4, LongestIsNat, StepsAt
<1>3. CASE InSocDma
  <2>1. pc = "dma" /\ SgStepsLeft' < SgStepsLeft /\ pc' \in {"dma", "oops"}
    BY <1>1, <1>3, SgStepUsed DEF InSocDma
  <2>2. SgStepsLeft' \in Nat
    <3>1. SgInv'
      BY <1>1, <1>3, SgStepInv DEF InSocDma
    <3>2. SgMeasured'
      BY <3>1, SgStepsKept, PTL
    <3>3. QED
      BY <3>2 DEF SgMeasured
  <2>3. QED
    BY <1>1, <2>1, <2>2, StepsAt, StepsAfter
<1>4. CASE DmaReturns
  BY <1>1, <1>4, StepsAt, StepsAfter DEF DmaReturns, Return
<1>5. QED
  BY <1>2, <1>3, <1>4

\* A call that runs has a step left.
LEMMA StepsAreNat ==
  ASSUME IoctlInv, pc \in Running
  PROVE  StepsLeft \in Nat \ {0}
<1>1. loops \in Nat /\ i \in 0 .. loops
  BY DEF IoctlInv, TypeOK
<1>2. SgStepsLeft \in Nat
  BY SgStepsNat DEF IoctlInv
<1>3. pc \in {"dispatch", "handler", "block"} => Longest \in Nat /\ Longest >= 3
  BY LongestIsNat DEF IoctlInv, PlaceInv
<1>4. QED
  BY <1>1, <1>2, <1>3, StepsAt DEF Running

\* Every ioctl comes to its end: the variant of IoctlReturns.
THEOREM CallsWind == Spec => CallWinds
<1>1. IoctlInv /\ [Next]_vars =>
        [(pc \in Running) => StepsLeft \in Nat \ {0} /\ StepsLeft' < StepsLeft]_vars
  <2> SUFFICES ASSUME IoctlInv, Next, pc \in Running
               PROVE  StepsLeft \in Nat \ {0} /\ StepsLeft' < StepsLeft
    OBVIOUS
  <2>1. Kernel
    BY DEF Next, Running, CallIoctl, CallTransfer, CallDma, CallStartup, CallStop, Resume
  <2>2. QED
    BY <2>1, StepsAreNat, HeadUses, PrepareUses, LoopUses, DmaUses DEF Kernel
<1>2. QED
  BY <1>1, InvAlways, PTL DEF Spec, CallWinds
=============================================================================
