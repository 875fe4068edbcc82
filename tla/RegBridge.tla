------------------------------ MODULE RegBridge ------------------------------
(***************************************************************************)
(* The register path of the chip, clock by clock: the bridge               *)
(* axi4lite2regbus.sv, the register file soc_miner_regs.v behind it,       *)
(* auto_clear.sv and the SRAM-read flip-flops of soc_miner.sv.  A step is  *)
(* one rising edge of Clk; each always block is one definition.            *)
(*                                                                         *)
(* The address space is reduced to one address of each kind: the control   *)
(* register with its GO bits, a register that only stores (source,         *)
(* destination, length, axi, acp), a debug SRAM (read only, one clock      *)
(* late) and a hole.  A word is the set of its two interesting bits.       *)
(*                                                                         *)
(* The master is a processor that makes one access at a time over          *)
(* AXI4-Lite: an access starts when the previous one has been answered.    *)
(***************************************************************************)
EXTENDS Integers

CONSTANT
  Orders              \* how a write's address and data are offered

\* The control register has two more, go_read_acp and go_write_acp, which the
\* top level connects to nothing: no auto_clear, no engine.  They are left out.
GoBits == {"go_read", "go_write"}
Word == SUBSET GoBits
Sram == {"sram"}          \* what an SRAM read returns
Dead == {"deaddead"}      \* 32'hdeaddead
Addrs == {"control", "plain", "sram", "hole"}

ASSUME BridgeAssumption == Orders \subseteq {"together", "address first"}

VARIABLES
  master,             \* the access the processor is making
  bus,                \* the bridge's registers towards the register file
  ready,              \* awready, arready and wready: up from the first clock
  rvalid, rdata,      \* the read answer
  bvalid,             \* the write answer
  timeout_cnt, timeout_cnt_en,
  go, go_next,        \* control.go_read, go_write; the outputs of auto_clear
  plain,              \* the storing register
  rd_en_ff,           \* the SRAM read enable, one clock late
  stored,             \* ghost: what the master's writes should have stored
  due                 \* ghost: the GO bits it has written and not seen pulse

vars == <<master, bus, ready, rvalid, rdata, bvalid, timeout_cnt, timeout_cnt_en, go,
          go_next, plain, rd_en_ff, stored, due>>

\* The channels the master has raised: "aw" and "w" of a write, "ar" of a
\* read; "later" is what it raises when those have been taken.
TypeOK ==
  /\ master \in [op : {"none", "read", "write"}, addr : Addrs, data : Word,
                 valid : SUBSET {"aw", "w", "ar"}, later : SUBSET {"w"}]
  /\ bus \in [addr_valid : BOOLEAN, reg_write : BOOLEAN, reg_addr : Addrs,
              reg_wdata : Word]
  /\ ready \in BOOLEAN
  /\ rvalid \in BOOLEAN
  /\ rdata \in Word \cup {Sram, Dead}
  /\ bvalid \in BOOLEAN
  /\ timeout_cnt \in 0 .. 15
  /\ timeout_cnt_en \in BOOLEAN
  /\ go \in Word /\ go_next \in Word
  /\ plain \in Word
  /\ rd_en_ff \in BOOLEAN
  /\ stored \in Word
  /\ due \in Word

NoAccess == [op |-> "none", addr |-> "control", data |-> {}, valid |-> {}, later |-> {}]

Init ==
  /\ master = NoAccess
  /\ bus = [addr_valid |-> FALSE, reg_write |-> FALSE, reg_addr |-> "control",
            reg_wdata |-> {}]
  /\ ready = FALSE
  /\ rvalid = FALSE /\ rdata = {}
  /\ bvalid = FALSE
  /\ timeout_cnt = 0 /\ timeout_cnt_en = FALSE
  /\ go = {} /\ go_next = {}
  /\ plain = {}
  /\ rd_en_ff = FALSE
  /\ stored = {} /\ due = {}

-----------------------------------------------------------------------------
(* The wires between them, within a clock *)

Taken(channel) == channel \in master.valid /\ ready

\* soc_miner_regs: who is selected, and is the access complete?
Reading == bus.addr_valid /\ ~bus.reg_write
Writing == bus.addr_valid /\ bus.reg_write
SramRead == Reading /\ bus.reg_addr = "sram"
RegReady == bus.addr_valid /\ (SramRead => rd_en_ff)

RegData ==
  CASE bus.reg_addr = "control" -> go
    [] bus.reg_addr = "plain"   -> plain
    [] bus.reg_addr = "sram"    -> Sram
    [] bus.reg_addr = "hole"    -> {}

TimedOut == timeout_cnt = 7 /\ timeout_cnt_en

-----------------------------------------------------------------------------
(* The registers' next values *)

\* Mutant: a write is started by its address (the line commented out at 148).
AddrValid_OnAddress ==
  IF RegReady THEN FALSE ELSE Taken("aw") \/ Taken("ar") \/ bus.addr_valid

AddrValid ==
  IF RegReady THEN FALSE ELSE Taken("w") \/ Taken("ar") \/ bus.addr_valid

RegAddr == IF Taken("aw") \/ Taken("ar") THEN master.addr ELSE bus.reg_addr

RegWrite == IF Taken("aw") THEN TRUE ELSE IF Taken("ar") THEN FALSE ELSE bus.reg_write

\* Mutant: a write is answered on the read channel, too.
RvalidNext_AnyAccess(rready) ==
  IF rvalid /\ rready THEN FALSE ELSE rvalid \/ RegReady \/ TimedOut

RvalidNext(rready) ==
  IF rvalid /\ rready THEN FALSE
  ELSE rvalid \/ (RegReady /\ ~bus.reg_write) \/ TimedOut

\* The bridge asks for ~reg_write only; reg_ready implies addr_valid.
RdataNext ==
  IF RegReady /\ ~bus.reg_write THEN RegData
  ELSE IF TimedOut THEN Dead ELSE rdata

\* Mutant: the answer is lost unless it is taken at once.
BvalidNext_Pulse(bready) == Taken("w")

BvalidNext(bready) ==
  IF bvalid /\ bready THEN FALSE ELSE bvalid \/ Taken("w")

TimeoutEn ==
  IF TimedOut \/ rvalid THEN FALSE
  ELSE timeout_cnt_en \/ (bus.addr_valid /\ ~RegReady)

\* Mutant: the counter runs on.
TimeoutCnt_NoReset == IF timeout_cnt_en THEN timeout_cnt + 1 ELSE timeout_cnt

TimeoutCnt ==
  IF TimedOut THEN 0
  ELSE IF timeout_cnt_en THEN (timeout_cnt + 1) % 16 ELSE timeout_cnt

\* soc_miner_regs: a field takes the written bit, else its next value.
WriteTo(addr) == Writing /\ bus.reg_addr = addr

GoNext == IF WriteTo("control") THEN bus.reg_wdata ELSE go_next

\* auto_clear: 0 after a 1, else the input.
AutoClear == {b \in GoBits : IF b \in go THEN FALSE ELSE b \in go}

PlainNext == IF WriteTo("plain") THEN bus.reg_wdata ELSE plain

-----------------------------------------------------------------------------
(* The master: AXI keeps a valid up until its ready *)

\* What it raises first and what afterwards.
Offer(order) ==
  CASE order = "together"      -> <<{"aw", "w"}, {}>>
    [] order = "address first" -> <<{"aw"}, {"w"}>>

StartRead ==
  \E a \in Addrs :
    master' = [op |-> "read", addr |-> a, data |-> {}, valid |-> {"ar"}, later |-> {}]

StartWrite ==
  \E a \in Addrs, d \in Word, o \in Orders :
    master' = [op |-> "write", addr |-> a, data |-> d,
               valid |-> Offer(o)[1], later |-> Offer(o)[2]]

\* All its channels are taken and the answer is there.
Answered(rready, bready) ==
  /\ master.valid = {} /\ master.later = {}
  /\ \/ master.op = "read" /\ rvalid /\ rready
     \/ master.op = "write" /\ bvalid /\ bready

Master(rready, bready) ==
  \/ /\ master.op = "none"
     /\ StartRead \/ StartWrite \/ UNCHANGED master
  \/ /\ Answered(rready, bready)
     /\ master' = NoAccess
  \/ /\ master.op # "none" /\ ~Answered(rready, bready)
     /\ IF ready /\ master.valid # {}
          THEN master' = [master EXCEPT !.valid = master.later, !.later = {}]
          ELSE UNCHANGED master

\* Its expectations.
Expected ==
  CASE master.addr = "control" -> {}
    [] master.addr = "plain"   -> stored
    [] master.addr = "sram"    -> Sram
    [] master.addr = "hole"    -> {}

Ghosts ==
  /\ stored' = IF master.op = "write" /\ master.addr = "plain" /\ Taken("w")
                 THEN master.data ELSE stored
  /\ due' = IF master.op = "write" /\ master.addr = "control" /\ Taken("w")
              THEN master.data ELSE due \ go

-----------------------------------------------------------------------------

Clock(rready, bready) ==
  /\ bus' = [addr_valid |-> AddrValid, reg_write |-> RegWrite, reg_addr |-> RegAddr,
             reg_wdata |-> IF "w" \in master.valid THEN master.data ELSE bus.reg_wdata]
  /\ ready' = TRUE
  /\ rvalid' = RvalidNext(rready)
  /\ rdata' = RdataNext
  /\ bvalid' = BvalidNext(bready)
  /\ timeout_cnt' = TimeoutCnt
  /\ timeout_cnt_en' = TimeoutEn
  /\ go' = GoNext
  /\ go_next' = AutoClear
  /\ plain' = PlainNext
  /\ rd_en_ff' = SramRead
  /\ Master(rready, bready)
  /\ Ghosts

Next == \E rready, bready \in BOOLEAN : Clock(rready, bready)

Spec == Init /\ [][Next]_vars

\* The clock runs, and the master takes its answer in the end.
FairSpec ==
  Spec /\ WF_vars(Next) /\ WF_vars(\E rready, bready \in BOOLEAN :
                                     Answered(rready, bready) /\ Clock(rready, bready))

-----------------------------------------------------------------------------
(* Properties *)

\* A read's answer, when it comes, is what the register holds: what the last
\* write stored, 0 in the self-clearing GO bits and in a hole, the SRAM's
\* word - never 32'hdeaddead, since every access completes.  Of a register
\* that stores it stays so however long the master lets the answer wait
\* (hw/tb/axi_tb.sv:295, 302, 308, 314 and 361 check it with a master that is
\* always ready).
ReadsRight ==
  [][rvalid' /\ (~rvalid \/ master.addr = "plain") => rdata' = Expected]_vars

\* There is an answer only for an access that is waiting for one.
AnswersAwaited ==
  /\ rvalid => master.op = "read" /\ master.valid = {}
  /\ bvalid => master.op = "write" /\ "w" \notin master.valid

\* The GO bits go up because they have been written, all of them at once, for
\* one clock ("Auto clear. When sw writes a 1 to this field clear it the next
\* cycle", soc_miner.sv:386-387), and before the next access reaches the
\* registers.
GoOncePerWrite ==
  /\ go # {} => go = due
  /\ due # {} /\ bus.addr_valid => WriteTo("control") /\ bus.reg_wdata = due

\* Every access is answered.
AccessAnswered == (master.op # "none") ~> (master.op = "none")
=============================================================================
