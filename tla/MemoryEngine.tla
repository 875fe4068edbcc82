---------------------------- MODULE MemoryEngine ----------------------------
(***************************************************************************)
(* simple_memory_access.sv behind the multiplexer of soc_miner.sv, clock   *)
(* by clock: one GO pulse becomes one AXI access of one word at the port   *)
(* that the register acp_enabled selects, and the word's answer becomes    *)
(* one clock of Interrupt.  Each always_ff block is one definition of a    *)
(* register's next value and a step is one rising edge of Clk, on which    *)
(* all of them move together.  (Addresses and data are SocDma's subject.)  *)
(*                                                                         *)
(* Behind each port is any AXI slave: it accepts when it likes, at most    *)
(* MaxOutstanding accesses deep, answers a read it has accepted, and       *)
(* answers a write when it has both its address and its data.  The engine  *)
(* keeps rready and bready high, so that an answer at the selected port    *)
(* lasts one clock; the other port sees every valid and ready at 0, so     *)
(* that nothing moves there.                                               *)
(***************************************************************************)
EXTENDS Integers

CONSTANTS
  CNT,                \* one more than the largest cnt: 2^16
  CyclesValues,       \* what software writes to that register
  MaxOutstanding,     \* accesses the memory accepts before it answers
  OneAtATime          \* TRUE iff software awaits the answer before the next GO
                      \* of the same direction, or before it changes the delay,
                      \* and switches the port while no access runs

ASSUME EngineAssumption ==
  /\ CNT \in Nat \ {0}
  /\ CyclesValues \subseteq 0 .. CNT - 1
  /\ CyclesValues # {}
  /\ MaxOutstanding \in Nat \ {0}
  /\ OneAtATime \in BOOLEAN

VARIABLES
  arvalid, awvalid, wvalid,   \* the engine's AXI valids
  cnt, cnt_en,                \* the delay between a write's address and data
  cycles,                     \* the register axi_command_to_data_cycles
  acp_enabled,                \* the register acp.acp_en
  reads, aws, ws,             \* each port's accepted, unanswered handshakes
  owedReads, owedWrites,      \* ghost: GOs seen and not yet answered
  age,                        \* ghost: clocks since the write's address came up
  unannounced                 \* ghost: words answered minus clocks of Interrupt

engineVars == <<arvalid, awvalid, wvalid, cnt, cnt_en, cycles, acp_enabled>>
vars == <<engineVars, reads, aws, ws, owedReads, owedWrites, age, unannounced>>

Ports == {"memory", "acp"}

\* Bound on the ghost unannounced, which counts modulo it.
Wrap == 2

TypeOK ==
  /\ arvalid \in BOOLEAN /\ awvalid \in BOOLEAN /\ wvalid \in BOOLEAN
  /\ cnt \in 0 .. CNT - 1
  /\ cnt_en \in BOOLEAN
  /\ cycles \in 0 .. CNT - 1
  /\ acp_enabled \in BOOLEAN
  /\ reads \in [Ports -> 0 .. MaxOutstanding]
  /\ aws \in [Ports -> 0 .. MaxOutstanding]
  /\ ws \in [Ports -> 0 .. MaxOutstanding]
  /\ owedReads \in Nat /\ owedWrites \in Nat
  /\ age \in 0 .. CNT
  /\ unannounced \in 0 .. Wrap - 1

Init ==
  /\ arvalid = FALSE /\ awvalid = FALSE /\ wvalid = FALSE
  /\ cnt = 0 /\ cnt_en = FALSE
  /\ cycles \in CyclesValues
  /\ acp_enabled = FALSE
  /\ reads = [p \in Ports |-> 0]
  /\ aws = [p \in Ports |-> 0]
  /\ ws = [p \in Ports |-> 0]
  /\ owedReads = 0 /\ owedWrites = 0
  /\ age = 0
  /\ unannounced = 0

One(b) == IF b THEN 1 ELSE 0

-----------------------------------------------------------------------------
(* The registers *)

\* Mutant: the data goes out one clock early.
GoWriteData_Early == cnt_en /\ cnt + 1 = cycles

GoWriteData == cnt_en /\ cnt = cycles

\* Mutant: the valid follows its trigger.
Valid_Pulse(valid, ready, trigger) == trigger

\* A valid falls on its handshake and rises on its trigger.  The handshake
\* goes first: a trigger on the same edge is lost.
Valid(valid, ready, trigger) == IF valid /\ ready THEN FALSE ELSE valid \/ trigger

\* Mutant: the delay never stops.
CntEn_NoStop(goWrite) == cnt_en \/ goWrite

CntEn(goWrite) == IF GoWriteData THEN FALSE ELSE cnt_en \/ goWrite

\* Mutant: the counter is not restarted, nor as narrow as it is.
Cnt_NoReset == IF cnt_en THEN cnt + 1 ELSE cnt

Cnt ==
  IF GoWriteData THEN 0
  ELSE IF cnt_en THEN (cnt + 1) % CNT ELSE cnt

\* The port the engine is connected to: its valids go there, and the readies
\* and answers it sees come from there.
Port == IF acp_enabled THEN "acp" ELSE "memory"

\* Mutant: the answer channels are not switched.
Answering_Memory == "memory"

Answering == Port

\* The counts of handshakes at the ports, after one at Port when up and an
\* answer from Answering when down.
Count(n, up, down) ==
  [p \in Ports |-> n[p] + One(p = Port /\ up) - One(p = Answering /\ down)]

\* rready and bready are constantly 1.
Interrupt(rvalid, bvalid) == bvalid \/ rvalid

-----------------------------------------------------------------------------
(* One clock *)

Clock(goRead, goWrite, arready, awready, wready, rvalid, bvalid) ==
  \* what software does
  /\ OneAtATime => (goRead => owedReads = 0) /\ (goWrite => owedWrites = 0)
  /\ cycles' \in IF OneAtATime /\ owedWrites > 0 THEN {cycles} ELSE CyclesValues
  /\ acp_enabled' \in IF OneAtATime /\ owedReads + owedWrites > 0 THEN {acp_enabled}
                     ELSE BOOLEAN
  \* what the memory may do
  /\ arready => reads[Port] < MaxOutstanding
  /\ awready => aws[Port] < MaxOutstanding
  /\ wready => ws[Port] < MaxOutstanding
  /\ rvalid => reads[Answering] > 0
  /\ bvalid => aws[Answering] > 0 /\ ws[Answering] > 0
  \* the engine
  /\ arvalid' = Valid(arvalid, arready, goRead)
  /\ awvalid' = Valid(awvalid, awready, goWrite)
  /\ wvalid' = Valid(wvalid, wready, GoWriteData)
  /\ cnt_en' = CntEn(goWrite)
  /\ cnt' = Cnt
  \* the memory
  /\ reads' = Count(reads, arvalid /\ arready, rvalid)
  /\ aws' = Count(aws, awvalid /\ awready, bvalid)
  /\ ws' = Count(ws, wvalid /\ wready, bvalid)
  \* the ghosts
  /\ owedReads' = owedReads + One(goRead) - One(rvalid)
  /\ owedWrites' = owedWrites + One(goWrite) - One(bvalid)
  /\ age' = IF goWrite \/ ~cnt_en THEN 0 ELSE IF age < CNT THEN age + 1 ELSE age
  /\ unannounced' = (unannounced + One(rvalid) + One(bvalid)
                        - One(Interrupt(rvalid, bvalid))) % Wrap

Tick ==
  \E goRead, goWrite, arready, awready, wready, rvalid, bvalid \in BOOLEAN :
    Clock(goRead, goWrite, arready, awready, wready, rvalid, bvalid)

Spec == Init /\ [][Tick]_vars

\* The clock runs, and the memory accepts and answers in the end.
Fairness ==
  /\ WF_vars(Tick)
  /\ WF_vars(Tick /\ arvalid /\ ~arvalid')
  /\ WF_vars(Tick /\ awvalid /\ ~awvalid')
  /\ WF_vars(Tick /\ wvalid /\ ~wvalid')
  /\ WF_vars(Tick /\ owedReads' < owedReads)
  /\ WF_vars(Tick /\ owedWrites' < owedWrites)

FairSpec == Spec /\ Fairness

-----------------------------------------------------------------------------
(* Properties *)

\* No GO is lost and none is doubled: each one that has not been answered is
\* an address request or an accepted address and, for a write, a running
\* delay, a data request or accepted data; all of it at the selected port,
\* and nothing is left at the other one, whose answers nobody hears.
GoIsOneAccess ==
  /\ owedReads = One(arvalid) + reads[Port]
  /\ owedWrites = One(awvalid) + aws[Port]
  /\ owedWrites = One(cnt_en) + One(wvalid) + ws[Port]
  /\ \A p \in Ports \ {Port} : reads[p] = 0 /\ aws[p] = 0 /\ ws[p] = 0

ValidsHeld(arready, awready, wready) ==
  /\ arvalid /\ ~arready => arvalid' /\ Port' = Port
  /\ awvalid /\ ~awready => awvalid' /\ Port' = Port
  /\ wvalid /\ ~wready => wvalid' /\ Port' = Port

\* AXI, at each port: a valid is not withdrawn before its ready - neither by
\* the engine's register nor by the multiplexer.
PortsHeld ==
  [][\A goRead, goWrite, arready, awready, wready, rvalid, bvalid \in BOOLEAN :
       Clock(goRead, goWrite, arready, awready, wready, rvalid, bvalid) =>
         ValidsHeld(arready, awready, wready)]_vars

\* hw/tb/axi_tb.sv:293 "4 cycles between command and data": cycles clocks lie
\* between the first clock of the write's address and the first of its data,
\* which therefore comes up cycles + 1 clocks after the address.
DataDelay == [][~wvalid /\ wvalid' => age' = cycles + 1]_vars

\* Every GO is answered.
GosAnswered ==
  /\ (owedReads > 0) ~> (owedReads = 0)
  /\ (owedWrites > 0) ~> (owedWrites = 0)

\* "send interrupt after reading or writing a word" (line 23): as many clocks
\* of Interrupt as words.
InterruptPerWord == unannounced = 0
=============================================================================
