------------------------- MODULE MemoryEngine_proofs -------------------------
(***************************************************************************)
(* MemoryEngine, for any width of the counter, any delays and any depth of *)
(* the memories, driven by software that awaits each answer (OneAtATime);  *)
(* at the end, what is left of it behind any software, and what software   *)
(* must do for an interrupt per word.                                      *)
(***************************************************************************)
EXTENDS MemoryEngine, TLAPS

\* At most one access of each direction, all of it at the selected port.
ReadsPlaced ==
  /\ owedReads \in {0, 1}
  /\ owedReads = One(arvalid) + reads[Port]
  /\ \A p \in Ports \ {Port} : reads[p] = 0

WritesPlaced ==
  /\ owedWrites \in {0, 1}
  /\ owedWrites = One(awvalid) + aws[Port]
  /\ owedWrites = One(cnt_en) + One(wvalid) + ws[Port]
  /\ \A p \in Ports \ {Port} : aws[p] = 0 /\ ws[p] = 0

\* While the delay runs cnt is its age and has not passed the register it is
\* compared with, which therefore stops it before it wraps.
DelayRuns ==
  /\ cnt_en => cnt = age /\ cnt <= cycles
  /\ ~cnt_en => cnt = 0

EngineInv == TypeOK /\ ReadsPlaced /\ WritesPlaced /\ DelayRuns

\* Reset leaves no access anywhere and the delay counter at rest.
LEMMA InitInv == Init => EngineInv
<1> SUFFICES ASSUME Init PROVE EngineInv
  OBVIOUS
<1>1. TypeOK
  <2>1. /\ 0 \in 0 .. CNT - 1 /\ 0 \in 0 .. CNT /\ 0 \in 0 .. Wrap - 1
        /\ 0 \in 0 .. MaxOutstanding /\ cycles \in 0 .. CNT - 1
    BY EngineAssumption DEF Init, Wrap
  <2>. QED  BY <2>1 DEF Init, TypeOK
<1>2. Port \in Ports
  BY DEF Port, Ports
<1>3. ReadsPlaced /\ WritesPlaced
  BY <1>2 DEF Init, ReadsPlaced, WritesPlaced, One
<1>4. DelayRuns
  BY DEF Init, DelayRuns
<1>. QED  BY <1>1, <1>3, <1>4 DEF EngineInv

\* What a clock does to the counts of a port.
LEMMA CountOf ==
  ASSUME NEW n \in [Ports -> Nat], NEW up \in BOOLEAN, NEW down \in BOOLEAN,
         NEW p \in Ports
  PROVE  Count(n, up, down)[p] = IF p = Port THEN n[p] + One(up) - One(down) ELSE n[p]
  BY DEF Count, One, Answering

\* The multiplexer selects one of the two ports.
LEMMA PortIsPort == Port \in Ports
  BY DEF Port, Ports

\* A clock of a lone access leaves its read at one place: asked for, at
\* ar, in the memory or answered.
LEMMA ReadStep ==
  ASSUME OneAtATime, EngineInv,
         NEW goRead \in BOOLEAN, NEW goWrite \in BOOLEAN, NEW arready \in BOOLEAN,
         NEW awready \in BOOLEAN, NEW wready \in BOOLEAN, NEW rvalid \in BOOLEAN,
         NEW bvalid \in BOOLEAN,
         Clock(goRead, goWrite, arready, awready, wready, rvalid, bvalid)
  PROVE  ReadsPlaced' /\ reads' \in [Ports -> 0 .. MaxOutstanding] /\ arvalid' \in BOOLEAN
<1>1. reads \in [Ports -> Nat] /\ reads[Port] \in 0 .. MaxOutstanding /\ arvalid \in BOOLEAN
  BY PortIsPort, EngineAssumption DEF EngineInv, TypeOK
<1>2. \A p \in Ports :
        reads'[p] = IF p = Port THEN reads[p] + One(arvalid /\ arready) - One(rvalid)
                    ELSE reads[p]
  <2>1. reads' = Count(reads, arvalid /\ arready, rvalid)
    BY DEF Clock
  <2>. QED  BY <1>1, <2>1, CountOf
<1>3. arvalid' = IF arvalid /\ arready THEN FALSE ELSE arvalid \/ goRead
  BY DEF Clock, Valid
<1>4. /\ goRead => owedReads = 0
      /\ arready => reads[Port] < MaxOutstanding
      /\ rvalid => reads[Port] > 0
      /\ owedReads' = owedReads + One(goRead) - One(rvalid)
  BY DEF Clock, Answering
<1>5. reads'[Port] \in 0 .. MaxOutstanding /\ owedReads' \in {0, 1}
      /\ owedReads' = One(arvalid') + reads'[Port]
  BY <1>1, <1>2, <1>3, <1>4, PortIsPort, EngineAssumption DEF EngineInv, ReadsPlaced, One
<1>6. \A p \in Ports \ {Port} : reads'[p] = 0
  BY <1>2 DEF EngineInv, ReadsPlaced
<1>7. reads' \in [Ports -> 0 .. MaxOutstanding]
  <2>1. reads' = [p \in Ports |-> reads'[p]]
    BY DEF Clock, Count
  <2>. QED  BY <2>1, <1>5, <1>6, EngineAssumption
<1>8. CASE Port' = Port
  BY <1>3, <1>5, <1>6, <1>7, <1>8, <1>1 DEF ReadsPlaced
<1>9. CASE Port' # Port
  <2>1. owedReads = 0
    <3>1. owedReads + owedWrites = 0
      BY <1>9 DEF Clock, Port, EngineInv, ReadsPlaced, WritesPlaced
    <3>. QED  BY <3>1 DEF EngineInv, ReadsPlaced, WritesPlaced
  <2>2. ~arvalid /\ reads[Port] = 0 /\ ~rvalid
    BY <1>1, <1>4, <2>1 DEF EngineInv, ReadsPlaced, One
  <2>3. \A p \in Ports : reads'[p] = 0
    BY <1>2, <1>6, <2>2 DEF One
  <2>4. Port' \in Ports
    BY DEF Port, Ports
  <2>5. owedReads' = One(arvalid')
    BY <1>1, <1>3, <1>4, <2>1, <2>2 DEF One
  <2>6. reads'[Port'] = 0
    BY <2>3, <2>4
  <2>7. arvalid' \in BOOLEAN
    BY <1>1, <1>3
  <2>8. owedReads' = One(arvalid') + reads'[Port']
    BY <2>5, <2>6, <2>7 DEF One
  <2>9. ReadsPlaced'
    BY <1>5, <2>3, <2>8 DEF ReadsPlaced
  <2>. QED  BY <1>7, <2>7, <2>9
<1>. QED  BY <1>8, <1>9

\* The same for the two halves of a write, address and data, which
\* advance separately and meet again at the response.
LEMMA WriteStep ==
  ASSUME OneAtATime, EngineInv,
         NEW goRead \in BOOLEAN, NEW goWrite \in BOOLEAN, NEW arready \in BOOLEAN,
         NEW awready \in BOOLEAN, NEW wready \in BOOLEAN, NEW rvalid \in BOOLEAN,
         NEW bvalid \in BOOLEAN,
         Clock(goRead, goWrite, arready, awready, wready, rvalid, bvalid)
  PROVE  /\ WritesPlaced'
         /\ aws' \in [Ports -> 0 .. MaxOutstanding] /\ ws' \in [Ports -> 0 .. MaxOutstanding]
         /\ awvalid' \in BOOLEAN /\ wvalid' \in BOOLEAN /\ cnt_en' \in BOOLEAN
<1>1. /\ aws \in [Ports -> Nat] /\ aws[Port] \in 0 .. MaxOutstanding
      /\ ws \in [Ports -> Nat] /\ ws[Port] \in 0 .. MaxOutstanding
      /\ awvalid \in BOOLEAN /\ wvalid \in BOOLEAN /\ cnt_en \in BOOLEAN
      /\ GoWriteData \in BOOLEAN /\ (GoWriteData => cnt_en)
  BY PortIsPort, EngineAssumption DEF EngineInv, TypeOK, GoWriteData
<1>2. \A p \in Ports :
        /\ aws'[p] = IF p = Port THEN aws[p] + One(awvalid /\ awready) - One(bvalid) ELSE aws[p]
        /\ ws'[p] = IF p = Port THEN ws[p] + One(wvalid /\ wready) - One(bvalid) ELSE ws[p]
  <2>1. /\ aws' = Count(aws, awvalid /\ awready, bvalid)
        /\ ws' = Count(ws, wvalid /\ wready, bvalid)
    BY DEF Clock
  <2>2. (awvalid /\ awready) \in BOOLEAN /\ (wvalid /\ wready) \in BOOLEAN
    OBVIOUS
  <2>3. \A p \in Ports :
          aws'[p] = IF p = Port THEN aws[p] + One(awvalid /\ awready) - One(bvalid) ELSE aws[p]
    BY <1>1, <2>1, <2>2, CountOf
  <2>4. \A p \in Ports :
          ws'[p] = IF p = Port THEN ws[p] + One(wvalid /\ wready) - One(bvalid) ELSE ws[p]
    BY <1>1, <2>1, <2>2, CountOf
  <2>. QED  BY <2>3, <2>4
<1>3. /\ awvalid' = IF awvalid /\ awready THEN FALSE ELSE awvalid \/ goWrite
      /\ wvalid' = IF wvalid /\ wready THEN FALSE ELSE wvalid \/ GoWriteData
      /\ cnt_en' = IF GoWriteData THEN FALSE ELSE cnt_en \/ goWrite
  BY DEF Clock, Valid, CntEn
<1>4. /\ goWrite => owedWrites = 0
      /\ awready => aws[Port] < MaxOutstanding
      /\ wready => ws[Port] < MaxOutstanding
      /\ bvalid => aws[Port] > 0 /\ ws[Port] > 0
      /\ owedWrites' = owedWrites + One(goWrite) - One(bvalid)
  BY DEF Clock, Answering
<1>a. /\ aws'[Port] = aws[Port] + One(awvalid /\ awready) - One(bvalid)
      /\ ws'[Port] = ws[Port] + One(wvalid /\ wready) - One(bvalid)
  BY <1>2, PortIsPort
<1>c. /\ One(awvalid) = (IF awvalid THEN 1 ELSE 0) /\ One(wvalid) = (IF wvalid THEN 1 ELSE 0)
      /\ One(cnt_en) = (IF cnt_en THEN 1 ELSE 0)
  BY DEF One
<1>d. /\ owedWrites = One(awvalid) + aws[Port]
      /\ owedWrites = One(cnt_en) + One(wvalid) + ws[Port]
  BY DEF EngineInv, WritesPlaced
<1>b. MaxOutstanding \in Nat /\ MaxOutstanding >= 1
  BY EngineAssumption
<1>5. /\ aws'[Port] \in 0 .. MaxOutstanding
      /\ ws'[Port] \in 0 .. MaxOutstanding
      /\ owedWrites' \in {0, 1}
      /\ owedWrites' = One(awvalid') + aws'[Port]
      /\ owedWrites' = One(cnt_en') + One(wvalid') + ws'[Port]
  <2>1. CASE owedWrites = 0
    <3>1. ~awvalid /\ ~wvalid /\ ~cnt_en /\ aws[Port] = 0 /\ ws[Port] = 0
      <4>1. ~awvalid /\ aws[Port] = 0
        BY <1>1, <1>c, <1>d, <2>1
      <4>2. ~cnt_en
        BY <1>1, <1>c, <1>d, <2>1
      <4>3. ~wvalid
        BY <1>1, <1>c, <1>d, <2>1
      <4>4. ws[Port] = 0
        BY <1>1, <1>c, <1>d, <2>1, <4>2, <4>3
      <4>. QED  BY <4>1, <4>2, <4>3, <4>4
    <3>2. ~bvalid /\ ~GoWriteData
      BY <1>1, <1>4, <3>1
    <3>3. aws'[Port] = 0 /\ ws'[Port] = 0
      BY <1>a, <3>1, <3>2 DEF One
    <3>4. awvalid' = goWrite /\ cnt_en' = goWrite /\ wvalid' = FALSE
      BY <1>3, <3>1, <3>2
    <3>5. owedWrites' = One(goWrite)
      BY <1>4, <2>1, <3>2 DEF One
    <3>. QED  BY <1>b, <3>3, <3>4, <3>5 DEF One
  <2>2. CASE owedWrites = 1
    <3>1. ~goWrite
      BY <1>4, <2>2
    <3>2. /\ owedWrites' = 1 - One(bvalid)
          /\ bvalid => aws[Port] = 1 /\ ws[Port] = 1
                       /\ ~awvalid /\ ~wvalid /\ ~cnt_en /\ ~GoWriteData
      <4>1. owedWrites' = 1 - One(bvalid)
        BY <1>4, <2>2, <3>1 DEF One
      <4>2. ASSUME bvalid PROVE aws[Port] = 1 /\ ~awvalid
        BY <1>1, <1>4, <1>c, <1>d, <2>2, <4>2
      <4>3. ASSUME bvalid PROVE ws[Port] = 1 /\ ~wvalid /\ ~cnt_en
        BY <1>1, <1>4, <1>c, <1>d, <2>2, <4>3
      <4>. QED  BY <1>1, <4>1, <4>2, <4>3
    <3>3. /\ aws'[Port] \in 0 .. MaxOutstanding
          /\ owedWrites' = One(awvalid') + aws'[Port]
      <4>1. (awvalid /\ aws[Port] = 0) \/ (~awvalid /\ aws[Port] = 1)
        BY <1>1, <1>c, <1>d, <2>2
      <4>2. CASE awvalid /\ aws[Port] = 0
        <5>1. ~bvalid /\ aws'[Port] = One(awready)
          BY <1>a, <3>2, <4>2 DEF One
        <5>2. /\ awready => ~awvalid'
              /\ ~awready => awvalid'
          BY <1>3, <3>1, <4>2
        <5>3. One(awready) \in {0, 1} /\ One(awvalid') = 1 - One(awready)
          BY <5>2 DEF One
        <5>4. owedWrites' = 1
          BY <3>2, <5>1 DEF One
        <5>. QED  BY <1>b, <5>1, <5>3, <5>4
      <4>3. CASE ~awvalid /\ aws[Port] = 1
        <5>1. aws'[Port] = 1 - One(bvalid) /\ ~awvalid'
          BY <1>a, <1>3, <3>1, <4>3 DEF One
        <5>2. One(bvalid) \in {0, 1} /\ One(awvalid') = 0
          BY <5>1 DEF One
        <5>. QED  BY <1>b, <3>2, <5>1, <5>2
      <4>. QED  BY <4>1, <4>2, <4>3
    <3>4. /\ ws'[Port] \in 0 .. MaxOutstanding
          /\ owedWrites' = One(cnt_en') + One(wvalid') + ws'[Port]
      <4>1. \/ cnt_en /\ ~wvalid /\ ws[Port] = 0
            \/ ~cnt_en /\ wvalid /\ ws[Port] = 0
            \/ ~cnt_en /\ ~wvalid /\ ws[Port] = 1
        BY <1>1, <1>c, <1>d, <2>2
      <4>2. GoWriteData => cnt_en
        BY <1>1
      <4>3. CASE cnt_en /\ ~wvalid /\ ws[Port] = 0
        <5>1. ~bvalid /\ ws'[Port] = 0
          BY <1>a, <3>2, <4>3 DEF One
        <5>2. /\ GoWriteData => wvalid' /\ ~cnt_en'
              /\ ~GoWriteData => ~wvalid' /\ cnt_en'
          BY <1>1, <1>3, <4>3
        <5>3. One(cnt_en') + One(wvalid') = 1
          BY <1>1, <5>2 DEF One
        <5>4. owedWrites' = 1
          BY <3>2, <5>1 DEF One
        <5>. QED  BY <1>b, <5>1, <5>3, <5>4
      <4>4. CASE ~cnt_en /\ wvalid /\ ws[Port] = 0
        <5>1. ~bvalid /\ ws'[Port] = One(wready)
          BY <1>a, <3>2, <4>4 DEF One
        <5>2. /\ wready => ~wvalid'
              /\ ~wready => wvalid'
              /\ ~cnt_en'
          BY <1>1, <1>3, <3>1, <4>4, <4>2
        <5>3. One(wready) \in {0, 1} /\ One(cnt_en') + One(wvalid') = 1 - One(wready)
          BY <5>2 DEF One
        <5>4. owedWrites' = 1
          BY <3>2, <5>1 DEF One
        <5>. QED  BY <1>b, <5>1, <5>3, <5>4
      <4>5. CASE ~cnt_en /\ ~wvalid /\ ws[Port] = 1
        <5>1. ws'[Port] = 1 - One(bvalid)
          BY <1>a, <4>5 DEF One
        <5>2. wvalid' = FALSE /\ cnt_en' = FALSE
          BY <1>3, <3>1, <4>5, <4>2
        <5>. QED  BY <1>b, <3>2, <5>1, <5>2 DEF One
      <4>. QED  BY <4>1, <4>3, <4>4, <4>5
    <3>5. owedWrites' \in {0, 1}
      BY <3>2 DEF One
    <3>. QED  BY <3>3, <3>4, <3>5
  <2>. QED  BY <2>1, <2>2 DEF EngineInv, WritesPlaced
<1>7. \A p \in Ports \ {Port} : aws'[p] = 0 /\ ws'[p] = 0
  BY <1>2 DEF EngineInv, WritesPlaced
<1>8. aws' \in [Ports -> 0 .. MaxOutstanding] /\ ws' \in [Ports -> 0 .. MaxOutstanding]
  <2>1. aws' = [p \in Ports |-> aws'[p]] /\ ws' = [p \in Ports |-> ws'[p]]
    BY DEF Clock, Count
  <2>. QED  BY <2>1, <1>5, <1>7, EngineAssumption
<1>9. CASE Port' = Port
  BY <1>1, <1>3, <1>5, <1>7, <1>8, <1>9 DEF WritesPlaced
<1>10. CASE Port' # Port
  <2>1. owedWrites = 0
    <3>1. owedReads + owedWrites = 0
      BY <1>10 DEF Clock, Port, EngineInv, ReadsPlaced, WritesPlaced
    <3>. QED  BY <3>1 DEF EngineInv, ReadsPlaced, WritesPlaced
  <2>2. ~awvalid /\ ~wvalid /\ ~cnt_en /\ aws[Port] = 0 /\ ws[Port] = 0 /\ ~bvalid
    BY <1>1, <1>4, <2>1 DEF EngineInv, WritesPlaced, One
  <2>3. \A p \in Ports : aws'[p] = 0 /\ ws'[p] = 0
    BY <1>2, <1>7, <2>2 DEF One
  <2>4. Port' \in Ports
    BY DEF Port, Ports
  <2>5. owedWrites' = One(awvalid') /\ owedWrites' = One(cnt_en') + One(wvalid')
    BY <1>1, <1>3, <1>4, <2>1, <2>2 DEF One
  <2>6. aws'[Port'] = 0 /\ ws'[Port'] = 0
    BY <2>3, <2>4
  <2>7. awvalid' \in BOOLEAN /\ wvalid' \in BOOLEAN /\ cnt_en' \in BOOLEAN
    BY <1>1, <1>3
  <2>8. /\ owedWrites' = One(awvalid') + aws'[Port']
        /\ owedWrites' = One(cnt_en') + One(wvalid') + ws'[Port']
    BY <2>5, <2>6, <2>7 DEF One
  <2>9. WritesPlaced'
    BY <1>5, <2>3, <2>8 DEF WritesPlaced
  <2>. QED  BY <1>8, <2>7, <2>9
<1>. QED  BY <1>9, <1>10

\* A clock adds one to a delay that runs and stops one that has reached
\* its register.
LEMMA DelayStep ==
  ASSUME OneAtATime, EngineInv,
         NEW goRead \in BOOLEAN, NEW goWrite \in BOOLEAN, NEW arready \in BOOLEAN,
         NEW awready \in BOOLEAN, NEW wready \in BOOLEAN, NEW rvalid \in BOOLEAN,
         NEW bvalid \in BOOLEAN,
         Clock(goRead, goWrite, arready, awready, wready, rvalid, bvalid)
  PROVE  /\ DelayRuns'
         /\ cnt' \in 0 .. CNT - 1 /\ cycles' \in 0 .. CNT - 1 /\ age' \in 0 .. CNT
<1>1. /\ cnt \in 0 .. CNT - 1 /\ cycles \in 0 .. CNT - 1 /\ age \in 0 .. CNT
      /\ cnt_en \in BOOLEAN /\ CNT \in Nat
  BY EngineAssumption DEF EngineInv, TypeOK
<1>2. cycles' \in 0 .. CNT - 1
  BY <1>1, EngineAssumption DEF Clock
<1>3. cnt_en => owedWrites = 1
  <2>1. ws[Port] \in Nat /\ wvalid \in BOOLEAN
    BY PortIsPort, EngineAssumption DEF EngineInv, TypeOK
  <2>. QED  BY <2>1 DEF EngineInv, WritesPlaced, One
<1>4. CASE cnt_en
  <2>1. ~goWrite /\ cycles' = cycles
    <3>1. owedWrites > 0
      BY <1>3, <1>4
    <3>. QED  BY <1>3, <1>4, <3>1 DEF Clock
  <2>2. cnt = age /\ cnt <= cycles
    BY <1>4 DEF EngineInv, DelayRuns
  <2>3. CASE cnt = cycles
    <3>1. ~cnt_en' /\ cnt' = 0
      BY <1>4, <2>3 DEF Clock, CntEn, Cnt, GoWriteData
    <3>2. age' \in 0 .. CNT
      BY <1>1 DEF Clock
    <3>. QED  BY <1>1, <1>2, <3>1, <3>2 DEF DelayRuns
  <2>4. CASE cnt # cycles
    <3>1. cnt' = (cnt + 1) % CNT
      BY <1>4, <2>4 DEF Clock, Cnt, GoWriteData
    <3>2. cnt + 1 < CNT
      BY <1>1, <2>2, <2>4
    <3>3. cnt' = cnt + 1
      BY <1>1, <3>1, <3>2
    <3>4. age' = age + 1
      BY <1>1, <1>4, <2>1, <2>2, <3>2 DEF Clock
    <3>5. cnt_en' = TRUE
      BY <1>4, <2>4 DEF Clock, CntEn, GoWriteData
    <3>. QED  BY <1>1, <2>1, <2>2, <2>4, <3>2, <3>3, <3>4, <3>5 DEF DelayRuns
  <2>. QED  BY <2>3, <2>4
<1>5. CASE ~cnt_en
  <2>1. cnt = 0
    BY <1>5 DEF EngineInv, DelayRuns
  <2>2. cnt' = 0 /\ age' = 0
    BY <1>5, <2>1 DEF Clock, Cnt, GoWriteData
  <2>. QED  BY <1>1, <1>2, <2>2 DEF DelayRuns
<1>. QED  BY <1>4, <1>5

\* Every clock keeps the invariant of software that awaits its answers.
LEMMA StepInv ==
  ASSUME OneAtATime, EngineInv, [Tick]_vars
  PROVE  EngineInv'
<1>1. CASE Tick
  <2>1. PICK goRead, goWrite, arready, awready, wready, rvalid, bvalid \in BOOLEAN :
          Clock(goRead, goWrite, arready, awready, wready, rvalid, bvalid)
    BY <1>1 DEF Tick
  <2>2. ReadsPlaced' /\ reads' \in [Ports -> 0 .. MaxOutstanding] /\ arvalid' \in BOOLEAN
    BY <2>1, ReadStep, ZenonT(60)
  <2>3. /\ WritesPlaced'
        /\ aws' \in [Ports -> 0 .. MaxOutstanding] /\ ws' \in [Ports -> 0 .. MaxOutstanding]
        /\ awvalid' \in BOOLEAN /\ wvalid' \in BOOLEAN /\ cnt_en' \in BOOLEAN
    BY <2>1, WriteStep, ZenonT(60)
  <2>4. /\ DelayRuns'
        /\ cnt' \in 0 .. CNT - 1 /\ cycles' \in 0 .. CNT - 1 /\ age' \in 0 .. CNT
    BY <2>1, DelayStep, ZenonT(60)
  <2>5. acp_enabled' \in BOOLEAN
    BY <2>1 DEF Clock, EngineInv, TypeOK
  <2>6. unannounced' \in 0 .. Wrap - 1
    <3>1. unannounced' = (unannounced + One(rvalid) + One(bvalid)
                            - One(Interrupt(rvalid, bvalid))) % 2
      BY <2>1 DEF Clock, Wrap
    <3>2. unannounced \in Int /\ One(rvalid) \in Int /\ One(bvalid) \in Int
          /\ One(Interrupt(rvalid, bvalid)) \in Int
      BY DEF EngineInv, TypeOK, One, Wrap
    <3>. QED  BY <3>1, <3>2 DEF Wrap
  <2>7. owedReads' \in Nat /\ owedWrites' \in Nat
    BY <2>2, <2>3 DEF ReadsPlaced, WritesPlaced
  <2>. QED  BY <2>2, <2>3, <2>4, <2>5, <2>6, <2>7 DEF EngineInv, TypeOK
<1>2. CASE UNCHANGED vars
  <2>1. Port' = Port
    BY <1>2 DEF Port, vars, engineVars
  <2>. QED
    BY <1>2, <2>1
    DEF EngineInv, TypeOK, ReadsPlaced, WritesPlaced, DelayRuns, vars, engineVars
<1>. QED  BY <1>1, <1>2

\* The invariant of the engine behind software that awaits each answer.
THEOREM Invariant ==
  ASSUME OneAtATime
  PROVE  Spec => []EngineInv
<1>1. Init => EngineInv
  BY InitInv
<1>2. EngineInv /\ [Tick]_vars => EngineInv'
  BY StepInv
<1>. QED  BY <1>1, <1>2, PTL DEF Spec

-----------------------------------------------------------------------------
(* The results *)

\* Each GO pulse is exactly one AXI access at the port selected, and nothing
\* is stranded at the other port, whatever the delays.
THEOREM OneAccess ==
  ASSUME OneAtATime
  PROVE  Spec => []GoIsOneAccess
<1>1. EngineInv => GoIsOneAccess
  BY DEF EngineInv, ReadsPlaced, WritesPlaced, GoIsOneAccess
<1>. QED  BY <1>1, Invariant, PTL

\* A valid offered at a port stays there until its ready: no GO withdraws it
\* and the multiplexer does not turn away from it.
THEOREM ValidsStay ==
  ASSUME OneAtATime
  PROVE  Spec => PortsHeld
<1>1. ASSUME EngineInv,
             NEW goRead \in BOOLEAN, NEW goWrite \in BOOLEAN, NEW arready \in BOOLEAN,
             NEW awready \in BOOLEAN, NEW wready \in BOOLEAN, NEW rvalid \in BOOLEAN,
             NEW bvalid \in BOOLEAN,
             Clock(goRead, goWrite, arready, awready, wready, rvalid, bvalid)
      PROVE  ValidsHeld(arready, awready, wready)
  <2>1. /\ arvalid /\ ~arready => arvalid'
        /\ awvalid /\ ~awready => awvalid'
        /\ wvalid /\ ~wready => wvalid'
    BY <1>1 DEF Clock, Valid
  <2>2. arvalid \/ awvalid \/ wvalid => owedReads + owedWrites > 0
    <3>1. /\ reads[Port] \in Nat /\ aws[Port] \in Nat /\ ws[Port] \in Nat
          /\ arvalid \in BOOLEAN /\ awvalid \in BOOLEAN /\ wvalid \in BOOLEAN
          /\ cnt_en \in BOOLEAN
      BY <1>1, PortIsPort, EngineAssumption DEF EngineInv, TypeOK
    <3>. QED  BY <1>1, <3>1 DEF EngineInv, ReadsPlaced, WritesPlaced, One
  <2>3. owedReads + owedWrites > 0 => Port' = Port
    BY <1>1 DEF Clock, Port
  <2>. QED  BY <2>1, <2>2, <2>3 DEF ValidsHeld
<1>2. EngineInv =>
        [\A goRead, goWrite, arready, awready, wready, rvalid, bvalid \in BOOLEAN :
           Clock(goRead, goWrite, arready, awready, wready, rvalid, bvalid) =>
             ValidsHeld(arready, awready, wready)]_vars
  BY <1>1
<1>. QED  BY <1>2, Invariant, PTL DEF PortsHeld

\* The data of a write comes up cycles + 1 clocks after its address: as many
\* clocks as the register says lie between the two.
THEOREM DelayExact ==
  ASSUME OneAtATime
  PROVE  Spec => DataDelay
<1>1. ASSUME EngineInv, [Tick]_vars, ~wvalid, wvalid'
      PROVE  age' = cycles + 1
  <2>1. Tick
    BY <1>1 DEF vars, engineVars
  <2>2. PICK goRead, goWrite, arready, awready, wready, rvalid, bvalid \in BOOLEAN :
          Clock(goRead, goWrite, arready, awready, wready, rvalid, bvalid)
    BY <2>1 DEF Tick
  <2>3. cnt_en /\ cnt = cycles
    BY <1>1, <2>2 DEF Clock, Valid, GoWriteData
  <2>4. /\ age = cycles /\ age < CNT /\ age \in Nat
    <3>1. cnt = age /\ cnt \in 0 .. CNT - 1
      BY <1>1, <2>3 DEF EngineInv, DelayRuns, TypeOK
    <3>. QED  BY <2>3, <3>1, EngineAssumption
  <2>5. ~goWrite
    <3>1. ws[Port] \in Nat /\ wvalid \in BOOLEAN
      BY <1>1, PortIsPort, EngineAssumption DEF EngineInv, TypeOK
    <3>2. owedWrites # 0
      BY <1>1, <2>3, <3>1 DEF EngineInv, WritesPlaced, One
    <3>. QED  BY <2>2, <3>2 DEF Clock
  <2>6. age' = IF goWrite \/ ~cnt_en THEN 0 ELSE IF age < CNT THEN age + 1 ELSE age
    BY <2>2 DEF Clock
  <2>. QED  BY <2>3, <2>4, <2>5, <2>6
<1>2. EngineInv /\ [Tick]_vars => [~wvalid /\ wvalid' => age' = cycles + 1]_vars
  BY <1>1
<1>. QED  BY <1>2, Invariant, PTL DEF Spec, DataDelay

-----------------------------------------------------------------------------
(* Behind any software, with or without OneAtATime *)

\* What is under way, at both ports together, has been asked for.
AccessesAsked ==
  /\ One(arvalid) + reads["memory"] + reads["acp"] <= owedReads
  /\ One(awvalid) + aws["memory"] + aws["acp"] <= owedWrites
  /\ One(cnt_en) + One(wvalid) + ws["memory"] + ws["acp"] <= owedWrites

AnyInv == TypeOK /\ AccessesAsked

\* A clock adds to the two ports together what it adds to the one selected.
LEMMA CountSum ==
  ASSUME NEW n \in [Ports -> 0 .. MaxOutstanding], NEW up \in BOOLEAN, NEW down \in BOOLEAN,
         up => n[Port] < MaxOutstanding, down => n[Port] > 0
  PROVE  /\ Count(n, up, down) \in [Ports -> 0 .. MaxOutstanding]
         /\ n["memory"] \in Nat /\ n["acp"] \in Nat
         /\ Count(n, up, down)["memory"] + Count(n, up, down)["acp"]
              = n["memory"] + n["acp"] + One(up) - One(down)
         /\ down => n["memory"] + n["acp"] > 0
<1>1. n \in [Ports -> Nat] /\ MaxOutstanding \in Nat
  BY EngineAssumption
<1>2. \A p \in Ports :
        Count(n, up, down)[p] = IF p = Port THEN n[p] + One(up) - One(down) ELSE n[p]
  BY <1>1, CountOf
<1>3. One(up) \in {0, 1} /\ One(down) \in {0, 1} /\ (up <=> One(up) = 1)
      /\ (down <=> One(down) = 1)
  BY DEF One
<1>4. \A p \in Ports : Count(n, up, down)[p] \in 0 .. MaxOutstanding
  BY <1>1, <1>2, <1>3
<1>5. Count(n, up, down) = [p \in Ports |-> Count(n, up, down)[p]]
  BY DEF Count
<1>6. Count(n, up, down) \in [Ports -> 0 .. MaxOutstanding]
  BY <1>4, <1>5
<1>7. /\ "memory" \in Ports /\ "acp" \in Ports /\ Port \in {"memory", "acp"}
      /\ n["memory"] \in Nat /\ n["acp"] \in Nat
  BY <1>1, PortIsPort DEF Ports
<1>8. CASE Port = "memory"
  BY <1>2, <1>3, <1>6, <1>7, <1>8
<1>9. CASE Port = "acp"
  BY <1>2, <1>3, <1>6, <1>7, <1>9
<1>. QED  BY <1>7, <1>8, <1>9

\* Reset owes nothing.
LEMMA AnyInit == Init => AnyInv
<1> SUFFICES ASSUME Init PROVE AnyInv
  OBVIOUS
<1>1. TypeOK
  BY InitInv DEF EngineInv
<1>2. AccessesAsked
  BY DEF Init, AccessesAsked, One, Ports
<1>. QED  BY <1>1, <1>2 DEF AnyInv

\* A clock of any software leaves no more accesses on their way than GOs
\* have asked for.
LEMMA AnyClock ==
  ASSUME AnyInv,
         NEW goRead \in BOOLEAN, NEW goWrite \in BOOLEAN, NEW arready \in BOOLEAN,
         NEW awready \in BOOLEAN, NEW wready \in BOOLEAN, NEW rvalid \in BOOLEAN,
         NEW bvalid \in BOOLEAN,
         Clock(goRead, goWrite, arready, awready, wready, rvalid, bvalid)
  PROVE  AnyInv'
<1>1. /\ arvalid \in BOOLEAN /\ awvalid \in BOOLEAN /\ wvalid \in BOOLEAN
      /\ cnt_en \in BOOLEAN /\ GoWriteData \in BOOLEAN /\ (GoWriteData => cnt_en)
      /\ owedReads \in Nat /\ owedWrites \in Nat
  BY DEF AnyInv, TypeOK, GoWriteData
<1> DEFINE rs == reads["memory"] + reads["acp"]
           addrs == aws["memory"] + aws["acp"]
           wr == ws["memory"] + ws["acp"]
<1>2. /\ reads' \in [Ports -> 0 .. MaxOutstanding] /\ rs \in Nat
      /\ rs' = rs + One(arvalid /\ arready) - One(rvalid) /\ (rvalid => rs > 0)
  <2>1. reads' = Count(reads, arvalid /\ arready, rvalid)
        /\ (arready => reads[Port] < MaxOutstanding) /\ (rvalid => reads[Port] > 0)
    BY DEF Clock, Answering
  <2>2. reads \in [Ports -> 0 .. MaxOutstanding] /\ (arvalid /\ arready) \in BOOLEAN
    BY DEF AnyInv, TypeOK
  <2>3. /\ reads' \in [Ports -> 0 .. MaxOutstanding]
        /\ reads["memory"] \in Nat /\ reads["acp"] \in Nat
        /\ reads'["memory"] + reads'["acp"]
             = reads["memory"] + reads["acp"] + One(arvalid /\ arready) - One(rvalid)
        /\ rvalid => reads["memory"] + reads["acp"] > 0
    BY <2>1, <2>2, CountSum
  <2>. QED  BY <2>3
<1>3. /\ aws' \in [Ports -> 0 .. MaxOutstanding] /\ addrs \in Nat
      /\ addrs' = addrs + One(awvalid /\ awready) - One(bvalid) /\ (bvalid => addrs > 0)
  <2>1. aws' = Count(aws, awvalid /\ awready, bvalid)
        /\ (awready => aws[Port] < MaxOutstanding) /\ (bvalid => aws[Port] > 0)
    BY DEF Clock, Answering
  <2>2. aws \in [Ports -> 0 .. MaxOutstanding] /\ (awvalid /\ awready) \in BOOLEAN
    BY DEF AnyInv, TypeOK
  <2>3. /\ aws' \in [Ports -> 0 .. MaxOutstanding]
        /\ aws["memory"] \in Nat /\ aws["acp"] \in Nat
        /\ aws'["memory"] + aws'["acp"]
             = aws["memory"] + aws["acp"] + One(awvalid /\ awready) - One(bvalid)
        /\ bvalid => aws["memory"] + aws["acp"] > 0
    BY <2>1, <2>2, CountSum
  <2>. QED  BY <2>3
<1>4. /\ ws' \in [Ports -> 0 .. MaxOutstanding] /\ wr \in Nat
      /\ wr' = wr + One(wvalid /\ wready) - One(bvalid) /\ (bvalid => wr > 0)
  <2>1. ws' = Count(ws, wvalid /\ wready, bvalid)
        /\ (wready => ws[Port] < MaxOutstanding) /\ (bvalid => ws[Port] > 0)
    BY DEF Clock, Answering
  <2>2. ws \in [Ports -> 0 .. MaxOutstanding] /\ (wvalid /\ wready) \in BOOLEAN
    BY DEF AnyInv, TypeOK
  <2>3. /\ ws' \in [Ports -> 0 .. MaxOutstanding]
        /\ ws["memory"] \in Nat /\ ws["acp"] \in Nat
        /\ ws'["memory"] + ws'["acp"]
             = ws["memory"] + ws["acp"] + One(wvalid /\ wready) - One(bvalid)
        /\ bvalid => ws["memory"] + ws["acp"] > 0
    BY <2>1, <2>2, CountSum
  <2>. QED  BY <2>3
<1>5. /\ arvalid' = Valid(arvalid, arready, goRead)
      /\ awvalid' = Valid(awvalid, awready, goWrite)
      /\ wvalid' = Valid(wvalid, wready, GoWriteData)
      /\ cnt_en' = CntEn(goWrite)
      /\ owedReads' = owedReads + One(goRead) - One(rvalid)
      /\ owedWrites' = owedWrites + One(goWrite) - One(bvalid)
  BY DEF Clock
<1>6. /\ One(arvalid) + rs <= owedReads
      /\ One(awvalid) + addrs <= owedWrites
      /\ One(cnt_en) + One(wvalid) + wr <= owedWrites
  <2>1. /\ reads["memory"] \in Nat /\ reads["acp"] \in Nat
        /\ aws["memory"] \in Nat /\ aws["acp"] \in Nat
        /\ ws["memory"] \in Nat /\ ws["acp"] \in Nat
    BY EngineAssumption DEF AnyInv, TypeOK, Ports
  <2>2. One(arvalid) \in Nat /\ One(awvalid) \in Nat /\ One(wvalid) \in Nat
        /\ One(cnt_en) \in Nat
    BY DEF One
  <2>. QED  BY <1>1, <2>1, <2>2 DEF AnyInv, AccessesAsked
<1> HIDE DEF rs, addrs, wr
\* A handshake turns a valid into an accepted access, or into nothing new.
<1>7. /\ One(arvalid') + One(arvalid /\ arready) <= One(arvalid) + One(goRead)
      /\ One(awvalid') + One(awvalid /\ awready) <= One(awvalid) + One(goWrite)
  BY <1>1, <1>5 DEF Valid, One
<1>8. One(cnt_en') + One(wvalid') + One(wvalid /\ wready)
        <= One(cnt_en) + One(wvalid) + One(goWrite)
  BY <1>1, <1>5 DEF Valid, CntEn, One
<1>9. \A b \in BOOLEAN : One(b) \in {0, 1}
  BY DEF One
<1>10. /\ arvalid' \in BOOLEAN /\ awvalid' \in BOOLEAN /\ wvalid' \in BOOLEAN
       /\ cnt_en' \in BOOLEAN
  BY <1>1, <1>5 DEF Valid, CntEn
<1>11. One(arvalid') + rs' <= owedReads' /\ owedReads' \in Nat
  <2>1. /\ One(arvalid') \in {0, 1} /\ One(arvalid) \in {0, 1} /\ One(goRead) \in {0, 1}
        /\ One(arvalid /\ arready) \in {0, 1} /\ One(rvalid) \in {0, 1}
        /\ (One(rvalid) = 1 => rs > 0)
    BY <1>1, <1>2, <1>9, <1>10 DEF One
  <2>. QED  BY <1>1, <1>2, <1>5, <1>6, <1>7, <2>1
<1>12. One(awvalid') + addrs' <= owedWrites' /\ owedWrites' \in Nat
  <2>1. /\ One(awvalid') \in {0, 1} /\ One(awvalid) \in {0, 1} /\ One(goWrite) \in {0, 1}
        /\ One(awvalid /\ awready) \in {0, 1} /\ One(bvalid) \in {0, 1}
    BY <1>1, <1>9, <1>10
  <2>2. One(bvalid) = 1 => addrs > 0
    BY <1>3 DEF One
  <2>3. One(awvalid') + addrs' <= One(awvalid) + addrs + One(goWrite) - One(bvalid)
    BY <1>3, <1>7, <2>1
  <2>4. owedWrites' = owedWrites + One(goWrite) - One(bvalid)
        /\ One(awvalid) + addrs <= owedWrites
    BY <1>5, <1>6
  <2>5. addrs' \in Nat /\ owedWrites' \in Int
    BY <1>1, <1>3, <2>1, <2>2, <2>4
  <2>. QED  BY <1>1, <1>3, <2>1, <2>3, <2>4, <2>5
<1>13. One(cnt_en') + One(wvalid') + wr' <= owedWrites'
  <2>1. /\ One(cnt_en') \in {0, 1} /\ One(cnt_en) \in {0, 1} /\ One(wvalid') \in {0, 1}
        /\ One(wvalid) \in {0, 1} /\ One(goWrite) \in {0, 1}
        /\ One(wvalid /\ wready) \in {0, 1} /\ One(bvalid) \in {0, 1}
    BY <1>1, <1>9, <1>10
  <2>. QED  BY <1>1, <1>4, <1>5, <1>6, <1>8, <1>12, <2>1
<1>14. AccessesAsked'
  <2>1. /\ reads'["memory"] \in Nat /\ reads'["acp"] \in Nat
        /\ aws'["memory"] \in Nat /\ aws'["acp"] \in Nat
        /\ ws'["memory"] \in Nat /\ ws'["acp"] \in Nat
    BY <1>2, <1>3, <1>4, EngineAssumption DEF Ports
  <2>2. /\ One(arvalid') \in Nat /\ One(awvalid') \in Nat /\ One(wvalid') \in Nat
        /\ One(cnt_en') \in Nat
    BY DEF One
  <2>. QED  BY <1>11, <1>12, <1>13, <2>1, <2>2 DEF AccessesAsked, rs, addrs, wr
<1>15. /\ cycles' \in 0 .. CNT - 1 /\ acp_enabled' \in BOOLEAN /\ age' \in 0 .. CNT
       /\ cnt' \in 0 .. CNT - 1
  <2>1. /\ CNT \in Nat \ {0} /\ cnt \in 0 .. CNT - 1 /\ cycles \in 0 .. CNT - 1
        /\ age \in 0 .. CNT /\ acp_enabled \in BOOLEAN
    BY EngineAssumption DEF AnyInv, TypeOK
  <2>2. cycles' \in 0 .. CNT - 1 /\ acp_enabled' \in BOOLEAN
    BY <2>1, EngineAssumption DEF Clock
  <2>3. age' \in 0 .. CNT
    BY <2>1 DEF Clock
  <2>4. cnt' \in 0 .. CNT - 1
    BY <2>1 DEF Clock, Cnt
  <2>. QED  BY <2>2, <2>3, <2>4
<1>16. unannounced' \in 0 .. Wrap - 1
  <2>1. unannounced' = (unannounced + One(rvalid) + One(bvalid)
                          - One(Interrupt(rvalid, bvalid))) % 2
    BY DEF Clock, Wrap
  <2>2. unannounced \in {0, 1} /\ One(rvalid) \in Int /\ One(bvalid) \in Int
        /\ One(Interrupt(rvalid, bvalid)) \in Int
    BY DEF AnyInv, TypeOK, One, Wrap
  <2>3. \A n \in Int : n % 2 \in {0, 1}
    OBVIOUS
  <2>. QED  BY <2>1, <2>2, <2>3 DEF Wrap
<1>. QED
  BY <1>2, <1>3, <1>4, <1>10, <1>11, <1>12, <1>14, <1>15, <1>16 DEF AnyInv, TypeOK

\* The same for every step.
LEMMA AnyStep == AnyInv /\ [Tick]_vars => AnyInv'
<1> SUFFICES ASSUME AnyInv, [Tick]_vars PROVE AnyInv'
  OBVIOUS
<1>1. CASE Tick
  <2>1. PICK goRead, goWrite, arready, awready, wready, rvalid, bvalid \in BOOLEAN :
          Clock(goRead, goWrite, arready, awready, wready, rvalid, bvalid)
    BY <1>1 DEF Tick
  <2>. QED  BY <2>1, AnyClock, ZenonT(60)
<1>2. CASE UNCHANGED vars
  BY <1>2 DEF AnyInv, TypeOK, AccessesAsked, vars, engineVars
<1>. QED  BY <1>1, <1>2

\* Every register and count keeps its width, whatever software writes and
\* when; in particular cnt never leaves its bits and no port owes more than
\* it accepts.
THEOREM TypeCorrect == Spec => []TypeOK
<1>1. AnyInv => TypeOK
  BY DEF AnyInv
<1>. QED  BY <1>1, AnyInit, AnyStep, PTL DEF Spec

\* Software that does not wait can lose an access, but never cause one: there
\* are at no time more requests, running delays and accepted accesses than
\* GOs that have not been answered.
THEOREM NoneInvented == Spec => []AccessesAsked
<1>1. AnyInv => AccessesAsked
  BY DEF AnyInv
<1>. QED  BY <1>1, AnyInit, AnyStep, PTL DEF Spec

-----------------------------------------------------------------------------
(* An interrupt for each word: one access at a time, of either direction *)

\* What software has to see to in addition to OneAtATime: a read and a write
\* are not under way at once.
Solo == owedReads = 0 \/ owedWrites = 0

\* Behind such software no two answers share a clock, and every word has its
\* clock of Interrupt: the words that are not announced are those answered
\* together (simple_memory_access.sv:23).
THEOREM SoloInterrupts ==
  ASSUME OneAtATime
  PROVE  Spec /\ []Solo => []InterruptPerWord
<1>1. Init => InterruptPerWord
  BY DEF Init, InterruptPerWord
<1>2. EngineInv /\ Solo /\ InterruptPerWord /\ [Tick]_vars => InterruptPerWord'
  <2> SUFFICES ASSUME EngineInv, Solo, InterruptPerWord, [Tick]_vars
               PROVE  InterruptPerWord'
    OBVIOUS
  <2>1. CASE UNCHANGED vars
    BY <2>1 DEF InterruptPerWord, vars
  <2>2. CASE Tick
    <3>1. PICK goRead, goWrite, arready, awready, wready, rvalid, bvalid \in BOOLEAN :
            Clock(goRead, goWrite, arready, awready, wready, rvalid, bvalid)
      BY <2>2 DEF Tick
    <3>2. /\ unannounced' = (unannounced + One(rvalid) + One(bvalid)
                                - One(Interrupt(rvalid, bvalid))) % 2
          /\ rvalid => reads[Port] > 0
          /\ bvalid => aws[Port] > 0
      BY <3>1 DEF Clock, Answering, Wrap
    <3>3. (rvalid => owedReads = 1) /\ (bvalid => owedWrites = 1)
      <4>1. /\ reads[Port] \in Nat /\ aws[Port] \in Nat
            /\ arvalid \in BOOLEAN /\ awvalid \in BOOLEAN
        BY PortIsPort, EngineAssumption DEF EngineInv, TypeOK
      <4>2. owedReads = One(arvalid) + reads[Port] /\ owedWrites = One(awvalid) + aws[Port]
            /\ owedReads \in {0, 1} /\ owedWrites \in {0, 1}
        BY DEF EngineInv, ReadsPlaced, WritesPlaced
      <4>. QED  BY <3>2, <4>1, <4>2 DEF One
    <3>4. ~(rvalid /\ bvalid)
      BY <3>3 DEF Solo
    <3>5. unannounced = 0
      BY DEF InterruptPerWord
    <3>. QED  BY <3>2, <3>4, <3>5 DEF InterruptPerWord, Interrupt, One
  <2>. QED  BY <2>1, <2>2
<1>. QED  BY <1>1, <1>2, Invariant, PTL DEF Spec

-----------------------------------------------------------------------------
(* Why a GO is answered: the argument behind GosAnswered *)

\* What an access still has to do: its handshakes, its answer, and for a write
\* the clocks of its delay.
ReadLeft == One(arvalid) + owedReads
WriteLeft == One(awvalid) + owedWrites + (IF cnt_en THEN cycles - cnt + 2 ELSE One(wvalid))

ReadNears ==
  /\ ReadLeft \in Nat
  /\ \/ ReadLeft' < ReadLeft
     \/ UNCHANGED <<arvalid, reads, owedReads>>

WriteNears ==
  /\ WriteLeft \in Nat
  /\ \/ WriteLeft' < WriteLeft
     \/ ~cnt_en /\ UNCHANGED <<awvalid, wvalid, cnt_en, aws, ws, owedWrites>>

\* Every clock brings an access nearer to its end, or the memory is letting the
\* engine wait.
GosNear ==
  [][(owedReads > 0 => ReadNears) /\ (owedWrites > 0 => WriteNears)]_vars

\* A clock of a memory that takes the address or answers brings a read
\* nearer to its end, and any other clock no further from it.
LEMMA ReadUses ==
  ASSUME OneAtATime, EngineInv, owedReads > 0,
         NEW goRead \in BOOLEAN, NEW goWrite \in BOOLEAN, NEW arready \in BOOLEAN,
         NEW awready \in BOOLEAN, NEW wready \in BOOLEAN, NEW rvalid \in BOOLEAN,
         NEW bvalid \in BOOLEAN,
         Clock(goRead, goWrite, arready, awready, wready, rvalid, bvalid)
  PROVE  ReadNears
<1>1. /\ owedReads = 1 /\ arvalid \in BOOLEAN /\ reads \in [Ports -> 0 .. MaxOutstanding]
      /\ owedReads = One(arvalid) + reads[Port] /\ reads[Port] \in Nat
  BY PortIsPort, EngineAssumption DEF EngineInv, TypeOK, ReadsPlaced
<1>2. /\ arvalid' \in BOOLEAN /\ (arvalid' <=> arvalid /\ ~arready)
      /\ owedReads' = 1 - One(rvalid)
      /\ rvalid => reads[Port] > 0
      /\ reads' = Count(reads, arvalid /\ arready, rvalid)
  <2>1. ~goRead
    BY <1>1 DEF Clock
  <2>2. arvalid' = Valid(arvalid, arready, goRead)
    BY DEF Clock
  <2>3. arvalid' \in BOOLEAN /\ (arvalid' <=> arvalid /\ ~arready)
    BY <1>1, <2>1, <2>2 DEF Valid
  <2>4. owedReads' = owedReads + One(goRead) - One(rvalid) /\ One(goRead) = 0
    BY <2>1 DEF Clock, One
  <2>5. One(rvalid) \in Int
    BY DEF One
  <2>6. owedReads' = 1 - One(rvalid)
    BY <1>1, <2>4, <2>5
  <2>7. (rvalid => reads[Port] > 0) /\ reads' = Count(reads, arvalid /\ arready, rvalid)
    BY DEF Clock, Answering
  <2>. QED  BY <2>3, <2>6, <2>7
<1>3. ReadLeft = One(arvalid) + 1 /\ ReadLeft' = One(arvalid') + 1 - One(rvalid)
  BY <1>1, <1>2 DEF ReadLeft, One
<1>4. CASE rvalid
  <2>1. ~arvalid /\ ~arvalid'
    BY <1>1, <1>2, <1>4 DEF One
  <2>. QED  BY <1>3, <1>4, <2>1 DEF ReadNears, One
<1>5. CASE ~rvalid /\ arvalid /\ arready
  <2>1. ReadLeft = 2 /\ ReadLeft' = 1
    BY <1>2, <1>3, <1>5 DEF One
  <2>. QED  BY <2>1 DEF ReadNears
<1>6. CASE ~rvalid /\ ~(arvalid /\ arready)
  <2>1. arvalid' = arvalid /\ owedReads' = owedReads
    <3>1. arvalid' <=> arvalid
      BY <1>1, <1>2, <1>6
    <3>2. owedReads' = owedReads
      BY <1>1, <1>2, <1>6 DEF One
    <3>. QED  BY <1>1, <1>2, <3>1, <3>2
  <2>2. One(arvalid /\ arready) = 0 /\ One(rvalid) = 0
    BY <1>6 DEF One
  <2>3. reads' = reads
    <3>1. \A p \in Ports : reads'[p] = reads[p]
      <4>1. reads \in [Ports -> Nat]
        BY <1>1, EngineAssumption
      <4>2. (arvalid /\ arready) \in BOOLEAN
        OBVIOUS
      <4>3. \A p \in Ports :
              reads'[p] = IF p = Port THEN reads[p] + One(arvalid /\ arready) - One(rvalid)
                          ELSE reads[p]
        BY <1>2, <4>1, <4>2, CountOf
      <4>. QED  BY <2>2, <4>1, <4>3
    <3>2. reads' = [p \in Ports |-> reads'[p]] /\ reads = [p \in Ports |-> reads[p]]
      BY <1>1, <1>2 DEF Count
    <3>. QED  BY <3>1, <3>2
  <2>4. ReadLeft \in Nat
    BY <1>3 DEF One
  <2>. QED  BY <2>1, <2>3, <2>4 DEF ReadNears
<1>. QED  BY <1>4, <1>5, <1>6

\* The same for a write, whose delay runs without the memory's help.
LEMMA WriteUses ==
  ASSUME OneAtATime, EngineInv, owedWrites > 0,
         NEW goRead \in BOOLEAN, NEW goWrite \in BOOLEAN, NEW arready \in BOOLEAN,
         NEW awready \in BOOLEAN, NEW wready \in BOOLEAN, NEW rvalid \in BOOLEAN,
         NEW bvalid \in BOOLEAN,
         Clock(goRead, goWrite, arready, awready, wready, rvalid, bvalid)
  PROVE  WriteNears
<1>1. /\ owedWrites = 1 /\ awvalid \in BOOLEAN /\ wvalid \in BOOLEAN /\ cnt_en \in BOOLEAN
      /\ aws \in [Ports -> 0 .. MaxOutstanding] /\ ws \in [Ports -> 0 .. MaxOutstanding]
      /\ aws[Port] \in Nat /\ ws[Port] \in Nat
      /\ owedWrites = One(awvalid) + aws[Port]
      /\ owedWrites = One(cnt_en) + One(wvalid) + ws[Port]
      /\ cnt \in Nat /\ cycles \in Nat /\ (cnt_en => cnt <= cycles)
  BY PortIsPort, EngineAssumption DEF EngineInv, TypeOK, WritesPlaced, DelayRuns
<1>2. /\ awvalid' \in BOOLEAN /\ (awvalid' <=> awvalid /\ ~awready)
      /\ wvalid' \in BOOLEAN
      /\ wvalid' <=> ~(wvalid /\ wready) /\ (wvalid \/ GoWriteData)
      /\ cnt_en' \in BOOLEAN /\ (cnt_en' <=> cnt_en /\ ~GoWriteData)
      /\ owedWrites' = 1 - One(bvalid)
      /\ bvalid => aws[Port] > 0 /\ ws[Port] > 0
      /\ cycles' = cycles
      /\ aws' = Count(aws, awvalid /\ awready, bvalid)
      /\ ws' = Count(ws, wvalid /\ wready, bvalid)
  <2>1. ~goWrite
    BY <1>1 DEF Clock
  <2>2. cycles' = cycles
    BY <1>1 DEF Clock
  <2>3. /\ awvalid' = Valid(awvalid, awready, goWrite)
        /\ wvalid' = Valid(wvalid, wready, GoWriteData)
        /\ cnt_en' = CntEn(goWrite)
    BY DEF Clock
  <2>4. GoWriteData \in BOOLEAN
    BY <1>1 DEF GoWriteData
  <2>5. awvalid' \in BOOLEAN /\ (awvalid' <=> awvalid /\ ~awready)
    BY <1>1, <2>1, <2>3 DEF Valid
  <2>6. wvalid' \in BOOLEAN /\ (wvalid' <=> ~(wvalid /\ wready) /\ (wvalid \/ GoWriteData))
    BY <1>1, <2>3, <2>4 DEF Valid
  <2>7. cnt_en' \in BOOLEAN /\ (cnt_en' <=> cnt_en /\ ~GoWriteData)
    BY <1>1, <2>1, <2>3, <2>4 DEF CntEn
  <2>8. owedWrites' = 1 - One(bvalid)
    <3>1. owedWrites' = owedWrites + One(goWrite) - One(bvalid) /\ One(goWrite) = 0
      BY <2>1 DEF Clock, One
    <3>2. One(bvalid) \in Int
      BY DEF One
    <3>. QED  BY <1>1, <3>1, <3>2
  <2>9. /\ bvalid => aws[Port] > 0 /\ ws[Port] > 0
        /\ aws' = Count(aws, awvalid /\ awready, bvalid)
        /\ ws' = Count(ws, wvalid /\ wready, bvalid)
    BY DEF Clock, Answering
  <2>. QED  BY <2>2, <2>5, <2>6, <2>7, <2>8, <2>9
<1>3. One(awvalid') <= One(awvalid) /\ One(awvalid) \in {0, 1} /\ One(awvalid') \in {0, 1}
  BY <1>1, <1>2 DEF One
<1>4. CASE cnt_en
  <2>1. ~wvalid /\ ~bvalid /\ owedWrites' = 1
    BY <1>1, <1>2, <1>4 DEF One
  <2>2. WriteLeft = One(awvalid) + 1 + (cycles - cnt + 2)
    BY <1>1, <1>4 DEF WriteLeft
  <2>3. CASE cnt = cycles
    <3>1. wvalid' /\ ~cnt_en'
      BY <1>2, <1>4, <2>1, <2>3 DEF GoWriteData
    <3>2. WriteLeft' = One(awvalid') + 1 + 1
      BY <2>1, <3>1 DEF WriteLeft, One
    <3>. QED  BY <1>1, <1>3, <2>2, <2>3, <3>2 DEF WriteNears
  <2>4. CASE cnt # cycles
    <3>1. cnt_en' /\ cnt' = cnt + 1
      <4>1. cnt + 1 < CNT /\ CNT \in Nat
        BY <1>1, <1>4, <2>4, EngineAssumption DEF EngineInv, TypeOK
      <4>2. cnt' = (cnt + 1) % CNT
        BY <1>4, <2>4 DEF Clock, Cnt, GoWriteData
      <4>3. cnt' = cnt + 1
        BY <1>1, <4>1, <4>2
      <4>4. ~GoWriteData
        BY <2>4 DEF GoWriteData
      <4>. QED  BY <1>2, <1>4, <4>3, <4>4
    <3>2. WriteLeft' = One(awvalid') + 1 + (cycles - (cnt + 1) + 2)
      BY <1>2, <2>1, <3>1 DEF WriteLeft
    <3>. QED  BY <1>1, <1>3, <1>4, <2>2, <2>4, <3>2 DEF WriteNears
  <2>. QED  BY <2>3, <2>4
<1>5. CASE ~cnt_en
  <2>1. ~cnt_en' /\ cnt_en' = cnt_en /\ (wvalid' <=> wvalid /\ ~wready)
    <3>1. ~GoWriteData
      BY <1>5 DEF GoWriteData
    <3>2. ~cnt_en'
      BY <1>2, <1>5
    <3>3. cnt_en' = cnt_en
      BY <1>1, <1>2, <1>5, <3>2
    <3>. QED  BY <1>1, <1>2, <3>1, <3>2, <3>3
  <2>2. /\ WriteLeft = One(awvalid) + 1 + One(wvalid)
        /\ WriteLeft' = One(awvalid') + (1 - One(bvalid)) + One(wvalid')
    BY <1>1, <1>2, <1>5, <2>1 DEF WriteLeft
  <2>3. /\ One(wvalid') <= One(wvalid) /\ One(wvalid) \in {0, 1} /\ One(wvalid') \in {0, 1}
        /\ One(bvalid) \in {0, 1}
    BY <1>1, <2>1 DEF One
  <2>4. WriteLeft \in Nat
    BY <1>3, <2>2, <2>3
  <2>5. CASE bvalid
    BY <1>3, <2>2, <2>3, <2>4, <2>5 DEF WriteNears, One
  <2>6. CASE awvalid /\ awready
    <3>1. One(awvalid') = 0 /\ One(awvalid) = 1
      BY <1>2, <2>6 DEF One
    <3>. QED  BY <2>2, <2>3, <2>4, <3>1 DEF WriteNears
  <2>7. CASE wvalid /\ wready
    <3>1. One(wvalid') = 0 /\ One(wvalid) = 1
      BY <2>1, <2>7 DEF One
    <3>. QED  BY <1>3, <2>2, <2>3, <2>4, <3>1 DEF WriteNears
  <2>8. CASE ~bvalid /\ ~(awvalid /\ awready) /\ ~(wvalid /\ wready)
    <3>1. awvalid' = awvalid /\ wvalid' = wvalid /\ owedWrites' = owedWrites
      <4>1. (awvalid' <=> awvalid) /\ (wvalid' <=> wvalid)
        BY <1>2, <2>1, <2>8
      <4>2. owedWrites' = owedWrites
        BY <1>1, <1>2, <2>8 DEF One
      <4>. QED  BY <1>1, <1>2, <4>1, <4>2
    <3>2. One(awvalid /\ awready) = 0 /\ One(wvalid /\ wready) = 0 /\ One(bvalid) = 0
      BY <2>8 DEF One
    <3>3. \A n \in [Ports -> 0 .. MaxOutstanding], up \in BOOLEAN :
            One(up) = 0 => Count(n, up, bvalid) = n
      <4> SUFFICES ASSUME NEW n \in [Ports -> 0 .. MaxOutstanding], NEW up \in BOOLEAN,
                          One(up) = 0
                   PROVE  Count(n, up, bvalid) = n
        OBVIOUS
      <4>1. n \in [Ports -> Nat]
        BY EngineAssumption
      <4>2. \A p \in Ports : Count(n, up, bvalid)[p] = n[p]
        BY <3>2, <4>1, CountOf
      <4>3. /\ Count(n, up, bvalid) = [p \in Ports |-> Count(n, up, bvalid)[p]]
            /\ n = [p \in Ports |-> n[p]]
        BY DEF Count
      <4>. QED  BY <4>2, <4>3
    <3>4. aws' = aws /\ ws' = ws
      <4>1. (awvalid /\ awready) \in BOOLEAN /\ (wvalid /\ wready) \in BOOLEAN
        OBVIOUS
      <4>. QED  BY <1>1, <1>2, <3>2, <3>3, <4>1
    <3>. QED  BY <1>5, <2>1, <2>4, <3>1, <3>4 DEF WriteNears
  <2>. QED  BY <2>5, <2>6, <2>7, <2>8
<1>. QED  BY <1>1, <1>4, <1>5

\* Nothing but the memory keeps a GO from its answer: of GosAnswered only the
\* memory's accepting and answering is left to fairness
\* (simple_memory_access.sv).
THEOREM GosComeNearer ==
  ASSUME OneAtATime
  PROVE  Spec => GosNear
<1>1. ASSUME EngineInv, Tick
      PROVE  (owedReads > 0 => ReadNears) /\ (owedWrites > 0 => WriteNears)
  <2>1. PICK goRead, goWrite, arready, awready, wready, rvalid, bvalid \in BOOLEAN :
          Clock(goRead, goWrite, arready, awready, wready, rvalid, bvalid)
    BY <1>1 DEF Tick
  <2>2. owedReads > 0 => ReadNears
    BY <1>1, <2>1, ReadUses, ZenonT(60)
  <2>3. owedWrites > 0 => WriteNears
    BY <1>1, <2>1, WriteUses, ZenonT(60)
  <2>. QED  BY <2>2, <2>3
<1>2. EngineInv /\ [Tick]_vars =>
        [(owedReads > 0 => ReadNears) /\ (owedWrites > 0 => WriteNears)]_vars
  BY <1>1
<1>. QED  BY <1>2, Invariant, PTL DEF Spec, GosNear
=============================================================================
