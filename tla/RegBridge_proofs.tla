-------------------------- MODULE RegBridge_proofs --------------------------
(***************************************************************************)
(* RegBridge, however the master offers its writes: an access is in one of *)
(* seven phases, each a set of states of the bridge, and a clock takes a   *)
(* phase to a phase.                                                       *)
(***************************************************************************)
EXTENDS RegBridge, TLAPS

Accesses ==
  [op : {"none", "read", "write"}, addr : Addrs, data : Word,
   valid : SUBSET {"aw", "w", "ar"}, later : SUBSET {"w"}]

Quiet == ~bus.addr_valid /\ ~rvalid /\ ~bvalid /\ ~timeout_cnt_en

Idle == master.op = "none" /\ master.valid = {} /\ master.later = {} /\ Quiet

ReadOffered == master.op = "read" /\ master.valid = {"ar"} /\ master.later = {} /\ Quiet

ReadInside ==
  /\ master.op = "read" /\ master.valid = {} /\ master.later = {}
  /\ bus.addr_valid /\ ~bus.reg_write /\ bus.reg_addr = master.addr
  /\ ~rvalid /\ ~bvalid
  /\ timeout_cnt_en => master.addr = "sram"

ReadAnswered ==
  /\ master.op = "read" /\ master.valid = {} /\ master.later = {}
  /\ ~bus.addr_valid /\ rvalid /\ ~bvalid
  /\ timeout_cnt_en => master.addr = "sram"
  /\ master.addr = "plain" => rdata = stored

WriteOffered ==
  /\ master.op = "write" /\ Quiet
  /\ \/ master.valid = {"aw", "w"} /\ master.later = {}
     \/ master.valid = {"aw"} /\ master.later = {"w"}

WriteAddressed ==
  /\ master.op = "write" /\ master.valid = {"w"} /\ master.later = {} /\ Quiet
  /\ bus.reg_write /\ bus.reg_addr = master.addr

WriteInside ==
  /\ master.op = "write" /\ master.valid = {} /\ master.later = {}
  /\ bvalid /\ ~rvalid /\ ~timeout_cnt_en
  /\ bus.addr_valid => bus.reg_write

Phases ==
  \/ Idle \/ ReadOffered \/ ReadInside \/ ReadAnswered
  \/ WriteOffered \/ WriteAddressed \/ WriteInside

\* Only SRAM reads are late, by one clock, and each moves the counter by two
\* or resets it: with no answer on the wires it is even and never at 7.
CounterKept ==
  /\ rd_en_ff = timeout_cnt_en
  /\ timeout_cnt_en /\ rvalid => timeout_cnt \in {1, 3, 5, 7}
  /\ ~(timeout_cnt_en /\ rvalid) => timeout_cnt \in {0, 2, 4, 6}

\* A register is what has been written to it, or the write is at its input.
RegistersKept ==
  /\ go_next = {}
  /\ ~bus.addr_valid => go = due /\ plain = stored
  /\ bus.addr_valid =>
       /\ go = {}
       /\ due = IF WriteTo("control") THEN bus.reg_wdata ELSE {}
       /\ stored = IF WriteTo("plain") THEN bus.reg_wdata ELSE plain

BridgeInv == TypeOK /\ Phases /\ CounterKept /\ RegistersKept

-----------------------------------------------------------------------------

\* Reset leaves no access inside and every register at 0.
LEMMA InitInv == Init => BridgeInv
<1> SUFFICES ASSUME Init PROVE BridgeInv
  OBVIOUS
<1>1. TypeOK
  <2>1. {} \in Word /\ "control" \in Addrs
    BY DEF Word, Addrs
  <2>2. NoAccess \in Accesses
    BY <2>1 DEF NoAccess, Accesses
  <2>3. bus \in [addr_valid : BOOLEAN, reg_write : BOOLEAN, reg_addr : Addrs,
                 reg_wdata : Word]
    BY <2>1 DEF Init
  <2>4. master \in Accesses
    BY <2>2 DEF Init
  <2>5. timeout_cnt \in 0 .. 15
    BY DEF Init
  <2>. QED  BY <2>1, <2>3, <2>4, <2>5, Zenon DEF Init, TypeOK, Accesses
<1>2. Phases
  BY DEF Init, Phases, Idle, Quiet, NoAccess
<1>3. CounterKept /\ RegistersKept
  BY DEF Init, CounterKept, RegistersKept
<1>. QED  BY <1>1, <1>2, <1>3 DEF BridgeInv

\* The self-clearing input is 0, whatever the output is.
LEMMA Cleared == AutoClear = {}
  BY DEF AutoClear

\* The master's access keeps its type.
LEMMA MasterType ==
  ASSUME TypeOK, NEW rready \in BOOLEAN, NEW bready \in BOOLEAN, Master(rready, bready)
  PROVE  master' \in Accesses
<1>. USE DEF TypeOK, Accesses
<1>1. {} \in Word /\ "control" \in Addrs
  BY DEF Word, Addrs
<1>2. ASSUME StartRead PROVE master' \in Accesses
  BY <1>1, <1>2 DEF StartRead
<1>3. ASSUME NEW a \in Addrs, NEW d \in Word, NEW o \in Orders,
             master' = [op |-> "write", addr |-> a, data |-> d,
                        valid |-> Offer(o)[1], later |-> Offer(o)[2]]
      PROVE  master' \in Accesses
  <2>1. o = "together" \/ o = "address first"
    BY <1>3, BridgeAssumption
  <2>2. Offer(o)[1] \in SUBSET {"aw", "w", "ar"} /\ Offer(o)[2] \in SUBSET {"w"}
    BY <2>1 DEF Offer
  <2>. QED  BY <1>3, <2>2
<1>4. NoAccess \in Accesses
  BY <1>1 DEF NoAccess
<1>5. [master EXCEPT !.valid = master.later, !.later = {}]
        \in Accesses
  <2>1. master \in Accesses /\ master.later \in SUBSET {"aw", "w", "ar"}
        /\ {} \in SUBSET {"w"}
    OBVIOUS
  <2>. QED  BY <2>1
<1>. QED  BY <1>2, <1>3, <1>4, <1>5 DEF Master, StartWrite

\* A clock keeps every width.
LEMMA TypeStep ==
  ASSUME BridgeInv, NEW rready \in BOOLEAN, NEW bready \in BOOLEAN, Clock(rready, bready)
  PROVE  TypeOK'
<1>. USE DEF BridgeInv, TypeOK, Clock, Accesses
<1>1. master' \in Accesses
  BY MasterType
<1>2. /\ AddrValid \in BOOLEAN /\ RegAddr \in Addrs /\ RegWrite \in BOOLEAN
      /\ (IF "w" \in master.valid THEN master.data ELSE bus.reg_wdata) \in Word
  BY DEF AddrValid, RegAddr, RegWrite, Taken, RegReady
<1>3. bus' \in [addr_valid : BOOLEAN, reg_write : BOOLEAN, reg_addr : Addrs,
              reg_wdata : Word]
  BY <1>2
<1>4. ready' \in BOOLEAN /\ rvalid' \in BOOLEAN /\ bvalid' \in BOOLEAN
  BY DEF RvalidNext, BvalidNext, Taken, RegReady, TimedOut
<1>5. {} \in Word
  BY DEF Word
<1>6. rdata' \in Word \cup {Sram, Dead}
  <2>1. RegData \in Word \cup {Sram, Dead}
    BY <1>5 DEF RegData, Addrs
  <2>. QED  BY <2>1 DEF RdataNext
<1>7. timeout_cnt' \in 0 .. 15 /\ timeout_cnt_en' \in BOOLEAN
  <2>1. timeout_cnt' \in 0 .. 15
    BY DEF TimeoutCnt
  <2>2. timeout_cnt_en' \in BOOLEAN
    BY DEF TimeoutEn, TimedOut, RegReady
  <2>. QED  BY <2>1, <2>2
<1>8. go' \in Word /\ go_next' \in Word /\ plain' \in Word
  BY <1>5, Cleared DEF GoNext, PlainNext
<1>9. rd_en_ff' \in BOOLEAN
  BY DEF SramRead, Reading
<1>10. stored' \in Word /\ due' \in Word
  BY DEF Ghosts, Word
<1>. QED  BY <1>1, <1>3, <1>4, <1>6, <1>7, <1>8, <1>9, <1>10

-----------------------------------------------------------------------------

\* The master stands still, or takes the next step of its access.
LEMMA Starts ==
  ASSUME NEW rready \in BOOLEAN, NEW bready \in BOOLEAN, Master(rready, bready),
         Idle
  PROVE  \/ master' = master
         \/ master'.op = "read" /\ master'.valid = {"ar"} /\ master'.later = {}
         \/ /\ master'.op = "write"
            /\ \/ master'.valid = {"aw", "w"} /\ master'.later = {}
               \/ master'.valid = {"aw"} /\ master'.later = {"w"}
<1>1. ~Answered(rready, bready) /\ (StartRead \/ StartWrite \/ UNCHANGED master)
  BY DEF Master, Idle, Answered
<1>2. CASE StartWrite
  <2>1. PICK a \in Addrs, d \in Word, o \in Orders :
          master' = [op |-> "write", addr |-> a, data |-> d,
                     valid |-> Offer(o)[1], later |-> Offer(o)[2]]
    BY <1>2 DEF StartWrite
  <2>2. \/ Offer(o)[1] = {"aw", "w"} /\ Offer(o)[2] = {}
        \/ Offer(o)[1] = {"aw"} /\ Offer(o)[2] = {"w"}
    BY BridgeAssumption DEF Offer
  <2>. QED  BY <2>1, <2>2
<1>. QED  BY <1>1, <1>2 DEF StartRead

\* An access that is not answered stays what it is, and offers its later
\* half once its first has been accepted.
LEMMA Moves ==
  ASSUME NEW rready \in BOOLEAN, NEW bready \in BOOLEAN, TypeOK, Master(rready, bready),
         master.op # "none", ~Answered(rready, bready)
  PROVE  /\ master'.op = master.op /\ master'.addr = master.addr
         /\ master'.data = master.data
         /\ ready /\ master.valid # {} => master'.valid = master.later /\ master'.later = {}
         /\ ~(ready /\ master.valid # {}) => master' = master
  BY DEF Master, TypeOK

\* What the address and the data of an access do to the bridge's registers.
LEMMA Enters ==
  ASSUME BridgeInv, NEW rready \in BOOLEAN, NEW bready \in BOOLEAN, Clock(rready, bready)
  PROVE  /\ Taken("w") => /\ ~bus.addr_valid /\ master.op = "write"
                          /\ bus'.addr_valid /\ bus'.reg_write
                          /\ bus'.reg_addr = master.addr /\ bus'.reg_wdata = master.data
         /\ Taken("ar") => /\ ~bus.addr_valid /\ master.op = "read" /\ ~Taken("w")
                           /\ bus'.addr_valid /\ ~bus'.reg_write
                           /\ bus'.reg_addr = master.addr
         /\ ~Taken("w") /\ ~Taken("ar") =>
              (bus'.addr_valid <=> bus.addr_valid /\ ~RegReady)
         /\ bus.addr_valid => /\ ~Taken("w") /\ ~Taken("ar")
                              /\ bus'.reg_addr = bus.reg_addr
                              /\ bus'.reg_write = bus.reg_write
<1>1. CASE bus.addr_valid
  <2>1. "w" \notin master.valid /\ "aw" \notin master.valid /\ "ar" \notin master.valid
    BY <1>1 DEF BridgeInv, Phases, Idle, ReadOffered, ReadInside, ReadAnswered, WriteOffered,
                WriteAddressed, WriteInside, Quiet
  <2>2. ~Taken("w") /\ ~Taken("aw") /\ ~Taken("ar")
    BY <2>1 DEF Taken
  <2>3. bus'.addr_valid = AddrValid /\ bus'.reg_addr = RegAddr /\ bus'.reg_write = RegWrite
    BY DEF Clock
  <2>4. RegAddr = bus.reg_addr /\ RegWrite = bus.reg_write
    BY <2>2 DEF RegAddr, RegWrite
  <2>5. AddrValid <=> ~RegReady
    BY <1>1, <2>2 DEF AddrValid
  <2>. QED  BY <1>1, <2>2, <2>3, <2>4, <2>5
<1>2. CASE ~bus.addr_valid
  <2>1. ~RegReady
    BY <1>2 DEF RegReady
  <2>2. Taken("w") => /\ master.op = "write" /\ ~Taken("ar")
                      /\ Taken("aw") \/ (bus.reg_write /\ bus.reg_addr = master.addr)
    BY DEF Taken, BridgeInv, Phases, Idle, ReadOffered, ReadInside, ReadAnswered,
           WriteOffered, WriteAddressed, WriteInside
  <2>3. Taken("ar") => master.op = "read" /\ ~Taken("w") /\ ~Taken("aw")
    BY DEF Taken, BridgeInv, Phases, Idle, ReadOffered, ReadInside, ReadAnswered,
           WriteOffered, WriteAddressed, WriteInside
  <2>4. Taken("w") => "w" \in master.valid
    BY DEF Taken
  <2>. QED  BY <1>2, <2>1, <2>2, <2>3, <2>4 DEF Clock, AddrValid, RegAddr, RegWrite
<1>. QED  BY <1>1, <1>2 DEF BridgeInv, TypeOK

\* A clock moves the write at the register's input into the register.
LEMMA RegistersStep ==
  ASSUME BridgeInv, NEW rready \in BOOLEAN, NEW bready \in BOOLEAN, Clock(rready, bready)
  PROVE  RegistersKept'
<1>1. go_next' = {} /\ go' = GoNext /\ plain' = PlainNext /\ Ghosts /\ RegistersKept
  BY Cleared DEF BridgeInv, Clock
<1>2. bus.addr_valid =>
        due' = due /\ stored' = stored /\ (~RegReady => ~bus.reg_write)
  BY <1>1, Enters DEF Ghosts, RegistersKept, RegReady, SramRead, Reading
<1>3. CASE bus.addr_valid /\ RegReady
  <2>1. ~bus'.addr_valid
    BY <1>3, Enters
  <2>2. go' = due' /\ plain' = stored'
    BY <1>1, <1>2, <1>3 DEF RegistersKept, GoNext, PlainNext
  <2>. QED  BY <1>1, <2>1, <2>2 DEF RegistersKept
<1>4. CASE bus.addr_valid /\ ~RegReady
  <2>1. ~bus'.reg_write /\ ~bus.reg_write
    BY <1>2, <1>4, Enters
  <2>2. go' = {} /\ due' = {} /\ stored' = stored /\ stored = plain /\ plain' = plain
    BY <1>1, <1>2, <1>4, <2>1 DEF RegistersKept, GoNext, PlainNext, WriteTo, Writing
  <2>3. bus'.addr_valid
    BY <1>4, Enters DEF BridgeInv, TypeOK
  <2>. QED  BY <1>1, <2>1, <2>2, <2>3 DEF RegistersKept, WriteTo, Writing
<1>5. CASE ~bus.addr_valid
  <2>1. go' = {} /\ plain' = plain /\ plain = stored /\ due \ go = {}
    BY <1>1, <1>5 DEF RegistersKept, GoNext, PlainNext, WriteTo, Writing
  <2>2. CASE Taken("w")
    BY <1>1, <2>1, <2>2, Enters DEF RegistersKept, Ghosts, WriteTo, Writing
  <2>3. CASE ~Taken("w")
    <3>1. due' = {} /\ stored' = stored
      BY <1>1, <2>1, <2>3 DEF Ghosts
    <3>2. bus'.addr_valid => ~bus'.reg_write
      BY <1>5, <2>3, Enters
    <3>. QED  BY <1>1, <2>1, <3>1, <3>2 DEF RegistersKept, WriteTo, Writing
  <2>. QED  BY <2>2, <2>3
<1>. QED  BY <1>3, <1>4, <1>5

\* A clock keeps the timeout counter even, or an answer on the wires.
LEMMA CounterStep ==
  ASSUME BridgeInv, NEW rready \in BOOLEAN, NEW bready \in BOOLEAN, Clock(rready, bready)
  PROVE  CounterKept'
<1>1. /\ rvalid => ~bus.addr_valid
      /\ timeout_cnt_en /\ ~rvalid => SramRead
      /\ SramRead => ~rvalid
  BY DEF BridgeInv, Phases, Idle, ReadOffered, ReadInside, ReadAnswered, WriteOffered,
         WriteAddressed, WriteInside, Quiet, SramRead, Reading
<1>2. /\ rd_en_ff' = SramRead /\ timeout_cnt_en' = TimeoutEn /\ timeout_cnt' = TimeoutCnt
      /\ rvalid' = RvalidNext(rready)
      /\ CounterKept /\ timeout_cnt_en \in BOOLEAN /\ rvalid \in BOOLEAN
      /\ rd_en_ff \in BOOLEAN /\ bus.addr_valid \in BOOLEAN
  BY DEF BridgeInv, Clock, TypeOK
<1>3. TimedOut => rvalid
  BY <1>2 DEF TimedOut, CounterKept
<1>4. RegReady <=> bus.addr_valid /\ (SramRead => timeout_cnt_en)
  BY <1>2 DEF RegReady, CounterKept
<1>5. SramRead => bus.addr_valid /\ ~bus.reg_write
  BY DEF SramRead, Reading
<1>6. rd_en_ff' = timeout_cnt_en'
  <2>1. SramRead \in BOOLEAN /\ TimeoutEn \in BOOLEAN
    BY <1>2 DEF SramRead, Reading, TimeoutEn
  <2>2. SramRead <=> TimeoutEn
    BY <1>1, <1>2, <1>3, <1>4, <1>5 DEF TimeoutEn
  <2>. QED  BY <1>2, <2>1, <2>2
<1>7. CASE ~timeout_cnt_en
  <2>1. timeout_cnt' = timeout_cnt /\ timeout_cnt \in {0, 2, 4, 6}
    BY <1>2, <1>7 DEF TimeoutCnt, TimedOut, CounterKept
  <2>2. ~(timeout_cnt_en' /\ rvalid')
    BY <1>2, <1>3, <1>4, <1>7 DEF TimeoutEn, RvalidNext
  <2>. QED  BY <1>6, <2>1, <2>2 DEF CounterKept
<1>8. CASE timeout_cnt_en /\ ~rvalid
  <2>1. timeout_cnt \in {0, 2, 4, 6} /\ ~TimedOut
    BY <1>2, <1>3, <1>8 DEF CounterKept
  <2>2. timeout_cnt' \in {1, 3, 5, 7}
    BY <1>2, <1>8, <2>1 DEF TimeoutCnt
  <2>3. timeout_cnt_en' /\ rvalid'
    BY <1>1, <1>2, <1>4, <1>5, <1>8, <2>1 DEF TimeoutEn, RvalidNext
  <2>. QED  BY <1>6, <2>2, <2>3 DEF CounterKept
<1>9. CASE timeout_cnt_en /\ rvalid
  <2>1. timeout_cnt \in {1, 3, 5, 7}
    BY <1>2, <1>9 DEF CounterKept
  <2>2. timeout_cnt' \in {0, 2, 4, 6}
    BY <1>2, <1>9, <2>1 DEF TimeoutCnt, TimedOut
  <2>3. ~timeout_cnt_en'
    BY <1>2, <1>9 DEF TimeoutEn
  <2>. QED  BY <1>6, <2>2, <2>3 DEF CounterKept
<1>. QED  BY <1>7, <1>8, <1>9

\* No phase but the two in which an access is inside has an answer to make.
LEMMA PhaseStep ==
  ASSUME BridgeInv, NEW rready \in BOOLEAN, NEW bready \in BOOLEAN, Clock(rready, bready)
  PROVE  Phases'
<1>1. /\ rvalid' = RvalidNext(rready) /\ bvalid' = BvalidNext(bready)
      /\ rdata' = RdataNext /\ timeout_cnt_en' = TimeoutEn
      /\ Master(rready, bready) /\ Ghosts
      /\ TypeOK /\ CounterKept /\ RegistersKept
  BY DEF BridgeInv, Clock
<1>2. TimedOut => timeout_cnt_en /\ rvalid
  BY <1>1 DEF TimedOut, CounterKept
<1>3. Quiet /\ ~Taken("w") /\ ~Taken("ar") => Quiet'
  BY <1>1, <1>2, Enters DEF Quiet, RegReady, RvalidNext, BvalidNext, TimeoutEn
<1>4. CASE Idle
  <2>1. Quiet'
    BY <1>3, <1>4 DEF Idle, Taken
  <2>. QED  BY <1>1, <1>4, <2>1, Starts DEF Phases, Idle, ReadOffered, WriteOffered
<1>5. CASE ReadOffered
  <2>1. ~Answered(rready, bready) /\ Quiet /\ ~Taken("w")
    BY <1>5 DEF ReadOffered, Answered, Taken
  <2>2. CASE ready
    <3>1. master'.op = "read" /\ master'.addr = master.addr /\ master'.valid = {}
          /\ master'.later = {}
      BY <1>1, <1>5, <2>1, <2>2, Moves DEF ReadOffered
    <3>2. Taken("ar")
      BY <1>5, <2>2 DEF ReadOffered, Taken
    <3>3. ~rvalid' /\ ~bvalid' /\ ~timeout_cnt_en'
      BY <1>1, <1>2, <2>1 DEF Quiet, RegReady, RvalidNext, BvalidNext, TimeoutEn
    <3>. QED  BY <3>1, <3>2, <3>3, Enters DEF Phases, ReadInside
  <2>3. CASE ~ready
    BY <1>1, <1>3, <1>5, <2>1, <2>3, Moves DEF Phases, ReadOffered, Taken
  <2>. QED  BY <2>2, <2>3
<1>6. CASE ReadInside
  <2>1. ~Answered(rready, bready) /\ ~Taken("w") /\ ~Taken("ar") /\ ~TimedOut
    BY <1>2, <1>6 DEF ReadInside, Answered, Taken
  <2>2. master' = master
    BY <1>1, <1>6, <2>1, Moves DEF ReadInside
  <2>3. bus'.reg_addr = bus.reg_addr /\ bus'.reg_write = bus.reg_write
        /\ (bus'.addr_valid <=> ~RegReady) /\ ~bvalid'
    BY <1>1, <1>6, <2>1, Enters DEF ReadInside, BvalidNext
  <2>4. timeout_cnt_en' => master.addr = "sram"
    BY <1>1, <1>6 DEF ReadInside, TimeoutEn, RegReady, SramRead, Reading
  <2>5. CASE RegReady
    <3>1. rvalid' /\ rdata' = RegData
      BY <1>1, <1>6, <2>1, <2>5 DEF ReadInside, RvalidNext, RdataNext
    <3>2. stored' = stored /\ stored = plain
      BY <1>1, <1>6, <2>1 DEF Ghosts, RegistersKept, ReadInside, WriteTo, Writing
    <3>3. master.addr = "plain" => rdata' = stored'
      BY <1>6, <3>1, <3>2 DEF RegData, ReadInside
    <3>. QED  BY <1>6, <2>2, <2>3, <2>4, <2>5, <3>1, <3>3 DEF Phases, ReadAnswered, ReadInside
  <2>6. CASE ~RegReady
    <3>1. ~rvalid'
      BY <1>1, <1>6, <2>1, <2>6 DEF ReadInside, RvalidNext
    <3>. QED  BY <1>6, <2>2, <2>3, <2>4, <2>6, <3>1 DEF Phases, ReadInside
  <2>. QED  BY <2>5, <2>6
<1>7. CASE ReadAnswered
  <2>1. ~Taken("w") /\ ~Taken("ar") /\ ~RegReady
    BY <1>7 DEF ReadAnswered, Taken, RegReady
  <2>2. ~bus'.addr_valid /\ ~bvalid' /\ ~timeout_cnt_en'
    BY <1>1, <1>7, <2>1, Enters DEF ReadAnswered, BvalidNext, TimeoutEn
  <2>3. CASE rready
    <3>1. ~rvalid'
      BY <1>1, <1>7, <2>3 DEF ReadAnswered, RvalidNext
    <3>2. master' = NoAccess
      BY <1>1, <1>7, <2>3 DEF ReadAnswered, Answered, Master
    <3>. QED  BY <2>2, <3>1, <3>2 DEF Phases, Idle, Quiet, NoAccess
  <2>4. CASE ~rready
    <3>1. rvalid'
      BY <1>1, <1>7, <2>4 DEF ReadAnswered, RvalidNext
    <3>2. master' = master
      BY <1>1, <1>7, <2>4, Moves DEF ReadAnswered, Answered
    <3>3. master.addr = "plain" => rdata' = rdata /\ stored' = stored
      BY <1>1, <1>2, <1>7, <2>1 DEF ReadAnswered, RdataNext, Ghosts
    <3>. QED  BY <1>7, <2>2, <3>1, <3>2, <3>3 DEF Phases, ReadAnswered
  <2>. QED  BY <2>3, <2>4
<1>8. CASE WriteOffered
  <2>1. ~Answered(rready, bready) /\ Quiet /\ ~Taken("ar") /\ master.valid # {}
    BY <1>8 DEF WriteOffered, Answered, Taken
  <2>2. CASE ready /\ master.valid = {"aw", "w"}
    <3>1. Taken("w")
      BY <2>2 DEF Taken
    <3>2. master'.op = "write" /\ master'.valid = {} /\ master'.later = {}
      BY <1>1, <1>8, <2>1, <2>2, Moves DEF WriteOffered
    <3>3. bvalid' /\ ~rvalid' /\ ~timeout_cnt_en'
      BY <1>1, <1>2, <2>1, <3>1 DEF Quiet, RegReady, RvalidNext, BvalidNext, TimeoutEn
    <3>. QED  BY <3>1, <3>2, <3>3, Enters DEF Phases, WriteInside
  <2>3. CASE ready /\ master.valid = {"aw"}
    <3>1. ~Taken("w") /\ Taken("aw")
      BY <2>3 DEF Taken
    <3>2. master'.op = "write" /\ master'.valid = {"w"} /\ master'.later = {}
          /\ master'.addr = master.addr
      BY <1>1, <1>8, <2>1, <2>3, Moves DEF WriteOffered
    <3>3. bus'.reg_write /\ bus'.reg_addr = master.addr
      BY <3>1 DEF Clock, RegWrite, RegAddr
    <3>. QED  BY <1>3, <2>1, <3>1, <3>2, <3>3 DEF Phases, WriteAddressed
  <2>4. CASE ~ready
    <3>1. master' = master
      BY <1>1, <1>8, <2>1, <2>4, Moves DEF WriteOffered
    <3>. QED  BY <1>3, <1>8, <2>1, <2>4, <3>1 DEF Phases, WriteOffered, Taken
  <2>. QED  BY <1>8, <2>2, <2>3, <2>4 DEF WriteOffered
<1>9. CASE WriteAddressed
  <2>1. ~Answered(rready, bready) /\ Quiet /\ ~Taken("ar") /\ ~Taken("aw")
    BY <1>9 DEF WriteAddressed, Answered, Taken
  <2>2. CASE ready
    <3>1. Taken("w")
      BY <1>9, <2>2 DEF WriteAddressed, Taken
    <3>2. master'.op = "write" /\ master'.valid = {} /\ master'.later = {}
      BY <1>1, <1>9, <2>1, <2>2, Moves DEF WriteAddressed
    <3>3. bvalid' /\ ~rvalid' /\ ~timeout_cnt_en'
      BY <1>1, <1>2, <2>1, <3>1 DEF Quiet, RegReady, RvalidNext, BvalidNext, TimeoutEn
    <3>. QED  BY <3>1, <3>2, <3>3, Enters DEF Phases, WriteInside
  <2>3. CASE ~ready
    <3>1. master' = master /\ ~Taken("w")
      BY <1>1, <1>9, <2>1, <2>3, Moves DEF WriteAddressed, Taken
    <3>2. bus'.reg_write = bus.reg_write /\ bus'.reg_addr = bus.reg_addr
      BY <2>1 DEF Clock, RegWrite, RegAddr
    <3>. QED  BY <1>3, <1>9, <2>1, <3>1, <3>2 DEF Phases, WriteAddressed
  <2>. QED  BY <2>2, <2>3
<1>10. CASE WriteInside
  <2>1. ~Taken("ar") /\ ~Taken("w") /\ ~rvalid /\ ~TimedOut
    BY <1>2, <1>10 DEF WriteInside, Taken
  <2>2. bus.addr_valid => RegReady
    BY <1>10 DEF WriteInside, RegReady, SramRead, Reading
  <2>3. ~bus'.addr_valid /\ ~rvalid' /\ ~timeout_cnt_en'
    BY <1>1, <1>10, <2>1, <2>2, Enters
    DEF WriteInside, RvalidNext, TimeoutEn, RegReady
  <2>4. CASE bready
    <3>1. ~bvalid'
      BY <1>1, <1>10, <2>4 DEF WriteInside, BvalidNext
    <3>2. master' = NoAccess
      BY <1>1, <1>10, <2>4 DEF WriteInside, Answered, Master
    <3>. QED  BY <2>3, <3>1, <3>2 DEF Phases, Idle, Quiet, NoAccess
  <2>5. CASE ~bready
    <3>1. bvalid'
      BY <1>1, <1>10, <2>5 DEF WriteInside, BvalidNext
    <3>2. master' = master
      BY <1>1, <1>10, <2>5, Moves DEF WriteInside, Answered
    <3>. QED  BY <1>10, <2>3, <3>1, <3>2 DEF Phases, WriteInside
  <2>. QED  BY <2>4, <2>5
<1>. QED  BY <1>4, <1>5, <1>6, <1>7, <1>8, <1>9, <1>10 DEF BridgeInv, Phases

-----------------------------------------------------------------------------
(* The theorems *)

\* However writes are offered and answers awaited, an access is in one of the
\* phases, the timeout counter is never at 7 before the answer, and every
\* register holds what was written to it (axi4lite2regbus.sv 100-209).
THEOREM Invariant == Spec => []BridgeInv
<1>1. BridgeInv /\ [Next]_vars => BridgeInv'
  <2> SUFFICES ASSUME BridgeInv, [Next]_vars PROVE BridgeInv'
    OBVIOUS
  <2>1. CASE Next
    BY <2>1, TypeStep, PhaseStep, CounterStep, RegistersStep DEF Next, BridgeInv
  <2>2. CASE UNCHANGED vars
    BY <2>2 DEF vars, BridgeInv, TypeOK, Phases, Idle, ReadOffered, ReadInside, ReadAnswered,
                WriteOffered, WriteAddressed, WriteInside, Quiet, CounterKept,
                RegistersKept, WriteTo, Writing
  <2>. QED  BY <2>1, <2>2
<1>. QED  BY InitInv, <1>1, PTL DEF Spec

\* The registers of the bridge keep their widths.
THEOREM TypeCorrect == Spec => []TypeOK
  BY Invariant, PTL DEF BridgeInv

\* A written GO bit is up for one clock, with those written beside it, before
\* the next access is inside (auto_clear.sv, soc_miner_regs.v).
THEOREM GoOnce == Spec => []GoOncePerWrite
<1>1. BridgeInv => GoOncePerWrite
  BY DEF BridgeInv, RegistersKept, GoOncePerWrite
<1>. QED  BY Invariant, <1>1, PTL

\* There is an answer only for an access that waits for one.
THEOREM Awaited == Spec => []AnswersAwaited
<1>1. BridgeInv => AnswersAwaited
  BY DEF BridgeInv, Phases, Idle, ReadOffered, ReadInside, ReadAnswered, WriteOffered,
         WriteAddressed, WriteInside, Quiet, AnswersAwaited
<1>. QED  BY Invariant, <1>1, PTL

\* What a read answers is what was last written, and never 32'hdeaddead: no
\* access is inside when the counter is at 7 (axi4lite2regbus.sv 186-191).
THEOREM Reads == Spec => ReadsRight
<1>1. BridgeInv /\ BridgeInv' /\ [Next]_vars =>
        [rvalid' /\ (~rvalid \/ master.addr = "plain") => rdata' = Expected]_vars
  <2> SUFFICES ASSUME BridgeInv, NEW rready \in BOOLEAN, NEW bready \in BOOLEAN,
                      Clock(rready, bready), rvalid',
                      ~rvalid \/ master.addr = "plain"
               PROVE  rdata' = Expected
    BY DEF Next
  <2>1. rvalid' = RvalidNext(rready) /\ rdata' = RdataNext /\ TypeOK /\ CounterKept
        /\ RegistersKept
    BY DEF BridgeInv, Clock
  <2>2. TimedOut => timeout_cnt_en /\ rvalid
    BY <2>1 DEF TimedOut, CounterKept
  <2>3. CASE ~rvalid
    <3>1. RegReady /\ ~bus.reg_write
      BY <2>1, <2>2, <2>3 DEF RvalidNext
    <3>2. ReadInside
      BY <2>3, <3>1 DEF BridgeInv, Phases, Idle, ReadOffered, ReadAnswered, WriteOffered,
                  WriteAddressed, WriteInside, Quiet, RegReady
    <3>3. go = {} /\ plain = stored
      BY <2>1, <3>2 DEF RegistersKept, ReadInside, WriteTo, Writing
    <3>. QED  BY <2>1, <3>1, <3>2, <3>3 DEF RdataNext, RegData, Expected, ReadInside, TypeOK,
                                            Addrs
  <2>4. CASE rvalid
    <3>1. ReadAnswered
      BY <2>4 DEF BridgeInv, Phases, Idle, ReadOffered, ReadInside, WriteOffered,
                  WriteAddressed, WriteInside, Quiet
    <3>2. rdata' = rdata
      BY <2>1, <2>2, <2>4, <3>1 DEF RdataNext, RegReady, ReadAnswered
    <3>. QED  BY <2>4, <3>1, <3>2 DEF ReadAnswered, Expected
  <2>. QED  BY <2>1, <2>3, <2>4 DEF TypeOK
<1>. QED  BY Invariant, <1>1, PTL DEF Spec, ReadsRight

-----------------------------------------------------------------------------
(* Why an access is answered: the argument behind AccessAnswered *)

\* The answer is on the wires and waits for the master's rready or bready.
AnswerThere ==
  /\ master.valid = {} /\ master.later = {}
  /\ \/ master.op = "read" /\ rvalid
     \/ master.op = "write" /\ bvalid

\* The clocks an access has before its answer: one without ready after reset,
\* one per handshake that is not the last one's, and those of the register
\* file, of which an SRAM takes one more.
ReadClocks ==
  IF master.valid # {} THEN IF ready THEN 3 ELSE 4
  ELSE IF rvalid THEN 0
  ELSE IF SramRead /\ ~rd_en_ff THEN 2 ELSE 1

WriteClocks ==
  IF master.valid = {} THEN 0
  ELSE (IF "w" \in master.valid THEN 1 ELSE 2) + (IF ready THEN 0 ELSE 1)

ClocksLeft ==
  IF master.op = "read" THEN ReadClocks
  ELSE IF master.op = "write" THEN WriteClocks ELSE 0

\* However the master orders its handshakes, every clock brings the answer
\* nearer; it comes after four clocks at most and then waits for the master.
AnswerNears ==
  [][master.op # "none" =>
       /\ ClocksLeft \in 0 .. 4
       /\ ClocksLeft > 0 => master'.op = master.op /\ ClocksLeft' < ClocksLeft
       /\ ClocksLeft = 0 => AnswerThere /\ (AnswerThere' \/ master' = NoAccess)]_vars

\* ready is up from the first clock on.
LEMMA ReadUses ==
  ASSUME BridgeInv, BridgeInv', NEW rready \in BOOLEAN, NEW bready \in BOOLEAN,
         Clock(rready, bready), master.op = "read"
  PROVE  /\ ReadClocks \in 0 .. 4
         /\ ReadClocks > 0 => master'.op = "read" /\ ReadClocks' < ReadClocks
         /\ ReadClocks = 0 => AnswerThere /\ (AnswerThere' \/ master' = NoAccess)
<1>1. /\ ReadOffered \/ ReadInside \/ ReadAnswered
      /\ TypeOK /\ CounterKept /\ Master(rready, bready)
  BY DEF BridgeInv, Phases, Idle, WriteOffered, WriteAddressed, WriteInside, Clock
<1>2. /\ ready' = TRUE /\ rvalid' = RvalidNext(rready) /\ rd_en_ff' = SramRead
      /\ rvalid \in BOOLEAN /\ rd_en_ff \in BOOLEAN /\ ready \in BOOLEAN
  BY <1>1 DEF Clock, TypeOK
<1>3. ReadClocks \in 0 .. 4
  BY <1>2 DEF ReadClocks
<1>4. CASE ReadOffered
  <2>1. master.valid = {"ar"} /\ ~Answered(rready, bready) /\ ReadClocks \in {3, 4}
        /\ (ready => ReadClocks = 3) /\ (~ready => ReadClocks = 4)
    BY <1>2, <1>4 DEF ReadOffered, Answered, ReadClocks
  <2>2. CASE ready
    <3>1. master'.op = "read" /\ master'.valid = {}
      BY <1>1, <1>4, <2>1, <2>2, Moves DEF ReadOffered
    <3>2. ReadClocks' \in {0, 1, 2}
      BY <3>1 DEF ReadClocks
    <3>. QED  BY <2>1, <2>2, <3>1, <3>2
  <2>3. CASE ~ready
    <3>1. master' = master
      BY <1>1, <1>4, <2>1, <2>3, Moves DEF ReadOffered
    <3>2. ReadClocks' = 3
      BY <1>2, <2>1, <3>1 DEF ReadClocks
    <3>. QED  BY <2>1, <2>3, <3>1, <3>2
  <2>. QED  BY <1>2, <1>3, <2>2, <2>3
<1>5. CASE ReadInside
  <2>1. master.valid = {} /\ ~rvalid /\ bus.addr_valid /\ ~Answered(rready, bready)
        /\ ~bus.reg_write
    BY <1>5 DEF ReadInside, Answered
  <2>2. master' = master
    BY <1>1, <1>5, <2>1, Moves DEF ReadInside
  <2>3. CASE SramRead /\ ~rd_en_ff
    <3>1. ReadClocks = 2
      BY <2>1, <2>3 DEF ReadClocks
    <3>2. rd_en_ff'
      BY <1>2, <2>3
    <3>3. ReadClocks' \in {0, 1}
      BY <2>1, <2>2, <3>2 DEF ReadClocks
    <3>. QED  BY <1>3, <2>2, <3>1, <3>3
  <2>4. CASE ~(SramRead /\ ~rd_en_ff)
    <3>1. ReadClocks = 1 /\ RegReady
      BY <2>1, <2>4 DEF ReadClocks, RegReady
    <3>2. rvalid'
      BY <1>2, <2>1, <3>1 DEF RvalidNext
    <3>3. ReadClocks' = 0
      BY <2>1, <2>2, <3>2 DEF ReadClocks
    <3>. QED  BY <1>3, <2>2, <3>1, <3>3
  <2>. QED  BY <2>3, <2>4
<1>6. CASE ReadAnswered
  <2>1. ReadClocks = 0 /\ AnswerThere
    BY <1>6 DEF ReadAnswered, ReadClocks, AnswerThere
  <2>2. CASE rready
    BY <1>1, <1>3, <1>6, <2>1, <2>2 DEF ReadAnswered, Answered, Master
  <2>3. CASE ~rready
    <3>1. rvalid'
      BY <1>2, <1>6, <2>3 DEF ReadAnswered, RvalidNext
    <3>2. master' = master
      BY <1>1, <1>6, <2>3, Moves DEF ReadAnswered, Answered
    <3>. QED  BY <1>3, <1>6, <2>1, <3>1, <3>2 DEF ReadAnswered, AnswerThere
  <2>. QED  BY <2>2, <2>3
<1>. QED  BY <1>1, <1>4, <1>5, <1>6

\* Each clock brings a write nearer to its answer, which waits until it is
\* taken.
LEMMA WriteUses ==
  ASSUME BridgeInv, NEW rready \in BOOLEAN, NEW bready \in BOOLEAN,
         Clock(rready, bready), master.op = "write"
  PROVE  /\ WriteClocks \in 0 .. 3
         /\ WriteClocks > 0 => master'.op = "write" /\ WriteClocks' < WriteClocks
         /\ WriteClocks = 0 => AnswerThere /\ (AnswerThere' \/ master' = NoAccess)
<1>1. /\ WriteOffered \/ WriteAddressed \/ WriteInside
      /\ TypeOK /\ Master(rready, bready)
  BY DEF BridgeInv, Phases, Idle, ReadOffered, ReadInside, ReadAnswered, Clock
<1>2. ready' = TRUE /\ bvalid' = BvalidNext(bready) /\ ready \in BOOLEAN
  BY <1>1 DEF Clock, TypeOK
<1>3. WriteClocks \in 0 .. 3
  BY <1>2 DEF WriteClocks
<1>4. CASE WriteOffered \/ WriteAddressed
  <2>1. /\ ~Answered(rready, bready) /\ master.valid # {}
        /\ \/ master.valid = {"aw", "w"} /\ master.later = {}
           \/ master.valid = {"aw"} /\ master.later = {"w"}
           \/ master.valid = {"w"} /\ master.later = {}
    BY <1>4 DEF WriteOffered, WriteAddressed, Answered
  <2>2. WriteClocks = (IF "w" \in master.valid THEN 1 ELSE 2) + (IF ready THEN 0 ELSE 1)
    BY <2>1 DEF WriteClocks
  <2>3. CASE ready
    <3>1. master'.op = "write" /\ master'.valid = master.later /\ master'.later = {}
      BY <1>1, <2>1, <2>3, Moves
    <3>2. CASE "w" \in master.valid
      <4>1. WriteClocks = 1
        BY <2>2, <2>3, <3>2
      <4>2. WriteClocks' = 0
        BY <2>1, <3>1, <3>2 DEF WriteClocks
      <4>. QED  BY <1>3, <3>1, <4>1, <4>2
    <3>3. CASE "w" \notin master.valid
      <4>1. WriteClocks = 2
        BY <2>2, <2>3, <3>3
      <4>2. master'.valid = {"w"}
        BY <2>1, <3>1, <3>3
      <4>3. WriteClocks' = 1
        BY <1>2, <4>2 DEF WriteClocks
      <4>. QED  BY <1>3, <3>1, <4>1, <4>3
    <3>. QED  BY <3>2, <3>3
  <2>4. CASE ~ready
    <3>1. master' = master
      BY <1>1, <2>1, <2>4, Moves
    <3>2. WriteClocks' = IF "w" \in master.valid THEN 1 ELSE 2
      BY <1>2, <2>1, <3>1 DEF WriteClocks
    <3>. QED  BY <1>3, <2>2, <2>4, <3>1, <3>2
  <2>. QED  BY <1>2, <2>3, <2>4
<1>5. CASE WriteInside
  <2>1. WriteClocks = 0 /\ AnswerThere
    BY <1>5 DEF WriteInside, WriteClocks, AnswerThere
  <2>2. CASE bready
    BY <1>1, <1>3, <1>5, <2>1, <2>2 DEF WriteInside, Answered, Master
  <2>3. CASE ~bready
    <3>1. bvalid'
      BY <1>2, <1>5, <2>3 DEF WriteInside, BvalidNext
    <3>2. master' = master
      BY <1>1, <1>5, <2>3, Moves DEF WriteInside, Answered
    <3>. QED  BY <1>3, <1>5, <2>1, <3>1, <3>2 DEF WriteInside, AnswerThere
  <2>. QED  BY <2>2, <2>3
<1>. QED  BY <1>1, <1>4, <1>5

\* An access has its answer after four clocks at most, with no timeout, and
\* the answer stays until the master takes it (axi4lite2regbus.sv 100-209):
\* of AccessAnswered only the master's taking it is left to fairness.
THEOREM AnswersInTime == Spec => AnswerNears
<1>1. BridgeInv /\ BridgeInv' /\ [Next]_vars =>
        [master.op # "none" =>
           /\ ClocksLeft \in 0 .. 4
           /\ ClocksLeft > 0 => master'.op = master.op /\ ClocksLeft' < ClocksLeft
           /\ ClocksLeft = 0 => AnswerThere /\ (AnswerThere' \/ master' = NoAccess)]_vars
  <2> SUFFICES ASSUME BridgeInv, BridgeInv', NEW rready \in BOOLEAN,
                      NEW bready \in BOOLEAN, Clock(rready, bready), master.op # "none"
               PROVE  /\ ClocksLeft \in 0 .. 4
                      /\ ClocksLeft > 0 =>
                           master'.op = master.op /\ ClocksLeft' < ClocksLeft
                      /\ ClocksLeft = 0 =>
                           AnswerThere /\ (AnswerThere' \/ master' = NoAccess)
    BY DEF Next
  <2>1. CASE master.op = "read"
    <3>1. ClocksLeft = ReadClocks /\ (master'.op = "read" => ClocksLeft' = ReadClocks')
      BY <2>1 DEF ClocksLeft
    <3>. QED  BY <2>1, <3>1, ReadUses
  <2>2. CASE master.op = "write"
    <3>1. ClocksLeft = WriteClocks /\ (master'.op = "write" => ClocksLeft' = WriteClocks')
      BY <2>2 DEF ClocksLeft
    <3>. QED  BY <2>2, <3>1, WriteUses
  <2>. QED  BY <2>1, <2>2 DEF BridgeInv, TypeOK
<1>. QED  BY Invariant, <1>1, PTL DEF Spec, AnswerNears
=============================================================================
