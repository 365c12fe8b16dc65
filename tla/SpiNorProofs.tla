---------------------------- MODULE SpiNorProofs ----------------------------
(***************************************************************************)
(* Theorems about SpiNor, for every size, part, set of calls and bound.    *)
(***************************************************************************)
EXTENDS SpiNor, TLAPS

-----------------------------------------------------------------------------
(* The inductive invariant: what holds at each step of the driver.         *)

ScanPcs == {"init", "reset", "idwait", "rdid", "rdsr2", "vfysr2", "factory"}
WidePcs == {"en4b", "en4bwait", "en4bdone"}
ModifyPcs == {"wren", "wrenwait", "wel", "issue", "settle"}

\* Which call a step belongs to.
Flow ==
  /\ pc = "idle" => call = NoCall
  /\ pc # "idle" => call \in Calls
  /\ pc \in ScanPcs => call.fn = "init"
  /\ pc \in WidePcs => call.fn \in {"init", "deinit"}
  /\ pc = "deinit" => call.fn = "deinit"
  /\ pc \in {"read", "rdloop"} => call.fn = "read"
  /\ pc \in {"program", "prloop"} => call.fn = "program"
  /\ pc \in {"erase", "erloop"} => call.fn = "erase"
  /\ pc \in ModifyPcs =>
        \/ cmd.kind \in StatusKinds /\ call.fn = "init"
        \/ cmd.kind = "program" /\ call.fn = "program"
        \/ cmd.kind \in {"erase", "chip"} /\ call.fn = "erase"
  /\ cmd.kind = "wrsr2" /\ pc # "idle" => call.fn = "init"

\* What the loops have done and what they have left.
Loop ==
  /\ call.fn \in {"read", "program", "erase"} => buf + len = call.len
  /\ call.fn = "read" => DOMAIN rbuf = 0 .. buf - 1
  /\ pc \in ModifyPcs /\ cmd.kind \in {"program", "erase"} =>
        cmd.addr = addr /\ 0 < cmd.len /\ cmd.len <= len

\* When the chip is known to be idle and latched.
Quiet ==
  /\ pc \in {"wel", "issue", "rdloop", "prloop"} => ~wip
  /\ pc = "issue" => wel

\* What nor_init has done to the chip so far.
Setup ==
  /\ prot => Locked
  /\ Quad /\ ~SetsQuad => qe
  /\ initOk => info
  /\ pc \in {"reset", "idwait", "rdid"} => ~info
  /\ pc \in {"rdsr2", "vfysr2", "factory", "rdloop", "prloop", "erloop"} \cup WidePcs
           \cup ModifyPcs => info
  /\ pc = "factory" \/ (pc \in ModifyPcs /\ cmd.kind \in {"wrsr3", "unlock"}) =>
        (Quad => qe)
  /\ pc = "settle" /\ cmd.kind = "unlock" => ~prot

\* The host calls nothing but deinit after an initialisation that failed.
Host == pc = "init" /\ info => initOk

Inv == TypeOK /\ Flow /\ Loop /\ Quiet /\ Setup

-----------------------------------------------------------------------------
(* Type correctness.                                                       *)

\* A remainder is less than its divisor.
LEMMA ModRange ==
  ASSUME NEW a \in Nat, NEW b \in Nat \ {0}
  PROVE  a % b \in 0 .. b - 1
OBVIOUS

\* Whatever operation the chip starts, the array it leads to is an array.
LEMMA OutcomeType ==
  ASSUME ChipType, NEW k
  PROVE  Outcome(k) \in [Addr -> Cell]
<1>1. PageProgram(mem, k.addr, k.data, k.off, k.len) \in [Addr -> Cell]
  BY DEF ChipType, PageProgram, Cell
<1>2. UnitErase(mem, k.addr, k.len) \in [Addr -> Cell]
  BY DEF ChipType, UnitErase, Cell, Erased
<1>3. ChipErase(mem) \in [Addr -> Cell]
  BY DEF ChipErase, Cell, Erased
<1>4. mem \in [Addr -> Cell]
  BY DEF ChipType
<1> QED BY <1>1, <1>2, <1>3, <1>4 DEF Outcome

\* The chip stays well-typed whatever command it receives.
LEMMA ReceiveType ==
  ASSUME ChipType, NEW k, Receive(k)
  PROVE  ChipType'
<1>1. CASE Ignore(k)
  BY <1>1 DEF Ignore, ChipType, chip
<1>2. CASE Refuse(k)
  BY <1>2 DEF Refuse, ChipType
<1>3. CASE Start(k)
  BY <1>3, OutcomeType DEF Start, ChipType
<1>4. CASE StartStatus(k)
  BY <1>4 DEF StartStatus, ChipType
<1>5. CASE WriteEnable(k)
  BY <1>5 DEF WriteEnable, ChipType
<1>6. CASE Enter4Byte(k)
  BY <1>6 DEF Enter4Byte, ChipType
<1>7. CASE Reset(k)
  BY <1>7, PartAssumption DEF Reset, ChipType
<1>8. CASE \E n \in 0 .. TotalSize : Abort(k, n)
  BY <1>8, PartAssumption DEF Abort, ChipType
<1>9. CASE ResetUnseen(k)
  BY <1>9 DEF ResetUnseen, ChipType, chip
<1> QED BY <1>1, <1>2, <1>3, <1>4, <1>5, <1>6, <1>7, <1>8, <1>9 DEF Receive

\* A transfer keeps the chip and the fault counter well-typed, with or without data.
LEMMA TransferType ==
  ASSUME ChipType, faults \in 0 .. MaxFaults, NEW x \in XferEnds, NEW k,
         Transfer(x, k) \/ ReadTransfer(x)
  PROVE  ChipType' /\ faults' \in 0 .. MaxFaults
<1>1. faults' \in 0 .. MaxFaults
  BY BoundsAssumption DEF Transfer, ReadTransfer
<1>2. CASE UNCHANGED chip
  BY <1>1, <1>2 DEF ChipType, chip
<1>3. CASE Receive(k)
  BY <1>1, <1>3, ReceiveType
<1> QED BY <1>2, <1>3 DEF Transfer, ReadTransfer

\* So do the waits for the chip.
LEMMA WaitType ==
  ASSUME ChipType, faults \in 0 .. MaxFaults, Ready \/ TimedOut
  PROVE  ChipType' /\ faults' \in 0 .. MaxFaults
<1>1. UNCHANGED chip
  BY DEF Ready, TimedOut
<1>2. ChipType'
  BY <1>1 DEF ChipType, chip
<1>3. faults' \in 0 .. MaxFaults
  BY BoundsAssumption DEF Ready, TimedOut, ChipType
<1> QED BY <1>2, <1>3

\* The length of the next page's part is a length the loop has left, and at least one
\* byte while there is any.
LEMMA ChunkType ==
  ASSUME addr \in Nat, len \in Nat
  PROVE  /\ Chunk \in Nat /\ Chunk <= len
         /\ len > 0 => Chunk > 0
         /\ (addr % PageSize) + Chunk <= PageSize
<1>1. addr % PageSize \in 0 .. PageSize - 1
  BY ModRange, SizesAssumption
<1> QED BY <1>1, SizesAssumption DEF Chunk

\* An erase unit, when one fits, is one of the three sizes, fits the rest of the range
\* and its start is aligned to it.
LEMMA UnitType ==
  ASSUME len \in Nat
  PROVE  /\ Unit \in Nat
         /\ Unit > 0 => Unit <= len /\ addr % Unit = 0
BY SizesAssumption DEF Unit, Fits

\* The loop variables stay numbers when the loop moves on by what it has done.
LEMMA AdvanceType ==
  ASSUME addr \in Nat, buf \in Nat, len \in Nat, NEW n \in Nat, n <= len, Advance(n)
  PROVE  addr' \in Nat /\ buf' \in Nat /\ len' \in Nat
<1>1. (addr + n) % WordSize \in 0 .. WordSize - 1
  BY ModRange, SizesAssumption
<1> QED BY <1>1 DEF Advance

\* The loop variables and the array a call asks for.
LEMMA CallTypes ==
  ASSUME NEW c \in Calls, after \in [Addr -> Cell]
  PROVE  /\ c.addr \in Nat /\ c.len \in Nat
         /\ c.fn \in {"init", "deinit", "read", "program", "erase"}
         /\ Store!Effect(c, after) \in [Addr -> Cell]
<1>1. /\ c.addr \in Nat /\ c.len \in Nat
      /\ c.fn \in {"init", "deinit", "read", "program", "erase"}
  BY CallsAssumption, SizesAssumption
<1>2. Store!Programmed(after, c.addr, c.data, 0, c.len) \in [Addr -> Cell]
  BY DEF Store!Programmed, Store!Addr, Addr, Cell
<1>3. Store!Wiped(after, c.addr, c.len) \in [Addr -> Cell]
  BY DEF Store!Wiped, Store!Addr, Addr, Cell, Store!Erased
<1> QED BY <1>1, <1>2, <1>3 DEF Store!Effect

\* A command without an address is well-typed.
LEMMA CmdTypes ==
  ASSUME NEW kind \in Kinds
  PROVE  Cmd(kind) \in [kind : Kinds, addr : Nat, off : Nat, len : Nat,
                       data : {<<>>} \cup {c.data : c \in Calls}]
BY DEF Cmd

\* Every step keeps the variables well-typed. That a loop never takes more off its
\* length than is left needs the invariant of the loops.
LEMMA TypeStep ==
  ASSUME TypeOK, Flow, Loop, [Next]_vars
  PROVE  TypeOK'
<1> USE DEF TypeOK, Labels, Answers, NoCall
<1>0. CASE UNCHANGED vars
  BY <1>0 DEF vars, driver, chip, ChipType
<1>1. ASSUME NEW c \in Calls, Call(c) PROVE TypeOK'
  <2>1. /\ c.addr \in Nat /\ c.len \in Nat /\ c.fn \in Labels
        /\ goal' \in [Addr -> Cell]
    BY <1>1, CallTypes DEF Call, ChipType
  <2>2. cmd' \in [kind : Kinds, addr : Nat, off : Nat, len : Nat,
                 data : {<<>>} \cup {d.data : d \in Calls}]
    BY <1>1, CmdTypes DEF Call, Kinds
  <2>3. ChipType'
    BY <1>1 DEF Call, chip, ChipType
  <2>4. /\ pc' \in Labels /\ addr' \in Nat /\ buf' \in Nat /\ len' \in Nat
        /\ call' \in Calls /\ result' \in Answers /\ rbuf' = <<>>
        /\ UNCHANGED <<info, initOk, faults>>
    BY <1>1, <2>1 DEF Call, Goto
  <2>5. calls' \in 0 .. MaxCalls
    BY <1>1, BoundsAssumption DEF Call
  <2> QED BY <2>1, <2>2, <2>3, <2>4, <2>5
<1>2. CASE NotReady
  BY <1>2 DEF NotReady, Return, chip, ChipType
<1>3. CASE InitAgain
  BY <1>3 DEF InitAgain, Return, chip, ChipType
<1>4. CASE InitSpi
  <2>1. faults' \in 0 .. MaxFaults
    BY <1>4, BoundsAssumption DEF InitSpi
  <2> QED BY <1>4, <2>1, SMTT(30) DEF InitSpi, Goto, Abandon, Return, chip, ChipType
<1>5. CASE WaitId
  BY <1>5, WaitType DEF WaitId, Goto, Abandon, Return
<1>6. CASE Wait4Byte
  BY <1>6, WaitType DEF Wait4Byte, Goto
<1>7. CASE Scanned4Byte
  BY <1>7 DEF Scanned4Byte, Goto, AfterWide, chip, ChipType
<1>8. CASE NoFactoryInit
  <2>1. cmd' \in [kind : Kinds, addr : Nat, off : Nat, len : Nat,
                 data : {<<>>} \cup {d.data : d \in Calls}]
    BY <1>8, CmdTypes DEF NoFactoryInit, Modify, Kinds, StatusKinds
  <2>2. ChipType'
    BY <1>8 DEF NoFactoryInit, chip, ChipType
  <2> QED BY <1>8, <2>1, <2>2 DEF NoFactoryInit, Modify, Goto
<1>9. CASE Deinit
  BY <1>9 DEF Deinit, Goto, chip, ChipType
<1>10. CASE DeinitDone
  BY <1>10 DEF DeinitDone, Return, chip, ChipType
<1>11. CASE WaitWren
  BY <1>11, WaitType DEF WaitWren, Goto, Abandon, Return
<1>12. CASE SettleTimedOut
  BY <1>12, WaitType DEF SettleTimedOut, Abandon, Return
<1>13. CASE InitSettled
  BY <1>13, WaitType, CmdTypes DEF InitSettled, Goto, Modify, Return, Kinds, ArrayKinds, StatusKinds
<1>14. CASE WaitFirst
  BY <1>14, WaitType DEF WaitFirst, Goto, Abandon, Return
<1>15. CASE LoopDone
  BY <1>15 DEF LoopDone, Return, chip, ChipType
<1>16. CASE ProgramPage
  <2>1. Chunk \in Nat
    BY ChunkType
  <2> QED BY <1>16, <2>1 DEF ProgramPage, Modify, Goto, chip, ChipType, Kinds, ArrayKinds
<1>17. CASE PageSettled
  <2>1. cmd.len \in Nat /\ cmd.len <= len
    BY <1>17 DEF PageSettled, Loop, ModifyPcs
  <2>2. addr' \in Nat /\ buf' \in Nat /\ len' \in Nat
    BY <1>17, <2>1, AdvanceType DEF PageSettled
  <2> QED BY <1>17, <2>2, WaitType DEF PageSettled, Goto
<1>18. CASE EraseRefused
  BY <1>18 DEF EraseRefused, Return, chip, ChipType
<1>19. CASE EraseChip
  BY <1>19, CmdTypes DEF EraseChip, Modify, Goto, chip, ChipType, Kinds, ArrayKinds, StatusKinds
<1>20. CASE EraseBegin
  BY <1>20 DEF EraseBegin, Goto, chip, ChipType
<1>21. CASE EraseUnit
  <2>1. Unit \in Nat
    BY UnitType
  <2>2. cmd' = [kind |-> "erase", addr |-> addr, off |-> 0, len |-> Unit, data |-> <<>>]
    BY <1>21 DEF EraseUnit, Modify
  <2>3. cmd' \in [kind : Kinds, addr : Nat, off : Nat, len : Nat,
                 data : {<<>>} \cup {d.data : d \in Calls}]
    BY <2>1, <2>2 DEF Kinds, ArrayKinds
  <2>4. ChipType'
    BY <1>21 DEF EraseUnit, chip, ChipType
  <2> QED BY <1>21, <2>3, <2>4 DEF EraseUnit, Modify, Goto
<1>22. CASE UnitSettled
  <2>1. cmd.len \in Nat /\ cmd.len <= len
    BY <1>22 DEF UnitSettled, Loop, ModifyPcs
  <2>2. addr' \in Nat /\ buf' \in Nat /\ len' \in Nat
    BY <1>22, <2>1, AdvanceType DEF UnitSettled
  <2> QED BY <1>22, <2>2, WaitType DEF UnitSettled, Goto
<1>23. CASE ChipSettled
  BY <1>23, WaitType DEF ChipSettled, Return
<1>24. CASE EraseDone
  BY <1>24 DEF EraseDone, Return, chip, ChipType
<1>25. ASSUME NEW x \in XferEnds, SendReset(x) PROVE TypeOK'
  BY <1>25, TransferType DEF SendReset, Goto, Abandon, Return
<1>26. ASSUME NEW x \in XferEnds, ReadId(x) PROVE TypeOK'
  BY <1>26, TransferType DEF ReadId, Goto, Abandon, Return, AfterWide
<1>27. ASSUME NEW x \in XferEnds, Send4Byte(x) PROVE TypeOK'
  BY <1>27, TransferType DEF Send4Byte, Goto
<1>28. ASSUME NEW x \in XferEnds, ReadQuad(x) PROVE TypeOK'
  <2>1. cmd' \in [kind : Kinds, addr : Nat, off : Nat, len : Nat,
                 data : {<<>>} \cup {d.data : d \in Calls}]
    BY <1>28, CmdTypes DEF ReadQuad, Modify, Kinds, StatusKinds
  <2>2. ChipType' /\ faults' \in 0 .. MaxFaults
    BY <1>28, TransferType DEF ReadQuad
  <2> QED BY <1>28, <2>1, <2>2 DEF ReadQuad, Goto, Abandon, Return, Modify
<1>29. ASSUME NEW x \in XferEnds, VerifyQuad(x) PROVE TypeOK'
  BY <1>29, TransferType DEF VerifyQuad, Goto, Abandon, Return
<1>30. ASSUME NEW x \in XferEnds, FactoryInit(x) PROVE TypeOK'
  <2>1. cmd' \in [kind : Kinds, addr : Nat, off : Nat, len : Nat,
                 data : {<<>>} \cup {d.data : d \in Calls}]
    <3>1. \A kind \in {"wrsr3", "unlock"} :
            Cmd(kind) \in [kind : Kinds, addr : Nat, off : Nat, len : Nat,
                           data : {<<>>} \cup {d.data : d \in Calls}]
      BY CmdTypes DEF Kinds, StatusKinds
    <3>2. cmd' = cmd \/ \E kind \in {"wrsr3", "unlock"} : cmd' = Cmd(kind)
      BY <1>30 DEF FactoryInit, Modify
    <3> QED BY <3>1, <3>2
  <2>2. ChipType' /\ faults' \in 0 .. MaxFaults
    BY <1>30, TransferType DEF FactoryInit
  <2> QED BY <1>30, <2>1, <2>2 DEF FactoryInit, Goto, Abandon, Return, Modify
<1>31. ASSUME NEW x \in XferEnds, SendWren(x) PROVE TypeOK'
  BY <1>31, TransferType DEF SendWren, Goto, Abandon, Return
<1>32. ASSUME NEW x \in XferEnds, CheckWel(x) PROVE TypeOK'
  BY <1>32, TransferType DEF CheckWel, Goto, Abandon, Return
<1>33. ASSUME NEW x \in XferEnds, Issue(x) PROVE TypeOK'
  BY <1>33, TransferType DEF Issue, Goto, Abandon, Return
<1>34. ASSUME NEW x \in XferEnds, ReadPage(x) PROVE TypeOK'
  <2>1. ChipType' /\ faults' \in 0 .. MaxFaults
    BY <1>34, TransferType DEF ReadPage
  <2>2. CASE x = "ok"
    <3>1. Chunk \in Nat /\ Chunk <= len
      BY ChunkType
    <3>2. addr' \in Nat /\ buf' \in Nat /\ len' \in Nat
      BY <1>34, <2>2, <3>1, AdvanceType DEF ReadPage
    <3>3. DOMAIN rbuf = 0 .. buf - 1
      BY <1>34 DEF ReadPage, Flow, Loop
    <3>4. ASSUME NEW i \in 0 .. buf + Chunk - 1, i >= buf
          PROVE  Sensed((addr + (i - buf)) % TotalSize) \in Cell
      <4>1. (addr + (i - buf)) % TotalSize \in Addr
        BY <3>1, <3>4, ModRange, SizesAssumption DEF Addr
      <4> QED BY <4>1 DEF Sensed, ChipType, Cell
    <3>5. DOMAIN rbuf' \subseteq Nat /\ \A i \in DOMAIN rbuf' : rbuf'[i] \in Cell
      <4>1. rbuf' = [i \in 0 .. buf + Chunk - 1 |->
                       IF i < buf THEN rbuf[i] ELSE Sensed((addr + (i - buf)) % TotalSize)]
        BY <1>34, <2>2 DEF ReadPage
      <4>2. \A i \in 0 .. buf + Chunk - 1 : rbuf'[i] \in Cell
        <5> SUFFICES ASSUME NEW i \in 0 .. buf + Chunk - 1 PROVE rbuf'[i] \in Cell
          OBVIOUS
        <5>1. CASE i < buf
          BY <3>1, <3>3, <4>1, <5>1
        <5>2. CASE i >= buf
          BY <3>1, <3>4, <4>1, <5>2
        <5> QED BY <3>1, <5>1, <5>2
      <4> QED BY <3>1, <4>1, <4>2
    <3> QED BY <1>34, <2>1, <2>2, <3>2, <3>5 DEF ReadPage
  <2>3. CASE x # "ok"
    BY <1>34, <2>1, <2>3 DEF ReadPage, Abandon, Return
  <2> QED BY <2>2, <2>3
<1>35. CASE ChipFinish
  <2>1. ChipType'
    BY <1>35 DEF ChipFinish, Finish, ChipType
  <2> QED BY <1>35, <2>1 DEF ChipFinish, driver
<1> QED BY <1>0, <1>1, <1>2, <1>3, <1>4, <1>5, <1>6, <1>7, <1>8, <1>9, <1>10, <1>11, <1>12,
          <1>13, <1>14, <1>15, <1>16, <1>17, <1>18, <1>19, <1>20, <1>21, <1>22, <1>23, <1>24,
          <1>25, <1>26, <1>27, <1>28, <1>29, <1>30, <1>31, <1>32, <1>33, <1>34, <1>35
        DEF Next, Driver

\* Every step of the driver belongs to the call being served.
LEMMA FlowStep ==
  ASSUME TypeOK, Flow, [Next]_vars
  PROVE  Flow'
<1> USE DEF Flow, ScanPcs, WidePcs, ModifyPcs
<1>0. CASE UNCHANGED vars
  BY <1>0 DEF vars, driver, chip
<1>1. ASSUME NEW c \in Calls, Call(c) PROVE Flow'
  BY <1>1, CallsAssumption DEF Call, Goto, chip, Cmd, StatusKinds, ArrayKinds
<1>2. CASE NotReady
  BY <1>2 DEF NotReady, Goto, Abandon, Return, Modify, Cmd, AfterWide, NoCall, StatusKinds,
     ArrayKinds
<1>3. CASE InitAgain
  BY <1>3 DEF InitAgain, Goto, Abandon, Return, Modify, Cmd, AfterWide, NoCall, StatusKinds,
     ArrayKinds
<1>4. CASE InitSpi
  BY <1>4 DEF InitSpi, Goto, Abandon, Return, Modify, Cmd, AfterWide, NoCall, StatusKinds,
     ArrayKinds
<1>5. CASE WaitId
  BY <1>5 DEF WaitId, Goto, Abandon, Return, Modify, Cmd, AfterWide, NoCall, StatusKinds, ArrayKinds
<1>6. CASE Wait4Byte
  BY <1>6 DEF Wait4Byte, Goto, Abandon, Return, Modify, Cmd, AfterWide, NoCall, StatusKinds,
     ArrayKinds
<1>7. CASE Scanned4Byte
  BY <1>7 DEF Scanned4Byte, Goto, Abandon, Return, Modify, Cmd, AfterWide, NoCall,
     StatusKinds, ArrayKinds
<1>8. CASE NoFactoryInit
  BY <1>8 DEF NoFactoryInit, Goto, Abandon, Return, Modify, Cmd, AfterWide, NoCall,
     StatusKinds, ArrayKinds
<1>9. CASE Deinit
  BY <1>9 DEF Deinit, Goto, Abandon, Return, Modify, Cmd, AfterWide, NoCall, StatusKinds, ArrayKinds
<1>10. CASE DeinitDone
  BY <1>10 DEF DeinitDone, Goto, Abandon, Return, Modify, Cmd, AfterWide, NoCall,
     StatusKinds, ArrayKinds
<1>11. CASE WaitWren
  BY <1>11 DEF WaitWren, Goto, Abandon, Return, Modify, Cmd, AfterWide, NoCall, StatusKinds,
     ArrayKinds
<1>12. CASE SettleTimedOut
  BY <1>12 DEF SettleTimedOut, Goto, Abandon, Return, Modify, Cmd, AfterWide, NoCall,
     StatusKinds, ArrayKinds
<1>13. CASE InitSettled
  BY <1>13 DEF InitSettled, Goto, Abandon, Return, Modify, Cmd, AfterWide, NoCall,
     StatusKinds, ArrayKinds
<1>14. CASE WaitFirst
  BY <1>14 DEF WaitFirst, Goto, Abandon, Return, Modify, Cmd, AfterWide, NoCall,
     StatusKinds, ArrayKinds
<1>15. CASE LoopDone
  BY <1>15 DEF LoopDone, Goto, Abandon, Return, Modify, Cmd, AfterWide, NoCall, StatusKinds,
     ArrayKinds
<1>16. CASE ProgramPage
  BY <1>16 DEF ProgramPage, Goto, Abandon, Return, Modify, Cmd, AfterWide, NoCall,
     StatusKinds, ArrayKinds
<1>17. CASE PageSettled
  BY <1>17 DEF PageSettled, Goto, Abandon, Return, Modify, Cmd, AfterWide, NoCall,
     StatusKinds, ArrayKinds
<1>18. CASE EraseRefused
  BY <1>18 DEF EraseRefused, Goto, Abandon, Return, Modify, Cmd, AfterWide, NoCall,
     StatusKinds, ArrayKinds
<1>19. CASE EraseChip
  BY <1>19 DEF EraseChip, Goto, Abandon, Return, Modify, Cmd, AfterWide, NoCall,
     StatusKinds, ArrayKinds
<1>20. CASE EraseBegin
  BY <1>20 DEF EraseBegin, Goto, Abandon, Return, Modify, Cmd, AfterWide, NoCall,
     StatusKinds, ArrayKinds
<1>21. CASE EraseUnit
  BY <1>21 DEF EraseUnit, Goto, Abandon, Return, Modify, Cmd, AfterWide, NoCall,
     StatusKinds, ArrayKinds
<1>22. CASE UnitSettled
  BY <1>22 DEF UnitSettled, Goto, Abandon, Return, Modify, Cmd, AfterWide, NoCall,
     StatusKinds, ArrayKinds
<1>23. CASE ChipSettled
  BY <1>23 DEF ChipSettled, Goto, Abandon, Return, Modify, Cmd, AfterWide, NoCall,
     StatusKinds, ArrayKinds
<1>24. CASE EraseDone
  BY <1>24 DEF EraseDone, Goto, Abandon, Return, Modify, Cmd, AfterWide, NoCall,
     StatusKinds, ArrayKinds
<1>25. ASSUME NEW x \in XferEnds, SendReset(x) PROVE Flow'
  BY <1>25 DEF SendReset, Goto, Abandon, Return, Modify, Cmd, AfterWide, NoCall,
     StatusKinds, ArrayKinds
<1>26. ASSUME NEW x \in XferEnds, ReadId(x) PROVE Flow'
  BY <1>26 DEF ReadId, Goto, Abandon, Return, Modify, Cmd, AfterWide, NoCall, StatusKinds,
     ArrayKinds
<1>27. ASSUME NEW x \in XferEnds, Send4Byte(x) PROVE Flow'
  BY <1>27 DEF Send4Byte, Goto, Abandon, Return, Modify, Cmd, AfterWide, NoCall,
     StatusKinds, ArrayKinds
<1>28. ASSUME NEW x \in XferEnds, ReadQuad(x) PROVE Flow'
  BY <1>28 DEF ReadQuad, Goto, Abandon, Return, Modify, Cmd, AfterWide, NoCall, StatusKinds,
     ArrayKinds
<1>29. ASSUME NEW x \in XferEnds, VerifyQuad(x) PROVE Flow'
  BY <1>29 DEF VerifyQuad, Goto, Abandon, Return, Modify, Cmd, AfterWide, NoCall,
     StatusKinds, ArrayKinds
<1>30. ASSUME NEW x \in XferEnds, FactoryInit(x) PROVE Flow'
  BY <1>30 DEF FactoryInit, Goto, Abandon, Return, Modify, Cmd, AfterWide, NoCall,
     StatusKinds, ArrayKinds
<1>31. ASSUME NEW x \in XferEnds, SendWren(x) PROVE Flow'
  BY <1>31 DEF SendWren, Goto, Abandon, Return, Modify, Cmd, AfterWide, NoCall, StatusKinds,
     ArrayKinds
<1>32. ASSUME NEW x \in XferEnds, CheckWel(x) PROVE Flow'
  BY <1>32 DEF CheckWel, Goto, Abandon, Return, Modify, Cmd, AfterWide, NoCall, StatusKinds,
     ArrayKinds
<1>33. ASSUME NEW x \in XferEnds, Issue(x) PROVE Flow'
  BY <1>33 DEF Issue, Goto, Abandon, Return, Modify, Cmd, AfterWide, NoCall, StatusKinds, ArrayKinds
<1>34. ASSUME NEW x \in XferEnds, ReadPage(x) PROVE Flow'
  BY <1>34 DEF ReadPage, Goto, Abandon, Return, Modify, Cmd, AfterWide, NoCall, StatusKinds,
     ArrayKinds
<1>35. CASE ChipFinish
  BY <1>35 DEF ChipFinish, driver
<1> QED BY <1>0, <1>1, <1>2, <1>3, <1>4, <1>5, <1>6, <1>7, <1>8, <1>9, <1>10, <1>11, <1>12,
          <1>13, <1>14, <1>15, <1>16, <1>17, <1>18, <1>19, <1>20, <1>21, <1>22, <1>23, <1>24,
          <1>25, <1>26, <1>27, <1>28, <1>29, <1>30, <1>31, <1>32, <1>33, <1>34, <1>35
        DEF Next, Driver

\* What a loop has done and what it has left always add up to the call's length.
LEMMA LoopStep ==
  ASSUME TypeOK, Flow, Loop, [Next]_vars
  PROVE  Loop'
<1> USE DEF Loop, ModifyPcs
<1>a. addr \in Nat /\ buf \in Nat /\ len \in Nat
  BY DEF TypeOK
<1>0. CASE UNCHANGED vars
  BY <1>0 DEF vars, driver, chip
<1>1. ASSUME NEW c \in Calls, Call(c) PROVE Loop'
  <2>1. c.addr \in Nat /\ c.len \in Nat /\ c.fn \notin ModifyPcs
    BY CallsAssumption, SizesAssumption
  <2>2. buf' = 0 /\ len' = c.len /\ call' = c /\ rbuf' = <<>> /\ pc' \notin ModifyPcs
    BY <1>1, <2>1 DEF Call, Goto
  <2>3. DOMAIN rbuf' = 0 .. buf' - 1
    BY <2>2
  <2> QED BY <2>1, <2>2, <2>3
<1>2. CASE NotReady
  BY <1>2 DEF NotReady, Goto, Abandon, Return, Modify, Cmd, AfterWide, NoCall, StatusKinds,
     ArrayKinds, TypeOK, Flow, ScanPcs, WidePcs
<1>3. CASE InitAgain
  BY <1>3 DEF InitAgain, Goto, Abandon, Return, Modify, Cmd, AfterWide, NoCall, StatusKinds,
     ArrayKinds, TypeOK, Flow, ScanPcs, WidePcs
<1>4. CASE InitSpi
  BY <1>4 DEF InitSpi, Goto, Abandon, Return, Modify, Cmd, AfterWide, NoCall, StatusKinds,
     ArrayKinds, TypeOK, Flow, ScanPcs, WidePcs
<1>5. CASE WaitId
  BY <1>5 DEF WaitId, Goto, Abandon, Return, Modify, Cmd, AfterWide, NoCall, StatusKinds,
     ArrayKinds, TypeOK, Flow, ScanPcs, WidePcs
<1>6. CASE Wait4Byte
  BY <1>6 DEF Wait4Byte, Goto, Abandon, Return, Modify, Cmd, AfterWide, NoCall, StatusKinds,
     ArrayKinds, TypeOK, Flow, ScanPcs, WidePcs
<1>7. CASE Scanned4Byte
  BY <1>7 DEF Scanned4Byte, Goto, Abandon, Return, Modify, Cmd, AfterWide, NoCall,
     StatusKinds, ArrayKinds, TypeOK, Flow, ScanPcs, WidePcs
<1>8. CASE NoFactoryInit
  BY <1>8 DEF NoFactoryInit, Goto, Abandon, Return, Modify, Cmd, AfterWide, NoCall,
     StatusKinds, ArrayKinds, TypeOK, Flow, ScanPcs, WidePcs
<1>9. CASE Deinit
  BY <1>9 DEF Deinit, Goto, Abandon, Return, Modify, Cmd, AfterWide, NoCall, StatusKinds,
     ArrayKinds, TypeOK, Flow, ScanPcs, WidePcs
<1>10. CASE DeinitDone
  BY <1>10 DEF DeinitDone, Goto, Abandon, Return, Modify, Cmd, AfterWide, NoCall,
     StatusKinds, ArrayKinds, TypeOK, Flow, ScanPcs, WidePcs
<1>11. CASE WaitWren
  BY <1>11 DEF WaitWren, Goto, Abandon, Return, Modify, Cmd, AfterWide, NoCall, StatusKinds,
     ArrayKinds, TypeOK, Flow, ScanPcs, WidePcs
<1>12. CASE SettleTimedOut
  BY <1>12 DEF SettleTimedOut, Goto, Abandon, Return, Modify, Cmd, AfterWide, NoCall,
     StatusKinds, ArrayKinds, TypeOK, Flow, ScanPcs, WidePcs
<1>13. CASE InitSettled
  BY <1>13 DEF InitSettled, Goto, Abandon, Return, Modify, Cmd, AfterWide, NoCall,
     StatusKinds, ArrayKinds, TypeOK, Flow, ScanPcs, WidePcs
<1>14. CASE WaitFirst
  <2>1. call' \in {call, NoCall} /\ pc' \notin ModifyPcs /\ UNCHANGED <<buf, len, rbuf>>
    BY <1>14 DEF WaitFirst, Goto, Abandon, Return
  <2> QED BY <2>1 DEF NoCall
<1>15. CASE LoopDone
  BY <1>15 DEF LoopDone, Goto, Abandon, Return, Modify, Cmd, AfterWide, NoCall, StatusKinds,
     ArrayKinds, TypeOK, Flow, ScanPcs, WidePcs
<1>16. CASE ProgramPage
  <2>1. Chunk \in Nat /\ 0 < Chunk /\ Chunk <= len
    BY <1>a, <1>16, ChunkType DEF ProgramPage
  <2> QED BY <1>16, <2>1 DEF ProgramPage, Modify, Goto, Flow
<1>17. CASE PageSettled
  <2>1. cmd.len \in Nat /\ pc \in ModifyPcs /\ call.fn = "program"
    BY <1>17 DEF PageSettled, Flow, TypeOK, StatusKinds
  <2>2. buf' = buf + cmd.len /\ len' = len - cmd.len /\ call' = call /\ pc' = "prloop"
    BY <1>17 DEF PageSettled, Advance, Goto
  <2> QED BY <1>a, <2>1, <2>2
<1>18. CASE EraseRefused
  BY <1>18 DEF EraseRefused, Goto, Abandon, Return, Modify, Cmd, AfterWide, NoCall,
     StatusKinds, ArrayKinds, TypeOK, Flow, ScanPcs, WidePcs
<1>19. CASE EraseChip
  BY <1>19 DEF EraseChip, Goto, Abandon, Return, Modify, Cmd, AfterWide, NoCall,
     StatusKinds, ArrayKinds, TypeOK, Flow, ScanPcs, WidePcs
<1>20. CASE EraseBegin
  BY <1>20 DEF EraseBegin, Goto, Abandon, Return, Modify, Cmd, AfterWide, NoCall,
     StatusKinds, ArrayKinds, TypeOK, Flow, ScanPcs, WidePcs
<1>21. CASE EraseUnit
  <2>1. Unit \in Nat /\ 0 < Unit /\ Unit <= len
    BY <1>a, <1>21, UnitType DEF EraseUnit
  <2> QED BY <1>21, <2>1 DEF EraseUnit, Modify, Goto, Flow
<1>22. CASE UnitSettled
  <2>1. cmd.len \in Nat /\ pc \in ModifyPcs /\ call.fn = "erase"
    BY <1>22 DEF UnitSettled, Flow, TypeOK, StatusKinds
  <2>2. buf' = buf + cmd.len /\ len' = len - cmd.len /\ call' = call /\ pc' = "erloop"
    BY <1>22 DEF UnitSettled, Advance, Goto
  <2> QED BY <1>a, <2>1, <2>2
<1>23. CASE ChipSettled
  BY <1>23 DEF ChipSettled, Goto, Abandon, Return, Modify, Cmd, AfterWide, NoCall,
     StatusKinds, ArrayKinds, TypeOK, Flow, ScanPcs, WidePcs
<1>24. CASE EraseDone
  BY <1>24 DEF EraseDone, Goto, Abandon, Return, Modify, Cmd, AfterWide, NoCall,
     StatusKinds, ArrayKinds, TypeOK, Flow, ScanPcs, WidePcs
<1>25. ASSUME NEW x \in XferEnds, SendReset(x) PROVE Loop'
  BY <1>25 DEF SendReset, Goto, Abandon, Return, Modify, Cmd, AfterWide, NoCall,
     StatusKinds, ArrayKinds, TypeOK, Flow, ScanPcs, WidePcs
<1>26. ASSUME NEW x \in XferEnds, ReadId(x) PROVE Loop'
  BY <1>26 DEF ReadId, Goto, Abandon, Return, Modify, Cmd, AfterWide, NoCall, StatusKinds,
     ArrayKinds, TypeOK, Flow, ScanPcs, WidePcs
<1>27. ASSUME NEW x \in XferEnds, Send4Byte(x) PROVE Loop'
  BY <1>27 DEF Send4Byte, Goto, Abandon, Return, Modify, Cmd, AfterWide, NoCall,
     StatusKinds, ArrayKinds, TypeOK, Flow, ScanPcs, WidePcs
<1>28. ASSUME NEW x \in XferEnds, ReadQuad(x) PROVE Loop'
  BY <1>28 DEF ReadQuad, Goto, Abandon, Return, Modify, Cmd, AfterWide, NoCall, StatusKinds,
     ArrayKinds, TypeOK, Flow, ScanPcs, WidePcs
<1>29. ASSUME NEW x \in XferEnds, VerifyQuad(x) PROVE Loop'
  BY <1>29 DEF VerifyQuad, Goto, Abandon, Return, Modify, Cmd, AfterWide, NoCall,
     StatusKinds, ArrayKinds, TypeOK, Flow, ScanPcs, WidePcs
<1>30. ASSUME NEW x \in XferEnds, FactoryInit(x) PROVE Loop'
  BY <1>30 DEF FactoryInit, Goto, Abandon, Return, Modify, Cmd, AfterWide, NoCall,
     StatusKinds, ArrayKinds, TypeOK, Flow, ScanPcs, WidePcs
<1>31. ASSUME NEW x \in XferEnds, SendWren(x) PROVE Loop'
  BY <1>31 DEF SendWren, Goto, Abandon, Return, Modify, Cmd, AfterWide, NoCall, StatusKinds,
     ArrayKinds, TypeOK, Flow, ScanPcs, WidePcs
<1>32. ASSUME NEW x \in XferEnds, CheckWel(x) PROVE Loop'
  BY <1>32 DEF CheckWel, Goto, Abandon, Return, Modify, Cmd, AfterWide, NoCall, StatusKinds,
     ArrayKinds, TypeOK, Flow, ScanPcs, WidePcs
<1>33. ASSUME NEW x \in XferEnds, Issue(x) PROVE Loop'
  BY <1>33 DEF Issue, Goto, Abandon, Return, Modify, Cmd, AfterWide, NoCall, StatusKinds,
     ArrayKinds, TypeOK, Flow, ScanPcs, WidePcs
<1>34. ASSUME NEW x \in XferEnds, ReadPage(x) PROVE Loop'
  <2>1. Chunk \in Nat /\ call.fn = "read" /\ pc \notin ModifyPcs
    BY <1>a, <1>34, ChunkType DEF ReadPage, Flow
  <2>2. CASE x = "ok"
    <3>1. /\ rbuf' = [i \in 0 .. buf + Chunk - 1 |->
                       IF i < buf THEN rbuf[i] ELSE Sensed((addr + (i - buf)) % TotalSize)]
          /\ buf' = buf + Chunk /\ len' = len - Chunk /\ call' = call /\ pc' = pc
      BY <1>34, <2>2 DEF ReadPage, Advance
    <3>2. DOMAIN rbuf' = 0 .. buf' - 1
      BY <1>a, <2>1, <3>1
    <3> QED BY <1>a, <2>1, <3>1, <3>2
  <2>3. CASE x # "ok"
    BY <1>34, <2>1, <2>3 DEF ReadPage, Abandon, Return, NoCall
  <2> QED BY <2>2, <2>3
<1>35. CASE ChipFinish
  BY <1>35 DEF ChipFinish, driver
<1> QED BY <1>0, <1>1, <1>2, <1>3, <1>4, <1>5, <1>6, <1>7, <1>8, <1>9, <1>10, <1>11, <1>12,
          <1>13, <1>14, <1>15, <1>16, <1>17, <1>18, <1>19, <1>20, <1>21, <1>22, <1>23, <1>24,
          <1>25, <1>26, <1>27, <1>28, <1>29, <1>30, <1>31, <1>32, <1>33, <1>34, <1>35
        DEF Next, Driver

\* The chip stays idle between a wait that saw it idle and the next command sent to it.
LEMMA QuietStep ==
  ASSUME TypeOK, Flow, Quiet, [Next]_vars
  PROVE  Quiet'
<1> USE DEF Quiet
<1>0. CASE UNCHANGED vars
  BY <1>0 DEF vars, driver, chip
<1>1. ASSUME NEW c \in Calls, Call(c) PROVE Quiet'
  BY <1>1, CallsAssumption DEF Call, Goto, chip, Cmd, StatusKinds, ArrayKinds
<1>2. CASE NotReady
  BY <1>2 DEF NotReady, Goto, Abandon, Return, Modify, Cmd, AfterWide, NoCall, StatusKinds,
     ArrayKinds, chip, Ready, TimedOut, Transfer, ReadTransfer, Flow, ModifyPcs, ScanPcs
<1>3. CASE InitAgain
  BY <1>3 DEF InitAgain, Goto, Abandon, Return, Modify, Cmd, AfterWide, NoCall, StatusKinds,
     ArrayKinds, chip, Ready, TimedOut, Transfer, ReadTransfer, Flow, ModifyPcs, ScanPcs
<1>4. CASE InitSpi
  BY <1>4 DEF InitSpi, Goto, Abandon, Return, Modify, Cmd, AfterWide, NoCall, StatusKinds,
     ArrayKinds, chip, Ready, TimedOut, Transfer, ReadTransfer, Flow, ModifyPcs, ScanPcs
<1>5. CASE WaitId
  BY <1>5 DEF WaitId, Goto, Abandon, Return, Modify, Cmd, AfterWide, NoCall, StatusKinds,
     ArrayKinds, chip, Ready, TimedOut, Transfer, ReadTransfer, Flow, ModifyPcs, ScanPcs
<1>6. CASE Wait4Byte
  BY <1>6 DEF Wait4Byte, Goto, Abandon, Return, Modify, Cmd, AfterWide, NoCall, StatusKinds,
     ArrayKinds, chip, Ready, TimedOut, Transfer, ReadTransfer, Flow, ModifyPcs, ScanPcs
<1>7. CASE Scanned4Byte
  BY <1>7 DEF Scanned4Byte, Goto, Abandon, Return, Modify, Cmd, AfterWide, NoCall,
     StatusKinds, ArrayKinds, chip, Ready, TimedOut, Transfer, ReadTransfer, Flow, ModifyPcs,
     ScanPcs
<1>8. CASE NoFactoryInit
  BY <1>8 DEF NoFactoryInit, Goto, Abandon, Return, Modify, Cmd, AfterWide, NoCall,
     StatusKinds, ArrayKinds, chip, Ready, TimedOut, Transfer, ReadTransfer, Flow, ModifyPcs,
     ScanPcs
<1>9. CASE Deinit
  BY <1>9 DEF Deinit, Goto, Abandon, Return, Modify, Cmd, AfterWide, NoCall, StatusKinds,
     ArrayKinds, chip, Ready, TimedOut, Transfer, ReadTransfer, Flow, ModifyPcs, ScanPcs
<1>10. CASE DeinitDone
  BY <1>10 DEF DeinitDone, Goto, Abandon, Return, Modify, Cmd, AfterWide, NoCall,
     StatusKinds, ArrayKinds, chip, Ready, TimedOut, Transfer, ReadTransfer, Flow, ModifyPcs,
     ScanPcs
<1>11. CASE WaitWren
  BY <1>11 DEF WaitWren, Goto, Abandon, Return, Modify, Cmd, AfterWide, NoCall, StatusKinds,
     ArrayKinds, chip, Ready, TimedOut, Transfer, ReadTransfer, Flow, ModifyPcs, ScanPcs
<1>12. CASE SettleTimedOut
  BY <1>12 DEF SettleTimedOut, Goto, Abandon, Return, Modify, Cmd, AfterWide, NoCall,
     StatusKinds, ArrayKinds, chip, Ready, TimedOut, Transfer, ReadTransfer, Flow, ModifyPcs,
     ScanPcs
<1>13. CASE InitSettled
  BY <1>13 DEF InitSettled, Goto, Abandon, Return, Modify, Cmd, AfterWide, NoCall,
     StatusKinds, ArrayKinds, chip, Ready, TimedOut, Transfer, ReadTransfer, Flow, ModifyPcs,
     ScanPcs
<1>14. CASE WaitFirst
  <2>1. CASE Ready /\ Goto(IF pc = "read" THEN "rdloop" ELSE "prloop")
    BY <2>1 DEF Ready, Goto, chip
  <2>2. CASE TimedOut /\ Abandon("EBUSY")
    BY <2>2 DEF Abandon, Return
  <2> QED BY <1>14, <2>1, <2>2 DEF WaitFirst
<1>15. CASE LoopDone
  BY <1>15 DEF LoopDone, Goto, Abandon, Return, Modify, Cmd, AfterWide, NoCall, StatusKinds,
     ArrayKinds, chip, Ready, TimedOut, Transfer, ReadTransfer, Flow, ModifyPcs, ScanPcs
<1>16. CASE ProgramPage
  BY <1>16 DEF ProgramPage, Goto, Abandon, Return, Modify, Cmd, AfterWide, NoCall,
     StatusKinds, ArrayKinds, chip, Ready, TimedOut, Transfer, ReadTransfer, Flow, ModifyPcs,
     ScanPcs
<1>17. CASE PageSettled
  BY <1>17 DEF PageSettled, Goto, Abandon, Return, Modify, Cmd, AfterWide, NoCall,
     StatusKinds, ArrayKinds, chip, Ready, TimedOut, Transfer, ReadTransfer, Flow, ModifyPcs,
     ScanPcs
<1>18. CASE EraseRefused
  BY <1>18 DEF EraseRefused, Goto, Abandon, Return, Modify, Cmd, AfterWide, NoCall,
     StatusKinds, ArrayKinds, chip, Ready, TimedOut, Transfer, ReadTransfer, Flow, ModifyPcs,
     ScanPcs
<1>19. CASE EraseChip
  BY <1>19 DEF EraseChip, Goto, Abandon, Return, Modify, Cmd, AfterWide, NoCall,
     StatusKinds, ArrayKinds, chip, Ready, TimedOut, Transfer, ReadTransfer, Flow, ModifyPcs,
     ScanPcs
<1>20. CASE EraseBegin
  BY <1>20 DEF EraseBegin, Goto, Abandon, Return, Modify, Cmd, AfterWide, NoCall,
     StatusKinds, ArrayKinds, chip, Ready, TimedOut, Transfer, ReadTransfer, Flow, ModifyPcs,
     ScanPcs
<1>21. CASE EraseUnit
  BY <1>21 DEF EraseUnit, Goto, Abandon, Return, Modify, Cmd, AfterWide, NoCall,
     StatusKinds, ArrayKinds, chip, Ready, TimedOut, Transfer, ReadTransfer, Flow, ModifyPcs,
     ScanPcs
<1>22. CASE UnitSettled
  BY <1>22 DEF UnitSettled, Goto, Abandon, Return, Modify, Cmd, AfterWide, NoCall,
     StatusKinds, ArrayKinds, chip, Ready, TimedOut, Transfer, ReadTransfer, Flow, ModifyPcs,
     ScanPcs
<1>23. CASE ChipSettled
  BY <1>23 DEF ChipSettled, Goto, Abandon, Return, Modify, Cmd, AfterWide, NoCall,
     StatusKinds, ArrayKinds, chip, Ready, TimedOut, Transfer, ReadTransfer, Flow, ModifyPcs,
     ScanPcs
<1>24. CASE EraseDone
  BY <1>24 DEF EraseDone, Goto, Abandon, Return, Modify, Cmd, AfterWide, NoCall,
     StatusKinds, ArrayKinds, chip, Ready, TimedOut, Transfer, ReadTransfer, Flow, ModifyPcs,
     ScanPcs
<1>25. ASSUME NEW x \in XferEnds, SendReset(x) PROVE Quiet'
  BY <1>25 DEF SendReset, Goto, Abandon, Return, Modify, Cmd, AfterWide, NoCall,
     StatusKinds, ArrayKinds, chip, Ready, TimedOut, Transfer, ReadTransfer, Flow, ModifyPcs,
     ScanPcs
<1>26. ASSUME NEW x \in XferEnds, ReadId(x) PROVE Quiet'
  BY <1>26 DEF ReadId, Goto, Abandon, Return, Modify, Cmd, AfterWide, NoCall, StatusKinds,
     ArrayKinds, chip, Ready, TimedOut, Transfer, ReadTransfer, Flow, ModifyPcs, ScanPcs
<1>27. ASSUME NEW x \in XferEnds, Send4Byte(x) PROVE Quiet'
  BY <1>27 DEF Send4Byte, Goto, Abandon, Return, Modify, Cmd, AfterWide, NoCall,
     StatusKinds, ArrayKinds, chip, Ready, TimedOut, Transfer, ReadTransfer, Flow, ModifyPcs,
     ScanPcs
<1>28. ASSUME NEW x \in XferEnds, ReadQuad(x) PROVE Quiet'
  BY <1>28 DEF ReadQuad, Goto, Abandon, Return, Modify, Cmd, AfterWide, NoCall, StatusKinds,
     ArrayKinds, chip, Ready, TimedOut, Transfer, ReadTransfer, Flow, ModifyPcs, ScanPcs
<1>29. ASSUME NEW x \in XferEnds, VerifyQuad(x) PROVE Quiet'
  BY <1>29 DEF VerifyQuad, Goto, Abandon, Return, Modify, Cmd, AfterWide, NoCall,
     StatusKinds, ArrayKinds, chip, Ready, TimedOut, Transfer, ReadTransfer, Flow, ModifyPcs,
     ScanPcs
<1>30. ASSUME NEW x \in XferEnds, FactoryInit(x) PROVE Quiet'
  BY <1>30 DEF FactoryInit, Goto, Abandon, Return, Modify, Cmd, AfterWide, NoCall,
     StatusKinds, ArrayKinds, chip, Ready, TimedOut, Transfer, ReadTransfer, Flow, ModifyPcs,
     ScanPcs
<1>31. ASSUME NEW x \in XferEnds, SendWren(x) PROVE Quiet'
  BY <1>31 DEF SendWren, Goto, Abandon, Return, Modify, Cmd, AfterWide, NoCall, StatusKinds,
     ArrayKinds, chip, Ready, TimedOut, Transfer, ReadTransfer, Flow, ModifyPcs, ScanPcs
<1>32. ASSUME NEW x \in XferEnds, CheckWel(x) PROVE Quiet'
  BY <1>32 DEF CheckWel, Goto, Abandon, Return, Modify, Cmd, AfterWide, NoCall, StatusKinds,
     ArrayKinds, chip, Ready, TimedOut, Transfer, ReadTransfer, Flow, ModifyPcs, ScanPcs
<1>33. ASSUME NEW x \in XferEnds, Issue(x) PROVE Quiet'
  BY <1>33 DEF Issue, Goto, Abandon, Return, Modify, Cmd, AfterWide, NoCall, StatusKinds,
     ArrayKinds, chip, Ready, TimedOut, Transfer, ReadTransfer, Flow, ModifyPcs, ScanPcs
<1>34. ASSUME NEW x \in XferEnds, ReadPage(x) PROVE Quiet'
  BY <1>34 DEF ReadPage, Goto, Abandon, Return, Modify, Cmd, AfterWide, NoCall, StatusKinds,
     ArrayKinds, chip, Ready, TimedOut, Transfer, ReadTransfer, Flow, ModifyPcs, ScanPcs
<1>35. CASE ChipFinish
  BY <1>35 DEF ChipFinish, Finish, driver
<1> QED BY <1>0, <1>1, <1>2, <1>3, <1>4, <1>5, <1>6, <1>7, <1>8, <1>9, <1>10, <1>11, <1>12,
          <1>13, <1>14, <1>15, <1>16, <1>17, <1>18, <1>19, <1>20, <1>21, <1>22, <1>23, <1>24,
          <1>25, <1>26, <1>27, <1>28, <1>29, <1>30, <1>31, <1>32, <1>33, <1>34, <1>35
        DEF Next, Driver


\* No command but a reset takes the quad-enable bit or the unlocked state away.
LEMMA ReceiveKeeps ==
  ASSUME ChipType, NEW k, Receive(k)
  PROVE  /\ qe => qe'
         /\ prot' => prot \/ Locked
         /\ k.kind # "reset" /\ prot' => prot
BY DEF Receive, Ignore, Refuse, Start, StartStatus, WriteEnable, Enter4Byte, Reset,
       Abort, ResetUnseen, chip, ChipType

\* An idle chip with its latch set takes the unlock command.
LEMMA UnlockTaken ==
  ASSUME ChipType, ~wip, wel, prot => Locked, NEW k, k.kind = "unlock", Receive(k)
  PROVE  ~prot'
BY DEF Receive, Ignore, Refuse, Start, StartStatus, WriteEnable, Enter4Byte, Reset,
       Abort, ResetUnseen, chip, ChipType, ArrayKinds, StatusKinds

\* What nor_init has done to the chip stays done.
LEMMA SetupStep ==
  ASSUME TypeOK, Flow, Quiet, Setup, [Next]_vars
  PROVE  Setup'
<1> USE DEF Setup, ModifyPcs, WidePcs
<1>0. CASE UNCHANGED vars
  BY <1>0 DEF vars, driver, chip
<1>1. ASSUME NEW c \in Calls, Call(c) PROVE Setup'
  <2>1. c.fn \in {"init", "deinit", "read", "program", "erase"}
    BY CallsAssumption
  <2>2. pc' = c.fn /\ cmd'.kind = "none" /\ UNCHANGED <<chip, info, initOk>>
    BY <1>1 DEF Call, Goto, Cmd
  <2> QED BY <2>1, <2>2 DEF chip
<1>2. CASE NotReady
  BY <1>2 DEF NotReady, Goto, Abandon, Return, Modify, Cmd, AfterWide, NoCall, StatusKinds,
     ArrayKinds, chip, Ready, TimedOut, ReadTransfer, Flow, ScanPcs, InScan
<1>3. CASE InitAgain
  BY <1>3 DEF InitAgain, Goto, Abandon, Return, Modify, Cmd, AfterWide, NoCall, StatusKinds,
     ArrayKinds, chip, Ready, TimedOut, ReadTransfer, Flow, ScanPcs, InScan
<1>4. CASE InitSpi
  BY <1>4 DEF InitSpi, Goto, Abandon, Return, Modify, Cmd, AfterWide, NoCall, StatusKinds,
     ArrayKinds, chip, Ready, TimedOut, ReadTransfer, Flow, ScanPcs, InScan
<1>5. CASE WaitId
  BY <1>5 DEF WaitId, Goto, Abandon, Return, Modify, Cmd, AfterWide, NoCall, StatusKinds,
     ArrayKinds, chip, Ready, TimedOut, ReadTransfer, Flow, ScanPcs, InScan
<1>6. CASE Wait4Byte
  BY <1>6 DEF Wait4Byte, Goto, Abandon, Return, Modify, Cmd, AfterWide, NoCall, StatusKinds,
     ArrayKinds, chip, Ready, TimedOut, ReadTransfer, Flow, ScanPcs, InScan
<1>7. CASE Scanned4Byte
  BY <1>7 DEF Scanned4Byte, Goto, Abandon, Return, Modify, Cmd, AfterWide, NoCall,
     StatusKinds, ArrayKinds, chip, Ready, TimedOut, ReadTransfer, Flow, ScanPcs, InScan
<1>8. CASE NoFactoryInit
  BY <1>8 DEF NoFactoryInit, Goto, Abandon, Return, Modify, Cmd, AfterWide, NoCall,
     StatusKinds, ArrayKinds, chip, Ready, TimedOut, ReadTransfer, Flow, ScanPcs, InScan
<1>9. CASE Deinit
  BY <1>9 DEF Deinit, Goto, Abandon, Return, Modify, Cmd, AfterWide, NoCall, StatusKinds,
     ArrayKinds, chip, Ready, TimedOut, ReadTransfer, Flow, ScanPcs, InScan
<1>10. CASE DeinitDone
  BY <1>10 DEF DeinitDone, Goto, Abandon, Return, Modify, Cmd, AfterWide, NoCall,
     StatusKinds, ArrayKinds, chip, Ready, TimedOut, ReadTransfer, Flow, ScanPcs, InScan
<1>11. CASE WaitWren
  <2>1. UNCHANGED chip /\ pc \in ModifyPcs
    BY <1>11 DEF WaitWren, Ready, TimedOut
  <2>2. CASE Goto("wel") /\ UNCHANGED <<info, call, result, initOk>>
    BY <1>11, <2>1, <2>2 DEF WaitWren, Goto, chip
  <2>3. CASE Abandon("EBUSY")
    BY <1>11, <2>1, <2>3 DEF WaitWren, Abandon, Return, InScan, Flow, chip
  <2> QED BY <1>11, <2>2, <2>3 DEF WaitWren
<1>12. CASE SettleTimedOut
  BY <1>12 DEF SettleTimedOut, Goto, Abandon, Return, Modify, Cmd, AfterWide, NoCall,
     StatusKinds, ArrayKinds, chip, Ready, TimedOut, ReadTransfer, Flow, ScanPcs, InScan
<1>13. CASE InitSettled
  BY <1>13 DEF InitSettled, Goto, Abandon, Return, Modify, Cmd, AfterWide, NoCall,
     StatusKinds, ArrayKinds, chip, Ready, TimedOut, ReadTransfer, Flow, ScanPcs, InScan
<1>14. CASE WaitFirst
  <2>1. info /\ call.fn \in {"read", "program"} /\ UNCHANGED chip /\ pc' \in {"rdloop", "prloop", "idle"}
    BY <1>14 DEF WaitFirst, Ready, TimedOut, Goto, Abandon, Return, Flow
  <2>2. UNCHANGED <<info, initOk>> \/ pc' = "idle"
    BY <1>14 DEF WaitFirst, Goto, Abandon, Return
  <2>3. initOk' => info'
    BY <1>14, <2>1 DEF WaitFirst, Goto, Abandon, Return, InScan, Flow
  <2> QED BY <2>1, <2>2, <2>3 DEF chip
<1>15. CASE LoopDone
  BY <1>15 DEF LoopDone, Goto, Abandon, Return, Modify, Cmd, AfterWide, NoCall, StatusKinds,
     ArrayKinds, chip, Ready, TimedOut, ReadTransfer, Flow, ScanPcs, InScan
<1>16. CASE ProgramPage
  BY <1>16 DEF ProgramPage, Goto, Abandon, Return, Modify, Cmd, AfterWide, NoCall,
     StatusKinds, ArrayKinds, chip, Ready, TimedOut, ReadTransfer, Flow, ScanPcs, InScan
<1>17. CASE PageSettled
  BY <1>17 DEF PageSettled, Goto, Abandon, Return, Modify, Cmd, AfterWide, NoCall,
     StatusKinds, ArrayKinds, chip, Ready, TimedOut, ReadTransfer, Flow, ScanPcs, InScan
<1>18. CASE EraseRefused
  BY <1>18 DEF EraseRefused, Goto, Abandon, Return, Modify, Cmd, AfterWide, NoCall,
     StatusKinds, ArrayKinds, chip, Ready, TimedOut, ReadTransfer, Flow, ScanPcs, InScan
<1>19. CASE EraseChip
  BY <1>19 DEF EraseChip, Goto, Abandon, Return, Modify, Cmd, AfterWide, NoCall,
     StatusKinds, ArrayKinds, chip, Ready, TimedOut, ReadTransfer, Flow, ScanPcs, InScan
<1>20. CASE EraseBegin
  BY <1>20 DEF EraseBegin, Goto, Abandon, Return, Modify, Cmd, AfterWide, NoCall,
     StatusKinds, ArrayKinds, chip, Ready, TimedOut, ReadTransfer, Flow, ScanPcs, InScan
<1>21. CASE EraseUnit
  BY <1>21 DEF EraseUnit, Goto, Abandon, Return, Modify, Cmd, AfterWide, NoCall,
     StatusKinds, ArrayKinds, chip, Ready, TimedOut, ReadTransfer, Flow, ScanPcs, InScan
<1>22. CASE UnitSettled
  BY <1>22 DEF UnitSettled, Goto, Abandon, Return, Modify, Cmd, AfterWide, NoCall,
     StatusKinds, ArrayKinds, chip, Ready, TimedOut, ReadTransfer, Flow, ScanPcs, InScan
<1>23. CASE ChipSettled
  BY <1>23 DEF ChipSettled, Goto, Abandon, Return, Modify, Cmd, AfterWide, NoCall,
     StatusKinds, ArrayKinds, chip, Ready, TimedOut, ReadTransfer, Flow, ScanPcs, InScan
<1>24. CASE EraseDone
  BY <1>24 DEF EraseDone, Goto, Abandon, Return, Modify, Cmd, AfterWide, NoCall,
     StatusKinds, ArrayKinds, chip, Ready, TimedOut, ReadTransfer, Flow, ScanPcs, InScan
<1>25. ASSUME NEW x \in XferEnds, SendReset(x) PROVE Setup'
  <2>1. UNCHANGED chip \/ Receive(Cmd("reset"))
    BY <1>25 DEF SendReset, Transfer
  <2>2. (qe => qe') /\ (prot' => Locked) /\ (prot' => prot \/ pc = "reset")
    BY <1>25, <2>1, ReceiveKeeps DEF Cmd, chip, SendReset, TypeOK
  <2> QED BY <1>25, <2>2 DEF SendReset, Goto, Abandon, Return, InScan, Flow
<1>26. ASSUME NEW x \in XferEnds, ReadId(x) PROVE Setup'
  BY <1>26 DEF ReadId, Goto, Abandon, Return, Modify, Cmd, AfterWide, NoCall, StatusKinds,
     ArrayKinds, chip, Ready, TimedOut, ReadTransfer, Flow, ScanPcs, InScan
<1>27. ASSUME NEW x \in XferEnds, Send4Byte(x) PROVE Setup'
  <2>1. UNCHANGED chip \/ Receive(Cmd("en4b"))
    BY <1>27 DEF Send4Byte, Transfer
  <2>2. (qe => qe') /\ (prot' => Locked) /\ (prot' => prot \/ pc = "reset")
    BY <1>27, <2>1, ReceiveKeeps DEF Cmd, chip, Send4Byte, TypeOK
  <2> QED BY <1>27, <2>2 DEF Send4Byte, Goto, Abandon, Return, InScan, Flow
<1>28. ASSUME NEW x \in XferEnds, ReadQuad(x) PROVE Setup'
  <2>1. UNCHANGED chip /\ pc = "rdsr2" /\ call.fn = "init"
    BY <1>28 DEF ReadQuad, ReadTransfer, Flow, ScanPcs
  <2>2. CASE qe /\ Goto("factory") /\ UNCHANGED <<info, call, cmd, result, initOk>>
    BY <2>1, <2>2 DEF Goto, chip
  <2>3. CASE Modify(Cmd("wrsr2")) /\ UNCHANGED <<info, call, result, initOk>>
    BY <2>1, <2>3 DEF Modify, Goto, Cmd, chip
  <2>4. CASE Abandon("EIO")
    BY <2>1, <2>4 DEF Abandon, Return, chip
  <2> QED BY <1>28, <2>2, <2>3, <2>4 DEF ReadQuad
<1>29. ASSUME NEW x \in XferEnds, VerifyQuad(x) PROVE Setup'
  BY <1>29 DEF VerifyQuad, Goto, Abandon, Return, Modify, Cmd, AfterWide, NoCall,
     StatusKinds, ArrayKinds, chip, Ready, TimedOut, ReadTransfer, Flow, ScanPcs, InScan
<1>30. ASSUME NEW x \in XferEnds, FactoryInit(x) PROVE Setup'
  <2>1. UNCHANGED chip /\ pc = "factory" /\ call.fn = "init"
    BY <1>30 DEF FactoryInit, ReadTransfer, Flow, ScanPcs
  <2>2. ASSUME NEW kind \in {"wrsr3", "unlock"}, Modify(Cmd(kind)),
               UNCHANGED <<info, call, result, initOk>>
        PROVE  Setup'
    BY <2>1, <2>2 DEF Modify, Goto, Cmd, chip
  <2>3. CASE Abandon("EIO")
    BY <2>1, <2>3 DEF Abandon, Return, InScan, chip
  <2> QED BY <1>30, <2>2, <2>3 DEF FactoryInit
<1>31. ASSUME NEW x \in XferEnds, SendWren(x) PROVE Setup'
  <2>1. UNCHANGED chip \/ Receive(Cmd("wren"))
    BY <1>31 DEF SendWren, Transfer
  <2>2. (qe => qe') /\ (prot' => Locked) /\ (prot' => prot \/ pc = "reset")
    BY <1>31, <2>1, ReceiveKeeps DEF Cmd, chip, SendWren, TypeOK
  <2> QED BY <1>31, <2>2 DEF SendWren, Goto, Abandon, Return, InScan, Flow
<1>32. ASSUME NEW x \in XferEnds, CheckWel(x) PROVE Setup'
  BY <1>32 DEF CheckWel, Goto, Abandon, Return, Modify, Cmd, AfterWide, NoCall, StatusKinds,
     ArrayKinds, chip, Ready, TimedOut, ReadTransfer, Flow, ScanPcs, InScan
<1>33. ASSUME NEW x \in XferEnds, Issue(x) PROVE Setup'
  <2>1. UNCHANGED chip \/ Receive(cmd)
    BY <1>33 DEF Issue, Transfer
  <2>2. cmd.kind # "reset" /\ info /\ ~wip /\ wel
    BY <1>33 DEF Issue, Flow, Quiet, StatusKinds
  <2>3. (qe => qe') /\ (prot' => prot)
    <3>1. CASE UNCHANGED chip
      BY <3>1 DEF chip
    <3>2. CASE Receive(cmd)
      BY <2>2, <3>2, ReceiveKeeps DEF TypeOK
    <3> QED BY <2>1, <3>1, <3>2
  <2>4. CASE x = "ok"
    <3>1. cmd.kind = "unlock" => ~prot'
      BY <1>33, <2>2, <2>4, UnlockTaken DEF Issue, Transfer, TypeOK
    <3> QED BY <1>33, <2>2, <2>3, <2>4, <3>1 DEF Issue, Goto
  <2>5. CASE x # "ok"
    BY <1>33, <2>2, <2>3, <2>5 DEF Issue, Abandon, Return, InScan, Flow
  <2> QED BY <2>4, <2>5
<1>34. ASSUME NEW x \in XferEnds, ReadPage(x) PROVE Setup'
  BY <1>34 DEF ReadPage, Goto, Abandon, Return, Modify, Cmd, AfterWide, NoCall, StatusKinds,
     ArrayKinds, chip, Ready, TimedOut, ReadTransfer, Flow, ScanPcs, InScan
<1>35. CASE ChipFinish
  BY <1>35 DEF ChipFinish, Finish, driver
<1> QED BY <1>0, <1>1, <1>2, <1>3, <1>4, <1>5, <1>6, <1>7, <1>8, <1>9, <1>10, <1>11, <1>12,
          <1>13, <1>14, <1>15, <1>16, <1>17, <1>18, <1>19, <1>20, <1>21, <1>22, <1>23, <1>24,
          <1>25, <1>26, <1>27, <1>28, <1>29, <1>30, <1>31, <1>32, <1>33, <1>34, <1>35
        DEF Next, Driver

-----------------------------------------------------------------------------
(* The theorems.                                                           *)

LEMMA InvInit == Init => Inv
<1> SUFFICES ASSUME Init PROVE Inv
  OBVIOUS
<1> USE DEF Init
<1>1. TypeOK
  <2>1. mem \in [Addr -> Cell] /\ qe \in BOOLEAN
    BY PartAssumption
  <2>2. cmd \in [kind : Kinds, addr : Nat, off : Nat, len : Nat,
                data : {<<>>} \cup {c.data : c \in Calls}]
    BY CmdTypes DEF Kinds
  <2>3. DOMAIN rbuf = {}
    OBVIOUS
  <2>4. ChipType
    BY <2>1, PartAssumption DEF ChipType
  <2>5. calls \in 0 .. MaxCalls /\ faults \in 0 .. MaxFaults
    BY BoundsAssumption
  <2>6. DOMAIN rbuf \subseteq Nat /\ \A i \in DOMAIN rbuf : rbuf[i] \in Cell
    BY <2>3
  <2>7. goal \in [Addr -> Cell]
    BY <2>1
  <2> QED BY <2>2, <2>4, <2>5, <2>6, <2>7 DEF TypeOK, Labels, Answers
<1>2. Flow
  BY DEF Flow, ScanPcs, WidePcs, ModifyPcs, NoCall, Cmd
<1>3. Loop
  BY DEF Loop, ModifyPcs, NoCall
<1>4. Quiet
  BY DEF Quiet
<1>5. Setup
  BY ShippedAssumption DEF Setup, WidePcs, ModifyPcs
<1> QED BY <1>1, <1>2, <1>3, <1>4, <1>5 DEF Inv

LEMMA InvStep == Inv /\ [Next]_vars => Inv'
BY TypeStep, FlowStep, LoopStep, QuietStep, SetupStep DEF Inv

\* The inductive invariant holds in every reachable state.
THEOREM InvCorrect == Spec => []Inv
BY InvInit, InvStep, PTL DEF Spec

\* Every variable keeps its type: in particular the lengths of the read, program and
\* erase loops never wrap below zero.
THEOREM TypeCorrect == Spec => []TypeOK
<1>1. Inv => TypeOK
  BY DEF Inv
<1> QED BY <1>1, InvCorrect, PTL

\* A command that changes the chip goes out only to an idle, write-enabled chip.
THEOREM ArmedCorrect == Spec => []Armed
<1>1. Inv => Armed
  BY DEF Inv, Quiet, Armed
<1> QED BY <1>1, InvCorrect, PTL

\* No page is read and no program of a page is begun while an operation runs.
THEOREM QuietLoopsCorrect == Spec => []QuietLoops
<1>1. Inv => QuietLoops
  BY DEF Inv, Quiet, QuietLoops
<1> QED BY <1>1, InvCorrect, PTL


\* While the host calls only deinit after a failed initialisation, nor_init never finds
\* a chip it only half initialised.
LEMMA HostStep ==
  ASSUME HostObeysInit, Flow, Host, [Next]_vars
  PROVE  Host'
<1> USE DEF Host
<1>0. CASE UNCHANGED vars
  BY <1>0 DEF vars, driver
<1>1. ASSUME NEW c \in Calls, Call(c) PROVE Host'
  BY <1>1, CallsAssumption DEF Call, Goto
<1>2. CASE NotReady
  BY <1>2 DEF NotReady, Goto, Abandon, Return, Modify, AfterWide
<1>3. CASE InitAgain
  BY <1>3 DEF InitAgain, Return
<1>4. CASE InitSpi
  BY <1>4 DEF InitSpi, Goto, Abandon, Return, Modify, AfterWide
<1>5. CASE WaitId
  BY <1>5 DEF WaitId, Goto, Abandon, Return, Modify, AfterWide
<1>6. CASE Wait4Byte
  BY <1>6 DEF Wait4Byte, Goto, Abandon, Return, Modify, AfterWide
<1>7. CASE Scanned4Byte
  BY <1>7 DEF Scanned4Byte, Goto, Abandon, Return, Modify, AfterWide
<1>8. CASE NoFactoryInit
  BY <1>8 DEF NoFactoryInit, Goto, Abandon, Return, Modify, AfterWide
<1>9. CASE Deinit
  BY <1>9 DEF Deinit, Goto, Abandon, Return, Modify, AfterWide
<1>10. CASE DeinitDone
  BY <1>10 DEF DeinitDone, Goto, Abandon, Return, Modify, AfterWide
<1>11. CASE WaitWren
  BY <1>11 DEF WaitWren, Goto, Abandon, Return, Modify, AfterWide
<1>12. CASE SettleTimedOut
  BY <1>12 DEF SettleTimedOut, Goto, Abandon, Return, Modify, AfterWide
<1>13. CASE InitSettled
  BY <1>13 DEF InitSettled, Goto, Abandon, Return, Modify, AfterWide
<1>14. CASE WaitFirst
  BY <1>14 DEF WaitFirst, Goto, Abandon, Return
<1>15. CASE LoopDone
  BY <1>15 DEF LoopDone, Goto, Abandon, Return, Modify, AfterWide
<1>16. CASE ProgramPage
  BY <1>16 DEF ProgramPage, Goto, Abandon, Return, Modify, AfterWide
<1>17. CASE PageSettled
  BY <1>17 DEF PageSettled, Goto, Abandon, Return, Modify, AfterWide
<1>18. CASE EraseRefused
  BY <1>18 DEF EraseRefused, Goto, Abandon, Return, Modify, AfterWide
<1>19. CASE EraseChip
  BY <1>19 DEF EraseChip, Goto, Abandon, Return, Modify, AfterWide
<1>20. CASE EraseBegin
  BY <1>20 DEF EraseBegin, Goto, Abandon, Return, Modify, AfterWide
<1>21. CASE EraseUnit
  BY <1>21 DEF EraseUnit, Goto, Abandon, Return, Modify, AfterWide
<1>22. CASE UnitSettled
  BY <1>22 DEF UnitSettled, Goto, Abandon, Return, Modify, AfterWide
<1>23. CASE ChipSettled
  BY <1>23 DEF ChipSettled, Goto, Abandon, Return, Modify, AfterWide
<1>24. CASE EraseDone
  BY <1>24 DEF EraseDone, Goto, Abandon, Return, Modify, AfterWide
<1>25. ASSUME NEW x \in XferEnds, SendReset(x) PROVE Host'
  BY <1>25 DEF SendReset, Goto, Abandon, Return, Modify, AfterWide
<1>26. ASSUME NEW x \in XferEnds, ReadId(x) PROVE Host'
  BY <1>26 DEF ReadId, Goto, Abandon, Return, Modify, AfterWide
<1>27. ASSUME NEW x \in XferEnds, Send4Byte(x) PROVE Host'
  BY <1>27 DEF Send4Byte, Goto, Abandon, Return, Modify, AfterWide
<1>28. ASSUME NEW x \in XferEnds, ReadQuad(x) PROVE Host'
  BY <1>28 DEF ReadQuad, Goto, Abandon, Return, Modify, AfterWide
<1>29. ASSUME NEW x \in XferEnds, VerifyQuad(x) PROVE Host'
  BY <1>29 DEF VerifyQuad, Goto, Abandon, Return, Modify, AfterWide
<1>30. ASSUME NEW x \in XferEnds, FactoryInit(x) PROVE Host'
  BY <1>30 DEF FactoryInit, Goto, Abandon, Return, Modify, AfterWide
<1>31. ASSUME NEW x \in XferEnds, SendWren(x) PROVE Host'
  BY <1>31 DEF SendWren, Goto, Abandon, Return, Modify, AfterWide
<1>32. ASSUME NEW x \in XferEnds, CheckWel(x) PROVE Host'
  BY <1>32 DEF CheckWel, Goto, Abandon, Return, Modify, AfterWide
<1>33. ASSUME NEW x \in XferEnds, Issue(x) PROVE Host'
  BY <1>33 DEF Issue, Goto, Abandon, Return, Modify, AfterWide
<1>34. ASSUME NEW x \in XferEnds, ReadPage(x) PROVE Host'
  BY <1>34 DEF ReadPage, Goto, Abandon, Return, Modify, AfterWide
<1>35. CASE ChipFinish
  BY <1>35 DEF ChipFinish, driver
<1> QED BY <1>0, <1>1, <1>2, <1>3, <1>4, <1>5, <1>6, <1>7, <1>8, <1>9, <1>10, <1>11, <1>12, <1>13, <1>14, <1>15, <1>16, <1>17, <1>18, <1>19, <1>20, <1>21, <1>22, <1>23, <1>24, <1>25, <1>26, <1>27, <1>28, <1>29, <1>30, <1>31, <1>32, <1>33, <1>34, <1>35 DEF Next, Driver


\* An initialised chip stays usable, as long as nor_init finds no chip half initialised.
LEMMA UsableStep ==
  ASSUME Inv, Host, UsableWhenInit, [Next]_vars
  PROVE  UsableWhenInit'
<1> USE DEF UsableWhenInit
<1>0. CASE UNCHANGED vars
  BY <1>0 DEF vars, driver, chip
<1>1. ASSUME NEW c \in Calls, Call(c) PROVE UsableWhenInit'
  BY <1>1 DEF Call, chip
<1>2. CASE NotReady
  BY <1>2 DEF NotReady, Goto, Abandon, Return, Modify, AfterWide, chip, Ready, TimedOut,
     ReadTransfer, Inv, Setup, InScan
<1>3. CASE InitAgain
  BY <1>3 DEF InitAgain, Host, chip
<1>4. CASE InitSpi
  BY <1>4 DEF InitSpi, Goto, Abandon, Return, Modify, AfterWide, chip, Ready, TimedOut,
     ReadTransfer, Inv, Setup, InScan
<1>5. CASE WaitId
  BY <1>5 DEF WaitId, Goto, Abandon, Return, Modify, AfterWide, chip, Ready, TimedOut,
     ReadTransfer, Inv, Setup, InScan
<1>6. CASE Wait4Byte
  BY <1>6 DEF Wait4Byte, Goto, Abandon, Return, Modify, AfterWide, chip, Ready, TimedOut,
     ReadTransfer, Inv, Setup, InScan
<1>7. CASE Scanned4Byte
  BY <1>7 DEF Scanned4Byte, Goto, Abandon, Return, Modify, AfterWide, chip, Ready, TimedOut,
     ReadTransfer, Inv, Setup, InScan
<1>8. CASE NoFactoryInit
  BY <1>8 DEF NoFactoryInit, Goto, Abandon, Return, Modify, AfterWide, chip, Ready,
     TimedOut, ReadTransfer, Inv, Setup, InScan
<1>9. CASE Deinit
  BY <1>9 DEF Deinit, Goto, Abandon, Return, Modify, AfterWide, chip, Ready, TimedOut,
     ReadTransfer, Inv, Setup, InScan
<1>10. CASE DeinitDone
  BY <1>10 DEF DeinitDone, Goto, Abandon, Return, Modify, AfterWide, chip, Ready, TimedOut,
     ReadTransfer, Inv, Setup, InScan
<1>11. CASE WaitWren
  BY <1>11 DEF WaitWren, Goto, Abandon, Return, Modify, AfterWide, chip, Ready, TimedOut,
     ReadTransfer, Inv, Setup, InScan
<1>12. CASE SettleTimedOut
  BY <1>12 DEF SettleTimedOut, Goto, Abandon, Return, Modify, AfterWide, chip, Ready,
     TimedOut, ReadTransfer, Inv, Setup, InScan
<1>13. CASE InitSettled
  <2>1. UNCHANGED chip
    BY <1>13 DEF InitSettled, Ready
  <2>2. CASE cmd.kind = "unlock"
    BY <1>13, <2>1, <2>2 DEF InitSettled, Inv, Setup, ModifyPcs, chip
  <2>3. CASE cmd.kind # "unlock"
    BY <1>13, <2>1, <2>3 DEF InitSettled, chip
  <2> QED BY <2>2, <2>3
<1>14. CASE WaitFirst
  <2>1. UNCHANGED chip /\ info /\ call.fn # "init"
    BY <1>14 DEF WaitFirst, Ready, TimedOut, Inv, Flow
  <2>2. initOk' => initOk
    BY <1>14, <2>1 DEF WaitFirst, Abandon
  <2> QED BY <2>1, <2>2 DEF chip
<1>15. CASE LoopDone
  BY <1>15 DEF LoopDone, Goto, Abandon, Return, Modify, AfterWide, chip, Ready, TimedOut,
     ReadTransfer, Inv, Setup, InScan
<1>16. CASE ProgramPage
  BY <1>16 DEF ProgramPage, Goto, Abandon, Return, Modify, AfterWide, chip, Ready, TimedOut,
     ReadTransfer, Inv, Setup, InScan
<1>17. CASE PageSettled
  BY <1>17 DEF PageSettled, Goto, Abandon, Return, Modify, AfterWide, chip, Ready, TimedOut,
     ReadTransfer, Inv, Setup, InScan
<1>18. CASE EraseRefused
  BY <1>18 DEF EraseRefused, Goto, Abandon, Return, Modify, AfterWide, chip, Ready,
     TimedOut, ReadTransfer, Inv, Setup, InScan
<1>19. CASE EraseChip
  BY <1>19 DEF EraseChip, Goto, Abandon, Return, Modify, AfterWide, chip, Ready, TimedOut,
     ReadTransfer, Inv, Setup, InScan
<1>20. CASE EraseBegin
  BY <1>20 DEF EraseBegin, Goto, Abandon, Return, Modify, AfterWide, chip, Ready, TimedOut,
     ReadTransfer, Inv, Setup, InScan
<1>21. CASE EraseUnit
  BY <1>21 DEF EraseUnit, Goto, Abandon, Return, Modify, AfterWide, chip, Ready, TimedOut,
     ReadTransfer, Inv, Setup, InScan
<1>22. CASE UnitSettled
  BY <1>22 DEF UnitSettled, Goto, Abandon, Return, Modify, AfterWide, chip, Ready, TimedOut,
     ReadTransfer, Inv, Setup, InScan
<1>23. CASE ChipSettled
  BY <1>23 DEF ChipSettled, Goto, Abandon, Return, Modify, AfterWide, chip, Ready, TimedOut,
     ReadTransfer, Inv, Setup, InScan
<1>24. CASE EraseDone
  BY <1>24 DEF EraseDone, Goto, Abandon, Return, Modify, AfterWide, chip, Ready, TimedOut,
     ReadTransfer, Inv, Setup, InScan
<1>25. ASSUME NEW x \in XferEnds, SendReset(x) PROVE UsableWhenInit'
  <2>1. UNCHANGED chip \/ Receive(Cmd("reset"))
    BY <1>25 DEF SendReset, Transfer
  <2>2. (qe => qe') /\ (prot' => prot \/ pc = "reset")
    BY <1>25, <2>1, ReceiveKeeps DEF Cmd, chip, SendReset, Inv, TypeOK
  <2> QED BY <1>25, <2>2 DEF SendReset, Goto, Abandon, Return, Inv, Setup
<1>26. ASSUME NEW x \in XferEnds, ReadId(x) PROVE UsableWhenInit'
  BY <1>26 DEF ReadId, Goto, Abandon, Return, Modify, AfterWide, chip, Ready, TimedOut,
     ReadTransfer, Inv, Setup, InScan
<1>27. ASSUME NEW x \in XferEnds, Send4Byte(x) PROVE UsableWhenInit'
  <2>1. UNCHANGED chip \/ Receive(Cmd("en4b"))
    BY <1>27 DEF Send4Byte, Transfer
  <2>2. (qe => qe') /\ (prot' => prot \/ pc = "reset")
    BY <1>27, <2>1, ReceiveKeeps DEF Cmd, chip, Send4Byte, Inv, TypeOK
  <2> QED BY <1>27, <2>2 DEF Send4Byte, Goto, Abandon, Return, Inv, Setup
<1>28. ASSUME NEW x \in XferEnds, ReadQuad(x) PROVE UsableWhenInit'
  BY <1>28 DEF ReadQuad, Goto, Abandon, Return, Modify, AfterWide, chip, Ready, TimedOut,
     ReadTransfer, Inv, Setup, InScan
<1>29. ASSUME NEW x \in XferEnds, VerifyQuad(x) PROVE UsableWhenInit'
  BY <1>29 DEF VerifyQuad, Goto, Abandon, Return, Modify, AfterWide, chip, Ready, TimedOut,
     ReadTransfer, Inv, Setup, InScan
<1>30. ASSUME NEW x \in XferEnds, FactoryInit(x) PROVE UsableWhenInit'
  BY <1>30 DEF FactoryInit, Goto, Abandon, Return, Modify, AfterWide, chip, Ready, TimedOut,
     ReadTransfer, Inv, Setup, InScan
<1>31. ASSUME NEW x \in XferEnds, SendWren(x) PROVE UsableWhenInit'
  <2>1. UNCHANGED chip \/ Receive(Cmd("wren"))
    BY <1>31 DEF SendWren, Transfer
  <2>2. (qe => qe') /\ (prot' => prot \/ pc = "reset")
    BY <1>31, <2>1, ReceiveKeeps DEF Cmd, chip, SendWren, Inv, TypeOK
  <2> QED BY <1>31, <2>2 DEF SendWren, Goto, Abandon, Return, Inv, Setup
<1>32. ASSUME NEW x \in XferEnds, CheckWel(x) PROVE UsableWhenInit'
  BY <1>32 DEF CheckWel, Goto, Abandon, Return, Modify, AfterWide, chip, Ready, TimedOut,
     ReadTransfer, Inv, Setup, InScan
<1>33. ASSUME NEW x \in XferEnds, Issue(x) PROVE UsableWhenInit'
  <2>1. UNCHANGED chip \/ Receive(cmd)
    BY <1>33 DEF Issue, Transfer
  <2>2. cmd.kind # "reset"
    BY <1>33 DEF Issue, Inv, Flow, ModifyPcs, StatusKinds
  <2>3. (qe => qe') /\ (prot' => prot)
    <3>1. CASE UNCHANGED chip
      BY <3>1 DEF chip
    <3>2. CASE Receive(cmd)
      BY <2>2, <3>2, ReceiveKeeps DEF Inv, TypeOK
    <3> QED BY <2>1, <3>1, <3>2
  <2> QED BY <1>33, <2>3 DEF Issue, Goto, Abandon, Return
<1>34. ASSUME NEW x \in XferEnds, ReadPage(x) PROVE UsableWhenInit'
  BY <1>34 DEF ReadPage, Goto, Abandon, Return, Modify, AfterWide, chip, Ready, TimedOut,
     ReadTransfer, Inv, Setup, InScan
<1>35. CASE ChipFinish
  BY <1>35 DEF ChipFinish, Finish, driver
<1> QED BY <1>0, <1>1, <1>2, <1>3, <1>4, <1>5, <1>6, <1>7, <1>8, <1>9, <1>10, <1>11, <1>12,
          <1>13, <1>14, <1>15, <1>16, <1>17, <1>18, <1>19, <1>20, <1>21, <1>22, <1>23, <1>24,
          <1>25, <1>26, <1>27, <1>28, <1>29, <1>30, <1>31, <1>32, <1>33, <1>34, <1>35
        DEF Next, Driver


\* After a nor_init that returned 0 and until nor_deinit, no block is protected and the
\* quad commands are enabled, provided nothing but deinit follows a failed init.
THEOREM UsableCorrect ==
  ASSUME HostObeysInit
  PROVE  Spec => []UsableWhenInit
<1>1. Init => Host /\ UsableWhenInit
  BY DEF Init, Host, UsableWhenInit
<1>2. Inv /\ Host /\ UsableWhenInit /\ [Next]_vars => Host' /\ UsableWhenInit'
  BY HostStep, UsableStep DEF Inv
<1> QED BY <1>1, <1>2, InvCorrect, PTL DEF Spec

-----------------------------------------------------------------------------
(* Every call winds down.                                                  *)

\* The steps left at each label.
StepsKnown ==
  /\ pc = "idle" => StepsLeft = 0
  /\ pc = "init" => StepsLeft = 25
  /\ pc = "reset" => StepsLeft = 24
  /\ pc = "idwait" => StepsLeft = 23
  /\ pc \in {"deinit", "rdid"} => StepsLeft = 22
  /\ pc = "en4b" => StepsLeft = 21
  /\ pc = "en4bwait" => StepsLeft = 20
  /\ pc = "en4bdone" => StepsLeft = 19
  /\ pc = "rdsr2" => StepsLeft = 18
  /\ pc = "vfysr2" => StepsLeft = 12
  /\ pc = "factory" => StepsLeft = 11
  /\ pc = "wren" => StepsLeft = 5 + StepsAfter
  /\ pc = "wrenwait" => StepsLeft = 4 + StepsAfter
  /\ pc = "wel" => StepsLeft = 3 + StepsAfter
  /\ pc = "issue" => StepsLeft = 2 + StepsAfter
  /\ pc = "settle" => StepsLeft = 1 + StepsAfter
  /\ pc \in {"rdloop", "prloop", "erloop"} => StepsLeft = LoopSteps(len)
  /\ pc \in {"read", "program", "erase"} => StepsLeft = LoopSteps(len) + 1

LEMMA StepsAre == StepsKnown /\ StepsKnown'
<1>1. StepsKnown
  BY DEF StepsKnown, StepsLeft, InitSteps, ModifySteps
<1>2. StepsKnown'
  BY DEF StepsKnown, StepsLeft, InitSteps, ModifySteps
<1> QED BY <1>1, <1>2

\* A loop that moves on by n bytes has at least six steps less to take.
FewerSteps(l, n) ==
  /\ LoopSteps(l - n) \in Nat /\ LoopSteps(l - 1) \in Nat
  /\ LoopSteps(l - n) <= LoopSteps(l - 1)
  /\ LoopSteps(l) = LoopSteps(l - 1) + 6

LEMMA LoopLess ==
  ASSUME NEW l \in Nat, NEW n \in Nat, n > 0, n <= l
  PROVE  FewerSteps(l, n)
BY DEF LoopSteps, FewerSteps

\* What follows a modification.
AfterKnown ==
  /\ cmd.kind = "wrsr2" => StepsAfter = 12
  /\ cmd.kind = "wrsr3" => StepsAfter = 5
  /\ cmd.kind \in {"unlock", "chip"} => StepsAfter = 0
  /\ cmd.kind \in {"program", "erase"} => StepsAfter = LoopSteps(len - 1)

LEMMA AfterAre == AfterKnown /\ AfterKnown'
<1>1. AfterKnown
  BY DEF AfterKnown, StepsAfter, InitSteps, ModifySteps
<1>2. AfterKnown'
  BY DEF AfterKnown, StepsAfter, InitSteps, ModifySteps
<1> QED BY <1>1, <1>2

LEMMA AfterNat ==
  ASSUME Inv, pc \in ModifyPcs
  PROVE  StepsAfter \in Nat
<1>1. len \in Nat
  BY DEF Inv, TypeOK
<1>2. /\ cmd.kind \in StatusKinds \cup ArrayKinds
      /\ cmd.kind \in {"program", "erase"} => len > 0
  BY <1>1 DEF Inv, Flow, Loop, TypeOK, ArrayKinds
<1>3. cmd.kind \in {"program", "erase"} => LoopSteps(len - 1) \in Nat
  BY <1>1, <1>2 DEF LoopSteps
<1> QED BY <1>2, <1>3, AfterAre DEF AfterKnown, StatusKinds, ArrayKinds

\* During a call there are steps left.
Positive == Inv /\ pc # "idle" => StepsLeft \in Nat /\ StepsLeft > 0

LEMMA StepsPositive == Positive
<1> SUFFICES ASSUME Inv, pc # "idle"
             PROVE  StepsLeft \in Nat /\ StepsLeft > 0
  BY DEF Positive
<1>1. len \in Nat /\ pc \in Labels
  BY DEF Inv, TypeOK
<1>2. LoopSteps(len) \in Nat /\ LoopSteps(len) > 0
  BY <1>1 DEF LoopSteps
<1>3. CASE pc \in ModifyPcs
  BY <1>3, AfterNat, StepsAre DEF StepsKnown, ModifyPcs
<1>4. CASE pc \notin ModifyPcs
  BY <1>1, <1>2, <1>4, StepsAre DEF StepsKnown, ModifyPcs, Labels
<1> QED BY <1>3, <1>4

LEMMA StillPositive == Positive'
BY StepsPositive, PTL

\* A step of the driver leaves fewer.
LEMMA WindStep ==
  ASSUME Inv, Inv', Driver, pc # "idle"
  PROVE  StepsLeft' \in 0 .. StepsLeft - 1
<1>a. /\ StepsLeft \in Nat /\ StepsLeft > 0
      /\ len \in Nat /\ LoopSteps(len) \in Nat
      /\ pc' # "idle" => StepsLeft' \in Nat
  <2>1. len \in Nat
    BY DEF Inv, TypeOK
  <2> QED BY <2>1, StepsPositive, StillPositive DEF Positive, LoopSteps
<1>b. pc' = "idle" => StepsLeft' \in 0 .. StepsLeft - 1
  BY <1>a, StepsAre DEF StepsKnown
<1>c. ASSUME StepsLeft' < StepsLeft, pc' # "idle" PROVE StepsLeft' \in 0 .. StepsLeft - 1
  BY <1>a, <1>c
<1>d. cmd' = cmd /\ len' = len => StepsAfter' = StepsAfter
  BY DEF StepsAfter
<1>e. pc \in ModifyPcs => StepsAfter \in Nat
  BY AfterNat
<1> SUFFICES ASSUME pc' # "idle" PROVE StepsLeft' < StepsLeft
  BY <1>b, <1>c
<1> USE DEF StepsKnown
<1>1. CASE NotReady
  BY <1>1, StepsAre DEF NotReady, Return
<1>2. CASE InitAgain
  BY <1>2, StepsAre DEF InitAgain, Return
<1>3. CASE InitSpi
  BY <1>3, StepsAre DEF InitSpi, Abandon, Return, Goto
<1>4. CASE WaitId
  BY <1>4, StepsAre DEF WaitId, Abandon, Return, Goto
<1>5. CASE Wait4Byte
  BY <1>5, StepsAre DEF Wait4Byte, Goto
<1>6. CASE Scanned4Byte
  BY <1>6, StepsAre DEF Scanned4Byte, Goto, AfterWide
<1>7. CASE NoFactoryInit
  <2>1. pc = "factory" /\ pc' = "wren" /\ cmd'.kind = "unlock"
    BY <1>7 DEF NoFactoryInit, Modify, Goto, Cmd
  <2> QED BY <2>1, StepsAre, AfterAre DEF AfterKnown
<1>8. CASE Deinit
  BY <1>8, StepsAre DEF Deinit, Goto
<1>9. CASE DeinitDone
  BY <1>9, StepsAre DEF DeinitDone, Return
<1>10. CASE WaitWren
  <2>1. pc = "wrenwait" /\ pc' = "wel" /\ cmd' = cmd /\ len' = len
    BY <1>10 DEF WaitWren, Goto, Abandon, Return
  <2> QED BY <1>d, <1>e, <2>1, StepsAre DEF ModifyPcs
<1>11. CASE SettleTimedOut
  BY <1>11, StepsAre DEF SettleTimedOut, Abandon, Return
<1>12. CASE InitSettled
  <2>1. CASE cmd.kind = "wrsr2"
    BY <1>12, <2>1, StepsAre, AfterAre DEF InitSettled, Goto, AfterKnown
  <2>2. CASE cmd.kind = "wrsr3"
    <3>1. pc = "settle" /\ pc' = "wren" /\ cmd'.kind = "unlock"
      BY <1>12, <2>2 DEF InitSettled, Modify, Goto, Cmd
    <3> QED BY <2>2, <3>1, StepsAre, AfterAre DEF AfterKnown
  <2> QED BY <1>12, <2>1, <2>2 DEF InitSettled, Return
<1>13. CASE WaitFirst
  <2>1. pc \in {"read", "program"} /\ pc' \in {"rdloop", "prloop"} /\ len' = len
    BY <1>13 DEF WaitFirst, Goto, Abandon, Return
  <2> QED BY <1>a, <2>1, StepsAre
<1>14. CASE LoopDone
  BY <1>14, StepsAre DEF LoopDone, Return
<1>15. CASE ProgramPage
  <2>1. pc = "prloop" /\ pc' = "wren" /\ len > 0 /\ len' = len /\ cmd'.kind = "program"
    BY <1>15 DEF ProgramPage, Modify, Goto
  <2>2. StepsLeft = LoopSteps(len) /\ StepsLeft' = 5 + LoopSteps(len - 1)
    BY <2>1, StepsAre, AfterAre DEF AfterKnown
  <2>3. FewerSteps(len, 1)
    BY <1>a, <2>1, LoopLess
  <2> QED BY <2>2, <2>3 DEF FewerSteps
<1>16. CASE PageSettled
  <2>1. /\ pc = "settle" /\ pc' = "prloop" /\ cmd.kind = "program"
        /\ len' = len - cmd.len
    BY <1>16 DEF PageSettled, Advance, Goto
  <2>2. cmd.len \in Nat /\ 0 < cmd.len /\ cmd.len <= len
    BY <2>1 DEF Inv, TypeOK, Loop, ModifyPcs
  <2>3. StepsLeft = 1 + LoopSteps(len - 1) /\ StepsLeft' = LoopSteps(len - cmd.len)
    BY <2>1, StepsAre, AfterAre DEF AfterKnown
  <2>4. FewerSteps(len, cmd.len)
    BY <1>a, <2>2, LoopLess
  <2> QED BY <2>3, <2>4 DEF FewerSteps
<1>17. CASE EraseRefused
  BY <1>17, StepsAre DEF EraseRefused, Return
<1>18. CASE EraseChip
  <2>1. pc = "erase" /\ pc' = "wren" /\ len = TotalSize /\ cmd'.kind = "chip"
    BY <1>18 DEF EraseChip, Modify, Goto, Cmd, WholeChip
  <2>2. StepsLeft = LoopSteps(len) + 1 /\ StepsLeft' = 5
    BY <2>1, StepsAre, AfterAre DEF AfterKnown
  <2> QED BY <2>1, <2>2, SizesAssumption DEF LoopSteps
<1>19. CASE EraseBegin
  <2>1. pc = "erase" /\ pc' = "erloop" /\ len' = len
    BY <1>19 DEF EraseBegin, Goto
  <2> QED BY <1>a, <2>1, StepsAre
<1>20. CASE EraseUnit
  <2>1. pc = "erloop" /\ pc' = "wren" /\ len > 0 /\ len' = len /\ cmd'.kind = "erase"
    BY <1>20 DEF EraseUnit, Modify, Goto
  <2>2. StepsLeft = LoopSteps(len) /\ StepsLeft' = 5 + LoopSteps(len - 1)
    BY <2>1, StepsAre, AfterAre DEF AfterKnown
  <2>3. FewerSteps(len, 1)
    BY <1>a, <2>1, LoopLess
  <2> QED BY <2>2, <2>3 DEF FewerSteps
<1>21. CASE UnitSettled
  <2>1. /\ pc = "settle" /\ pc' = "erloop" /\ cmd.kind = "erase"
        /\ len' = len - cmd.len
    BY <1>21 DEF UnitSettled, Advance, Goto
  <2>2. cmd.len \in Nat /\ 0 < cmd.len /\ cmd.len <= len
    BY <2>1 DEF Inv, TypeOK, Loop, ModifyPcs
  <2>3. StepsLeft = 1 + LoopSteps(len - 1) /\ StepsLeft' = LoopSteps(len - cmd.len)
    BY <2>1, StepsAre, AfterAre DEF AfterKnown
  <2>4. FewerSteps(len, cmd.len)
    BY <1>a, <2>2, LoopLess
  <2> QED BY <2>3, <2>4 DEF FewerSteps
<1>22. CASE ChipSettled
  BY <1>22, StepsAre DEF ChipSettled, Return
<1>23. CASE EraseDone
  BY <1>23, StepsAre DEF EraseDone, Return
<1>24. ASSUME NEW x \in XferEnds, SendReset(x) PROVE StepsLeft' < StepsLeft
  BY <1>24, StepsAre DEF SendReset, Goto, Abandon, Return
<1>25. ASSUME NEW x \in XferEnds, ReadId(x) PROVE StepsLeft' < StepsLeft
  BY <1>25, StepsAre DEF ReadId, Goto, Abandon, Return, AfterWide
<1>26. ASSUME NEW x \in XferEnds, Send4Byte(x) PROVE StepsLeft' < StepsLeft
  BY <1>26, StepsAre DEF Send4Byte, Goto
<1>27. ASSUME NEW x \in XferEnds, ReadQuad(x) PROVE StepsLeft' < StepsLeft
  <2>1. CASE pc' = "factory"
    BY <1>27, <2>1, StepsAre DEF ReadQuad
  <2>2. CASE pc' # "factory"
    <3>1. pc = "rdsr2" /\ pc' = "wren" /\ cmd'.kind = "wrsr2"
      BY <1>27, <2>2 DEF ReadQuad, Modify, Goto, Cmd, Abandon, Return
    <3> QED BY <3>1, StepsAre, AfterAre DEF AfterKnown
  <2> QED BY <2>1, <2>2
<1>28. ASSUME NEW x \in XferEnds, VerifyQuad(x) PROVE StepsLeft' < StepsLeft
  BY <1>28, StepsAre DEF VerifyQuad, Goto, Abandon, Return
<1>29. ASSUME NEW x \in XferEnds, FactoryInit(x) PROVE StepsLeft' < StepsLeft
  <2>1. pc = "factory" /\ pc' = "wren" /\ cmd'.kind \in {"wrsr3", "unlock"}
    BY <1>29 DEF FactoryInit, Modify, Goto, Cmd, Abandon, Return
  <2> QED BY <2>1, StepsAre, AfterAre DEF AfterKnown
<1>30. ASSUME NEW x \in XferEnds, SendWren(x) PROVE StepsLeft' < StepsLeft
  <2>1. pc = "wren" /\ pc' = "wrenwait" /\ cmd' = cmd /\ len' = len
    BY <1>30 DEF SendWren, Goto, Abandon, Return
  <2> QED BY <1>d, <1>e, <2>1, StepsAre DEF ModifyPcs
<1>31. ASSUME NEW x \in XferEnds, CheckWel(x) PROVE StepsLeft' < StepsLeft
  <2>1. pc = "wel" /\ pc' = "issue" /\ cmd' = cmd /\ len' = len
    BY <1>31 DEF CheckWel, Goto, Abandon, Return
  <2> QED BY <1>d, <1>e, <2>1, StepsAre DEF ModifyPcs
<1>32. ASSUME NEW x \in XferEnds, Issue(x) PROVE StepsLeft' < StepsLeft
  <2>1. pc = "issue" /\ pc' = "settle" /\ cmd' = cmd /\ len' = len
    BY <1>32 DEF Issue, Goto, Abandon, Return
  <2> QED BY <1>d, <1>e, <2>1, StepsAre DEF ModifyPcs
<1>33. ASSUME NEW x \in XferEnds, ReadPage(x) PROVE StepsLeft' < StepsLeft
  <2>1. /\ pc = "rdloop" /\ pc' = pc /\ len > 0
        /\ len' = len - Chunk
    BY <1>33 DEF ReadPage, Advance, Abandon, Return
  <2>2. Chunk \in Nat /\ 0 < Chunk /\ Chunk <= len
    BY <2>1, ChunkType DEF Inv, TypeOK
  <2>3. StepsLeft = LoopSteps(len) /\ StepsLeft' = LoopSteps(len - Chunk)
    BY <2>1, StepsAre
  <2>4. FewerSteps(len, Chunk)
    BY <1>a, <2>2, LoopLess
  <2> QED BY <2>3, <2>4 DEF FewerSteps
<1> QED BY <1>1, <1>2, <1>3, <1>4, <1>5, <1>6, <1>7, <1>8, <1>9, <1>10, <1>11, <1>12,
          <1>13, <1>14, <1>15, <1>16, <1>17, <1>18, <1>19, <1>20, <1>21, <1>22,
          <1>23, <1>24, <1>25, <1>26, <1>27, <1>28, <1>29, <1>30, <1>31, <1>32,
          <1>33
        DEF Driver

\* No call goes round for ever: from a bound that its length gives, every step of the
\* driver brings it nearer to its return, whatever the chip and the bus do.
THEOREM CallsWindDownCorrect == Spec => CallsWindDown
<1>1. Inv /\ Inv' /\ [Next]_vars
      => [pc # "idle" /\ driver' # driver => StepsLeft' \in 0 .. StepsLeft - 1]_vars
  <2> SUFFICES ASSUME Inv, Inv', [Next]_vars, pc # "idle", driver' # driver
               PROVE  StepsLeft' \in 0 .. StepsLeft - 1
    OBVIOUS
  <2>1. Driver
    BY DEF Next, Call, ChipFinish, vars
  <2> QED BY <2>1, WindStep
<1> QED BY <1>1, InvCorrect, PTL DEF Spec, CallsWindDown
=============================================================================
