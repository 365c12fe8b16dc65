-------------------------- MODULE SpiNorRefinement --------------------------
(***************************************************************************)
(* SpiNor implements FlashStore for every size, part, set of requests and  *)
(* bound: the driver's pages, blocks, latches and waits add up to the flash *)
(* array of FlashStore. It rests on what the layers above do: requests lie *)
(* inside the chip, and only deinit follows a failed init.                 *)
(***************************************************************************)
EXTENDS SpiNorProofs

ArrayCalls == {"read", "program", "erase"}

-----------------------------------------------------------------------------
(* The invariant, on top of that of SpiNorProofs.                          *)

\* Where the loops are in the caller's range, and the commands they make.
Place ==
  call.fn \in ArrayCalls =>
    /\ addr = call.addr + buf
    /\ pc \in ArrayCalls => buf = 0
    /\ call.fn = "erase" /\ pc # "erase" => call.addr + call.len <= TotalSize
    /\ pc \in ModifyPcs /\ cmd.kind = "program" =>
          /\ cmd.off = buf /\ cmd.data = call.data
          /\ (cmd.addr % PageSize) + cmd.len <= PageSize
    /\ pc \in ModifyPcs /\ cmd.kind = "erase" => cmd.len > 0 /\ cmd.addr % cmd.len = 0
    /\ pc \in ModifyPcs /\ cmd.kind = "chip" =>
          buf = 0 /\ call.addr = 0 /\ call.len = TotalSize

\* The array is what it will be when no operation runs.
Landed == ~wip => after = mem

\* Only a chip whose initialisation succeeded is read, programmed or erased.
Served == info /\ call.fn \in ArrayCalls => initOk

\* The array m with n cells from address a on done as the current call asks.
DoneFrom(m, a, off, n) ==
  IF call.fn = "program" THEN Store!Programmed(m, a, call.data, off, n)
                         ELSE Store!Wiped(m, a, n)

\* Doing what the loop has left makes the goal of the chip's array.
Towards ==
  call.fn \in {"program", "erase"} =>
    /\ pc # "settle" => goal = DoneFrom(after, addr, buf, len)
    /\ pc = "settle" /\ cmd.kind # "chip" =>
          goal = DoneFrom(after, addr + cmd.len, buf + cmd.len, len - cmd.len)
    /\ pc = "settle" /\ cmd.kind = "chip" => goal = after

\* An erase loop that has wiped a unit has waited for it.
UnitsDone == pc = "erloop" /\ buf > 0 => ~wip

\* The caller's buffer holds what has been read so far.
ReadSoFar ==
  call.fn = "read" =>
    /\ goal = after
    /\ buf > 0 => rbuf = [i \in 0 .. buf - 1 |-> after[call.addr + i]]
    /\ result = "ok" => buf > 0

ArrayInv == Landed /\ Served /\ Towards /\ UnitsDone /\ ReadSoFar

-----------------------------------------------------------------------------
(* The kinds of step the refinement tells apart.                           *)

\* The call ends with an error and leaves the array alone.
Fails ==
  /\ pc # "idle" /\ pc' = "idle" /\ call' = NoCall
  /\ result' # "ok"
  /\ wip => wip'
  /\ UNCHANGED <<mem, after, goal>>

\* init and deinit do something that does not concern the array, or are done.
Session ==
  /\ pc # "idle" /\ call.fn \in {"init", "deinit"}
  /\ call' = call \/ (pc' = "idle" /\ call' = NoCall /\ result' = "ok")
  /\ wip => wip'
  /\ UNCHANGED <<mem, after, goal>>

\* The steps of nor_write_enable.
Onward ==
  /\ pc \in ModifyPcs \ {"settle"} /\ pc' \in ModifyPcs \ {"settle"}
  /\ UNCHANGED <<info, call, addr, buf, len, cmd, result, rbuf, initOk, goal,
                 mem, after, wip>>

\* The loop of nor_read or nor_write begins.
LoopBegins ==
  /\ WaitFirst
  /\ Ready
  /\ pc' # "idle"
  /\ UNCHANGED <<info, call, result, initOk>>

\* A page is read.
PageRead(x) == ReadPage(x) /\ x = "ok"

\* The erase loop ends with everything erased.
AllErased == EraseDone /\ len = 0

\* Steps of nor_read, nor_write and nor_erase that only set driver variables.
Between ==
  \/ LoopBegins \/ LoopDone \/ ProgramPage \/ PageSettled
  \/ EraseChip \/ EraseBegin \/ EraseUnit \/ UnitSettled \/ ChipSettled \/ AllErased
  \/ \E x \in XferEnds : PageRead(x)

Kind ==
  \/ UNCHANGED vars
  \/ \E c \in Calls : Call(c)
  \/ ChipFinish
  \/ Fails \/ Session \/ Onward \/ Between
  \/ \E x \in XferEnds : SendReset(x) \/ Issue(x)

\* Neither the write-enable nor the 4-byte command touches the array.
LEMMA ReceiveHarmless ==
  ASSUME NEW k, k.kind \in {"wren", "en4b"}, Receive(k)
  PROVE  UNCHANGED <<mem, after, wip>>
BY DEF Receive, Ignore, Refuse, Start, StartStatus, WriteEnable, Enter4Byte, Reset, Abort,
       ResetUnseen, chip, ArrayKinds, StatusKinds

\* Every step is of one of these kinds.
LEMMA StepKind ==
  ASSUME Inv, [Next]_vars
  PROVE  Kind
<1> USE DEF Kind
<1>0. CASE UNCHANGED vars
  BY <1>0
<1>1. ASSUME NEW c \in Calls, Call(c) PROVE Kind
  BY <1>1
<1>2. CASE NotReady
  BY <1>2 DEF NotReady, Return, Fails, chip
<1>3. CASE InitAgain
  BY <1>3 DEF InitAgain, Return, Session, chip, Inv, Flow, ScanPcs
<1>4. CASE InitSpi
  BY <1>4 DEF InitSpi, Abandon, Return, Fails, Session, chip, Inv, Flow, ScanPcs
<1>5. CASE WaitId
  BY <1>5 DEF WaitId, Ready, TimedOut, Abandon, Return, Fails, Session, chip, Inv, Flow, ScanPcs
<1>6. CASE Wait4Byte
  BY <1>6 DEF Wait4Byte, Ready, TimedOut, Session, chip, Inv, Flow, WidePcs
<1>7. CASE Scanned4Byte
  BY <1>7 DEF Scanned4Byte, Session, chip, Inv, Flow, WidePcs
<1>8. CASE NoFactoryInit
  BY <1>8 DEF NoFactoryInit, Session, chip, Inv, Flow, ScanPcs
<1>9. CASE Deinit
  BY <1>9 DEF Deinit, Session, chip, Inv, Flow
<1>10. CASE DeinitDone
  BY <1>10 DEF DeinitDone, Return, Session, chip, Inv, Flow
<1>11. CASE WaitWren
  BY <1>11 DEF WaitWren, Ready, TimedOut, Abandon, Return, Goto, Fails, Onward, ModifyPcs, chip
<1>12. CASE SettleTimedOut
  BY <1>12 DEF SettleTimedOut, TimedOut, Abandon, Return, Fails, chip
<1>13. CASE InitSettled
  BY <1>13 DEF InitSettled, Ready, Return, Session, chip, Inv, Flow, ModifyPcs, StatusKinds
<1>14. CASE WaitFirst
  <2>1. CASE Ready /\ Goto(IF pc = "read" THEN "rdloop" ELSE "prloop")
             /\ UNCHANGED <<info, call, result, initOk>>
    BY <1>14, <2>1 DEF LoopBegins, Goto, Between
  <2>2. CASE TimedOut /\ Abandon("EBUSY")
    BY <1>14, <2>2 DEF WaitFirst, TimedOut, Abandon, Return, Fails, chip
  <2> QED BY <1>14, <2>1, <2>2 DEF WaitFirst
<1>15. CASE LoopDone
  BY <1>15 DEF Between
<1>16. CASE ProgramPage
  BY <1>16 DEF Between
<1>17. CASE PageSettled
  BY <1>17 DEF Between
<1>18. CASE EraseRefused
  BY <1>18 DEF EraseRefused, Return, Fails, chip
<1>19. CASE EraseChip
  BY <1>19 DEF Between
<1>20. CASE EraseBegin
  BY <1>20 DEF Between
<1>21. CASE EraseUnit
  BY <1>21 DEF Between
<1>22. CASE UnitSettled
  BY <1>22 DEF Between
<1>23. CASE ChipSettled
  BY <1>23 DEF Between
<1>24. CASE EraseDone
  BY <1>24 DEF Between, AllErased, EraseDone, Return, Fails, chip
<1>25. ASSUME NEW x \in XferEnds, SendReset(x) PROVE Kind
  BY <1>25
<1>26. ASSUME NEW x \in XferEnds, ReadId(x) PROVE Kind
  BY <1>26 DEF ReadId, ReadTransfer, Abandon, Return, Fails, Session, chip, Inv, Flow, ScanPcs
<1>27. ASSUME NEW x \in XferEnds, Send4Byte(x) PROVE Kind
  <2>1. UNCHANGED <<mem, after, wip>>
    BY <1>27, ReceiveHarmless DEF Send4Byte, Transfer, Cmd, chip
  <2> QED BY <1>27, <2>1 DEF Send4Byte, Session, Inv, Flow, WidePcs
<1>28. ASSUME NEW x \in XferEnds, ReadQuad(x) PROVE Kind
  BY <1>28 DEF ReadQuad, ReadTransfer, Abandon, Return, Fails, Session, chip, Inv, Flow, ScanPcs
<1>29. ASSUME NEW x \in XferEnds, VerifyQuad(x) PROVE Kind
  BY <1>29 DEF VerifyQuad, ReadTransfer, Abandon, Return, Fails, Session, chip, Inv, Flow, ScanPcs
<1>30. ASSUME NEW x \in XferEnds, FactoryInit(x) PROVE Kind
  BY <1>30 DEF FactoryInit, ReadTransfer, Abandon, Return, Fails, Session, chip, Inv, Flow, ScanPcs
<1>31. ASSUME NEW x \in XferEnds, SendWren(x) PROVE Kind
  <2>1. UNCHANGED <<mem, after, wip>>
    BY <1>31, ReceiveHarmless DEF SendWren, Transfer, Cmd, chip
  <2> QED BY <1>31, <2>1 DEF SendWren, Abandon, Return, Goto, Fails, Onward, ModifyPcs
<1>32. ASSUME NEW x \in XferEnds, CheckWel(x) PROVE Kind
  BY <1>32 DEF CheckWel, ReadTransfer, Abandon, Return, Goto, Fails, Onward, ModifyPcs, chip
<1>33. ASSUME NEW x \in XferEnds, Issue(x) PROVE Kind
  BY <1>33
<1>34. ASSUME NEW x \in XferEnds, ReadPage(x) PROVE Kind
  BY <1>34 DEF Between, PageRead, ReadPage, ReadTransfer, Abandon, Return, Fails, chip
<1>35. CASE ChipFinish
  BY <1>35
<1> QED BY <1>0, <1>1, <1>2, <1>3, <1>4, <1>5, <1>6, <1>7, <1>8, <1>9, <1>10, <1>11, <1>12,
          <1>13, <1>14, <1>15, <1>16, <1>17, <1>18, <1>19, <1>20, <1>21, <1>22, <1>23, <1>24,
          <1>25, <1>26, <1>27, <1>28, <1>29, <1>30, <1>31, <1>32, <1>33, <1>34, <1>35
        DEF Next, Driver

-----------------------------------------------------------------------------
(* Where the loops are.                                                    *)

\* Small numbers are their own remainders.
LEMMA ModSmall ==
  ASSUME NEW a \in Nat, NEW b \in Nat, a < b
  PROVE  a % b = a
OBVIOUS

\* The numbers of the current call, and where its loop is.
LEMMA CallNumbers ==
  ASSUME Inv, CallsInRange, call.fn \in ArrayCalls
  PROVE  /\ call \in Calls /\ call.addr \in Nat /\ call.len \in Nat
         /\ call.addr + call.len < WordSize
         /\ call.fn # "erase" => call.addr + call.len <= TotalSize
         /\ buf + len = call.len /\ addr \in Nat /\ buf \in Nat /\ len \in Nat
         /\ PageSize \in Nat \ {0} /\ TotalSize \in Nat \ {0} /\ WordSize \in Nat
<1>1. call \in Calls
  BY DEF Inv, TypeOK, ArrayCalls, NoCall
<1>2. call.addr \in Nat /\ call.len \in Nat
  BY <1>1, CallsAssumption, SizesAssumption
<1> QED BY <1>1, <1>2, SizesAssumption DEF CallsInRange, ArrayCalls, Inv, TypeOK, Loop

\* A loop of a call in range advances without wrapping.
LEMMA AdvanceExact ==
  ASSUME Inv, CallsInRange, call.fn \in ArrayCalls, Place, NEW n \in 0 .. len, Advance(n)
  PROVE  addr' = addr + n /\ buf' = buf + n /\ len' = len - n
<1>1. addr + n \in Nat /\ addr + n < WordSize
  BY CallNumbers DEF Place
<1> QED BY <1>1, ModSmall, CallNumbers DEF Advance

\* A page's piece of a request is not empty and ends with the page or the request.
LEMMA ChunkRange ==
  ASSUME addr \in Nat, len \in Nat \ {0}
  PROVE  /\ Chunk \in 1 .. len
         /\ (addr % PageSize) + Chunk <= PageSize
<1>1. addr % PageSize \in 0 .. PageSize - 1
  BY ModRange, SizesAssumption
<1> QED BY <1>1, SizesAssumption DEF Chunk

\* The unit an erase loop picks is aligned and not longer than what is left.
LEMMA UnitFits ==
  ASSUME addr \in Nat, len \in Nat, Unit > 0
  PROVE  Unit \in 1 .. len /\ addr % Unit = 0
BY SizesAssumption DEF Unit, Fits

LEMMA PlaceStep ==
  ASSUME Inv, Inv', CallsInRange, Place, [Next]_vars
  PROVE  Place'
<1>0. CASE UNCHANGED vars
  BY <1>0 DEF Place, vars, driver
<1>1. ASSUME NEW c \in Calls, Call(c) PROVE Place'
  <2>1. c.addr \in Nat
    BY CallsAssumption
  <2> QED BY <1>1, <2>1 DEF Place, Call, Goto, Cmd, ModifyPcs, ArrayCalls
<1>2. CASE ChipFinish
  BY <1>2 DEF Place, ChipFinish, driver
<1>3. CASE Fails
  BY <1>3 DEF Place, Fails, NoCall, ArrayCalls
<1>4. CASE Session
  BY <1>4 DEF Place, Session, NoCall, ArrayCalls
<1>5. CASE Onward
  BY <1>5 DEF Place, Onward, ModifyPcs, ArrayCalls
<1>6. ASSUME NEW x \in XferEnds, SendReset(x) PROVE Place'
  BY <1>6 DEF Place, SendReset, Abandon, Return, NoCall, ArrayCalls, Inv, Flow, ScanPcs
<1>7. ASSUME NEW x \in XferEnds, Issue(x) PROVE Place'
  BY <1>7 DEF Place, Issue, Goto, Abandon, Return, NoCall, ModifyPcs, ArrayCalls
<1>8. CASE LoopBegins
  BY <1>8 DEF Place, LoopBegins, WaitFirst, TimedOut, Abandon, Return, Goto, ArrayCalls,
     ModifyPcs, Inv, Flow
<1>9. CASE LoopDone
  BY <1>9 DEF Place, LoopDone, Return, NoCall, ArrayCalls
<1>10. CASE ProgramPage
  <2>1. call.fn = "program"
    BY <1>10 DEF ProgramPage, Inv, Flow
  <2>2. (addr % PageSize) + Chunk <= PageSize
    BY <1>10, <2>1, ChunkRange DEF ProgramPage, Inv, TypeOK
  <2> QED BY <1>10, <2>1, <2>2 DEF Place, ProgramPage, Modify, Goto, ArrayCalls, ModifyPcs
<1>11. CASE PageSettled
  <2>1. call.fn = "program" /\ cmd.len \in 0 .. len
    BY <1>11 DEF PageSettled, Inv, Flow, Loop, ModifyPcs, StatusKinds, TypeOK
  <2>2. addr' = addr + cmd.len /\ buf' = buf + cmd.len
    BY <1>11, <2>1, AdvanceExact DEF PageSettled, ArrayCalls
  <2> QED BY <1>11, <2>1, <2>2, CallNumbers DEF Place, PageSettled, Goto, ArrayCalls, ModifyPcs
<1>12. CASE EraseChip
  <2>1. call.fn = "erase"
    BY <1>12 DEF EraseChip, Inv, Flow
  <2>2. buf = 0 /\ call.addr = 0 /\ call.len = TotalSize
    BY <1>12, <2>1, CallNumbers DEF Place, EraseChip, WholeChip, ArrayCalls
  <2> QED BY <1>12, <2>1, <2>2, CallNumbers DEF Place, EraseChip, Modify, Cmd, Goto, ArrayCalls, ModifyPcs
<1>13. CASE EraseBegin
  <2>1. call.fn = "erase"
    BY <1>13 DEF EraseBegin, Inv, Flow
  <2>2. addr = call.addr /\ len = call.len
    BY <1>13, <2>1, CallNumbers DEF Place, EraseBegin, ArrayCalls
  <2>3. call.addr + call.len <= TotalSize
    <3>1. (addr + len) % WordSize = addr + len
      BY <2>1, <2>2, CallNumbers, ModSmall DEF ArrayCalls
    <3> QED BY <1>13, <2>1, <2>2, <3>1, CallNumbers DEF EraseBegin, BadErase, ArrayCalls
  <2> QED BY <1>13, <2>1, <2>2, <2>3 DEF Place, EraseBegin, Goto, ArrayCalls, ModifyPcs
<1>14. CASE EraseUnit
  <2>1. call.fn = "erase"
    BY <1>14 DEF EraseUnit, Inv, Flow
  <2>2. Unit > 0 /\ addr % Unit = 0
    BY <1>14, UnitFits DEF EraseUnit, Inv, TypeOK
  <2> QED BY <1>14, <2>1, <2>2 DEF Place, EraseUnit, Modify, Goto, ArrayCalls, ModifyPcs
<1>15. CASE UnitSettled
  <2>1. call.fn = "erase" /\ cmd.len \in 0 .. len
    BY <1>15 DEF UnitSettled, Inv, Flow, Loop, ModifyPcs, StatusKinds, TypeOK
  <2>2. addr' = addr + cmd.len /\ buf' = buf + cmd.len
    BY <1>15, <2>1, AdvanceExact DEF UnitSettled, ArrayCalls
  <2> QED BY <1>15, <2>1, <2>2, CallNumbers DEF Place, UnitSettled, Goto, ArrayCalls, ModifyPcs
<1>16. CASE ChipSettled
  BY <1>16 DEF Place, ChipSettled, Return, NoCall, ArrayCalls
<1>17. CASE AllErased
  BY <1>17 DEF Place, AllErased, EraseDone, Return, NoCall, ArrayCalls
<1>18. ASSUME NEW x \in XferEnds, PageRead(x) PROVE Place'
  <2>1. call.fn = "read"
    BY <1>18 DEF PageRead, ReadPage, Inv, Flow
  <2>2. Chunk \in 0 .. len
    BY <1>18, ChunkRange DEF PageRead, ReadPage, Inv, TypeOK
  <2>3. addr' = addr + Chunk /\ buf' = buf + Chunk
    BY <1>18, <2>1, <2>2, AdvanceExact DEF PageRead, ReadPage, ArrayCalls
  <2> QED BY <1>18, <2>1, <2>2, <2>3, CallNumbers DEF Place, PageRead, ReadPage, ArrayCalls, ModifyPcs
<1> QED BY StepKind, <1>0, <1>1, <1>2, <1>3, <1>4, <1>5, <1>6, <1>7, <1>8, <1>9, <1>10, <1>11,
          <1>12, <1>13, <1>14, <1>15, <1>16, <1>17, <1>18
        DEF Kind, Between

\* Every program or erase command stays inside the request, a program command in its
\* page, an erase command in its unit and in the chip: whatever the sizes, if the
\* requests are ones the callers may make.
THEOREM CommandInRequestCorrect ==
  ASSUME CallsInRange
  PROVE  Spec => []CommandInRequest
<1>1. Init => Place
  BY DEF Init, Place, NoCall, ArrayCalls
<1>2. Inv /\ Place => CommandInRequest
  <2> SUFFICES ASSUME Inv, Place, pc \in ModifyPcs, cmd.kind \in {"program", "erase"}
               PROVE  CommandInRequest
    BY DEF CommandInRequest, ModifyPcs
  <2>1. call.fn = cmd.kind /\ call.fn \in ArrayCalls /\ pc # "erase"
    BY DEF Inv, Flow, StatusKinds, ArrayCalls, ModifyPcs
  <2>2. cmd.addr = addr /\ cmd.len <= len /\ cmd.len \in Nat
    BY DEF Inv, Loop, TypeOK
  <2>3. addr = call.addr + buf /\ buf + len = call.len
    BY <2>1, CallNumbers DEF Place
  <2> QED BY <2>1, <2>2, <2>3, CallNumbers DEF Place, CommandInRequest
<1>3. Inv /\ Inv' /\ Place /\ [Next]_vars => Place'
  BY PlaceStep
<1> QED BY <1>1, <1>2, <1>3, InvCorrect, PTL DEF Spec

-----------------------------------------------------------------------------
(* The array.                                                              *)

\* A page program that stays in its page programs the cells it names.
LEMMA PageProgramExact ==
  ASSUME NEW m \in [Addr -> Cell], NEW a \in Nat, NEW data, NEW off \in Nat, NEW n \in Nat,
         (a % PageSize) + n <= PageSize, a + n <= TotalSize
  PROVE  PageProgram(m, a, data, off, n) = Store!Programmed(m, a, data, off, n)
<1> DEFINE page == a - (a % PageSize)
           pos(i) == (page + (((a % PageSize) + i) % PageSize)) % TotalSize
<1>1. ASSUME NEW i \in 0 .. n - 1 PROVE pos(i) = a + i
  <2>1. a % PageSize \in 0 .. PageSize - 1
    BY ModRange, SizesAssumption
  <2>2. ((a % PageSize) + i) % PageSize = (a % PageSize) + i
    BY <2>1, ModSmall, SizesAssumption
  <2>3. page + (((a % PageSize) + i) % PageSize) = a + i
    BY <2>1, <2>2
  <2>4. (a + i) % TotalSize = a + i
    BY ModSmall, SizesAssumption
  <2> QED BY <2>3, <2>4
<1>2. ASSUME NEW c \in Addr
      PROVE  m[c] \cap {b \in Bits : \A i \in 0 .. n - 1 : pos(i) = c => b \in data[off + i]}
             = IF Store!InRange(c, a, n) THEN m[c] \cap data[off + (c - a)] ELSE m[c]
  <2> DEFINE kept == {b \in Bits : \A i \in 0 .. n - 1 : pos(i) = c => b \in data[off + i]}
  <2>1. m[c] \subseteq Bits /\ c \in Nat
    BY DEF Cell, Addr
  <2>2. kept = {b \in Bits : \A i \in 0 .. n - 1 : a + i = c => b \in data[off + i]}
    BY <1>1
  <2> HIDE DEF pos, kept
  <2>3. ASSUME Store!InRange(c, a, n) PROVE m[c] \cap kept = m[c] \cap data[off + (c - a)]
    <3>1. c - a \in 0 .. n - 1 /\ a + (c - a) = c
      BY <2>1, <2>3 DEF Store!InRange
    <3>2. \A i \in 0 .. n - 1 : a + i = c => i = c - a
      BY <2>1
    <3>3. kept = {b \in Bits : b \in data[off + (c - a)]}
      BY <2>2, <3>1, <3>2
    <3> QED BY <2>1, <3>3
  <2>4. ASSUME ~Store!InRange(c, a, n) PROVE m[c] \cap kept = m[c]
    <3>1. \A i \in 0 .. n - 1 : a + i # c
      BY <2>1, <2>4 DEF Store!InRange
    <3>2. kept = Bits
      BY <2>2, <3>1
    <3> QED BY <2>1, <3>2
  <2>5. m[c] \cap kept
        = IF Store!InRange(c, a, n) THEN m[c] \cap data[off + (c - a)] ELSE m[c]
    BY <2>3, <2>4
  <2> QED BY <2>5 DEF kept
<1> QED BY <1>2 DEF PageProgram, Store!Programmed, Store!Addr, Addr

\* An erase command that is aligned to its unit wipes the cells it names.
LEMMA UnitEraseExact ==
  ASSUME NEW m, NEW a \in Nat, NEW n \in Nat \ {0}, a % n = 0, a + n <= TotalSize
  PROVE  UnitErase(m, a, n) = Store!Wiped(m, a, n)
<1>1. (a - (a % n)) % TotalSize = a
  BY ModSmall, SizesAssumption
<1> QED BY <1>1 DEF UnitErase, Store!Wiped, Store!InRange, Store!Addr, Store!Erased, Addr, Erased

\* So does a chip erase.
LEMMA ChipEraseExact ==
  ASSUME NEW m
  PROVE  ChipErase(m) = Store!Wiped(m, 0, TotalSize)
BY SizesAssumption DEF ChipErase, Store!Wiped, Store!InRange, Store!Addr, Store!Erased, Addr, Erased

\* Doing the first n cells, then the rest, does them all.
Composes(m, a, off, l, n) ==
  DoneFrom(m, a, off, l) = DoneFrom(DoneFrom(m, a, off, n), a + n, off + n, l - n)

LEMMA DoneCompose ==
  ASSUME NEW m, NEW a \in Nat, NEW off \in Nat, NEW l \in Nat, NEW n \in 0 .. l
  PROVE  Composes(m, a, off, l, n)
<1> USE DEF Composes
<1>1. CASE call.fn = "program"
  <2> DEFINE first == Store!Programmed(m, a, call.data, off, n)
  <2>1. ASSUME NEW c \in Addr
        PROVE  (IF Store!InRange(c, a, l) THEN m[c] \cap call.data[off + (c - a)] ELSE m[c])
             = (IF Store!InRange(c, a + n, l - n)
                THEN first[c] \cap call.data[(off + n) + (c - (a + n))] ELSE first[c])
    <3>1. c \in Nat
      BY DEF Addr
    <3>2. (off + n) + (c - (a + n)) = off + (c - a)
      BY <3>1
    <3>3. first[c] = IF Store!InRange(c, a, n) THEN m[c] \cap call.data[off + (c - a)] ELSE m[c]
      BY DEF Store!Programmed, Store!Addr, Addr
    <3>4. Store!InRange(c, a, l) <=> Store!InRange(c, a, n) \/ Store!InRange(c, a + n, l - n)
      BY <3>1 DEF Store!InRange
    <3>5. ~(Store!InRange(c, a, n) /\ Store!InRange(c, a + n, l - n))
      BY <3>1 DEF Store!InRange
    <3> HIDE DEF first
    <3> QED BY <3>2, <3>3, <3>4, <3>5
  <2> HIDE DEF first
  <2>2. Store!Programmed(m, a, call.data, off, l)
        = Store!Programmed(first, a + n, call.data, off + n, l - n)
    BY <2>1 DEF Store!Programmed, Store!Addr, Addr
  <2> QED BY <1>1, <2>2 DEF DoneFrom, first
<1>2. CASE call.fn # "program"
  <2> DEFINE first == Store!Wiped(m, a, n)
  <2>1. ASSUME NEW c \in Addr
        PROVE  (IF Store!InRange(c, a, l) THEN Erased ELSE m[c])
             = (IF Store!InRange(c, a + n, l - n) THEN Erased ELSE first[c])
    <3>1. c \in Nat
      BY DEF Addr
    <3>2. first[c] = IF Store!InRange(c, a, n) THEN Erased ELSE m[c]
      BY DEF Store!Wiped, Store!Addr, Addr, Store!Erased, Erased
    <3>3. Store!InRange(c, a, l) <=> Store!InRange(c, a, n) \/ Store!InRange(c, a + n, l - n)
      BY <3>1 DEF Store!InRange
    <3> HIDE DEF first
    <3> QED BY <3>2, <3>3
  <2> HIDE DEF first
  <2>2. Store!Wiped(m, a, l) = Store!Wiped(first, a + n, l - n)
    BY <2>1 DEF Store!Wiped, Store!Addr, Addr, Store!Erased, Erased
  <2> QED BY <1>2, <2>2 DEF DoneFrom, first
<1> QED BY <1>1, <1>2

\* Doing nothing leaves the array as it is.
LEMMA DoneNothing ==
  ASSUME NEW m \in [Addr -> Cell], NEW a \in Nat, NEW off
  PROVE  DoneFrom(m, a, off, 0) = m
<1>1. \A c \in Addr : ~Store!InRange(c, a, 0)
  BY DEF Store!InRange, Addr
<1>2. Store!Programmed(m, a, call.data, off, 0) = m
  BY <1>1 DEF Store!Programmed, Store!Addr, Addr
<1>3. Store!Wiped(m, a, 0) = m
  BY <1>1 DEF Store!Wiped, Store!Addr, Addr
<1> QED BY <1>2, <1>3 DEF DoneFrom

\* What a program or erase command of the current call does to the array: the next
\* cells of the request.
LEMMA OutcomeExact ==
  ASSUME Inv, CallsInRange, Place, Landed, pc \in ModifyPcs, call.fn \in {"program", "erase"},
         ~wip
  PROVE  IF cmd.kind = "chip" THEN Outcome(cmd) = DoneFrom(after, addr, buf, len)
         ELSE Outcome(cmd) = DoneFrom(after, addr, buf, cmd.len) /\ cmd.len \in 0 .. len
<1>1. after = mem /\ mem \in [Addr -> Cell]
  BY DEF Landed, Inv, TypeOK, ChipType
<1>2. call.fn \in ArrayCalls /\ (call.fn = "erase" => pc # "erase")
  BY DEF ArrayCalls, ModifyPcs
<1>3. addr + len <= TotalSize
  BY <1>2, CallNumbers DEF Place, ArrayCalls
<1>4. CASE cmd.kind = "program"
  <2>1. call.fn = "program" /\ cmd.addr = addr /\ cmd.len \in 0 .. len
    BY <1>4 DEF Inv, Flow, Loop, TypeOK, StatusKinds
  <2>2. cmd.off = buf /\ cmd.data = call.data /\ (cmd.addr % PageSize) + cmd.len <= PageSize
    BY <1>2, <1>4 DEF Place
  <2>3. PageProgram(mem, addr, call.data, buf, cmd.len)
        = Store!Programmed(mem, addr, call.data, buf, cmd.len)
    BY <1>1, <1>2, <1>3, <2>1, <2>2, CallNumbers, PageProgramExact
  <2> QED BY <1>1, <1>4, <2>1, <2>2, <2>3 DEF Outcome, DoneFrom
<1>5. CASE cmd.kind = "erase"
  <2>1. call.fn = "erase" /\ cmd.addr = addr /\ cmd.len \in 0 .. len
    BY <1>5 DEF Inv, Flow, Loop, TypeOK, StatusKinds
  <2>2. cmd.len > 0 /\ cmd.addr % cmd.len = 0
    BY <1>2, <1>5 DEF Place
  <2>3. UnitErase(mem, addr, cmd.len) = Store!Wiped(mem, addr, cmd.len)
    BY <1>2, <1>3, <2>1, <2>2, CallNumbers, UnitEraseExact
  <2> QED BY <1>1, <1>5, <2>1, <2>3 DEF Outcome, DoneFrom
<1>6. CASE cmd.kind = "chip"
  <2>1. call.fn = "erase" /\ addr = 0 /\ len = TotalSize
    BY <1>2, <1>6, CallNumbers DEF Inv, Flow, StatusKinds, Place
  <2> QED BY <1>1, <1>6, <2>1, ChipEraseExact DEF Outcome, DoneFrom
<1> QED BY <1>4, <1>5, <1>6 DEF Inv, Flow, StatusKinds

\* What Issue does to the array: nothing during init or when the command is lost, and
\* otherwise the command's operation starts, for an initialised chip drops none.
LEMMA IssueEffect ==
  ASSUME Inv, Served, UsableWhenInit, NEW x \in XferEnds, Issue(x)
  PROVE  /\ ~wip /\ mem' = mem
         /\ call.fn = "init" \/ x = "lost" => after' = after
         /\ x = "lost" => wip' = wip
         /\ call.fn # "init" =>
               /\ call.fn \in {"program", "erase"}
               /\ x # "lost" => wip' /\ after' = Outcome(cmd)
<1>1. ~wip /\ wel /\ info
  BY DEF Issue, Inv, Quiet, Setup, ModifyPcs
<1>2. CASE x = "lost"
  BY <1>1, <1>2 DEF Issue, Transfer, chip, Inv, Flow, ModifyPcs
<1>3. CASE x # "lost" /\ call.fn = "init"
  <2>1. Receive(cmd) /\ cmd.kind \in StatusKinds
    BY <1>3 DEF Issue, Transfer, Inv, Flow, ModifyPcs
  <2>2. mem' = mem /\ after' = after
    BY <1>1, <2>1 DEF Receive, Ignore, Refuse, Start, StartStatus, WriteEnable, Enter4Byte,
          Reset, Abort, ResetUnseen, chip, ArrayKinds, StatusKinds
  <2> QED BY <1>1, <1>3, <2>2
<1>4. CASE x # "lost" /\ call.fn # "init"
  <2>1. /\ Receive(cmd)
        /\ cmd.kind \in ArrayKinds /\ call.fn \in {"program", "erase"}
    BY <1>4 DEF Issue, Transfer, Inv, Flow, ModifyPcs, ArrayKinds
  <2>2. ~Drops(cmd)
    BY <1>1, <2>1 DEF Served, UsableWhenInit, Drops, ArrayCalls
  <2>3. Start(cmd)
    BY <1>1, <2>1, <2>2 DEF Receive, Ignore, Refuse, StartStatus, WriteEnable, Enter4Byte,
          Reset, Abort, ResetUnseen, ArrayKinds, StatusKinds
  <2> QED BY <1>1, <1>4, <2>1, <2>3 DEF Start
<1> QED BY <1>2, <1>3, <1>4

\* What a reset does to the array: it may cut the running operation short.
LEMMA ResetEffect ==
  ASSUME Inv, Landed, NEW x \in XferEnds, SendReset(x)
  PROVE  \/ UNCHANGED <<mem, after, wip>>
         \/ /\ wip /\ ~wip' /\ after' = mem'
            /\ \E n \in 0 .. TotalSize :
                  mem' = [a \in Addr |-> IF a < n THEN after[a] ELSE mem[a]]
<1>1. UNCHANGED chip \/ Receive(Cmd("reset"))
  BY DEF SendReset, Transfer
<1> QED BY <1>1 DEF Receive, Ignore, Refuse, Start, StartStatus, WriteEnable, Enter4Byte,
          Reset, Abort, ResetUnseen, chip, ArrayKinds, StatusKinds, Cmd

\* A page that is read shows the array.
LEMMA SensedExact ==
  ASSUME Inv, Landed, Served, UsableWhenInit, pc = "rdloop", NEW a
  PROVE  Sensed(a) = after[a]
<1>1. ~wip /\ info /\ call.fn = "read"
  BY DEF Inv, Quiet, Setup, Flow
<1> QED BY <1>1 DEF Sensed, Landed, Served, UsableWhenInit, ArrayCalls

\* Reading a page extends what the buffer holds of the array.
LEMMA PageReadExact ==
  ASSUME Inv, CallsInRange, Place, Landed, Served, ReadSoFar, UsableWhenInit,
         NEW x \in XferEnds, PageRead(x)
  PROVE  /\ buf' = buf + Chunk /\ buf' > 0
         /\ rbuf' = [i \in 0 .. buf' - 1 |-> after[call.addr + i]]
<1>1. call.fn = "read" /\ call.fn \in ArrayCalls /\ pc = "rdloop"
  BY DEF PageRead, ReadPage, Inv, Flow, ArrayCalls
<1>2. Chunk \in 1 .. len
  BY ChunkRange DEF PageRead, ReadPage, Inv, TypeOK
<1>3. addr = call.addr + buf /\ addr + len <= TotalSize
  BY <1>1, CallNumbers DEF Place
<1>4. buf' = buf + Chunk
  BY <1>1, <1>2, AdvanceExact DEF PageRead, ReadPage
<1>5. ASSUME NEW i \in 0 .. buf + Chunk - 1
      PROVE  (IF i < buf THEN rbuf[i] ELSE Sensed((addr + (i - buf)) % TotalSize))
             = after[call.addr + i]
  <2>1. CASE i < buf
    <3>1. i \in 0 .. buf - 1 /\ buf > 0
      BY <1>1, <1>2, <2>1, CallNumbers
    <3>2. rbuf = [j \in 0 .. buf - 1 |-> after[call.addr + j]]
      BY <1>1, <3>1 DEF ReadSoFar
    <3> QED BY <2>1, <3>1, <3>2
  <2>2. CASE ~(i < buf)
    <3>1. addr + (i - buf) = call.addr + i /\ call.addr + i \in Nat /\ call.addr + i < TotalSize
      BY <1>1, <1>2, <1>3, <2>2, CallNumbers
    <3>2. (addr + (i - buf)) % TotalSize = call.addr + i
      BY <1>1, <3>1, ModSmall, CallNumbers
    <3> QED BY <1>1, <2>2, <3>2, SensedExact
  <2> QED BY <2>1, <2>2
<1>6. rbuf' = [i \in 0 .. buf + Chunk - 1 |->
                 IF i < buf THEN rbuf[i] ELSE Sensed((addr + (i - buf)) % TotalSize)]
  BY DEF PageRead, ReadPage
<1>7. rbuf' = [i \in 0 .. buf + Chunk - 1 |-> after[call.addr + i]]
  BY <1>5, <1>6
<1> QED BY <1>1, <1>2, <1>4, <1>7, CallNumbers

\* When the chip has settled, the loop's head is where the command's end was.
LEMMA SettledExact ==
  ASSUME Inv, CallsInRange, Place, Towards, PageSettled \/ UnitSettled
  PROVE  /\ call.fn \in {"program", "erase"} /\ pc = "settle" /\ cmd.kind # "chip"
         /\ ~wip /\ UNCHANGED <<mem, after, wip, call, goal, info, initOk>>
         /\ goal = DoneFrom(after, addr', buf', len')
<1>1. call.fn \in {"program", "erase"} /\ pc = "settle" /\ cmd.kind \in {"program", "erase"}
  BY DEF PageSettled, UnitSettled, Inv, Flow, ModifyPcs, StatusKinds
<1>2. cmd.len \in 0 .. len
  BY <1>1 DEF Inv, Loop, ModifyPcs, TypeOK
<1>3. Advance(cmd.len)
  BY DEF PageSettled, UnitSettled
<1>4. addr' = addr + cmd.len /\ buf' = buf + cmd.len /\ len' = len - cmd.len
  BY <1>1, <1>2, <1>3, AdvanceExact DEF ArrayCalls
<1>5. goal = DoneFrom(after, addr + cmd.len, buf + cmd.len, len - cmd.len)
  BY <1>1 DEF Towards
<1>6. ~wip /\ UNCHANGED <<mem, after, wip, call, goal, info, initOk>>
  BY DEF PageSettled, UnitSettled, Ready, chip
<1> QED BY <1>1, <1>4, <1>5, <1>6

\* If only deinit follows a failed init, nothing else reaches a chip half initialised.
LEMMA ServedStep ==
  ASSUME HostObeysInit, Inv, Served, [Next]_vars
  PROVE  Served'
<1>1. NoCall.fn \notin ArrayCalls /\ \A f \in {"init", "deinit"} : f \notin ArrayCalls
  BY DEF NoCall, ArrayCalls
<1>2. ASSUME NEW c \in Calls, Call(c) PROVE Served'
  BY <1>2, <1>1 DEF Call, Served
<1>3. CASE Fails \/ Session
  BY <1>3, <1>1 DEF Fails, Session, Served
<1>4. CASE UNCHANGED vars \/ ChipFinish \/ Onward
  BY <1>4 DEF vars, driver, ChipFinish, Onward, Served
<1>5. CASE Between
  BY <1>5, <1>1 DEF Between, LoopBegins, LoopDone, ProgramPage, PageSettled, EraseChip, EraseBegin,
     EraseUnit, UnitSettled, ChipSettled, AllErased, EraseDone, PageRead, ReadPage, Return, Served
<1>6. ASSUME NEW x \in XferEnds, SendReset(x) \/ Issue(x) PROVE Served'
  BY <1>6, <1>1 DEF SendReset, Issue, Abandon, Return, Served, Inv, Flow, ScanPcs
<1> QED BY StepKind, <1>2, <1>3, <1>4, <1>5, <1>6 DEF Kind

\* The invariant of the array is kept by every step, if the chip served is initialised.
LEMMA ArrayStep ==
  ASSUME Served', CallsInRange, Inv, Inv', Place, ArrayInv, UsableWhenInit, [Next]_vars
  PROVE  ArrayInv'
<1> USE DEF ArrayInv
<1>a. \A c \in Calls : c.addr \in Nat /\ c.len \in Nat
  BY CallsAssumption, SizesAssumption
<1>b. after \in [Addr -> Cell]
  BY DEF Inv, TypeOK, ChipType
\* A call that has returned, or that is not for the array, leaves only Landed to show.
<1>c. ASSUME Landed', call'.fn \notin ArrayCalls PROVE ArrayInv'
  BY <1>c DEF Served, Towards, UnitsDone, ReadSoFar, ArrayCalls, Inv, Flow
<1>d. NoCall.fn \notin ArrayCalls /\ \A f \in {"init", "deinit"} : f \notin ArrayCalls
  BY DEF NoCall, ArrayCalls
<1>0. CASE UNCHANGED vars
  BY <1>0 DEF vars, driver, chip, Landed, Served, Towards, DoneFrom, UnitsDone, ReadSoFar
<1>1. ASSUME NEW c \in Calls, Call(c) PROVE ArrayInv'
  <2>1. UNCHANGED <<mem, after, wip, info, initOk>> /\ pc' = c.fn /\ call' = c
        /\ addr' = c.addr /\ buf' = 0 /\ len' = c.len /\ result' = "EBUSY"
        /\ goal' = Store!Effect(c, after)
    BY <1>1 DEF Call, Goto, chip
  <2>2. Landed' /\ UnitsDone'
    BY <2>1, CallsAssumption DEF Landed, UnitsDone
  <2>3. Towards'
    BY <2>1, CallsAssumption DEF Towards, DoneFrom, Store!Effect
  <2>4. ReadSoFar'
    BY <2>1 DEF ReadSoFar, Store!Effect
  <2> QED BY <2>2, <2>3, <2>4
<1>2. CASE ChipFinish
  BY <1>2 DEF ChipFinish, Finish, driver, Landed, Served, Towards, DoneFrom, UnitsDone, ReadSoFar
<1>3. CASE Fails
  BY <1>3, <1>c, <1>d DEF Fails, Landed
<1>4. CASE Session
  BY <1>4, <1>c, <1>d DEF Session, Landed
<1>5. CASE Onward
  BY <1>5 DEF Onward, ModifyPcs, Landed, Served, Towards, DoneFrom, UnitsDone, ReadSoFar
<1>6. ASSUME NEW x \in XferEnds, SendReset(x) PROVE ArrayInv'
  <2>1. Landed'
    BY <1>6, ResetEffect DEF Landed
  <2>2. call'.fn \notin ArrayCalls
    BY <1>6, <1>d DEF SendReset, Abandon, Return, Inv, Flow, ScanPcs
  <2> QED BY <2>1, <2>2, <1>c
<1>7. ASSUME NEW x \in XferEnds, Issue(x) PROVE ArrayInv'
  <2>1. Landed'
    BY <1>7, IssueEffect DEF Landed, Issue, Inv, Flow, ModifyPcs
  <2>2. CASE x = "ok" /\ call.fn \in {"program", "erase"}
    <3>1. ~wip /\ after' = Outcome(cmd) /\ wip' /\ pc = "issue" /\ pc' = "settle"
          /\ UNCHANGED <<call, addr, buf, len, cmd, goal, info, initOk>>
      BY <1>7, <2>2, IssueEffect DEF Issue, Goto
    <3>2. goal = DoneFrom(after, addr, buf, len)
      BY <2>2, <3>1 DEF Towards
    <3>3. CASE cmd.kind = "chip"
      <4>1. goal' = after'
        BY <2>2, <3>1, <3>2, <3>3, OutcomeExact DEF ModifyPcs
      <4>2. Towards'
        BY <2>2, <3>1, <3>3, <4>1 DEF Towards
      <4> QED BY <2>1, <2>2, <3>1, <4>2 DEF Served, UnitsDone, ReadSoFar
    <3>4. CASE cmd.kind # "chip"
      <4>1. after' = DoneFrom(after, addr, buf, cmd.len) /\ cmd.len \in 0 .. len
        BY <2>2, <3>1, <3>4, OutcomeExact DEF ModifyPcs
      <4>2. goal = DoneFrom(after', addr + cmd.len, buf + cmd.len, len - cmd.len)
        <5>1. addr \in Nat /\ buf \in Nat /\ len \in Nat
          BY DEF Inv, TypeOK
        <5>2. cmd.len \in 0 .. len
          BY <4>1
        <5>3. Composes(after, addr, buf, len, cmd.len)
          BY ONLY <5>1, <5>2, DoneCompose
        <5> QED BY <3>2, <4>1, <5>3 DEF Composes
      <4>3. Towards'
        BY <2>2, <3>1, <3>4, <4>2, SMTT(30) DEF Towards, DoneFrom
      <4> QED BY <2>1, <2>2, <3>1, <4>3 DEF Served, UnitsDone, ReadSoFar
    <3> QED BY <3>3, <3>4
  <2>3. CASE call.fn \notin {"program", "erase"} \/ x # "ok"
    <3>1. call'.fn \notin ArrayCalls
      BY <1>7, <2>3, <1>d DEF Issue, Abandon, Return, Inv, Flow, ModifyPcs
    <3> QED BY <2>1, <3>1, <1>c
  <2> QED BY <2>2, <2>3
<1>8. CASE LoopBegins
  <2>1. UNCHANGED <<mem, after, wip, call, addr, buf, len, cmd, goal, rbuf, result, info, initOk>>
        /\ pc \in {"read", "program"} /\ pc' \in {"rdloop", "prloop"}
    BY <1>8 DEF LoopBegins, WaitFirst, TimedOut, Abandon, Return, Goto, Ready, chip
  <2> QED BY <2>1 DEF Landed, Served, Towards, DoneFrom, UnitsDone, ReadSoFar
<1>9. CASE LoopDone
  BY <1>9, <1>c, <1>d DEF LoopDone, Return, Landed, chip
<1>10. CASE ProgramPage
  BY <1>10 DEF ProgramPage, Modify, Goto, chip, Landed, Served, Towards, DoneFrom, UnitsDone,
       ReadSoFar
<1>11. CASE PageSettled
  <2>1. pc' = "prloop" /\ call.fn = "program"
    BY <1>11 DEF PageSettled, Goto, Inv, Flow, ModifyPcs, StatusKinds
  <2>2. Landed' /\ Served' /\ Towards'
    BY <1>11, <2>1, SettledExact DEF Landed, Served, Towards, DoneFrom
  <2> QED BY <1>11, <2>1, <2>2, SettledExact DEF UnitsDone, ReadSoFar
<1>12. CASE EraseChip
  BY <1>12 DEF EraseChip, Modify, Goto, chip, Landed, Served, Towards, DoneFrom, UnitsDone,
       ReadSoFar
<1>13. CASE EraseBegin
  <2>1. buf = 0
    BY <1>13 DEF EraseBegin, Place, Inv, Flow, ArrayCalls
  <2> QED BY <1>13, <2>1 DEF EraseBegin, Goto, chip, Landed, Served, Towards, DoneFrom,
            UnitsDone, ReadSoFar
<1>14. CASE EraseUnit
  BY <1>14 DEF EraseUnit, Modify, Goto, chip, Landed, Served, Towards, DoneFrom, UnitsDone,
       ReadSoFar
<1>15. CASE UnitSettled
  <2>1. pc' = "erloop" /\ call.fn = "erase"
    BY <1>15 DEF UnitSettled, Goto, Inv, Flow, ModifyPcs, StatusKinds
  <2>2. Landed' /\ Served' /\ Towards'
    BY <1>15, <2>1, SettledExact DEF Landed, Served, Towards, DoneFrom
  <2> QED BY <1>15, <2>1, <2>2, SettledExact DEF UnitsDone, ReadSoFar
<1>16. CASE ChipSettled
  BY <1>16, <1>c, <1>d DEF ChipSettled, Ready, Return, Landed, chip
<1>17. CASE AllErased
  BY <1>17, <1>c, <1>d DEF AllErased, EraseDone, Return, Landed, chip
<1>18. ASSUME NEW x \in XferEnds, PageRead(x) PROVE ArrayInv'
  <2>1. UNCHANGED <<mem, after, wip, call, pc, goal, info, initOk>> /\ call.fn = "read"
        /\ pc = "rdloop"
    BY <1>18 DEF PageRead, ReadPage, ReadTransfer, chip, Inv, Flow
  <2>2. buf' > 0 /\ rbuf' = [i \in 0 .. buf' - 1 |-> after[call.addr + i]]
    BY <1>18, PageReadExact
  <2>3. ReadSoFar'
    BY <2>1, <2>2 DEF ReadSoFar
  <2> QED BY <2>1, <2>3 DEF Landed, Served, Towards, UnitsDone
<1> QED BY StepKind, <1>0, <1>1, <1>2, <1>3, <1>4, <1>5, <1>6, <1>7, <1>8, <1>9, <1>10, <1>11,
          <1>12, <1>13, <1>14, <1>15, <1>16, <1>17, <1>18
        DEF Kind, Between

-----------------------------------------------------------------------------
(* The refinement.                                                         *)

\* A piece of the request leaves each cell as it is or gives it its final value.
LEMMA PieceExact ==
  ASSUME Inv, CallsInRange, Place, call.fn \in {"program", "erase"},
         NEW m, NEW n \in 0 .. len, NEW a \in Addr
  PROVE  DoneFrom(m, addr, buf, n)[a] \in {m[a], Store!Effect(call, m)[a]}
<1>1. /\ call.fn \in ArrayCalls /\ a \in Nat
      /\ addr = call.addr + buf /\ buf + len = call.len
      /\ call.addr \in Nat /\ call.len \in Nat /\ buf \in Nat /\ len \in Nat
  BY CallNumbers DEF Place, ArrayCalls, Addr
<1>2. Store!InRange(a, addr, n) =>
        Store!InRange(a, call.addr, call.len) /\ buf + (a - addr) = 0 + (a - call.addr)
  BY <1>1 DEF Store!InRange
<1>3. CASE call.fn = "program"
  <2>1. DoneFrom(m, addr, buf, n)[a]
        = IF Store!InRange(a, addr, n) THEN m[a] \cap call.data[buf + (a - addr)] ELSE m[a]
    BY <1>3 DEF DoneFrom, Store!Programmed, Store!Addr, Addr
  <2>2. Store!Effect(call, m)[a]
        = IF Store!InRange(a, call.addr, call.len)
          THEN m[a] \cap call.data[0 + (a - call.addr)] ELSE m[a]
    BY <1>3 DEF Store!Effect, Store!Programmed, Store!Addr, Addr
  <2> QED BY <1>2, <2>1, <2>2
<1>4. CASE call.fn = "erase"
  BY <1>2, <1>4 DEF DoneFrom, Store!Effect, Store!Wiped, Store!Addr, Addr
<1> QED BY <1>3, <1>4

\* A call that ends with an error fails in FlashStore.
LEMMA FailsIsFail ==
  ASSUME Inv, Fails
  PROVE  Store!Fail
BY CallsAssumption DEF Fails, Inv, Flow, Store!Fail, Store!None, NoCall

\* A step of the driver is a step of FlashStore or none.
LEMMA Refines ==
  ASSUME CallsInRange, Inv, Inv', Place, ArrayInv, UsableWhenInit, [Next]_vars
  PROVE  [Store!Next]_Store!svars
<1> USE DEF ArrayInv
<1>a. pc # "idle" => call # Store!None /\ call.fn # "none"
  BY CallsAssumption DEF Inv, Flow, Store!None
<1>b. mem \in [Addr -> Cell] /\ after \in [Addr -> Cell]
      /\ mem' \in [Addr -> Cell] /\ after' \in [Addr -> Cell]
  BY DEF Inv, TypeOK, ChipType
<1>c. NoCall = Store!None /\ Store!Addr = Addr /\ Store!Cell = Cell
  BY DEF NoCall, Store!None, Store!Addr, Addr, Store!Cell, Cell
<1>0. CASE UNCHANGED vars
  BY <1>0 DEF vars, driver, chip, Store!svars
<1>1. ASSUME NEW c \in Calls, Call(c) PROVE Store!Next
  <2>1. Store!Call(c)
    BY <1>1, <1>c DEF Call, Inv, Flow, Store!Call, chip
  <2> QED BY <2>1 DEF Store!Next
<1>2. CASE ChipFinish
  BY <1>2 DEF ChipFinish, Finish, driver, Store!Land, Store!Next
<1>3. CASE Fails
  BY <1>3, FailsIsFail DEF Store!Next
<1>4. CASE Session
  <2>1. CASE call' = call
    BY <1>4, <2>1, <1>a DEF Session, Store!Work, Store!Next
  <2>2. CASE pc' = "idle" /\ call' = NoCall /\ result' = "ok"
    <3>1. Store!Succeed
      BY <1>4, <2>2, <1>a, <1>c DEF Session, Store!Succeed
    <3> QED BY <3>1 DEF Store!Next
  <2> QED BY <1>4, <2>1, <2>2 DEF Session
<1>5. CASE Onward
  BY <1>5, <1>a DEF Onward, ModifyPcs, Store!Work, Store!Next
<1>6. ASSUME NEW x \in XferEnds, SendReset(x) PROVE Store!Next
  <2>1. /\ pc = "reset" /\ call.fn = "init"
        /\ UNCHANGED <<goal, rbuf>>
        /\ UNCHANGED <<call, result>> \/ (call' = NoCall /\ result' # "ok")
    BY <1>6 DEF SendReset, Abandon, Return, Inv, Flow, ScanPcs
  <2>2. CASE UNCHANGED <<mem, after, wip>>
    BY <2>1, <2>2, <1>a, <1>c DEF Store!Work, Store!Fail, Store!Next
  <2>3. CASE ~(UNCHANGED <<mem, after, wip>>)
    <3>1. after' = mem' /\ \A a \in Addr : mem'[a] \in {mem[a], after[a]}
      BY <1>6, <2>3, ResetEffect
    <3>2. Store!Abort
      BY <2>1, <3>1, <1>b, <1>c DEF Store!Abort, Store!GoOnOrFail
    <3> QED BY <3>2 DEF Store!Next
  <2> QED BY <2>2, <2>3
<1>7. ASSUME NEW x \in XferEnds, Issue(x) PROVE Store!Next
  <2>1. /\ pc = "issue" /\ ~wip /\ mem' = mem
        /\ UNCHANGED <<goal, rbuf>>
        /\ UNCHANGED <<call, result>> \/ (call' = NoCall /\ result' # "ok")
    BY <1>7, IssueEffect DEF Issue, Abandon, Return
  <2>2. CASE after' = after
    BY <2>1, <2>2, <1>a, <1>c DEF Store!Work, Store!Fail, Store!Next
  <2>3. CASE after' # after
    <3>1. call.fn \in {"program", "erase"} /\ after' = Outcome(cmd)
      BY <1>7, <2>3, IssueEffect
    <3>2. after = mem
      BY <2>1 DEF Landed
    <3>3. \E n \in 0 .. len : after' = DoneFrom(mem, addr, buf, n)
      <4>1. len \in 0 .. len
        BY DEF Inv, TypeOK
      <4> QED BY <2>1, <3>1, <3>2, <4>1, OutcomeExact DEF ModifyPcs
    <3>4. \A a \in Addr : after'[a] \in {mem[a], Store!Effect(call, mem)[a]}
      BY <3>1, <3>3, PieceExact
    <3>5. Store!Begin
      BY <2>1, <3>1, <3>2, <3>4, <1>b, <1>c DEF Store!Begin, Store!GoOnOrFail
    <3> QED BY <3>5 DEF Store!Next
  <2> QED BY <2>2, <2>3
<1>8. CASE LoopDone
  <2>1. /\ pc \in {"rdloop", "prloop"} /\ len = 0
        /\ call' = NoCall /\ result' = result
        /\ UNCHANGED <<mem, after, goal, rbuf>>
    BY <1>8 DEF LoopDone, Return, chip
  <2>2. CASE result # "ok"
    BY <2>1, <2>2, <1>a, <1>c DEF Store!Fail, Store!Next
  <2>3. CASE result = "ok"
    <3>1. mem = after
      BY <2>1 DEF Landed, Inv, Quiet
    <3>2. call.fn \in {"read", "program"} /\ call.fn \in ArrayCalls
      BY <2>1 DEF Inv, Flow, ArrayCalls
    <3>3. after = goal
      BY <2>1, <3>2, <1>b, DoneNothing, CallNumbers DEF Towards, ReadSoFar
    <3>4. call.fn = "read" => rbuf' = Store!Contents(mem, call)
      <4>1. buf = call.len
        BY <2>1, <3>2, CallNumbers
      <4> QED BY <2>1, <2>3, <3>1, <4>1 DEF ReadSoFar, Store!Contents
    <3>5. Store!Succeed
      BY <2>1, <2>3, <3>1, <3>3, <3>4, <1>a, <1>c DEF Store!Succeed
    <3> QED BY <3>5 DEF Store!Next
  <2> QED BY <2>2, <2>3
<1>9. CASE ChipSettled
  <2>1. /\ pc = "settle" /\ cmd.kind = "chip" /\ call.fn = "erase" /\ ~wip
        /\ call' = NoCall /\ result' = "ok"
        /\ UNCHANGED <<mem, after, goal>>
    BY <1>9 DEF ChipSettled, Ready, Return, chip, Inv, Flow, ModifyPcs, StatusKinds
  <2>2. mem = after /\ after = goal
    BY <2>1 DEF Landed, Towards
  <2>3. Store!Succeed
    BY <2>1, <2>2, <1>a, <1>c DEF Store!Succeed
  <2> QED BY <2>3 DEF Store!Next
<1>10. CASE AllErased
  <2>1. /\ pc = "erloop" /\ len = 0 /\ call.fn = "erase" /\ call.fn \in ArrayCalls
        /\ call' = NoCall /\ result' = "ok"
        /\ UNCHANGED <<mem, after, goal>>
    BY <1>10 DEF AllErased, EraseDone, Return, chip, Inv, Flow, ArrayCalls
  <2>2. after = goal
    BY <2>1, <1>b, DoneNothing, CallNumbers DEF Towards
  <2>3. call.len > 0 => mem = after
    BY <2>1, CallNumbers DEF UnitsDone, Landed
  <2>4. Store!Succeed
    BY <2>1, <2>2, <2>3, <1>a, <1>c DEF Store!Succeed
  <2> QED BY <2>4 DEF Store!Next
<1>11. ASSUME \/ LoopBegins \/ ProgramPage \/ PageSettled \/ EraseChip \/ EraseBegin
              \/ EraseUnit \/ UnitSettled \/ \E x \in XferEnds : PageRead(x)
       PROVE  Store!Next
  <2>1. pc # "idle" /\ UNCHANGED <<mem, after, call, goal>>
    BY <1>11 DEF LoopBegins, WaitFirst, ProgramPage, PageSettled, EraseChip, EraseBegin,
       EraseUnit, UnitSettled, PageRead, ReadPage, ReadTransfer, Ready, chip
  <2> QED BY <2>1, <1>a DEF Store!Work, Store!Next
<1> QED BY StepKind, <1>0, <1>1, <1>2, <1>3, <1>4, <1>5, <1>6, <1>7, <1>8, <1>9, <1>10, <1>11
        DEF Kind, Between

\* The loops' invariants hold, and with them every step keeps the promise.
LEMMA PromiseKept ==
  ASSUME HostObeysInit, CallsInRange
  PROVE  Spec => [](Place /\ ArrayInv) /\ Implements
<1>1. Init => Place /\ ArrayInv /\ Store!Init
  BY PartAssumption DEF Init, Place, ArrayInv, Landed, Served, Towards, UnitsDone, ReadSoFar,
     NoCall, ArrayCalls, Store!Init, Store!None, Store!Addr, Addr, Store!Cell, Cell
<1>2. Inv /\ Inv' /\ Place /\ ArrayInv /\ UsableWhenInit /\ [Next]_vars
      => Place' /\ ArrayInv' /\ [Store!Next]_Store!svars
  BY PlaceStep, ServedStep, ArrayStep, Refines DEF ArrayInv
<1>3. Spec => []UsableWhenInit
  BY UsableCorrect
<1> QED BY <1>1, <1>2, <1>3, InvCorrect, PTL DEF Spec, Implements, Store!Spec

\* The driver keeps the promise of FlashStore, whatever the sizes, the part, the calls and
\* the failures, if requests lie in the chip and only deinit follows a failed init.
THEOREM ImplementsCorrect ==
  ASSUME HostObeysInit, CallsInRange
  PROVE  Spec => Implements
BY PromiseKept, PTL
-----------------------------------------------------------------------------
(* What the messages of the code say, for requests in range.               *)

\* An erase that passes nor_erase's checks ends inside the chip, if no request's end
\* exceeds the word: the sum the check compares is then the end itself.
THEOREM EraseEndCorrect ==
  ASSUME CallsInRange
  PROVE  Spec => []EraseBeyondEndRefused
<1>1. Init => Place
  BY DEF Init, Place, NoCall, ArrayCalls
<1>2. Inv /\ Place => EraseBeyondEndRefused
  BY DEF Inv, Flow, Place, ArrayCalls, EraseBeyondEndRefused
<1> QED BY <1>1, <1>2, PlaceStep, InvCorrect, PTL DEF Spec

\* A program call that returns success has programmed its data, if requests lie in the
\* chip and only deinit follows a failed init: no protected chip is written to, the wait
\* after the last page has seen the chip idle, and the pages are all of the request.
THEOREM ProgramSuccessCorrect ==
  ASSUME HostObeysInit, CallsInRange
  PROVE  Spec => ProgramSuccessIsDone
<1>1. Inv /\ Place /\ ArrayInv /\ [Next]_vars
      => [pc # "idle" /\ pc' = "idle" /\ call.fn = "program" /\ result' = "ok"
            => mem' = goal]_vars
  <2> SUFFICES ASSUME Inv, Place, ArrayInv, [Next]_vars, pc # "idle", pc' = "idle",
                      call.fn = "program", result' = "ok"
               PROVE  mem' = goal
    OBVIOUS
  <2>1. LoopDone
    <3>1. Kind
      BY StepKind DEF Inv
    <3>2. CASE \E x \in XferEnds : SendReset(x) \/ Issue(x)
      BY <3>2 DEF SendReset, Issue, Goto, Abandon, Return
    <3>3. CASE Between
      BY <3>3 DEF Between, LoopBegins, ProgramPage, PageSettled, EraseChip, EraseBegin,
         EraseUnit, UnitSettled, ChipSettled, AllErased, EraseDone, PageRead, ReadPage,
         Modify, Goto, Inv, Flow, ModifyPcs, StatusKinds
    <3> QED BY <3>1, <3>2, <3>3 DEF Kind, vars, driver, Call, ChipFinish, Fails, Session,
               Onward, ModifyPcs
  <2>2. pc = "prloop" /\ len = 0 /\ ~wip /\ mem' = mem
    BY <2>1 DEF LoopDone, chip, Inv, Flow, Quiet
  <2>3. mem = after /\ goal = DoneFrom(after, addr, buf, len)
    BY <2>2 DEF ArrayInv, Landed, Towards
  <2>4. after \in [Addr -> Cell] /\ addr \in Nat
    BY DEF Inv, TypeOK, ChipType
  <2>5. DoneFrom(after, addr, buf, 0) = after
    BY <2>4, DoneNothing
  <2> QED BY <2>2, <2>3, <2>5
<1> QED BY <1>1, PromiseKept, InvCorrect, PTL DEF Spec, ProgramSuccessIsDone
=============================================================================
