--------------------------- MODULE SpiXferProofs ----------------------------
(***************************************************************************)
(* Proofs about SpiXfer for all FIFO depths, budgets and transfers: the    *)
(* loops stay inside the buffers, and while bus and CPU keep pace no byte  *)
(* is dropped, no interrupt of an earlier transfer is pending at the start *)
(* of the next one, and hal_spi_xfer returns OK only for what is done.     *)
(***************************************************************************)
EXTENDS SpiXfer, TLAPS

Resting == {"idle", "setup", "start"}
Writing == {"write", "wpoll"}
Reading == {"rpoll"}
Completing == {"complete", "cpoll", "check"}

\* What a label says of the copy loops, in time or not.
Loops ==
  /\ pc \in Resting \cup Completing => todo = 0
  /\ pc \in Writing => todo <= xfer.tx /\ good = 0
  /\ pc = "wpoll" => todo > 0
  /\ pc = "rpoll" => todo + good <= xfer.rx
  /\ pc \in {"setup", "start"} => good = 0
  /\ pc # "idle" => xfer.tx > 0 \/ xfer.rx > 0

\* The budgets of the copy loops last, so that the writer stops in time.
Budgets ==
  /\ pc \in Writing \cup Reading => poll > 0
  /\ pc = "write" => txf < MaxFifu

\* The bytes the writer has left to put into the FIFO.
Unwritten == IF pc = "write" THEN todo ELSE IF pc = "wpoll" THEN todo - 1 ELSE 0

\* Every byte is with the caller, in a FIFO, or on the bus.
Bytes ==
  /\ pc \in Resting => bus = NoXfer /\ txf = 0 /\ rxf = 0
  /\ pc \notin Resting =>
       /\ bus.tx = txf + Unwritten
       /\ bus.rx + rxf + good = xfer.rx
       /\ bus.tx > 0 => bus.rx = xfer.rx
  /\ pc = "rpoll" => todo + good = xfer.rx
  /\ pc \in Completing => good = xfer.rx

\* The end of the burst is signalled once, taken by the handler once, and seen by the
\* loop only then.
Signals ==
  /\ pc \in {"idle", "setup"} => ~irqOn /\ status = {}
  /\ pc = "setup" => result = "READY"
  /\ pc = "start" => irqOn /\ status = {} /\ result = "READY"
  /\ pc \notin Resting =>
       \/ bus # NoXfer /\ irqOn /\ status = {} /\ result = "READY"
       \/ bus = NoXfer /\ irqOn /\ status = {"TC"} /\ result = "READY"
       \/ bus = NoXfer /\ ~irqOn /\ status = {} /\ result = "OK"
  /\ pc \in {"cpoll", "check"} => seen \in {"reload", "READY", result}
  /\ pc = "check" => result = "OK"

Inv ==
  /\ TypeOK
  /\ Loops
  /\ inTime => Budgets /\ Bytes /\ Signals

-----------------------------------------------------------------------------
\* A transfer and what is left of it are two lengths.
LEMMA XferType == TypeOK => xfer \in [tx : Nat, rx : Nat]
BY XferAssumption DEF TypeOK, NoXfer

LEMMA BusEmpty ==
  \A b \in [tx : Nat, rx : Nat] : b = NoXfer <=> b.tx = 0 /\ b.rx = 0
BY DEF NoXfer

LEMMA InvInit == Init => Inv
<1>. SUFFICES ASSUME Init PROVE Inv
  OBVIOUS
<1>1. NoXfer \in [tx : Nat, rx : Nat] /\ NoXfer.tx = 0 /\ NoXfer.rx = 0
  BY DEF NoXfer
<1>2. TypeOK
  <2>1. xfer \in Xfers \cup {NoXfer} /\ bus \in [tx : Nat, rx : Nat]
    BY <1>1 DEF Init
  <2>2. todo \in 0 .. xfer.tx + xfer.rx /\ good \in 0 .. xfer.rx
    BY <1>1 DEF Init
  <2>3. poll \in 0 .. WordSize - 1 /\ txf \in 0 .. Depth /\ rxf \in 0 .. Depth
        /\ xfers \in 0 .. MaxXfers
    BY XferAssumption DEF Init
  <2>. QED BY <2>1, <2>2, <2>3 DEF Init, TypeOK
<1>3. Loops /\ Budgets /\ Bytes /\ Signals
  BY DEF Init, Loops, Budgets, Bytes, Signals, Resting, Writing, Reading, Completing
<1>. QED BY <1>2, <1>3 DEF Inv

\* The types, from what the labels say of the loops.
LEMMA TypeStep ==
  TypeOK /\ Loops /\ [Next]_vars => TypeOK'
<1>. SUFFICES ASSUME TypeOK, Loops, [Next]_vars PROVE TypeOK'
  OBVIOUS
<1>. USE XferAssumption, XferType, BusEmpty
        DEF TypeOK, Loops, Resting, Writing, Reading, Completing
<1>1. CASE UNCHANGED vars
  BY <1>1 DEF vars, thread, hw
<1>2. ASSUME NEW x \in Xfers, Begin(x), UNCHANGED inTime PROVE TypeOK'
  BY <1>2 DEF Begin, hw, NoXfer
<1>3. CASE Setup /\ UNCHANGED inTime
  BY <1>3 DEF Setup, thread, hw
<1>4. CASE Start /\ UNCHANGED inTime
  <2>. USE <1>4 DEF Start, thread, hw
  <2>1. bus' \in [tx : Nat, rx : Nat] /\ xfer' = xfer
    OBVIOUS
  <2>2. pc' \in {"write", "rpoll"} /\ todo' \in 0 .. xfer.tx + xfer.rx /\ poll' = PollTime
    BY DEF EnterWrite, EnterRead
  <2>3. status' \subseteq {"TC", "ERR"}
    OBVIOUS
  <2>. QED BY <2>1, <2>2, <2>3
<1>5. CASE WriteByte /\ UNCHANGED inTime
  BY <1>5 DEF WriteByte, thread, hw
<1>6. CASE WriteDone /\ UNCHANGED inTime
  BY <1>6 DEF WriteDone, thread, hw, AfterWrite, EnterRead, EnterComplete
<1>7. CASE WaitTx /\ UNCHANGED inTime
  BY <1>7 DEF WaitTx, thread, hw, Spin, RunDry
<1>8. CASE RoomTx /\ UNCHANGED inTime
  BY <1>8 DEF RoomTx, thread, hw, AfterWrite, EnterRead, EnterComplete
<1>9. CASE ReadDone /\ UNCHANGED inTime
  BY <1>9 DEF ReadDone, thread, hw, EnterComplete
<1>10. CASE WaitRx /\ UNCHANGED inTime
  BY <1>10 DEF WaitRx, thread, hw, Spin, RunDry
<1>11. CASE TakeRx /\ UNCHANGED inTime
  BY <1>11 DEF TakeRx, thread, hw, EnterComplete
<1>12. CASE EnterLoop /\ UNCHANGED inTime
  BY <1>12 DEF EnterLoop, thread, hw
<1>13. CASE WaitResult /\ UNCHANGED inTime
  BY <1>13 DEF WaitResult, thread, hw, RunDry, Seen
<1>14. CASE ResultSeen /\ UNCHANGED inTime
  BY <1>14 DEF ResultSeen, thread, hw, Seen
<1>15. CASE Check /\ UNCHANGED inTime
  BY <1>15 DEF Check, thread, hw
<1>16. CASE SendByte /\ UNCHANGED inTime
  BY <1>16 DEF SendByte, thread, hw, Ended
<1>17. CASE ReceiveByte /\ UNCHANGED inTime
  BY <1>17 DEF ReceiveByte, thread, hw, Ended
<1>18. CASE Overrun /\ UNCHANGED inTime
  BY <1>18 DEF Overrun, thread, hw, Ended
<1>19. CASE Interrupt /\ UNCHANGED inTime
  BY <1>19 DEF Interrupt, thread, hw
<1>. QED BY <1>1, <1>2, <1>3, <1>4, <1>5, <1>6, <1>7, <1>8, <1>9, <1>10, <1>11,
            <1>12, <1>13, <1>14, <1>15, <1>16, <1>17, <1>18, <1>19
         DEF Next, Thread, Controller

\* The loops.
LEMMA LoopsStep ==
  TypeOK /\ Loops /\ [Next]_vars => Loops'
<1>. SUFFICES ASSUME TypeOK, Loops, [Next]_vars PROVE Loops'
  OBVIOUS
<1>. USE XferAssumption, XferType, BusEmpty
        DEF TypeOK, Loops, Resting, Writing, Reading, Completing
<1>1. CASE UNCHANGED vars
  BY <1>1 DEF vars, thread, hw
<1>2. ASSUME NEW x \in Xfers, Begin(x), UNCHANGED inTime PROVE Loops'
  BY <1>2 DEF Begin, hw, NoXfer
<1>3. CASE Setup /\ UNCHANGED inTime
  BY <1>3 DEF Setup, thread, hw
<1>4. CASE Start /\ UNCHANGED inTime
  BY <1>4 DEF Start, thread, hw, EnterWrite, EnterRead
<1>5. CASE WriteByte /\ UNCHANGED inTime
  BY <1>5 DEF WriteByte, thread, hw
<1>6. CASE WriteDone /\ UNCHANGED inTime
  BY <1>6 DEF WriteDone, thread, hw, AfterWrite, EnterRead, EnterComplete
<1>7. CASE WaitTx /\ UNCHANGED inTime
  BY <1>7 DEF WaitTx, thread, hw, Spin, RunDry
<1>8. CASE RoomTx /\ UNCHANGED inTime
  BY <1>8 DEF RoomTx, thread, hw, AfterWrite, EnterRead, EnterComplete
<1>9. CASE ReadDone /\ UNCHANGED inTime
  BY <1>9 DEF ReadDone, thread, hw, EnterComplete
<1>10. CASE WaitRx /\ UNCHANGED inTime
  BY <1>10 DEF WaitRx, thread, hw, Spin, RunDry
<1>11. CASE TakeRx /\ UNCHANGED inTime
  BY <1>11 DEF TakeRx, thread, hw, EnterComplete
<1>12. CASE EnterLoop /\ UNCHANGED inTime
  BY <1>12 DEF EnterLoop, thread, hw
<1>13. CASE WaitResult /\ UNCHANGED inTime
  BY <1>13 DEF WaitResult, thread, hw, RunDry, Seen
<1>14. CASE ResultSeen /\ UNCHANGED inTime
  BY <1>14 DEF ResultSeen, thread, hw, Seen
<1>15. CASE Check /\ UNCHANGED inTime
  BY <1>15 DEF Check, thread, hw
<1>16. CASE SendByte /\ UNCHANGED inTime
  BY <1>16 DEF SendByte, thread, hw, Ended
<1>17. CASE ReceiveByte /\ UNCHANGED inTime
  BY <1>17 DEF ReceiveByte, thread, hw, Ended
<1>18. CASE Overrun /\ UNCHANGED inTime
  BY <1>18 DEF Overrun, thread, hw, Ended
<1>19. CASE Interrupt /\ UNCHANGED inTime
  BY <1>19 DEF Interrupt, thread, hw
<1>. QED BY <1>1, <1>2, <1>3, <1>4, <1>5, <1>6, <1>7, <1>8, <1>9, <1>10, <1>11,
            <1>12, <1>13, <1>14, <1>15, <1>16, <1>17, <1>18, <1>19
         DEF Next, Thread, Controller

\* In time, the budgets.
LEMMA BudgetsStep ==
  inTime /\ TypeOK /\ Loops /\ Budgets /\ Bytes /\ [Next]_vars => Budgets'
<1>. SUFFICES ASSUME inTime, TypeOK, Loops, Budgets, Bytes, [Next]_vars PROVE Budgets'
  OBVIOUS
<1>. USE XferAssumption, XferType, BusEmpty
        DEF TypeOK, Loops, Budgets, Bytes, Resting, Writing, Reading, Completing
<1>1. CASE UNCHANGED vars
  BY <1>1 DEF vars, thread, hw
<1>2. ASSUME NEW x \in Xfers, Begin(x), UNCHANGED inTime PROVE Budgets'
  BY <1>2 DEF Begin, hw, NoXfer
<1>3. CASE Setup /\ UNCHANGED inTime
  BY <1>3 DEF Setup, thread, hw
<1>4. CASE Start /\ UNCHANGED inTime
  BY <1>4 DEF Start, thread, hw, EnterWrite, EnterRead
<1>5. CASE WriteByte /\ UNCHANGED inTime
  BY <1>5 DEF WriteByte, thread, hw
<1>6. CASE WriteDone /\ UNCHANGED inTime
  BY <1>6 DEF WriteDone, thread, hw, AfterWrite, EnterRead, EnterComplete
<1>7. CASE WaitTx /\ UNCHANGED inTime
  BY <1>7 DEF WaitTx, thread, hw, Spin, RunDry
<1>8. CASE RoomTx /\ UNCHANGED inTime
  BY <1>8 DEF RoomTx, thread, hw, AfterWrite, EnterRead, EnterComplete
<1>9. CASE ReadDone /\ UNCHANGED inTime
  BY <1>9 DEF ReadDone, thread, hw, EnterComplete
<1>10. CASE WaitRx /\ UNCHANGED inTime
  BY <1>10 DEF WaitRx, thread, hw, Spin, RunDry
<1>11. CASE TakeRx /\ UNCHANGED inTime
  BY <1>11 DEF TakeRx, thread, hw, EnterComplete
<1>12. CASE EnterLoop /\ UNCHANGED inTime
  BY <1>12 DEF EnterLoop, thread, hw
<1>13. CASE WaitResult /\ UNCHANGED inTime
  BY <1>13 DEF WaitResult, thread, hw, RunDry, Seen
<1>14. CASE ResultSeen /\ UNCHANGED inTime
  BY <1>14 DEF ResultSeen, thread, hw, Seen
<1>15. CASE Check /\ UNCHANGED inTime
  BY <1>15 DEF Check, thread, hw
<1>16. CASE SendByte /\ UNCHANGED inTime
  BY <1>16 DEF SendByte, thread, hw, Ended
<1>17. CASE ReceiveByte /\ UNCHANGED inTime
  BY <1>17 DEF ReceiveByte, thread, hw, Ended
<1>18. CASE Overrun /\ UNCHANGED inTime
  BY <1>18 DEF Overrun, thread, hw, Ended
<1>19. CASE Interrupt /\ UNCHANGED inTime
  BY <1>19 DEF Interrupt, thread, hw
<1>. QED BY <1>1, <1>2, <1>3, <1>4, <1>5, <1>6, <1>7, <1>8, <1>9, <1>10, <1>11,
            <1>12, <1>13, <1>14, <1>15, <1>16, <1>17, <1>18, <1>19
         DEF Next, Thread, Controller

\* In time, the bytes.
LEMMA BytesStep ==
  inTime /\ TypeOK /\ Loops /\ Budgets /\ Bytes /\ Signals /\ [Next]_vars => Bytes'
<1>. SUFFICES ASSUME inTime, TypeOK, Loops, Budgets, Bytes, Signals, [Next]_vars PROVE Bytes'
  OBVIOUS
<1>. USE XferAssumption, XferType, BusEmpty
        DEF TypeOK, Loops, Budgets, Bytes, Unwritten, Resting, Writing, Reading, Completing
<1>1. CASE UNCHANGED vars
  BY <1>1 DEF vars, thread, hw
<1>2. ASSUME NEW x \in Xfers, Begin(x), UNCHANGED inTime PROVE Bytes'
  BY <1>2 DEF Begin, hw, NoXfer
<1>3. CASE Setup /\ UNCHANGED inTime
  BY <1>3 DEF Setup, thread, hw
<1>4. CASE Start /\ UNCHANGED inTime
  BY <1>4 DEF Start, thread, hw, EnterWrite, EnterRead
<1>5. CASE WriteByte /\ UNCHANGED inTime
  BY <1>5 DEF WriteByte, thread, hw
<1>6. CASE WriteDone /\ UNCHANGED inTime
  BY <1>6 DEF WriteDone, thread, hw, AfterWrite, EnterRead, EnterComplete
<1>7. CASE WaitTx /\ UNCHANGED inTime
  BY <1>7 DEF WaitTx, thread, hw, Spin, RunDry
<1>8. CASE RoomTx /\ UNCHANGED inTime
  BY <1>8 DEF RoomTx, thread, hw, AfterWrite, EnterRead, EnterComplete
<1>9. CASE ReadDone /\ UNCHANGED inTime
  BY <1>9 DEF ReadDone, thread, hw, EnterComplete
<1>10. CASE WaitRx /\ UNCHANGED inTime
  BY <1>10 DEF WaitRx, thread, hw, Spin, RunDry
<1>11. CASE TakeRx /\ UNCHANGED inTime
  BY <1>11 DEF TakeRx, thread, hw, EnterComplete
<1>12. CASE EnterLoop /\ UNCHANGED inTime
  BY <1>12 DEF EnterLoop, thread, hw
<1>13. CASE WaitResult /\ UNCHANGED inTime
  BY <1>13 DEF WaitResult, thread, hw, RunDry, Seen
<1>14. CASE ResultSeen /\ UNCHANGED inTime
  BY <1>14 DEF ResultSeen, thread, hw, Seen
<1>15. CASE Check /\ UNCHANGED inTime
  BY <1>15 DEF Check, thread, hw, Signals
<1>16. CASE SendByte /\ UNCHANGED inTime
  BY <1>16 DEF SendByte, thread, hw, Ended
<1>17. CASE ReceiveByte /\ UNCHANGED inTime
  <2>1. pc \notin Resting
    BY <1>17 DEF ReceiveByte
  <2>2. UNCHANGED <<pc, xfer, todo, good, txf>> /\ Unwritten' = Unwritten
    BY <1>17 DEF ReceiveByte, thread
  <2>3. /\ bus'.tx = bus.tx /\ bus'.rx = bus.rx - 1
        /\ bus.tx = 0 /\ rxf' = rxf + 1
    BY <1>17 DEF ReceiveByte
  <2>4. bus'.rx + rxf' + good' = xfer.rx
    BY <2>1, <2>2, <2>3
  <2>. HIDE DEF Unwritten
  <2>. QED BY <2>1, <2>2, <2>3, <2>4
<1>18. CASE Overrun /\ UNCHANGED inTime
  BY <1>18 DEF Overrun, thread, hw, Ended
<1>19. CASE Interrupt /\ UNCHANGED inTime
  BY <1>19 DEF Interrupt, thread, hw
<1>. QED BY <1>1, <1>2, <1>3, <1>4, <1>5, <1>6, <1>7, <1>8, <1>9, <1>10, <1>11,
            <1>12, <1>13, <1>14, <1>15, <1>16, <1>17, <1>18, <1>19
         DEF Next, Thread, Controller

\* In time, the interrupt.
LEMMA SignalsStep ==
  inTime /\ TypeOK /\ Loops /\ Bytes /\ Signals /\ [Next]_vars => Signals'
<1>. SUFFICES ASSUME inTime, TypeOK, Loops, Bytes, Signals, [Next]_vars PROVE Signals'
  OBVIOUS
<1>. USE XferAssumption, XferType, BusEmpty
        DEF TypeOK, Loops, Bytes, Unwritten, Signals, Resting, Writing, Reading, Completing
<1>1. CASE UNCHANGED vars
  BY <1>1 DEF vars, thread, hw
<1>2. ASSUME NEW x \in Xfers, Begin(x), UNCHANGED inTime PROVE Signals'
  BY <1>2 DEF Begin, hw, NoXfer
<1>3. CASE Setup /\ UNCHANGED inTime
  BY <1>3 DEF Setup, thread, hw
<1>4. CASE Start /\ UNCHANGED inTime
  <2>. USE <1>4 DEF Start, thread, hw
  <2>1. pc' \in {"write", "rpoll"} /\ irqOn' /\ status' = {} /\ result' = "READY"
    BY DEF EnterWrite, EnterRead
  <2>2. bus' \in [tx : Nat, rx : Nat] /\ (bus'.tx > 0 \/ bus'.rx > 0)
    OBVIOUS
  <2>3. bus' # NoXfer
    BY <2>2
  <2>. QED BY <2>1, <2>3
<1>5. CASE WriteByte /\ UNCHANGED inTime
  BY <1>5 DEF WriteByte, thread, hw
<1>6. CASE WriteDone /\ UNCHANGED inTime
  BY <1>6 DEF WriteDone, thread, hw, AfterWrite, EnterRead, EnterComplete
<1>7. CASE WaitTx /\ UNCHANGED inTime
  BY <1>7 DEF WaitTx, thread, hw, Spin, RunDry
<1>8. CASE RoomTx /\ UNCHANGED inTime
  BY <1>8 DEF RoomTx, thread, hw, AfterWrite, EnterRead, EnterComplete
<1>9. CASE ReadDone /\ UNCHANGED inTime
  BY <1>9 DEF ReadDone, thread, hw, EnterComplete
<1>10. CASE WaitRx /\ UNCHANGED inTime
  BY <1>10 DEF WaitRx, thread, hw, Spin, RunDry
<1>11. CASE TakeRx /\ UNCHANGED inTime
  BY <1>11 DEF TakeRx, thread, hw, EnterComplete
<1>12. CASE EnterLoop /\ UNCHANGED inTime
  BY <1>12 DEF EnterLoop, thread, hw
<1>13. CASE WaitResult /\ UNCHANGED inTime
  BY <1>13 DEF WaitResult, thread, hw, RunDry, Seen
<1>14. CASE ResultSeen /\ UNCHANGED inTime
  BY <1>14 DEF ResultSeen, thread, hw, Seen
<1>15. CASE Check /\ UNCHANGED inTime
  BY <1>15 DEF Check, thread, hw
<1>16. CASE SendByte /\ UNCHANGED inTime
  BY <1>16 DEF SendByte, thread, hw, Ended
<1>17. CASE ReceiveByte /\ UNCHANGED inTime
  BY <1>17 DEF ReceiveByte, thread, hw, Ended
<1>18. CASE Overrun /\ UNCHANGED inTime
  BY <1>18 DEF Overrun, thread, hw, Ended
<1>19. CASE Interrupt /\ UNCHANGED inTime
  BY <1>19 DEF Interrupt, thread, hw
<1>. QED BY <1>1, <1>2, <1>3, <1>4, <1>5, <1>6, <1>7, <1>8, <1>9, <1>10, <1>11,
            <1>12, <1>13, <1>14, <1>15, <1>16, <1>17, <1>18, <1>19
         DEF Next, Thread, Controller

-----------------------------------------------------------------------------
(* The theorems.                                                           *)

LEMMA InvStep == Inv /\ [Next]_vars => Inv'
<1>1. [Next]_vars => inTime' = inTime
  BY DEF Next, vars
<1>. QED BY <1>1, TypeStep, LoopsStep, BudgetsStep, BytesStep, SignalsStep DEF Inv

LEMMA InvHolds == Spec => []Inv
BY InvInit, InvStep, PTL DEF Spec

\* Whatever the controller does and whenever the budgets run out, the copy loops stay
\* inside the caller's buffers and the FIFOs inside their depth (hal_spi.c:620-700).
THEOREM TypeCorrect == Spec => []TypeOK
<1>1. Inv => TypeOK
  BY DEF Inv
<1>. QED BY InvHolds, <1>1, PTL

\* With FIFOs of any depth the writer never drops a byte while the bus keeps pace.
THEOREM NoByteDroppedCorrect == Spec => []NoByteDropped
<1>1. Inv => NoByteDropped
  BY XferAssumption DEF Inv, TypeOK, Budgets, NoByteDropped
<1>. QED BY InvHolds, <1>1, PTL

\* Between two transfers no interrupt is left that could complete the second one.
THEOREM NoLateInterruptCorrect == Spec => []NoLateInterrupt
<1>1. Inv => NoLateInterrupt
  BY DEF Inv, Signals, NoLateInterrupt
<1>. QED BY InvHolds, <1>1, PTL

\* In time, hal_spi_xfer returns OK only when every byte has been shifted and every
\* received one is in the caller's buffer: result is set by the end of this burst alone,
\* and the read loop has emptied the FIFO by then.
THEOREM OkMeansDoneCorrect == Spec => OkMeansDoneInTime
<1>1. Inv => (inTime /\ pc = "check" => Done)
  <2>. SUFFICES ASSUME Inv, inTime, pc = "check" PROVE Done
    OBVIOUS
  <2>1. bus = NoXfer
    BY DEF Inv, Signals, Resting
  <2>2. bus.tx = 0 /\ bus.rx = 0
    BY <2>1 DEF NoXfer
  <2>3. bus.tx = txf /\ bus.rx + rxf + good = xfer.rx /\ good = xfer.rx
    BY DEF Inv, TypeOK, Bytes, Unwritten, Resting, Completing
  <2>. QED BY <2>1, <2>2, <2>3, XferType DEF Inv, TypeOK, Done
<1>2. Inv => [inTime /\ pc = "check" /\ ret' = "OK" => Done]_vars
  BY <1>1
<1>. QED BY InvHolds, <1>2, PTL DEF OkMeansDoneInTime
-----------------------------------------------------------------------------
(* Every transfer winds down.                                              *)

\* The steps of n bytes, and of one byte less.
ByteLess(n) ==
  /\ ByteSteps(n) \in Nat
  /\ n > 0 => ByteSteps(n - 1) \in Nat /\ ByteSteps(n) = ByteSteps(n - 1) + WordSize + 3

LEMMA BytesLess == ASSUME NEW n \in Nat PROVE ByteLess(n)
<1>. DEFINE w == WordSize + 3
<1>1. w \in Nat
  BY XferAssumption
<1>2. n * w \in Nat /\ (n > 0 => (n - 1) * w \in Nat /\ n * w = (n - 1) * w + w)
  <2>. HIDE DEF w
  <2>. QED BY <1>1
<1>. QED BY <1>2, XferAssumption DEF ByteLess, ByteSteps

\* StepsLeft by the place, for this state and, primed, for the next.
StepsAt ==
  /\ pc = "idle" => StepsLeft = 0
  /\ pc = "check" => StepsLeft = 1
  /\ pc = "cpoll" => StepsLeft = 2 + poll
  /\ pc = "complete" => StepsLeft = 3 + poll
  /\ pc = "rpoll" => StepsLeft = ReadSteps(todo, poll)
  /\ pc = "wpoll" => StepsLeft = WriteSteps(todo, poll)
  /\ pc = "write" => StepsLeft = WriteSteps(todo, poll) + 1
  /\ pc = "start" => StepsLeft = WriteSteps(xfer.tx, PollTime) + 2
  /\ pc = "setup" => StepsLeft = WriteSteps(xfer.tx, PollTime) + 3

LEMMA StepsAre == StepsAt
BY DEF StepsAt, StepsLeft

LEMMA StepsNext == StepsAt'
BY StepsAre, PTL

\* A step of the thread leaves fewer steps.
LEMMA WindStep ==
  ASSUME TypeOK, Loops, Thread, pc # "idle"
  PROVE  StepsLeft' \in 0 .. StepsLeft - 1
<1>1. /\ todo \in Nat /\ poll \in 0 .. WordSize - 1 /\ xfer.tx \in Nat /\ xfer.rx \in Nat
      /\ pc = "wpoll" => todo > 0
  BY XferType DEF TypeOK, Loops
<1>2. ByteLess(todo) /\ ByteLess(xfer.tx) /\ ByteLess(xfer.rx)
  BY <1>1, BytesLess
<1>3. /\ WordSize \in Nat /\ PollTime \in 0 .. WordSize - 1 /\ Timeout \in 0 .. WordSize - 1
      /\ StepsAt /\ StepsAt' /\ xfer' = xfer
  BY StepsAre, StepsNext, XferAssumption
     DEF Thread, Setup, Start, WriteByte, WriteDone, WaitTx, RoomTx, ReadDone, WaitRx,
         TakeRx, EnterLoop, WaitResult, ResultSeen, Check
<1>4. CASE Setup
  BY ONLY <1>1, <1>2, <1>3, <1>4 DEF Setup, ByteLess, StepsAt, ReadSteps, WriteSteps
<1>5. CASE Start
  BY ONLY <1>1, <1>2, <1>3, <1>5
       DEF Start, EnterWrite, EnterRead, ByteLess, StepsAt, ReadSteps, WriteSteps
<1>6. CASE WriteByte
  BY ONLY <1>1, <1>2, <1>3, <1>6 DEF WriteByte, ByteLess, StepsAt, ReadSteps, WriteSteps
<1>7. CASE WriteDone \/ RoomTx
  <2>1. pc \in {"write", "wpoll"} /\ (pc = "write" \/ todo > 0)
    BY <1>1, <1>7 DEF WriteDone, RoomTx
  <2>2. \/ EnterRead \/ EnterComplete
        \/ pc = "wpoll" /\ pc' = "write" /\ todo' = todo - 1 /\ poll' = poll
    BY <1>7 DEF WriteDone, RoomTx, AfterWrite
  <2>3. CASE EnterRead
    BY ONLY <1>1, <1>2, <1>3, <2>1, <2>3
         DEF EnterRead, ByteLess, StepsAt, ReadSteps, WriteSteps
  <2>4. CASE EnterComplete
    BY ONLY <1>1, <1>2, <1>3, <2>1, <2>4
         DEF EnterComplete, ByteLess, StepsAt, ReadSteps, WriteSteps
  <2>5. CASE pc = "wpoll" /\ pc' = "write" /\ todo' = todo - 1 /\ poll' = poll
    BY ONLY <1>1, <1>2, <1>3, <2>1, <2>5 DEF ByteLess, StepsAt, ReadSteps, WriteSteps
  <2>. QED BY <2>2, <2>3, <2>4, <2>5
<1>8. CASE WaitTx
  <2>1. CASE poll > 0 /\ poll' = poll - 1 /\ pc = "wpoll" /\ pc' = pc /\ todo' = todo
    BY ONLY <1>1, <1>2, <1>3, <2>1 DEF ByteLess, StepsAt, ReadSteps, WriteSteps
  <2>2. CASE poll' = WordSize - 1 /\ pc = "wpoll" /\ pc' = "write" /\ todo' = todo - 1
    BY ONLY <1>1, <1>2, <1>3, <2>2 DEF ByteLess, StepsAt, ReadSteps, WriteSteps
  <2>. QED BY <1>8, <2>1, <2>2 DEF WaitTx, Spin, RunDry
<1>9. CASE ReadDone \/ TakeRx
  <2>1. CASE pc = "rpoll" /\ EnterComplete
    BY ONLY <1>1, <1>2, <1>3, <2>1
         DEF EnterComplete, ByteLess, StepsAt, ReadSteps, WriteSteps
  <2>2. CASE pc = "rpoll" /\ todo > 0 /\ todo' = todo - 1 /\ pc' = pc /\ poll' = poll
    BY ONLY <1>1, <1>2, <1>3, <2>2 DEF ByteLess, StepsAt, ReadSteps, WriteSteps
  <2>. QED BY <1>9, <2>1, <2>2 DEF ReadDone, TakeRx
<1>10. CASE WaitRx
  <2>1. CASE pc = "rpoll" /\ pc' = pc /\ poll > 0 /\ poll' = poll - 1 /\ todo' = todo
    BY ONLY <1>1, <1>2, <1>3, <2>1 DEF ByteLess, StepsAt, ReadSteps, WriteSteps
  <2>2. CASE pc = "rpoll" /\ pc' = pc /\ todo > 0 /\ poll' = WordSize - 1 /\ todo' = todo - 1
    BY ONLY <1>1, <1>2, <1>3, <2>2 DEF ByteLess, StepsAt, ReadSteps, WriteSteps
  <2>. QED BY <1>10, <2>1, <2>2 DEF WaitRx, Spin, RunDry
<1>11. CASE EnterLoop \/ WaitResult \/ ResultSeen \/ Check
  <2>1. \/ pc = "complete" /\ pc' = "cpoll" /\ poll' = poll
        \/ pc = "cpoll" /\ pc' = pc /\ poll > 0 /\ poll' = poll - 1
        \/ pc = "cpoll" /\ pc' = "check"
        \/ pc = "check" /\ pc' = "idle"
    BY <1>11 DEF EnterLoop, WaitResult, ResultSeen, Check
  <2>. QED BY ONLY <1>1, <1>3, <2>1 DEF StepsAt
<1>. QED BY <1>4, <1>5, <1>6, <1>7, <1>8, <1>9, <1>10, <1>11 DEF Thread

\* hal_spi_xfer goes round for ever in no loop: every step of the thread brings it nearer
\* its return, in time or not, for every depth, budget and transfer.
THEOREM TransfersWindDownCorrect == Spec => TransfersWindDown
<1>1. Inv /\ [Next]_vars
      => [pc # "idle" /\ thread' # thread => StepsLeft' \in 0 .. StepsLeft - 1]_vars
  <2>. SUFFICES ASSUME Inv, [Next]_vars, pc # "idle", thread' # thread
                PROVE  StepsLeft' \in 0 .. StepsLeft - 1
    OBVIOUS
  <2>1. Thread
    BY DEF Next, Begin, Controller, SendByte, ReceiveByte, Overrun, Interrupt, vars
  <2>. QED BY <2>1, WindStep DEF Inv
<1>. QED BY <1>1, InvHolds, PTL DEF Spec, TransfersWindDown
=============================================================================
