------------------------------ MODULE SpiXfer -------------------------------
(***************************************************************************)
(* hal_spi_xfer in the build with CONFIG_SUNXI_SPI_CPU_XFER_ONLY: the      *)
(* thread that fills and drains the controller's FIFOs and then waits for  *)
(* sspi->result, the controller that shifts bytes, and the interrupt       *)
(* handler that writes sspi->result.                                       *)
(*                                                                         *)
(* Bytes are counted, not named. sspi->result is an ordinary bit field:    *)
(* the compiler may read it in every turn of spi_cpu_complete's loop or    *)
(* once before it, so both are behaviours of the model. The controller is  *)
(* external: it waits for bytes to send, loses a byte when the RX FIFO is  *)
(* full and raises ERR, and raises TC when all bytes of a transfer have    *)
(* been shifted.                                                           *)
(***************************************************************************)
EXTENDS Naturals

CONSTANTS
  Xfers,         \* the transfers callers make: [tx : Nat, rx : Nat], lengths in bytes
  Depth,         \* depth of each FIFO
  MaxFifu,       \* MAX_FIFU: fill level the writer stops at
  PollTime,      \* poll_time, for a whole spi_cpu_write or spi_cpu_read
  Timeout,       \* timeout of spi_cpu_complete
  WordSize,      \* 2^32: both are uint32_t
  MaxXfers       \* bound on the number of transfers

ASSUME XferAssumption ==
  /\ Xfers \subseteq [tx : Nat, rx : Nat]
  /\ Depth \in Nat /\ MaxFifu \in 1 .. Depth
  /\ PollTime \in Nat \ {0} /\ Timeout \in Nat \ {0}
  /\ WordSize \in Nat /\ PollTime < WordSize /\ Timeout < WordSize
  /\ MaxXfers \in Nat

VARIABLES
  pc,        \* where the thread is
  xfer,      \* sspi->transfer
  todo,      \* len - n: bytes the running copy loop has left
  poll,      \* poll_time or timeout
  seen,      \* what the loop of spi_cpu_complete tests: "reload" or a copy of result
  good,      \* history: bytes of this transfer put into the caller's buffer
  ret,       \* hal_spi_xfer's return value
  result,    \* sspi->result
  irqOn,     \* TC and ERR interrupts are enabled
  status,    \* pending interrupt status
  txf, rxf,  \* bytes in the FIFOs
  bus,       \* bytes the controller has left to send and to receive
  xfers,     \* number of transfers begun
  inTime     \* the bus is fast enough that no poll budget runs out, the CPU fast
             \* enough that the RX FIFO does not overrun; chosen once

thread == <<pc, xfer, todo, poll, seen, good, ret, xfers>>
hw == <<status, txf, rxf, bus>>
vars == <<thread, result, irqOn, hw, inTime>>

NoXfer == [tx |-> 0, rx |-> 0]

-----------------------------------------------------------------------------
(* The thread.                                                             *)

Begin(x) ==
  /\ pc = "idle" /\ xfers < MaxXfers
  /\ xfers' = xfers + 1
  /\ xfer' = x
  /\ good' = 0
  /\ IF x.tx = 0 /\ x.rx = 0
     THEN ret' = "INVALID" /\ UNCHANGED <<pc, result>>
     ELSE pc' = "setup" /\ result' = "READY" /\ UNCHANGED ret
  /\ UNCHANGED <<todo, poll, seen, irqOn, hw>>

\* A mutant: the interrupts are not enabled.
SetupMute ==
  /\ pc = "setup"
  /\ status' = {}
  /\ txf' = 0 /\ rxf' = 0
  /\ pc' = "start"
  /\ UNCHANGED <<xfer, todo, poll, seen, good, ret, xfers, result, irqOn, bus>>

\* spi_clr_irq_pending, spi_reset_fifo, spi_enable_irq.
Setup ==
  /\ pc = "setup"
  /\ status' = {}
  /\ txf' = 0 /\ rxf' = 0
  /\ irqOn' = TRUE
  /\ pc' = "start"
  /\ UNCHANGED <<xfer, todo, poll, seen, good, ret, xfers, result, bus>>

EnterWrite == pc' = "write" /\ todo' = xfer.tx /\ poll' = PollTime
\* A mutant: one byte too many, n <= len.
EnterReadLong == pc' = "rpoll" /\ todo' = xfer.rx + 1 /\ poll' = PollTime

EnterRead == pc' = "rpoll" /\ todo' = xfer.rx /\ poll' = PollTime
EnterComplete == pc' = "complete" /\ todo' = 0 /\ poll' = Timeout

\* spi_start_xfer, with the burst counters of spi_mode_check. A transfer that only
\* receives clears the pending interrupts once more.
Start ==
  /\ pc = "start"
  /\ status' = IF xfer.tx = 0 THEN {} ELSE status
  /\ bus' = [tx |-> xfer.tx, rx |-> xfer.rx]
  /\ IF xfer.tx > 0 THEN EnterWrite ELSE EnterRead
  /\ UNCHANGED <<xfer, seen, good, ret, xfers, result, irqOn, txf, rxf>>

\* A mutant: what is to be received is left in the FIFO.
AfterWriteNoRead == EnterComplete

\* spi_transfer ignores what spi_cpu_write and spi_cpu_read return.
AfterWrite == IF xfer.rx > 0 THEN EnterRead ELSE EnterComplete

WriteByte ==
  /\ pc = "write" /\ todo > 0
  /\ txf' = IF txf < Depth THEN txf + 1 ELSE txf
  /\ pc' = "wpoll"
  /\ UNCHANGED <<xfer, todo, poll, seen, good, ret, xfers, result, irqOn, status, rxf,
                 bus>>

WriteDone ==
  /\ pc = "write" /\ todo = 0
  /\ AfterWrite
  /\ UNCHANGED <<xfer, seen, good, ret, xfers, result, irqOn, hw>>

\* A mutant: the budget is tested but not counted down.
SpinFree ==
  /\ poll > 0
  /\ inTime => poll > 1
  /\ poll' = poll

\* A turn of "cond && poll_time--" that goes round again.
Spin ==
  /\ poll > 0
  /\ inTime => poll > 1
  /\ poll' = poll - 1

\* poll_time-- was evaluated at zero: the loop ends with the largest uint32_t.
RunDry ==
  /\ poll = 0
  /\ poll' = WordSize - 1

\* The TX FIFO is full: poll again, or the budget is gone and the loop goes on.
WaitTx ==
  /\ pc = "wpoll" /\ txf >= MaxFifu
  /\ \/ Spin /\ UNCHANGED <<pc, todo>>
     \/ RunDry /\ pc' = "write" /\ todo' = todo - 1
  /\ UNCHANGED <<xfer, seen, good, ret, xfers, result, irqOn, hw>>

\* A mutant: the fill level of the FIFO is not looked at.
RoomTxAlways ==
  /\ pc = "wpoll"
  /\ pc' = "write" /\ todo' = todo - 1 /\ UNCHANGED poll
  /\ UNCHANGED <<xfer, seen, good, ret, xfers, result, irqOn, hw>>

\* There is room: next byte, unless the last poll took the budget to zero.
RoomTx ==
  /\ pc = "wpoll" /\ txf < MaxFifu
  /\ IF poll = 0 THEN AfterWrite
                 ELSE pc' = "write" /\ todo' = todo - 1 /\ UNCHANGED poll
  /\ UNCHANGED <<xfer, seen, good, ret, xfers, result, irqOn, hw>>

ReadDone ==
  /\ pc = "rpoll" /\ todo = 0
  /\ EnterComplete
  /\ UNCHANGED <<xfer, seen, good, ret, xfers, result, irqOn, hw>>

\* A mutant: an empty FIFO is polled for the same byte when the budget is gone.
WaitRxAgain ==
  /\ pc = "rpoll" /\ todo > 0 /\ rxf = 0
  /\ Spin \/ RunDry
  /\ UNCHANGED <<pc, todo, xfer, seen, good, ret, xfers, result, irqOn, hw>>

\* The RX FIFO is empty: poll again, or the budget is gone and a byte is read from
\* the empty FIFO.
WaitRx ==
  /\ pc = "rpoll" /\ todo > 0 /\ rxf = 0
  /\ \/ Spin /\ UNCHANGED todo
     \/ RunDry /\ todo' = todo - 1
  /\ UNCHANGED <<pc, xfer, seen, good, ret, xfers, result, irqOn, hw>>

TakeRx ==
  /\ pc = "rpoll" /\ todo > 0 /\ rxf > 0
  /\ IF poll = 0
     THEN EnterComplete /\ UNCHANGED <<good, rxf>>
     ELSE /\ todo' = todo - 1
          /\ good' = good + 1
          /\ rxf' = rxf - 1
          /\ UNCHANGED <<pc, poll>>
  /\ UNCHANGED <<xfer, seen, ret, xfers, result, irqOn, status, txf, bus>>

\* The compiled loop tests the field itself, or a copy it took before the loop.
EnterLoop ==
  /\ pc = "complete"
  /\ seen' \in {"reload", result}
  /\ pc' = "cpoll"
  /\ UNCHANGED <<xfer, todo, poll, good, ret, xfers, result, irqOn, hw>>

Seen == IF seen = "reload" THEN result ELSE seen

\* while (!sspi->result && timeout--). A loop over a copy spins its budget out; inTime
\* means the controller has answered by then.
WaitResult ==
  /\ pc = "cpoll" /\ Seen = "READY"
  /\ \/ /\ poll > 0
        /\ inTime /\ seen = "reload" => poll > 1
        /\ poll' = poll - 1
        /\ UNCHANGED pc
     \/ /\ inTime => result # "READY"
        /\ RunDry
        /\ pc' = "check"
  /\ UNCHANGED <<xfer, todo, seen, good, ret, xfers, result, irqOn, hw>>

\* A mutant: the wait for the controller is left out.
ResultUnseen ==
  /\ pc = "cpoll"
  /\ pc' = "check"
  /\ UNCHANGED <<xfer, todo, poll, seen, good, ret, xfers, result, irqOn, hw>>

ResultSeen ==
  /\ pc = "cpoll" /\ Seen # "READY"
  /\ pc' = "check"
  /\ UNCHANGED <<xfer, todo, poll, seen, good, ret, xfers, result, irqOn, hw>>

\* if (timeout <= 0) ... else if (SPI_XFER_FAILED == sspi->result) ...: hal_spi_xfer
\* returns the same error for both.
Check ==
  /\ pc = "check"
  /\ ret' = IF poll = 0 \/ Seen = "FAILED" THEN "ERROR" ELSE "OK"
  /\ pc' = "idle"
  /\ UNCHANGED <<xfer, todo, poll, seen, good, xfers, result, irqOn, hw>>

-----------------------------------------------------------------------------
(* The controller and the interrupt.                                       *)

\* The status bits of a burst that has b left.
Ended(b) == IF b = NoXfer THEN {"TC"} ELSE {}

SendByte ==
  /\ bus.tx > 0 /\ txf > 0
  /\ txf' = txf - 1
  /\ bus' = [bus EXCEPT !.tx = @ - 1]
  /\ status' = status \cup Ended(bus')
  /\ UNCHANGED <<thread, result, irqOn, rxf>>

ReceiveByte ==
  /\ bus.tx = 0 /\ bus.rx > 0 /\ rxf < Depth
  /\ rxf' = rxf + 1
  /\ bus' = [bus EXCEPT !.rx = @ - 1]
  /\ status' = status \cup Ended(bus')
  /\ UNCHANGED <<thread, result, irqOn, txf>>

Overrun ==
  /\ ~inTime
  /\ bus.tx = 0 /\ bus.rx > 0 /\ rxf = Depth
  /\ bus' = [bus EXCEPT !.rx = @ - 1]
  /\ status' = status \cup Ended(bus') \cup {"ERR"}
  /\ UNCHANGED <<thread, result, irqOn, txf, rxf>>

\* spi_irq_handler: TC wins over ERR; either disables both.
Interrupt ==
  /\ irqOn /\ status # {}
  /\ result' = IF "TC" \in status THEN "OK" ELSE "FAILED"
  /\ status' = {}
  /\ irqOn' = FALSE
  /\ UNCHANGED <<thread, txf, rxf, bus>>
-----------------------------------------------------------------------------

Init ==
  /\ pc = "idle"
  /\ xfer = NoXfer
  /\ todo = 0 /\ poll = 0 /\ good = 0 /\ xfers = 0
  /\ seen = "reload"
  /\ ret = "none"
  /\ result = "READY"
  /\ irqOn = FALSE
  /\ status = {}
  /\ txf = 0 /\ rxf = 0
  /\ bus = NoXfer
  /\ inTime \in BOOLEAN

Thread ==
  \/ Setup \/ Start
  \/ WriteByte \/ WriteDone \/ WaitTx \/ RoomTx
  \/ ReadDone \/ WaitRx \/ TakeRx
  \/ EnterLoop \/ WaitResult \/ ResultSeen \/ Check

Controller == SendByte \/ ReceiveByte \/ Overrun

Next ==
  /\ \/ \E x \in Xfers : Begin(x)
     \/ Thread
     \/ Controller
     \/ Interrupt
  /\ UNCHANGED inTime

Spec == Init /\ [][Next]_vars

\* The thread runs; the controller and its interrupt need not do anything.
FairSpec == Spec /\ WF_vars(Thread /\ UNCHANGED inTime)

-----------------------------------------------------------------------------
(* Properties.                                                             *)

\* Every variable holds a value of its type; the copy loops stay inside the caller's
\* buffers and the TX FIFO never holds more than it can.
TypeOK ==
  /\ pc \in {"idle", "setup", "start", "write", "wpoll", "rpoll", "complete", "cpoll",
             "check"}
  /\ xfer \in Xfers \cup {NoXfer}
  /\ todo \in 0 .. xfer.tx + xfer.rx
  /\ poll \in 0 .. WordSize - 1
  /\ seen \in {"reload", "READY", "OK", "FAILED"}
  /\ good \in 0 .. xfer.rx
  /\ ret \in {"none", "OK", "INVALID", "ERROR"}
  /\ result \in {"READY", "OK", "FAILED"}
  /\ irqOn \in BOOLEAN
  /\ status \subseteq {"TC", "ERR"}
  /\ txf \in 0 .. Depth /\ rxf \in 0 .. Depth
  /\ bus \in [tx : Nat, rx : Nat]
  /\ xfers \in 0 .. MaxXfers
  /\ inTime \in BOOLEAN

\* While the bus keeps pace (inTime), the writer's stop at MAX_FIFU keeps the TX FIFO from
\* overflowing, so that no byte of the command or its data is dropped (spi_cpu_write,
\* hal_spi.c:655-668).
NoByteDropped == inTime /\ pc = "write" /\ todo > 0 => txf < Depth

\* Everything the caller asked for has happened.
Done == bus = NoXfer /\ txf = 0 /\ rxf = 0 /\ good = xfer.rx

\* hal_spi_xfer returns OK only when every byte has been shifted and every byte
\* received is in the caller's buffer: "wait for done completion in this function,
\* wakup in the irq hanlder" (hal_spi.c:1543-1546).
OkMeansDone == [][pc = "check" /\ ret' = "OK" => Done]_vars

\* The same, as long as bus and CPU keep pace: the controller answers before any of the
\* poll budgets of hal_spi.c:625, 678 and 1385 is used up.
OkMeansDoneInTime == [][inTime /\ pc = "check" /\ ret' = "OK" => Done]_vars

\* While bus and CPU keep pace (inTime), so that the thread never gives up on a transfer,
\* an interrupt that is delivered belongs to the transfer in progress: no completion of an
\* earlier one is taken for that of this one. A completion that comes after the thread gave
\* up is outside of this: between hal_spi.c:1572 and 1582 it would complete the next
\* transfer.
NoLateInterrupt == inTime /\ pc \in {"idle", "setup", "start"} => ~irqOn \/ status = {}

\* The steps the thread may still take: a byte costs a full budget of polls at most,
\* whatever the bytes before it have used up.
ByteSteps(n) == n * (WordSize + 3)
ReadSteps(n, polls) == 4 + Timeout + ByteSteps(n) + polls
WriteSteps(n, polls) == ReadSteps(xfer.rx, PollTime) + ByteSteps(n) + polls + 1
StepsLeft ==
  CASE pc = "idle"     -> 0
    [] pc = "check"    -> 1
    [] pc = "cpoll"    -> 2 + poll
    [] pc = "complete" -> 3 + poll
    [] pc = "rpoll"    -> ReadSteps(todo, poll)
    [] pc = "wpoll"    -> WriteSteps(todo, poll)
    [] pc = "write"    -> WriteSteps(todo, poll) + 1
    [] pc = "start"    -> WriteSteps(xfer.tx, PollTime) + 2
    [] pc = "setup"    -> WriteSteps(xfer.tx, PollTime) + 3

\* Every step of the thread brings hal_spi_xfer nearer its return, whatever the
\* controller does and the compiler made of the loop: a budget that wraps below zero is
\* used on by the next byte, but never twice for one (hal_spi.c:650-710, 1383-1403).
TransfersWindDown ==
  [][pc # "idle" /\ thread' # thread => StepsLeft' \in 0 .. StepsLeft - 1]_vars

\* hal_spi_xfer returns although nothing is assumed of the controller: every wait is
\* bounded by poll_time or timeout.
Returns == (pc # "idle" /\ ~inTime) ~> (pc = "idle")

\* With a controller and an interrupt that act when they can, and in time, every
\* transfer succeeds.
Succeeds ==
  WF_vars(Controller /\ UNCHANGED inTime) /\ WF_vars(Interrupt /\ UNCHANGED inTime) =>
    ((pc = "setup" /\ inTime) ~> (pc = "idle" /\ ret = "OK"))
=============================================================================
