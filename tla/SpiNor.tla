------------------------------- MODULE SpiNor -------------------------------
(***************************************************************************)
(* The SPI NOR driver (spinor/core.c behind hal_spinor.c) on top of the    *)
(* chip of NorChip: initialisation, de-initialisation, read, program and   *)
(* erase, one SPI transfer or one wait for the chip per step.              *)
(*                                                                         *)
(* In the build this repository makes (CONFIG_KERNEL_NONE) there is one    *)
(* thread and nor_lock() always succeeds, so one call runs at a time; what *)
(* runs concurrently is the chip, which ends an operation whenever it      *)
(* likes, and the SPI bus, where a transfer may fail with its command lost *)
(* or delivered. A transfer that reports success has taken place: SpiXfer  *)
(* examines when that holds.                                               *)
(***************************************************************************)
EXTENDS NorChip

CONSTANTS
  SecSize, HalfSize, BlkSize,   \* SZ_4K, SZ_32K, SZ_64K
  WordSize,                     \* 2^32: arithmetic on unsigned int
  Flags,                        \* nor->info->flag
  Wide,                         \* nor->addr_width = 4
  SetsQuad,                     \* nor->factory->set_quad_mode is set
  HasInit,                      \* nor->factory->init is set
  Arrays, ShippedQe,            \* what the chip may hold at power-up
  Calls,                        \* the calls the layers above make
  HostObeysInit,                \* TRUE: after a failed init only deinit is called
  MaxCalls, MaxFaults           \* bounds on calls and on failing transfers

ASSUME SizesAssumption ==
  /\ PageSize \in Nat \ {0}
  /\ SecSize \in Nat \ {0} /\ HalfSize \in Nat \ {0} /\ BlkSize \in Nat \ {0}
  /\ TotalSize \in Nat \ {0}
  /\ WordSize \in Nat /\ WordSize > TotalSize

ASSUME PartAssumption ==
  /\ Quad \in BOOLEAN /\ Locked \in BOOLEAN /\ Wide \in BOOLEAN
  /\ SetsQuad \in BOOLEAN /\ HasInit \in BOOLEAN /\ HostObeysInit \in BOOLEAN
  /\ Arrays \subseteq [Addr -> Cell]
  /\ ShippedQe \subseteq BOOLEAN

ASSUME CallsAssumption ==
  \A c \in Calls :
     /\ c \in [fn : {"init", "deinit", "read", "program", "erase"},
               addr : 0 .. WordSize - 1, len : 0 .. WordSize - 1, data : {c.data}]
     /\ c.fn = "program" => c.data \in [0 .. c.len - 1 -> Cell]

\* winbond and esmt parts are driven with quad commands although their factory has no
\* set_quad_mode: they must be shipped with the quad-enable bit set.
ASSUME ShippedAssumption == Quad /\ ~SetsQuad => ShippedQe \subseteq {TRUE}

ASSUME BoundsAssumption == MaxCalls \in Nat /\ MaxFaults \in Nat

VARIABLES
  info,     \* nor->info is set
  pc,       \* where the driver is
  call,     \* the call being served, or NoCall
  addr, buf, len,   \* the loop variables of read, write and erase
  cmd,      \* the command being carried out
  result,   \* the return value: "ok", "EBUSY", "EINVAL", "EIO"
  rbuf,     \* the caller's read buffer, by offset
  initOk,   \* the last nor_init returned 0 and no nor_deinit followed
  goal,     \* history: the array the current call asks for
  calls, faults     \* what the bounds have used up

driver == <<info, pc, call, addr, buf, len, cmd, result, rbuf, initOk, goal>>
vars == <<chip, driver, calls, faults>>

NoCall == [fn |-> "none", addr |-> 0, len |-> 0, data |-> <<>>]

Store == INSTANCE FlashStore WITH Requests <- Calls, req <- call

\* A chip command without an address.
Cmd(kind) == [kind |-> kind, addr |-> 0, off |-> 0, len |-> 0, data |-> <<>>]

-----------------------------------------------------------------------------
(* Steps the functions below are made of.                                  *)

\* How hal_spi_xfer ends: "lost" and "late" both return an error, with the
\* command not seen or seen by the chip.
XferEnds == {"ok", "lost", "late"}

\* nor_transfer of a command without data to receive.
Transfer(x, k) ==
  /\ x # "ok" => faults < MaxFaults
  /\ faults' = IF x = "ok" THEN faults ELSE faults + 1
  /\ IF x = "lost" THEN UNCHANGED chip ELSE Receive(k)

\* nor_transfer of a command that only reads.
ReadTransfer(x) ==
  /\ x # "ok" => faults < MaxFaults
  /\ faults' = IF x = "ok" THEN faults ELSE faults + 1
  /\ UNCHANGED chip

\* nor_wait_ready returns 0: the last status read found the chip idle.
Ready == ~wip /\ UNCHANGED <<chip, faults>>

\* nor_wait_ready returns -EBUSY: every status read found the chip busy or failed.
\* A failed status read counts as busy.
TimedOut ==
  /\ wip \/ faults < MaxFaults
  /\ faults' = IF wip THEN faults ELSE faults + 1
  /\ UNCHANGED chip

Goto(label) == pc' = label

\* The call returns r.
Return(r) ==
  /\ pc' = "idle"
  /\ call' = NoCall
  /\ result' = r

\* The driver is setting quad mode, the last thing nor_scan does.
InScan == pc \in {"rdsr2", "vfysr2"} \/ (cmd.kind = "wrsr2" /\ pc # "factory")

\* A step of the call fails with r. Inside nor_scan that also clears nor->info.
Abandon(r) ==
  /\ Return(r)
  /\ info' = (info /\ ~InScan)
  /\ initOk' = (initOk /\ call.fn # "init")

\* nor_write_enable and the command after it: every modification of the chip
\* goes through the steps wren, wrenwait, wel, issue, settle.
Modify(k) ==
  /\ cmd' = k
  /\ Goto("wren")

-----------------------------------------------------------------------------
(* Calls.                                                                  *)

Call(c) ==
  /\ pc = "idle"
  /\ calls < MaxCalls
  /\ HostObeysInit /\ info /\ ~initOk => c.fn = "deinit"
  /\ calls' = calls + 1
  /\ call' = c
  /\ goal' = Store!Effect(c, after)
  /\ addr' = c.addr
  /\ buf' = 0
  /\ len' = c.len
  /\ cmd' = Cmd("none")
  /\ result' = "EBUSY"
  /\ rbuf' = <<>>
  /\ Goto(c.fn)
  /\ UNCHANGED <<chip, info, initOk, faults>>

\* Every call but init returns -EBUSY while nor->info is NULL.
NotReady ==
  /\ pc \in {"deinit", "read", "program", "erase"}
  /\ ~info
  /\ Return("EBUSY")
  /\ UNCHANGED <<chip, info, addr, buf, len, cmd, rbuf, initOk, goal, calls, faults>>
-----------------------------------------------------------------------------
(* nor_init.                                                               *)

\* nor->info still set: nothing to do, whatever became of the init that set it.
InitAgain ==
  /\ pc = "init" /\ info
  /\ Return("ok")
  /\ initOk' = TRUE
  /\ UNCHANGED <<chip, info, addr, buf, len, cmd, rbuf, goal, calls, faults>>

\* nor_lock_init, nor_spi_master_init: no memory for the semaphore, no interrupt,
\* pin or clock for the controller.
InitSpi ==
  /\ pc = "init" /\ ~info
  /\ \/ Goto("reset") /\ UNCHANGED <<info, call, result, initOk, faults>>
     \/ faults < MaxFaults /\ faults' = faults + 1 /\ Abandon("EIO")
  /\ UNCHANGED <<chip, addr, buf, len, cmd, rbuf, goal, calls>>

SendReset(x) ==
  /\ pc = "reset"
  /\ Transfer(x, Cmd("reset"))
  /\ IF x = "ok" THEN Goto("idwait") /\ UNCHANGED <<info, call, result, initOk>>
                 ELSE Abandon("EIO")
  /\ UNCHANGED <<addr, buf, len, cmd, rbuf, goal, calls>>

\* nor_read_id waits for the chip first.
WaitId ==
  /\ pc = "idwait"
  /\ \/ Ready /\ Goto("rdid") /\ UNCHANGED <<info, call, result, initOk>>
     \/ TimedOut /\ Abandon("EBUSY")
  /\ UNCHANGED <<addr, buf, len, cmd, rbuf, goal, calls>>

\* A mutant: quad mode is left as it is.
AfterWideNoQuad == "factory"

\* Where nor_scan goes on after the address mode is settled.
AfterWide == IF Quad /\ SetsQuad THEN "rdsr2" ELSE "factory"

\* The transfer fails, or the id read is in no factory's table, or match_nor sets
\* nor->info.
ReadId(x) ==
  /\ pc = "rdid"
  /\ ReadTransfer(x)
  /\ IF x = "ok"
     THEN /\ info' = TRUE
          /\ Goto(IF Wide THEN "en4b" ELSE AfterWide)
          /\ UNCHANGED <<call, result, initOk>>
     ELSE Abandon("EIO")
  /\ UNCHANGED <<addr, buf, len, cmd, rbuf, goal, calls>>

\* nor_set_4byte sends EN4B whatever it is asked for; its callers, nor_scan and
\* nor_deinit, ignore its result.
Send4Byte(x) ==
  /\ pc = "en4b"
  /\ Transfer(x, Cmd("en4b"))
  /\ Goto(IF x = "ok" THEN "en4bwait" ELSE "en4bdone")
  /\ UNCHANGED <<info, call, addr, buf, len, cmd, result, rbuf, initOk, goal, calls>>

Wait4Byte ==
  /\ pc = "en4bwait"
  /\ Ready \/ TimedOut
  /\ Goto("en4bdone")
  /\ UNCHANGED <<info, call, addr, buf, len, cmd, result, rbuf, initOk, goal, calls>>

Scanned4Byte ==
  /\ pc = "en4bdone" /\ call.fn = "init"
  /\ Goto(AfterWide)
  /\ UNCHANGED <<chip, info, call, addr, buf, len, cmd, result, rbuf, initOk, goal,
                 calls, faults>>

\* The factory's set_quad_mode: the gd, puya and zetta ones return when the bit is
\* already set, the others always write it.
ReadQuad(x) ==
  /\ pc = "rdsr2"
  /\ ReadTransfer(x)
  /\ \/ x = "ok" /\ qe /\ Goto("factory") /\ UNCHANGED <<info, call, cmd, result, initOk>>
     \/ x = "ok" /\ Modify(Cmd("wrsr2")) /\ UNCHANGED <<info, call, result, initOk>>
     \/ x # "ok" /\ Abandon("EIO") /\ UNCHANGED cmd
  /\ UNCHANGED <<addr, buf, len, rbuf, goal, calls>>

\* ... and read back to see that it took.
VerifyQuad(x) ==
  /\ pc = "vfysr2"
  /\ ReadTransfer(x)
  /\ IF x = "ok" /\ qe
     THEN Goto("factory") /\ UNCHANGED <<info, call, result, initOk>>
     ELSE Abandon(IF x = "ok" THEN "EINVAL" ELSE "EIO")
  /\ UNCHANGED <<addr, buf, len, cmd, rbuf, goal, calls>>

\* nor_factory_init of most factories: nothing to do, nor_wr_unlock_all is next.
NoFactoryInit ==
  /\ pc = "factory" /\ ~HasInit
  /\ Modify(Cmd("unlock"))
  /\ UNCHANGED <<chip, info, call, addr, buf, len, result, rbuf, initOk, goal, calls,
                 faults>>

\* winbond reads status register 3 and writes it back unless the byte received
\* before the register has the bit. A failure leaves nor->info set.
FactoryInit(x) ==
  /\ pc = "factory" /\ HasInit
  /\ ReadTransfer(x)
  /\ \/ /\ x = "ok"
        /\ \E kind \in {"wrsr3", "unlock"} : Modify(Cmd(kind))
        /\ UNCHANGED <<info, call, result, initOk>>
     \/ x # "ok" /\ Abandon("EIO") /\ UNCHANGED cmd
  /\ UNCHANGED <<addr, buf, len, rbuf, goal, calls>>

-----------------------------------------------------------------------------
(* nor_deinit. The lock it takes is not released.                          *)

Deinit ==
  /\ pc = "deinit" /\ info /\ Wide
  /\ Goto("en4b")
  /\ UNCHANGED <<chip, info, call, addr, buf, len, cmd, result, rbuf, initOk, goal,
                 calls, faults>>

DeinitDone ==
  /\ info
  /\ \/ pc = "deinit" /\ ~Wide
     \/ pc = "en4bdone" /\ call.fn = "deinit"
  /\ info' = FALSE
  /\ initOk' = FALSE
  /\ Return("ok")
  /\ UNCHANGED <<chip, addr, buf, len, cmd, rbuf, goal, calls, faults>>

-----------------------------------------------------------------------------
(* nor_write_enable, the command, nor_wait_ready.                          *)

\* Send WREN.
SendWren(x) ==
  /\ pc = "wren"
  /\ Transfer(x, Cmd("wren"))
  /\ IF x = "ok" THEN Goto("wrenwait") /\ UNCHANGED <<info, call, result, initOk>>
                 ELSE Abandon("EIO")
  /\ UNCHANGED <<addr, buf, len, cmd, rbuf, goal, calls>>

\* nor_send_cmd waits for the chip before it returns.
WaitWren ==
  /\ pc = "wrenwait"
  /\ \/ Ready /\ Goto("wel") /\ UNCHANGED <<info, call, result, initOk>>
     \/ TimedOut /\ Abandon("EBUSY")
  /\ UNCHANGED <<addr, buf, len, cmd, rbuf, goal, calls>>

\* A mutant: the latch is read but not looked at.
CheckWelUnseen(x) ==
  /\ pc = "wel"
  /\ ReadTransfer(x)
  /\ IF x = "ok" THEN Goto("issue") /\ UNCHANGED <<info, call, result, initOk>>
                 ELSE Abandon("EIO")
  /\ UNCHANGED <<addr, buf, len, cmd, rbuf, goal, calls>>

\* The status read that checks the latch.
CheckWel(x) ==
  /\ pc = "wel"
  /\ ReadTransfer(x)
  /\ IF x = "ok" /\ wel
     THEN Goto("issue") /\ UNCHANGED <<info, call, result, initOk>>
     ELSE Abandon(IF x = "ok" THEN "EINVAL" ELSE "EIO")
  /\ UNCHANGED <<addr, buf, len, cmd, rbuf, goal, calls>>

Issue(x) ==
  /\ pc = "issue"
  /\ Transfer(x, cmd)
  /\ IF x = "ok" THEN Goto("settle") /\ UNCHANGED <<info, call, result, initOk>>
                 ELSE Abandon("EIO")
  /\ UNCHANGED <<addr, buf, len, cmd, rbuf, goal, calls>>

\* The wait after the command timed out.
SettleTimedOut ==
  /\ pc = "settle"
  /\ TimedOut
  /\ Abandon("EBUSY")
  /\ UNCHANGED <<addr, buf, len, cmd, rbuf, goal, calls>>

\* The chip is idle again: init goes on.
InitSettled ==
  /\ pc = "settle" /\ Ready
  /\ \/ /\ cmd.kind = "wrsr2"
        /\ Goto("vfysr2")
        /\ UNCHANGED <<call, cmd, result, initOk>>
     \/ /\ cmd.kind = "wrsr3"
        /\ Modify(Cmd("unlock"))
        /\ UNCHANGED <<call, result, initOk>>
     \/ /\ cmd.kind = "unlock"
        /\ Return("ok")
        /\ initOk' = TRUE
        /\ UNCHANGED cmd
  /\ UNCHANGED <<info, addr, buf, len, rbuf, goal, calls>>
-----------------------------------------------------------------------------
(* nor_read.                                                               *)

\* A mutant: the loops start without the wait.
WaitFirstNot ==
  /\ pc \in {"read", "program"} /\ info
  /\ Goto(IF pc = "read" THEN "rdloop" ELSE "prloop")
  /\ UNCHANGED <<chip, info, call, addr, buf, len, cmd, result, rbuf, initOk, goal,
                 calls, faults>>

\* nor_read and nor_write wait for the chip before their loops.
WaitFirst ==
  /\ pc \in {"read", "program"} /\ info
  /\ \/ Ready /\ Goto(IF pc = "read" THEN "rdloop" ELSE "prloop")
              /\ UNCHANGED <<info, call, result, initOk>>
     \/ TimedOut /\ Abandon("EBUSY")
  /\ UNCHANGED <<addr, buf, len, cmd, rbuf, goal, calls>>

\* Mutants: a page past the end of the request, a request past the end of the page.
ChunkWholePage == PageSize - (addr % PageSize)
ChunkWholeRest == len

\* MIN(ALIGN(addr + 1, NOR_PAGE_SIZE) - addr, len): up to the end of the page.
Chunk == LET room == PageSize - (addr % PageSize) IN IF len < room THEN len ELSE room

\* What the chip drives onto the bus when cell a is read: its contents, or anything
\* else while it is busy or not in the mode the read command needs.
Sensed(a) == IF wip \/ (Quad /\ ~qe) THEN Bits \ mem[a] ELSE mem[a]

\* Moves the loop on by n bytes.
Advance(n) ==
  /\ addr' = (addr + n) % WordSize
  /\ buf' = buf + n
  /\ len' = len - n

ReadPage(x) ==
  /\ pc = "rdloop" /\ len > 0
  /\ ReadTransfer(x)
  /\ IF x = "ok"
     THEN /\ rbuf' = [i \in 0 .. buf + Chunk - 1 |->
                        IF i < buf THEN rbuf[i] ELSE Sensed((addr + (i - buf)) % TotalSize)]
          /\ Advance(Chunk)
          /\ result' = "ok"
          /\ UNCHANGED <<pc, info, call, initOk>>
     ELSE /\ Abandon("EIO")
          /\ UNCHANGED <<addr, buf, len, rbuf>>
  /\ UNCHANGED <<cmd, goal, calls>>

\* The loops of nor_read and nor_write end with the value of the last page's step;
\* with no byte to do that is the -EBUSY they start from.
LoopDone ==
  /\ pc \in {"rdloop", "prloop"} /\ len = 0
  /\ Return(result)
  /\ UNCHANGED <<chip, info, addr, buf, len, cmd, rbuf, initOk, goal, calls, faults>>

-----------------------------------------------------------------------------
(* nor_write.                                                              *)

ProgramPage ==
  /\ pc = "prloop" /\ len > 0
  /\ Modify([kind |-> "program", addr |-> addr, off |-> buf, len |-> Chunk,
             data |-> call.data])
  /\ UNCHANGED <<chip, info, call, addr, buf, len, result, rbuf, initOk, goal, calls,
                 faults>>

PageSettled ==
  /\ pc = "settle" /\ cmd.kind = "program"
  /\ Ready
  /\ Goto("prloop")
  /\ Advance(cmd.len)
  /\ result' = "ok"
  /\ UNCHANGED <<info, call, cmd, rbuf, initOk, goal, calls>>

-----------------------------------------------------------------------------
(* nor_erase.                                                              *)

\* The size must be a multiple of 4K and the end, in unsigned arithmetic, inside
\* the chip.
BadErase == len % SecSize # 0 \/ (addr + len) % WordSize > TotalSize

WholeChip == addr = 0 /\ len = TotalSize

EraseRefused ==
  /\ pc = "erase" /\ info /\ BadErase
  /\ Return("EINVAL")
  /\ UNCHANGED <<chip, info, addr, buf, len, cmd, rbuf, initOk, goal, calls, faults>>

EraseChip ==
  /\ pc = "erase" /\ info /\ ~BadErase /\ WholeChip
  /\ Modify(Cmd("chip"))
  /\ UNCHANGED <<chip, info, call, addr, buf, len, result, rbuf, initOk, goal, calls,
                 faults>>

EraseBegin ==
  /\ pc = "erase" /\ info /\ ~BadErase /\ ~WholeChip
  /\ Goto("erloop")
  /\ UNCHANGED <<chip, info, call, addr, buf, len, cmd, result, rbuf, initOk, goal,
                 calls, faults>>

\* A mutant: the alignment is not asked for.
FitsUnaligned(size, flag) == len >= size /\ flag \in Flags

\* An erase command of the given size fits the rest of the range.
Fits(size, flag) == len >= size /\ addr % size = 0 /\ flag \in Flags

\* The largest unit to erase next, 0 if no command fits.
Unit ==
  IF Fits(BlkSize, "64K") /\ "USE_4K" \notin Flags THEN BlkSize
  ELSE IF Fits(HalfSize, "32K") /\ "USE_4K" \notin Flags THEN HalfSize
  ELSE IF Fits(SecSize, "4K") THEN SecSize
  ELSE 0

EraseUnit ==
  /\ pc = "erloop" /\ len > 0 /\ Unit > 0
  /\ Modify([kind |-> "erase", addr |-> addr, off |-> 0, len |-> Unit, data |-> <<>>])
  /\ UNCHANGED <<chip, info, call, addr, buf, len, result, rbuf, initOk, goal, calls,
                 faults>>

\* A mutant: the loop stays where it was.
UnitSettledStays ==
  /\ pc = "settle" /\ cmd.kind = "erase"
  /\ Ready
  /\ Goto("erloop")
  /\ UNCHANGED <<addr, buf, len, info, call, cmd, result, rbuf, initOk, goal, calls>>

UnitSettled ==
  /\ pc = "settle" /\ cmd.kind = "erase"
  /\ Ready
  /\ Goto("erloop")
  /\ Advance(cmd.len)
  /\ UNCHANGED <<info, call, cmd, result, rbuf, initOk, goal, calls>>

ChipSettled ==
  /\ pc = "settle" /\ cmd.kind = "chip"
  /\ Ready
  /\ Return("ok")
  /\ UNCHANGED <<info, addr, buf, len, cmd, rbuf, initOk, goal, calls>>

\* A mutant: the loop goes round again when no command fits.
EraseDoneOnlyAtEnd ==
  /\ pc = "erloop" /\ len = 0
  /\ Return("ok")
  /\ UNCHANGED <<chip, info, addr, buf, len, cmd, rbuf, initOk, goal, calls, faults>>

\* Nothing left, or no command fits what is left.
EraseDone ==
  /\ pc = "erloop" /\ (len = 0 \/ Unit = 0)
  /\ Return(IF len = 0 THEN "ok" ELSE "EINVAL")
  /\ UNCHANGED <<chip, info, addr, buf, len, cmd, rbuf, initOk, goal, calls, faults>>

-----------------------------------------------------------------------------
(* The system.                                                             *)

Init ==
  /\ mem \in Arrays
  /\ after = mem
  /\ wip = FALSE /\ wel = FALSE
  /\ qe \in ShippedQe
  /\ prot = Locked
  /\ mode4 = FALSE
  /\ info = FALSE
  /\ pc = "idle"
  /\ call = NoCall
  /\ addr = 0 /\ buf = 0 /\ len = 0
  /\ cmd = Cmd("none")
  /\ result = "none"
  /\ rbuf = <<>>
  /\ initOk = FALSE
  /\ goal = mem
  /\ calls = 0 /\ faults = 0

\* The driver's steps, that do not need the chip to end anything.
Driver ==
  \/ NotReady \/ InitAgain \/ InitSpi \/ WaitId \/ Wait4Byte \/ Scanned4Byte
  \/ NoFactoryInit \/ Deinit \/ DeinitDone
  \/ WaitWren \/ SettleTimedOut \/ InitSettled
  \/ WaitFirst \/ LoopDone \/ ProgramPage \/ PageSettled
  \/ EraseRefused \/ EraseChip \/ EraseBegin \/ EraseUnit \/ UnitSettled
  \/ ChipSettled \/ EraseDone
  \/ \E x \in XferEnds :
        \/ SendReset(x) \/ ReadId(x) \/ Send4Byte(x) \/ ReadQuad(x) \/ VerifyQuad(x)
        \/ FactoryInit(x) \/ SendWren(x) \/ CheckWel(x) \/ Issue(x) \/ ReadPage(x)

ChipFinish == Finish /\ UNCHANGED <<driver, calls, faults>>

Next ==
  \/ \E c \in Calls : Call(c)
  \/ Driver
  \/ ChipFinish

Spec == Init /\ [][Next]_vars

\* The driver's thread runs; the chip need not ever end what it does.
FairSpec == Spec /\ WF_vars(Driver)

-----------------------------------------------------------------------------
(* Properties.                                                             *)

Labels == {"idle", "init", "reset", "idwait", "rdid", "en4b", "en4bwait", "en4bdone",
           "rdsr2", "vfysr2", "factory", "deinit", "read", "rdloop", "program", "prloop",
           "erase", "erloop", "wren", "wrenwait", "wel", "issue", "settle"}
Kinds == {"none", "wren", "en4b", "reset"} \cup ArrayKinds \cup StatusKinds
Answers == {"none", "ok", "EBUSY", "EINVAL", "EIO"}

\* Every variable holds a value of its type.
TypeOK ==
  /\ ChipType
  /\ info \in BOOLEAN /\ initOk \in BOOLEAN
  /\ pc \in Labels
  /\ call \in Calls \cup {NoCall}
  /\ addr \in Nat /\ buf \in Nat /\ len \in Nat
  /\ cmd \in [kind : Kinds, addr : Nat, off : Nat, len : Nat,
              data : {<<>>} \cup {c.data : c \in Calls}]
  /\ result \in Answers
  /\ DOMAIN rbuf \subseteq Nat
  /\ \A i \in DOMAIN rbuf : rbuf[i] \in Cell
  /\ goal \in [Addr -> Cell]
  /\ calls \in 0 .. MaxCalls
  /\ faults \in 0 .. MaxFaults

\* A command that changes the chip goes out only to an idle chip whose write-enable
\* latch is set, also after a call that gave up on a chip still at work
\* (nor_write_enable, core.c:257-277).
Armed == pc = "issue" => ~wip /\ wel

\* No page is read and no program of a page is begun while an earlier operation runs
\* (the waits at core.c:877, 935 and 954). nor_erase does not wait first: its loop may start
\* on a busy chip, and Armed is what holds of the commands it sends.
QuietLoops == pc \in {"rdloop", "prloop"} => ~wip

\* After a nor_init that returned 0, and until nor_deinit, no block is protected and
\* the quad commands the driver uses are enabled (core.c:493-499, 565-570).
UsableWhenInit == info /\ initOk => ~prot /\ (Quad => qe)

\* The requests callers may make: the driver checks the end of a read or program call
\* nowhere, that of an erase call in unsigned arithmetic.
CallsInRange ==
  \A c \in Calls :
     /\ c.addr + c.len < WordSize
     /\ c.fn \in {"read", "program"} => c.addr + c.len <= TotalSize

\* Every program or erase command stays inside the range the caller named; a program
\* command does not wrap in its page and an erase command is aligned to its unit and
\* ends inside the chip (the loops of nor_write and nor_erase).
CommandInRequest ==
  pc \in {"wren", "wrenwait", "wel", "issue", "settle"} =>
     /\ cmd.kind \in {"program", "erase"} =>
           /\ call.addr <= cmd.addr
           /\ cmd.addr + cmd.len <= call.addr + call.len
     /\ cmd.kind = "program" => (cmd.addr % PageSize) + cmd.len <= PageSize
     /\ cmd.kind = "erase" => cmd.addr % cmd.len = 0 /\ cmd.addr + cmd.len <= TotalSize

\* The driver keeps the promise of FlashStore: only cells of the request change, each
\* only to its final value, "ok" means all of it is done and the chip is quiet, and a
\* read returns the array.
Implements == Store!Spec

\* The steps that may follow before the call returns: those of a modification, of an
\* initialisation or a de-initialisation, of the loops six for each cell.
ModifySteps == [wren |-> 5, wrenwait |-> 4, wel |-> 3, issue |-> 2, settle |-> 1]
InitSteps ==
  [init |-> 25, reset |-> 24, idwait |-> 23, deinit |-> 22, rdid |-> 22, en4b |-> 21,
   en4bwait |-> 20, en4bdone |-> 19, rdsr2 |-> 18, vfysr2 |-> 12, factory |-> 11]
LoopSteps(n) == 6 * n + 1
StepsAfter ==
  CASE cmd.kind = "wrsr2" -> InitSteps["vfysr2"]
    [] cmd.kind = "wrsr3" -> ModifySteps["wren"]
    [] cmd.kind \in {"program", "erase"} -> LoopSteps(len - 1)
    [] OTHER -> 0
StepsLeft ==
  CASE pc = "idle" -> 0
    [] pc \in DOMAIN InitSteps -> InitSteps[pc]
    [] pc \in DOMAIN ModifySteps -> ModifySteps[pc] + StepsAfter
    [] pc \in {"rdloop", "prloop", "erloop"} -> LoopSteps(len)
    [] OTHER -> LoopSteps(len) + 1

\* No call goes round for ever, whatever the chip and the bus do: every step of the driver
\* leaves fewer steps to the end of the call, no retry and no refused erase unit brings
\* one back (the loops of core.c:627-815, each wait of which nor_wait_ready bounds).
CallsWindDown ==
  [][pc # "idle" /\ driver' # driver => StepsLeft' \in 0 .. StepsLeft - 1]_vars

\* Every call returns, whatever the chip and the bus do.
Responsive == (pc # "idle") ~> (pc = "idle")

\* The end of an erase request lies inside the chip (the message of core.c:773 for the
\* requests refused: addr with size over total size).
EraseBeyondEndRefused == pc = "erloop" => call.addr + call.len <= TotalSize

\* A program call that returns success has programmed the data: the driver returned
\* success only for data that is now in the array (spinorflash.c:109, 117-121).
ProgramSuccessIsDone ==
  [][pc # "idle" /\ pc' = "idle" /\ call.fn = "program" /\ result' = "ok"
       => mem' = goal]_vars
=============================================================================
