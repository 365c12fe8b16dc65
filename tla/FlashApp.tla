------------------------------ MODULE FlashApp ------------------------------
(***************************************************************************)
(* The flash programmer: flash_handle (flash_main.c), the flash* functions *)
(* (driver.c) and the CSI spiflash layer (spinorflash.c), on top of the    *)
(* SPI NOR driver of SpiNor, whose calls they make.                        *)
(*                                                                         *)
(* A debugger drives the program: whenever it stands at __bkpt_label the   *)
(* debugger has read g_error and the buffers, writes g_func, g_dstAddress, *)
(* g_length, g_checksum and g_rwBuffer, and lets it run. Between two stops *)
(* the program makes no, one or (for a checksum) several driver calls.     *)
(***************************************************************************)
EXTENDS SpiNor

CONSTANTS
  Commands,      \* the commands a debugger gives
  ByteValue,     \* the value of a cell as an unsigned char
  RwLen,         \* sizeof(g_rwBuffer)
  CkLen,         \* CHECKSUM_BUF_LEN
  EraseSize,     \* nor->blk_size, what hal_spinor_get_info calls sector_size
  MaxCommands    \* bound on the commands of a session

\* g_func 0 to 6; any other value stands for the default case.
ASSUME CommandsAssumption ==
  /\ \A d \in Commands :
       /\ d.func \in 0 .. 7
       /\ d.dst \in Nat /\ d.length \in Nat /\ d.checksum \in Nat
       /\ d.func \in {1, 2} => d.length <= RwLen
       /\ d.data \in [0 .. d.length - 1 -> Cell] \/ d.func # 1
  /\ ByteValue \in [Cell -> Nat]
  /\ RwLen \in Nat /\ CkLen \in Nat \ {0} /\ EraseSize \in Nat \ {0} /\ MaxCommands \in Nat

VARIABLES
  at,         \* where flash_handle is
  dbg,        \* the command the debugger has written to memory
  error,      \* g_error: "0" or the name of an error
  rw, ck,     \* g_rwBuffer, g_checksumBuffer
  sum, rest, from,    \* the locals sum, len, flash_addr of flashChecksum
  want,       \* history: the array the command asks for
  heard,      \* history: every read of this checksum has succeeded
  commands    \* what the bound has used up

app == <<at, dbg, error, rw, ck, sum, rest, from, want, heard, commands>>
appvars == <<vars, app>>

NoCommand == [func |-> 7, dst |-> 0, length |-> 0, checksum |-> 0, data |-> <<>>]

\* hal_spinor_init, _deinit, _read_data, _program_data, _erase_sector, _erase_chip.
DriverCall(fn, a, n, data) == [fn |-> fn, addr |-> a, len |-> n, data |-> data]
InitCall == DriverCall("init", 0, 0, <<>>)
DeinitCall == DriverCall("deinit", 0, 0, <<>>)
ReadCall(a, n) == DriverCall("read", a, n, <<>>)
ProgramCall(a, data, n) == DriverCall("program", a, n, data)
EraseCall(a, n) == DriverCall("erase", a, n, <<>>)
EraseChipCall == EraseCall(0, TotalSize)

\* The driver's callers make the calls the commands lead to, for a checksum those of
\* the pieces of its range.
ASSUME AppCallsAssumption ==
  /\ {InitCall, DeinitCall, EraseChipCall} \subseteq Calls
  /\ \A d \in Commands :
       /\ d.func = 1 => ProgramCall(d.dst, d.data, d.length) \in Calls
       /\ d.func = 2 => ReadCall(d.dst, d.length) \in Calls
       /\ d.func = 3 => EraseCall(d.dst, d.length) \in Calls
       /\ d.func = 6 => \A k \in 0 .. d.length, n \in 1 .. CkLen :
                           k + n <= d.length => ReadCall(d.dst + k, n) \in Calls

\* What the current command makes of the array m when it is carried out.
Asked(d, m) ==
  CASE d.func = 1 -> Store!Effect(ProgramCall(d.dst, d.data, d.length), m)
    [] d.func = 3 -> Store!Effect(EraseCall(d.dst, d.length), m)
    [] d.func = 4 -> Store!Effect(EraseChipCall, m)
    [] OTHER      -> m

\* The driver call made for the application has returned.
Returned == pc = "idle"

\* The cells a read has put in its buffer: those of its whole pages, and of the page
\* whose transfer failed any number, as far as the chip sent them.
Received(n) ==
  [i \in 0 .. buf + n - 1 |->
     IF i < buf THEN rbuf[i] ELSE Sensed((addr + (i - buf)) % TotalSize)]
Partial == IF result = "EIO" /\ len > 0 THEN 0 .. Chunk ELSE {0}

\* A buffer after a read into its first cells.
Overlaid(b, r) == [i \in DOMAIN b |-> IF i \in DOMAIN r THEN r[i] ELSE b[i]]

Answer(e) == at' = "bkpt" /\ error' = e

-----------------------------------------------------------------------------
(* flash_handle and flashInit.                                             *)

Boot ==
  /\ at = "start"
  /\ Call(InitCall)
  /\ at' = "init"
  /\ UNCHANGED <<dbg, error, rw, ck, sum, rest, from, want, heard, commands>>

\* csi_spiflash_qspi_init, then __flash_info_get, which fails without nor->info.
InitReturned ==
  /\ at = "init" /\ Returned
  /\ Answer(IF result = "ok" /\ info THEN "0" ELSE "ERROR_INIT")
  /\ UNCHANGED <<vars, dbg, rw, ck, sum, rest, from, want, heard, commands>>

\* The debugger fills in the next command and continues.
Debugger(d) ==
  /\ at = "bkpt" /\ commands < MaxCommands
  /\ commands' = commands + 1
  /\ dbg' = d
  /\ rw' = IF d.func = 1 THEN Overlaid(rw, d.data) ELSE rw
  /\ want' = Asked(d, after)
  /\ at' = "switch"
  /\ UNCHANGED <<vars, error, ck, sum, rest, from, heard>>

\* flashID does nothing and succeeds; an unknown function leaves g_error alone.
NoWork ==
  /\ at = "switch" /\ dbg.func \in {0, 7}
  /\ Answer(IF dbg.func = 0 THEN "0" ELSE error)
  /\ UNCHANGED <<vars, dbg, rw, ck, sum, rest, from, want, heard, commands>>

-----------------------------------------------------------------------------
(* flashProgram, flashRead, flashErase, flashChipErase, flashUnInit.       *)

\* A mutant: only the first byte is looked at.
BlankFirst == dbg.length > 0 => rw[0] = Erased

\* The loop of flashProgram finds no byte other than 0xff.
Blank == \A i \in 0 .. dbg.length - 1 : rw[i] = Erased

SkipBlank ==
  /\ at = "switch" /\ dbg.func = 1 /\ Blank
  /\ Answer("0")
  /\ UNCHANGED <<vars, dbg, rw, ck, sum, rest, from, want, heard, commands>>

\* csi_spiflash_erase refuses when nor->info is not set and for a size that is not
\* made of whole sectors.
CsiRefusesErase == ~info \/ dbg.length % EraseSize # 0

RefuseErase ==
  /\ at = "switch" /\ dbg.func = 3 /\ CsiRefusesErase
  /\ Answer("ERROR_ERASE")
  /\ UNCHANGED <<vars, dbg, rw, ck, sum, rest, from, want, heard, commands>>

\* The driver call of the command.
Request ==
  CASE dbg.func = 1 -> ProgramCall(dbg.dst, [i \in 0 .. dbg.length - 1 |-> rw[i]],
                                   dbg.length)
    [] dbg.func = 2 -> ReadCall(dbg.dst, dbg.length)
    [] dbg.func = 3 -> EraseCall(dbg.dst, dbg.length)
    [] dbg.func = 4 -> EraseChipCall
    [] dbg.func = 5 -> DeinitCall

Forward ==
  /\ at = "switch" /\ dbg.func \in 1 .. 5
  /\ ~(dbg.func = 1 /\ Blank) /\ ~(dbg.func = 3 /\ CsiRefusesErase)
  /\ Call(Request)
  /\ at' = "wait"
  /\ UNCHANGED <<dbg, error, rw, ck, sum, rest, from, want, heard, commands>>

Errors == <<"ERROR_PROGRAM", "ERROR_READ", "ERROR_ERASE", "ERROR_CHIPERASE">>

\* A mutant: flashRead drops the result of __flash_read.
ReplyReadUnheard(r) == IF dbg.func \in {2, 5} \/ r = "ok" THEN "0" ELSE Errors[dbg.func]

\* What the flash function returns for the driver's result; flashUnInit ignores it.
Reply(r) == IF dbg.func = 5 \/ r = "ok" THEN "0" ELSE Errors[dbg.func]

ForwardReturned ==
  /\ at = "wait" /\ Returned
  /\ IF dbg.func = 2
     THEN \E n \in Partial : rw' = Overlaid(rw, Received(n))
     ELSE UNCHANGED rw
  /\ Answer(Reply(result))
  /\ UNCHANGED <<vars, dbg, ck, sum, rest, from, want, heard, commands>>

-----------------------------------------------------------------------------
(* flashChecksum.                                                          *)

CkBegin ==
  /\ at = "switch" /\ dbg.func = 6
  /\ sum' = 0 /\ rest' = dbg.length /\ from' = dbg.dst
  /\ heard' = TRUE
  /\ at' = "ckloop"
  /\ UNCHANGED <<vars, dbg, error, rw, ck, want, commands>>

\* Mutants: nothing is taken off for a last, short turn; every turn is a full one.
TurnDropped == IF rest < CkLen THEN 0 ELSE CkLen
TurnFull == CkLen

\* The bytes of the next turn of the loop.
Turn == IF rest < CkLen THEN rest ELSE CkLen

CkRead ==
  /\ at = "ckloop" /\ rest > 0
  /\ Call(ReadCall(from, Turn))
  /\ at' = "ckwait"
  /\ UNCHANGED <<dbg, error, rw, ck, sum, rest, from, want, heard, commands>>

\* The sum of the first n bytes of the buffer b.
SumOf(b, n) ==
  LET sumTo[k \in 0 .. n] == IF k = 0 THEN 0 ELSE sumTo[k - 1] + ByteValue[b[k - 1]]
  IN  sumTo[n]

\* A mutant: the address stays where the first turn read.
CkAddStays ==
  /\ at = "ckwait" /\ Returned
  /\ \E n \in Partial : ck' = Overlaid(ck, Received(n))
  /\ sum' = sum + SumOf(ck', Turn)
  /\ rest' = rest - Turn
  /\ heard' = (heard /\ result = "ok")
  /\ at' = "ckloop"
  /\ UNCHANGED <<vars, dbg, error, rw, from, want, commands>>

\* The result of __flash_read is ignored: what the buffer holds is added, whatever
\* put it there.
CkAdd ==
  /\ at = "ckwait" /\ Returned
  /\ \E n \in Partial : ck' = Overlaid(ck, Received(n))
  /\ sum' = sum + SumOf(ck', Turn)
  /\ rest' = rest - Turn
  /\ from' = from + Turn
  /\ heard' = (heard /\ result = "ok")
  /\ at' = "ckloop"
  /\ UNCHANGED <<vars, dbg, error, rw, want, commands>>

CkEnd ==
  /\ at = "ckloop" /\ rest = 0
  /\ Answer(IF sum = dbg.checksum THEN "0" ELSE "ERROR_CHECKSUM")
  /\ UNCHANGED <<vars, dbg, rw, ck, sum, rest, from, want, heard, commands>>

-----------------------------------------------------------------------------
(* The system.                                                             *)

AppInit ==
  /\ Init
  /\ at = "start"
  /\ dbg = NoCommand
  /\ error = "0"
  /\ rw = [i \in 0 .. RwLen - 1 |-> {}]
  /\ ck = [i \in 0 .. CkLen - 1 |-> {}]
  /\ sum = 0 /\ rest = 0 /\ from = 0
  /\ want = mem
  /\ heard = TRUE
  /\ commands = 0

AppStep ==
  \/ Boot \/ InitReturned \/ NoWork \/ SkipBlank \/ RefuseErase \/ Forward
  \/ ForwardReturned \/ CkBegin \/ CkRead \/ CkAdd \/ CkEnd

AppNext ==
  \/ \E d \in Commands : Debugger(d)
  \/ AppStep
  \/ Driver /\ UNCHANGED app
  \/ ChipFinish /\ UNCHANGED app

AppSpec == AppInit /\ [][AppNext]_appvars

\* The program runs whenever it is not at the breakpoint; nothing is assumed of the
\* debugger and the chip.
FairAppSpec ==
  AppSpec /\ WF_appvars(AppStep) /\ WF_appvars(Driver /\ UNCHANGED app)

-----------------------------------------------------------------------------
(* Properties.                                                             *)

AppErrors == {"0", "ERROR_INIT", "ERROR_CHECKSUM"} \cup {Errors[i] : i \in 1 .. 4}

\* Every variable of the application holds a value of its type, and so does what it
\* shares with the driver.
AppTypeOK ==
  /\ ChipType /\ info \in BOOLEAN /\ initOk \in BOOLEAN /\ pc \in Labels
  /\ at \in {"start", "init", "bkpt", "switch", "wait", "ckloop", "ckwait"}
  /\ at \in {"start", "bkpt", "switch", "ckloop"} => pc = "idle"
  /\ dbg \in Commands \cup {NoCommand}
  /\ error \in AppErrors
  /\ rw \in [0 .. RwLen - 1 -> Cell]
  /\ ck \in [0 .. CkLen - 1 -> Cell]
  /\ sum \in Nat /\ rest \in Nat /\ from \in Nat
  /\ want \in [Addr -> Cell]
  /\ heard \in BOOLEAN
  /\ commands \in 0 .. MaxCommands

\* The program stops at the breakpoint with the answer to a command.
Answers0 == at \in {"switch", "wait", "ckloop"} /\ at' = "bkpt" /\ error' = "0"

\* After an initialisation that succeeded, g_error = 0 at the breakpoint means that a
\* program, erase or chip erase is in the array, or heads there, also when the data was
\* blank and the driver was not called, and that a read has the contents of the array
\* in g_rwBuffer (driver.c:149-223 over spinorflash.c:93-147).
ZeroMeansDone ==
  [][Answers0 /\ initOk =>
       /\ dbg.func \in {1, 3, 4} => after' = want
       /\ dbg.func \in {3, 4} /\ dbg.length > 0 => mem' = want
       /\ dbg.func = 2 => \A i \in 0 .. dbg.length - 1 : rw'[i] = mem'[dbg.dst + i]]_appvars

\* The sum of the array's cells in the range of the command.
TrueSum == SumOf([i \in 0 .. dbg.length - 1 |-> mem[dbg.dst + i]], dbg.length)

\* When every read of a checksum succeeded its answer is 0 exactly if the sum of the
\* array's bytes is the expected one, over any number of turns of the loop
\* (driver.c:247-271). When a read failed the answer says nothing: its result is not
\* looked at.
ChecksumTrue ==
  [][at = "ckloop" /\ at' = "bkpt" /\ heard /\ initOk =>
       (error' = "0" <=> TrueSum = dbg.checksum)]_appvars

\* Before an initialisation that found a chip, and after flashUnInit, a command that
\* needs the chip is answered 0 in one case only, although flash_handle goes on serving
\* commands and overwrites the error of flashInit (flash_main.c:64-95): a checksum takes
\* its buffer for what its refused reads have left (driver.c:255) and is answered 0 when
\* that adds up to the sum expected, against "return 0, else return ERROR_CHECKSUM"
\* (driver.c:234). Such a checksum has had a read refused: none is answered 0 without one
\* unless it was of no bytes. flashID, flashUnInit, unknown functions and blank data do
\* not need the chip.
RefusedWithoutChip ==
  [][Answers0 /\ ~info =>
       \/ dbg.func \in {0, 5, 7}
       \/ dbg.func = 1 /\ \A i \in 0 .. dbg.length - 1 : rw[i] = Erased
       \/ dbg.func = 6 /\ (dbg.length = 0 \/ ~heard)]_appvars

\* The steps that may follow before the breakpoint: the application's own and those of
\* the driver calls, one for each turn of a checksum.
TurnSteps(n) == n * (LoopSteps(CkLen) + 3)
CommandSteps ==
  CASE dbg.func \in 1 .. 3 -> LoopSteps(dbg.length) + 3
    [] dbg.func = 4        -> LoopSteps(TotalSize) + 3
    [] dbg.func = 5        -> InitSteps["deinit"] + 2
    [] dbg.func = 6        -> TurnSteps(dbg.length) + 2
    [] OTHER               -> 1
AppStepsLeft ==
  CASE at = "bkpt"   -> 0
    [] at = "start"  -> InitSteps["init"] + 2
    [] at \in {"init", "wait"} -> StepsLeft + 1
    [] at = "switch" -> CommandSteps
    [] at = "ckloop" -> TurnSteps(rest) + 1
    [] at = "ckwait" -> TurnSteps(rest - Turn) + StepsLeft + 2

\* Every step of application and driver brings the next breakpoint nearer, whatever the
\* chip and the bus do: a checksum takes its range off in turns and repeats none, also
\* when a read failed (driver.c:247-271).
CommandsWindDown ==
  [][at # "bkpt" /\ <<driver, app>>' # <<driver, app>>
       => AppStepsLeft' \in 0 .. AppStepsLeft - 1]_appvars

\* Every command leads back to the breakpoint, whatever the chip and the bus do.
CommandsEnd == (at # "bkpt") ~> (at = "bkpt")
=============================================================================
