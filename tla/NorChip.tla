------------------------------- MODULE NorChip -------------------------------
(***************************************************************************)
(* The SPI NOR flash chip, as core.c drives it. The chip is not part of    *)
(* the repository: this module holds what the driver relies on.            *)
(*                                                                         *)
(*   - While an operation runs (wip) the chip answers status reads, may    *)
(*     take a reset and ignores every other command.                       *)
(*   - A program, erase or status-register write is taken only with the    *)
(*     write-enable latch (wel) set; the latch clears when it ends.        *)
(*   - A page program wraps inside its page; an erase command wipes the    *)
(*     whole unit its address lies in; addresses wrap at the chip's size.  *)
(*   - A protected chip (the power-up state of parts with individual block *)
(*     locks) drops program and erase commands and clears the latch; so it *)
(*     does with a quad program while its quad-enable bit is clear.        *)
(*   - Software reset is taken or not: nor_reset sends its two bytes in    *)
(*     one chip-select assertion, which some parts ignore. A part that     *)
(*     takes it cuts a running operation short.                            *)
(*   - A part without block locks does not know the unlock command.        *)
(***************************************************************************)
EXTENDS Naturals

CONSTANTS
  Bits,           \* the bits of one flash cell
  TotalSize,      \* cells of the array: nor->total_size
  PageSize,       \* NOR_PAGE_SIZE
  Quad,           \* TRUE: the part is driven with the quad program and read commands
  Locked          \* TRUE: blocks are protected after power-up and reset

Addr == 0 .. TotalSize - 1
Cell == SUBSET Bits
Erased == Bits

VARIABLES
  mem,     \* the array
  after,   \* the array once the running operation has ended (mem if none runs)
  wip,     \* status bit 0: an operation runs
  wel,     \* status bit 1: the write-enable latch
  qe,      \* quad-enable bit of status register 2, non-volatile
  prot,    \* blocks are protected
  mode4    \* the chip is in 4-byte address mode

chip == <<mem, after, wip, wel, qe, prot, mode4>>

ChipType ==
  /\ mem \in [Addr -> Cell]
  /\ after \in [Addr -> Cell]
  /\ wip \in BOOLEAN
  /\ wel \in BOOLEAN
  /\ qe \in BOOLEAN
  /\ prot \in BOOLEAN
  /\ mode4 \in BOOLEAN

\* The array after a page program of len cells from address addr with
\* data[off], data[off+1], ...: positions past the page's end wrap to its start.
PageProgram(m, addr, data, off, len) ==
  LET page == addr - (addr % PageSize)
      pos(i) == (page + (((addr % PageSize) + i) % PageSize)) % TotalSize
  IN  [a \in Addr |->
         m[a] \cap {b \in Bits :
                      \A i \in 0 .. len - 1 : pos(i) = a => b \in data[off + i]}]

\* The array after the erase command for units of the given size.
UnitErase(m, addr, size) ==
  LET unit == ((addr - (addr % size)) % TotalSize)
  IN  [a \in Addr |-> IF unit <= a /\ a < unit + size THEN Erased ELSE m[a]]

ChipErase(m) == [a \in Addr |-> Erased]

\* What the operation of a command makes of the array.
Outcome(k) ==
  CASE k.kind = "program" -> PageProgram(mem, k.addr, k.data, k.off, k.len)
    [] k.kind = "erase"   -> UnitErase(mem, k.addr, k.len)
    [] k.kind = "chip"    -> ChipErase(mem)
    [] OTHER              -> mem

ArrayKinds == {"program", "erase", "chip"}
StatusKinds == {"wrsr2", "wrsr3", "unlock"}

\* The chip ignores a command it receives while an operation runs, one that needs
\* the latch when it is clear, and one it does not know.
Ignore(k) ==
  /\ \/ wip
     \/ k.kind \in ArrayKinds \cup StatusKinds /\ ~wel
     \/ k.kind = "unlock" /\ ~Locked
  /\ UNCHANGED chip

\* What makes the chip drop a program or erase command it has the latch for.
Drops(k) == prot \/ (k.kind = "program" /\ Quad /\ ~qe)

\* The chip drops the command and clears the latch.
Refuse(k) ==
  /\ ~wip /\ wel /\ Drops(k) /\ k.kind \in ArrayKinds
  /\ wel' = FALSE
  /\ UNCHANGED <<mem, after, wip, qe, prot, mode4>>

Start(k) ==
  /\ ~wip /\ wel /\ ~Drops(k) /\ k.kind \in ArrayKinds
  /\ wip' = TRUE
  /\ after' = Outcome(k)
  /\ UNCHANGED <<mem, wel, qe, prot, mode4>>

\* Register writes: the bits change when the chip takes the command, the chip is
\* busy until it has stored them. The block-unlock command is not timed.
StartStatus(k) ==
  /\ ~wip /\ wel /\ k.kind \in StatusKinds
  /\ wip' = (k.kind # "unlock")
  /\ wel' = (k.kind # "unlock")
  /\ qe' = (qe \/ k.kind = "wrsr2")
  /\ prot' = (prot /\ k.kind # "unlock")
  /\ UNCHANGED <<mem, after, mode4>>

WriteEnable(k) ==
  /\ ~wip /\ k.kind = "wren"
  /\ wel' = TRUE
  /\ UNCHANGED <<mem, after, wip, qe, prot, mode4>>

Enter4Byte(k) ==
  /\ ~wip /\ k.kind = "en4b"
  /\ mode4' = TRUE
  /\ UNCHANGED <<mem, after, wip, wel, qe, prot>>

\* Software reset, on a chip that takes it.
Reset(k) ==
  /\ ~wip /\ k.kind = "reset"
  /\ wel' = FALSE
  /\ prot' = Locked
  /\ mode4' = FALSE
  /\ UNCHANGED <<mem, after, wip, qe>>

\* Software reset while an operation runs: the cells below n have been done.
Abort(k, n) ==
  /\ wip /\ k.kind = "reset"
  /\ mem' = [a \in Addr |-> IF a < n THEN after[a] ELSE mem[a]]
  /\ after' = mem'
  /\ wip' = FALSE
  /\ wel' = FALSE
  /\ prot' = Locked
  /\ mode4' = FALSE
  /\ UNCHANGED qe

\* Software reset, on a chip that does not see it as one.
ResetUnseen(k) ==
  /\ ~wip /\ k.kind = "reset"
  /\ UNCHANGED chip

\* The chip's reaction to a command that reaches it.
Receive(k) ==
  \/ Ignore(k)
  \/ Refuse(k)
  \/ Start(k)
  \/ StartStatus(k)
  \/ WriteEnable(k)
  \/ Enter4Byte(k)
  \/ Reset(k)
  \/ \E n \in 0 .. TotalSize : Abort(k, n)
  \/ ResetUnseen(k)

\* The running operation ends, in its own time.
Finish ==
  /\ wip
  /\ mem' = after
  /\ wip' = FALSE
  /\ wel' = FALSE
  /\ UNCHANGED <<after, qe, prot, mode4>>
=============================================================================
