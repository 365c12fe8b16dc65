----------------------------- MODULE CachedNor -----------------------------
(***************************************************************************)
(* The write-back cache of the SPI NOR driver (spinor/cache.c) as a build  *)
(* with CONFIG_DRIVERS_SPINOR_CACHE and _WRITE_LOCK has it: nor_cache_read,*)
(* _write, _erase and _sync and hal_spinor_erase_chip, over nor_read,      *)
(* nor_write and nor_erase (core.c), which unlock the blocks they change   *)
(* (wrlock.c) and lock all of them again. One page programmed or one unit  *)
(* erased per step, each of which may fail; between any two steps the      *)
(* power may go, and then mem is all that is left.                         *)
(*                                                                         *)
(* Below the cache every address is a multiple of a page, so the flash is  *)
(* kept by pages.                                                          *)
(***************************************************************************)
EXTENDS Integers, FiniteSets

CONSTANTS
  Bits,            \* the bits of a page
  PageSize,        \* nor->page_size
  SecSize,         \* SZ_4K
  HalfSize,        \* SZ_32K
  CacheSize,       \* SZ_64K, also the block the write lock works on
  EraseSize,       \* nor->blk_size
  TotalSize,       \* nor->total_size
  WordSize,        \* 2^32
  Flags,           \* nor->info->flag
  Arrays,          \* what the flash may hold at first
  Calls,           \* the calls made
  MaxCalls, MaxFaults   \* bounds on calls and on failing operations

Page == 0 .. (TotalSize \div PageSize) - 1
Cell == SUBSET Bits
Erased == Bits

PageCnt == CacheSize \div PageSize
BlkCnt == CacheSize \div EraseSize

ASSUME CacheAssumption ==
  /\ {PageSize, SecSize, HalfSize, EraseSize, CacheSize, TotalSize, WordSize}
       \subseteq Nat \ {0}
  /\ SecSize % PageSize = 0 /\ EraseSize % SecSize = 0 /\ CacheSize % EraseSize = 0
  /\ HalfSize % SecSize = 0 /\ CacheSize % HalfSize = 0
  /\ TotalSize % CacheSize = 0 /\ WordSize % CacheSize = 0 /\ WordSize > TotalSize
  /\ "4K" \in Flags
  /\ Arrays \subseteq [Page -> Cell]
  /\ MaxCalls \in Nat /\ MaxFaults \in Nat

\* The cache checks no range: calls stay inside the flash.
ASSUME CacheCallsAssumption ==
  \A c \in Calls :
    /\ c.fn \in {"read", "write", "erase", "sync", "erasechip"}
    /\ c.addr \in Nat /\ c.len \in Nat /\ c.addr + c.len <= TotalSize
    /\ c.fn = "erasechip" => c.addr = 0 /\ c.len = TotalSize
    /\ c.fn = "write" => c.data \in [0 .. (c.len \div PageSize) - 1 -> Cell]

VARIABLES
  mem,              \* the flash
  locked,           \* its pages that are locked
  win, buf,         \* cache.addr and cache.buf, by page
  dirty, wiped,     \* bitmap_page and bitmap_blk, as sets
  lastWrite,        \* last_write
  pc,               \* where the call is
  call,             \* the call being served, or the last one
  step,             \* the loop variable of the flush functions
  addr, len,        \* those of nor_write and nor_erase
  result, rbuf,     \* the answer to the last call, and what a read returned
  view,             \* history: the pages as the callers' calls that succeeded left them
  known,            \* history: the pages whose view the callers rely on
  spared,           \* history: the pages an erase that was answered 0 left as they were
  fresh, cleared,   \* history: the pages written, and erased, since the last sync
  meta,             \* history: the last page of the last write
  calls, faults     \* what the bounds have used up

cache == <<win, buf, dirty, wiped, lastWrite>>
job == <<step, addr, len>>
answer == <<result, rbuf>>
history == <<view, known, spared, fresh, cleared, meta>>
vars == <<mem, locked, cache, pc, call, job, answer, history, calls, faults>>

INVALID_CACHE_ADDR == WordSize - 1
AlignDown(a, n) == a - (a % n)
SmallerOf(a, b) == IF a < b THEN a ELSE b

\* The pages of n addresses from a on.
PagesOf(a, n) == {p \in Page : a <= p * PageSize /\ p * PageSize < a + n}

-----------------------------------------------------------------------------
(* wrlock.c.                                                               *)

\* A mutant: the last block is locked as a whole.
LockUnitFirst(a) == IF a < CacheSize THEN SecSize ELSE CacheSize

\* The first and the last block are locked by sectors.
LockUnit(a) == IF a >= TotalSize - CacheSize \/ a < CacheSize THEN SecSize ELSE CacheSize

\* The chip unlocks the unit an unlock command's address lies in.
ChipUnit(a) == IF a < CacheSize \/ a >= TotalSize - CacheSize
               THEN AlignDown(a, SecSize) .. AlignDown(a, SecSize) + SecSize - 1
               ELSE AlignDown(a, CacheSize) .. AlignDown(a, CacheSize) + CacheSize - 1

\* The addresses nor_wr_unlock unlocks, called with r.addr and r.len. len is reduced
\* before it is added to addr.
UnlockLoop[r \in [addr : Nat, len : Nat]] ==
  IF r.len = 0 THEN {}
  ELSE LET unit == LockUnit(r.addr)
           rest == r.len - SmallerOf(unit, r.len)
       IN ChipUnit(AlignDown(r.addr, unit))
          \cup UnlockLoop[[addr |-> r.addr + SmallerOf(unit, rest), len |-> rest]]

Unlocked(a, n) == UnlockLoop[[addr |-> a, len |-> n]]

\* The pages among ps that a command changes: the chip ignores it for locked ones.
Open(ps, unlocked) == {p \in ps : p \in locked => p * PageSize \in unlocked}

\* The pages that stay locked through an operation.
StillLocked(unlocked) == {p \in locked : p * PageSize \notin unlocked}

-----------------------------------------------------------------------------
(* The window of the cache.                                                *)

\* check_cache_addr: both ends lie in the window. For no bytes at a window's start the
\* second end lies in the window before.
Hit(c) ==
  /\ win # INVALID_CACHE_ADDR
  /\ AlignDown(c.addr, CacheSize) = win
  /\ AlignDown((c.addr + c.len + WordSize - 1) % WordSize, CacheSize) = win

Straddles(c) == (c.addr % CacheSize) + c.len > CacheSize

Unit(c) == IF c.fn = "erase" THEN EraseSize ELSE PageSize
Misaligned(c) == c.addr % Unit(c) # 0 \/ c.len % Unit(c) # 0

\* Pages and erase blocks of the window.
PageAt(i) == (win \div PageSize) + i
DirtyPages == {PageAt(i) : i \in dirty}
BlockPages(b) == PagesOf(win + b * EraseSize, EraseSize)
WipedPages == UNION {BlockPages(b) : b \in wiped}

\* The call is to be carried out by nor_read, nor_write or nor_erase.
Bypasses(c) == c.fn = "erasechip" \/ (c.fn # "sync" /\ Straddles(c))

\* Where the call goes on after its flush, if it needs one.
Enter(c, place) ==
  /\ pc' = place
  /\ IF place = "direct"
     THEN addr' = c.addr /\ len' = c.len
     ELSE UNCHANGED <<addr, len>>

AfterFlush(c) == Enter(c, IF Bypasses(c) THEN "direct" ELSE "serve")

NeedsFlush(c) ==
  \/ c.fn = "sync" \/ Bypasses(c)
  \/ c.fn \in {"write", "erase"} /\ ~Hit(c)

\* A large erase flushes the erases only, other calls everything, if there is a window.
NothingToFlush(c) == win = INVALID_CACHE_ADDR /\ ~(c.fn = "erase" /\ Straddles(c))

-----------------------------------------------------------------------------
(* A call comes in.                                                        *)

\* The callers of the model: they write only pages they know to be erased, and erase
\* nothing written since the last sync. The latter is the model's condition and in no
\* document: a page that is erased keeps its mark of the write (cache.c:523), so a read
\* returns the data written and the flush programs it again.
Allowed(c) ==
  LET ps == PagesOf(c.addr, c.len)
  IN /\ c.fn = "write" => ps \subseteq known /\ \A p \in ps : view[p] = Erased
     /\ c.fn = "erase" => ps \cap fresh = {}

Refuse(c) ==
  /\ pc = "idle" /\ calls < MaxCalls /\ Misaligned(c)
  /\ calls' = calls + 1
  /\ call' = c
  /\ result' = "EINVAL"
  /\ UNCHANGED <<mem, locked, cache, pc, job, rbuf, history, faults>>

\* The range of a write or erase is unknown until the call succeeds.
Begin(c) ==
  /\ pc = "idle" /\ calls < MaxCalls /\ ~Misaligned(c) /\ Allowed(c)
  /\ calls' = calls + 1
  /\ call' = c
  /\ known' = CASE c.fn \in {"write", "erase"} -> known \ PagesOf(c.addr, c.len)
                [] c.fn = "erasechip"        -> {}
                [] OTHER                     -> known
  /\ spared' = IF c.fn \in {"erase", "erasechip"} THEN spared \ PagesOf(c.addr, c.len)
               ELSE spared
  /\ step' = 0
  /\ CASE NeedsFlush(c) /\ ~NothingToFlush(c) ->
            pc' = "flusherase" /\ addr' = 0 /\ len' = 0
       [] NeedsFlush(c) /\ NothingToFlush(c) -> AfterFlush(c)
       [] c.fn = "read" /\ ~NeedsFlush(c) /\ ~Hit(c) -> Enter(c, "direct")
       [] OTHER -> Enter(c, "serve")
  /\ UNCHANGED <<mem, locked, cache, answer, view, fresh, cleared, meta, faults>>

Done ==
  /\ pc' = "idle" /\ result' = "ok"
  /\ UNCHANGED <<call, calls, faults>>

\* The call ends with an error; that of a flush is not seen by hal_spinor_erase_chip.
Fails ==
  /\ faults < MaxFaults /\ faults' = faults + 1
  /\ IF call.fn = "erasechip" /\ pc # "direct"
     THEN Enter(call, "direct") /\ UNCHANGED result
     ELSE pc' = "idle" /\ result' = "EIO" /\ UNCHANGED <<addr, len>>
  /\ UNCHANGED <<call, step, rbuf, history, calls>>

-----------------------------------------------------------------------------
(* nor_erase: the loop over the units of addr and len.                     *)

WholeChip == addr = 0 /\ len = TotalSize

Fits(unit, flag) == len >= unit /\ addr % unit = 0 /\ flag \in Flags

\* A unit of 4K always fits: the cache takes multiples of its erase blocks only.
EraseUnit ==
  IF WholeChip THEN TotalSize
  ELSE IF Fits(CacheSize, "64K") /\ "USE_4K" \notin Flags THEN CacheSize
  ELSE IF Fits(HalfSize, "32K") /\ "USE_4K" \notin Flags THEN HalfSize
  ELSE SecSize

Erasing ==
  \/ pc = "flusherase" /\ len > 0
  \/ pc = "direct" /\ call.fn \in {"erase", "erasechip"} /\ len > 0

\* The addresses nor_wr_unlock or nor_wr_unlock_all opens.
Opened == IF WholeChip THEN 0 .. TotalSize - 1 ELSE Unlocked(addr, EraseUnit)

\* The pages of the unit that are not locked.
ErasedPages == Open(PagesOf(addr, EraseUnit), Opened)

\* A result of nor_wr_lock_all that is ignored: blocks unlocked before stay so.
Relocks(pages) ==
  \/ locked' = Page /\ UNCHANGED faults
  \/ locked' = pages /\ faults < MaxFaults /\ faults' = faults + 1

Erase ==
  /\ Erasing
  /\ mem' = [p \in Page |-> IF p \in ErasedPages THEN Erased ELSE mem[p]]
  /\ addr' = addr + EraseUnit /\ len' = len - EraseUnit
  /\ Relocks(StillLocked(Opened))
  /\ UNCHANGED <<cache, pc, call, step, answer, history, calls>>

\* nor_erase_all whose nor_wr_unlock_all failed: its result is ignored, the chip ignores
\* the command while a block is locked, and the wait and the call succeed.
EraseIgnored ==
  /\ Erasing /\ WholeChip /\ locked # {}
  /\ addr' = addr + EraseUnit /\ len' = len - EraseUnit
  /\ spared' = Page
  /\ faults < MaxFaults /\ faults' = faults + 1
  /\ locked' \in {locked, Page}
  /\ UNCHANGED <<mem, cache, pc, call, step, answer, view, known, fresh, cleared, meta, calls>>

\* A unit whose erase failed may be as it was, erased, or have lost its contents.
EraseFails ==
  /\ Erasing /\ Fails
  /\ \E left \in {mem, [p \in Page |-> Erased], [p \in Page |-> {}]} :
       mem' = [p \in Page |-> IF p \in ErasedPages THEN left[p] ELSE mem[p]]
  /\ locked' \in {locked, StillLocked(Opened), Page}
  /\ UNCHANGED cache

-----------------------------------------------------------------------------
(* nor_write: a page; and the loops of nor_flush_write and nor_write.      *)

\* A mutant: the walk starts at the last written page.
WalkFromLast(i) == (i + lastWrite) % PageCnt

\* The i-th page nor_flush_write looks at.
Walk(i) == (i + lastWrite + 1) % PageCnt

\* The next dirty page of the walk.
Pending == {i \in step .. PageCnt - 1 : Walk(i) \in dirty}
NextStep == CHOOSE i \in Pending : \A j \in Pending : i <= j

Programming ==
  \/ pc = "flushwrite" /\ Pending # {}
  \/ pc = "direct" /\ call.fn = "write" /\ len > 0

\* What is programmed where, and how long the rest of the nor_write is.
Program ==
  IF pc = "flushwrite"
  THEN [page |-> PageAt(Walk(NextStep)), data |-> buf[Walk(NextStep)], len |-> PageSize]
  ELSE [page |-> addr \div PageSize,
        data |-> call.data[(addr - call.addr) \div PageSize], len |-> len]

Writable == Unlocked(Program.page * PageSize, Program.len)
Reaches == Program.page \in Open({Program.page}, Writable)

Write ==
  /\ Programming
  /\ mem' = IF Reaches
            THEN [mem EXCEPT ![Program.page] = @ \cap Program.data] ELSE mem
  /\ locked' = Page
  /\ IF pc = "flushwrite"
     THEN step' = NextStep + 1 /\ UNCHANGED <<addr, len>>
     ELSE addr' = addr + PageSize /\ len' = len - PageSize /\ UNCHANGED step
  /\ UNCHANGED <<cache, pc, call, answer, history, calls, faults>>

\* Some of the bits of the page are programmed.
WriteFails ==
  /\ Programming /\ Fails
  /\ \E c \in SUBSET mem[Program.page] :
       /\ mem[Program.page] \cap Program.data \subseteq c
       /\ mem' = IF Reaches THEN [mem EXCEPT ![Program.page] = c] ELSE mem
  /\ locked' \in {locked, StillLocked(Writable)}
  /\ UNCHANGED cache

-----------------------------------------------------------------------------
(* nor_flush_erase and nor_flush_write.                                    *)

\* A mutant: the search goes on at the last block of the run.
PickRunAgain ==
  /\ pc = "flusherase" /\ len = 0
  /\ \E first, last \in step .. BlkCnt - 1 :
       /\ first .. last \subseteq wiped /\ first - 1 \notin wiped /\ last + 1 \notin wiped
       /\ \A b \in step .. first - 1 : b \notin wiped
       /\ first <= last
       /\ addr' = win + first * EraseSize
       /\ len' = (last - first + 1) * EraseSize
       /\ step' = last
  /\ UNCHANGED <<mem, locked, cache, pc, call, answer, history, calls, faults>>

\* The next run of marked blocks goes to one nor_erase.
PickRun ==
  /\ pc = "flusherase" /\ len = 0
  /\ \E first, last \in step .. BlkCnt - 1 :
       /\ first .. last \subseteq wiped /\ first - 1 \notin wiped /\ last + 1 \notin wiped
       /\ \A b \in step .. first - 1 : b \notin wiped
       /\ first <= last
       /\ addr' = win + first * EraseSize
       /\ len' = (last - first + 1) * EraseSize
       /\ step' = last + 1
  /\ UNCHANGED <<mem, locked, cache, pc, call, answer, history, calls, faults>>

\* A mutant: the marks of the blocks stay.
ErasesFlushedKeep ==
  /\ pc = "flusherase" /\ len = 0 /\ wiped \cap (step .. BlkCnt - 1) = {}
  /\ step' = 0
  /\ IF call.fn = "erase" /\ Straddles(call)
     THEN AfterFlush(call)
     ELSE pc' = "flushwrite" /\ UNCHANGED <<addr, len>>
  /\ UNCHANGED <<mem, locked, cache, call, answer, history, calls, faults>>

ErasesFlushed ==
  /\ pc = "flusherase" /\ len = 0 /\ wiped \cap (step .. BlkCnt - 1) = {}
  /\ wiped' = {}
  /\ step' = 0
  /\ IF call.fn = "erase" /\ Straddles(call)
     THEN AfterFlush(call)
     ELSE pc' = "flushwrite" /\ UNCHANGED <<addr, len>>
  /\ UNCHANGED <<mem, locked, win, buf, dirty, lastWrite, call, answer, history, calls, faults>>

\* A mutant: the marks of the pages stay.
WritesFlushedKeep ==
  /\ pc = "flushwrite" /\ Pending = {}
  /\ buf' = [i \in 0 .. PageCnt - 1 |-> Erased]
  /\ win' = INVALID_CACHE_ADDR
  /\ AfterFlush(call)
  /\ UNCHANGED <<mem, locked, dirty, wiped, lastWrite, call, step, answer, history, calls, faults>>

\* clear_cache.
WritesFlushed ==
  /\ pc = "flushwrite" /\ Pending = {}
  /\ dirty' = {}
  /\ buf' = [i \in 0 .. PageCnt - 1 |-> Erased]
  /\ win' = INVALID_CACHE_ADDR
  /\ AfterFlush(call)
  /\ UNCHANGED <<mem, locked, wiped, lastWrite, call, step, answer, history, calls, faults>>

-----------------------------------------------------------------------------
(* The end of a call.                                                      *)

Range == PagesOf(call.addr, call.len)
Window == AlignDown(call.addr, CacheSize)
Data(p) == call.data[p - (call.addr \div PageSize)]
LastPage == ((call.addr + call.len) \div PageSize) - 1

\* The callers' view after a write or an erase that succeeded.
Written ==
  /\ view' = [p \in Page |-> IF p \in Range THEN Data(p) ELSE view[p]]
  /\ known' = known \cup Range
  /\ fresh' = fresh \cup Range
  /\ meta' = IF call.len > 0 THEN LastPage ELSE meta
  /\ UNCHANGED <<spared, cleared>>

Cleared ==
  /\ view' = [p \in Page |-> IF p \in Range THEN Erased ELSE view[p]]
  /\ known' = known \cup Range
  /\ cleared' = cleared \cup Range
  /\ UNCHANGED <<spared, fresh, meta>>

ServeWrite ==
  LET index(p) == p - (Window \div PageSize)
  IN /\ pc = "serve" /\ call.fn = "write"
     /\ win' = Window
     /\ buf' = [i \in 0 .. PageCnt - 1 |->
                  IF i \in {index(p) : p \in Range} THEN Data((Window \div PageSize) + i)
                  ELSE buf[i]]
     /\ dirty' = dirty \cup {index(p) : p \in Range}
     /\ lastWrite' = IF call.len > 0 THEN index(LastPage) ELSE lastWrite
     /\ Written
     /\ Done
     /\ UNCHANGED <<mem, locked, wiped, job, rbuf>>

ServeErase ==
  /\ pc = "serve" /\ call.fn = "erase"
  /\ win' = Window
  /\ wiped' = wiped \cup {b \in 0 .. BlkCnt - 1 :
                           \E p \in Range : AlignDown(p * PageSize, EraseSize) = Window + b * EraseSize}
  /\ Cleared
  /\ Done
  /\ UNCHANGED <<mem, locked, buf, dirty, lastWrite, job, rbuf>>

\* A mutant: marks of blocks to erase hide the pages written after them.
CachedHidden(p) == IF p \in WipedPages THEN Erased
                   ELSE IF p \in DirtyPages THEN buf[p - (win \div PageSize)] ELSE mem[p]

\* A page as the cache has it, else the flash.
Cached(p) == IF p \in DirtyPages THEN buf[p - (win \div PageSize)]
             ELSE IF p \in WipedPages THEN Erased ELSE mem[p]

\* What a read of the pages given delivers.
Got(pages) == [i \in 0 .. (call.len \div PageSize) - 1 |->
                 pages[(call.addr \div PageSize) + i]]

ServeRead ==
  /\ pc = "serve" /\ call.fn = "read"
  /\ rbuf' = Got([p \in Page |-> Cached(p)])
  /\ Done
  /\ UNCHANGED <<mem, locked, cache, job, history>>

ServeSync ==
  /\ pc = "serve" /\ call.fn = "sync"
  /\ fresh' = {} /\ cleared' = {}
  /\ Done
  /\ UNCHANGED <<mem, locked, cache, job, rbuf, view, known, spared, meta>>

\* nor_read; it answers -EBUSY for no bytes.
DirectRead ==
  /\ pc = "direct" /\ call.fn = "read"
  /\ IF call.len = 0
     THEN pc' = "idle" /\ result' = "EBUSY" /\ UNCHANGED <<call, calls, faults, rbuf>>
     ELSE Done /\ rbuf' = Got(mem)
  /\ UNCHANGED <<mem, locked, cache, job, history>>

\* A read of the flash fails; pages that are all in the cache need none.
ReadFails ==
  /\ call.fn = "read" /\ call.len > 0
  /\ \/ pc = "direct"
     \/ pc = "serve" /\ ~(Range \subseteq DirtyPages \cup WipedPages)
  /\ Fails
  /\ UNCHANGED <<mem, locked, cache>>

\* A chip erase leaves alone what a failed flush has left in the cache.
DirectDone ==
  /\ pc = "direct" /\ call.fn # "read" /\ len = 0
  /\ CASE call.fn = "write" -> Written
       [] call.fn = "erase" -> Cleared
       [] call.fn = "erasechip" ->
            /\ view' = [p \in Page |-> Erased]
            /\ known' = Page \ DirtyPages
            /\ fresh' = DirtyPages /\ cleared' = WipedPages
            /\ UNCHANGED <<spared, meta>>
  /\ Done
  /\ UNCHANGED <<mem, locked, cache, job, rbuf>>

-----------------------------------------------------------------------------
(* The system.                                                             *)

NoCall == [fn |-> "none", addr |-> 0, len |-> 0, data |-> <<>>]

\* After nor_init, which unlocks all blocks at its end (core.c:565-573).
Init ==
  /\ mem \in Arrays /\ locked = {}
  /\ win = INVALID_CACHE_ADDR
  /\ buf = [i \in 0 .. PageCnt - 1 |-> Erased]
  /\ dirty = {} /\ wiped = {} /\ lastWrite = 0
  /\ pc = "idle" /\ call = NoCall
  /\ step = 0 /\ addr = 0 /\ len = 0
  /\ result = "none" /\ rbuf = <<>>
  /\ view = mem /\ known = Page /\ spared = {} /\ fresh = {} /\ cleared = {} /\ meta = 0
  /\ calls = 0 /\ faults = 0

Next ==
  \/ \E c \in Calls : Refuse(c) \/ Begin(c)
  \/ Erase \/ EraseIgnored \/ EraseFails \/ Write \/ WriteFails
  \/ PickRun \/ ErasesFlushed \/ WritesFlushed
  \/ ServeWrite \/ ServeErase \/ ServeRead \/ ServeSync
  \/ DirectRead \/ ReadFails \/ DirectDone

Spec == Init /\ [][Next]_vars

-----------------------------------------------------------------------------
(* Properties.                                                             *)

\* Every variable holds a value of its type, and marks exist only with a window inside
\* the flash.
TypeOK ==
  /\ mem \in [Page -> Cell] /\ view \in [Page -> Cell]
  /\ win = INVALID_CACHE_ADDR \/ (win \in 0 .. TotalSize /\ win % CacheSize = 0)
  /\ win \in {INVALID_CACHE_ADDR, TotalSize} => dirty = {} /\ wiped = {}
  /\ buf \in [0 .. PageCnt - 1 -> Cell]
  /\ dirty \subseteq 0 .. PageCnt - 1 /\ wiped \subseteq 0 .. BlkCnt - 1
  /\ lastWrite \in 0 .. PageCnt - 1
  /\ pc \in {"idle", "flusherase", "flushwrite", "direct", "serve"}
  /\ call \in Calls \cup {NoCall}
  /\ step \in 0 .. PageCnt /\ addr \in 0 .. TotalSize /\ len \in 0 .. TotalSize
  /\ result \in {"none", "ok", "EINVAL", "EBUSY", "EIO"}
  /\ {locked, known, spared, fresh, cleared} \subseteq SUBSET Page /\ meta \in Page
  /\ calls \in 0 .. MaxCalls /\ faults \in 0 .. MaxFaults

\* The pages the properties speak of. A chip erase whose nor_wr_unlock_all failed is
\* answered 0 and erases nothing (core.c:728): what it should have erased is left out
\* until it is erased again.
Trusted == known \ spared

\* At every moment, also half way through a flush, after one that failed and was or was
\* not tried again, and across windows, flash and cache together hold every page as the
\* callers' successful calls left it (cache.c:210-290), but for a chip erase that met a
\* locked chip.
StoredIsKept == \A p \in Trusted : Cached(p) = view[p]

\* A read that succeeds returns that, whatever part of it came from where
\* (cache.c:373-449), with the same exception.
ReadAnswer ==
  pc = "idle" /\ call.fn = "read" /\ result = "ok" =>
    \A p \in Range \cap Trusted : rbuf[p - (call.addr \div PageSize)] = view[p]

\* What was synced is on the flash whenever the power goes: a page neither written nor
\* erased since the last sync that succeeded never depends on the cache
\* (Kconfig:58, "no loss of data"), with the same exception.
SyncedOnFlash == \A p \in Trusted \ (fresh \cup cleared) : mem[p] = view[p]


\* The steps a call may still take. A run of blocks to erase is at most the window long.
RunSteps(n) == n * (CacheSize + 1)
StepsLeft ==
  CASE pc = "idle"       -> 0
    [] pc = "serve"      -> 1
    [] pc = "direct"     -> 1 + len
    [] pc = "flushwrite" -> 2 + TotalSize + (PageCnt - step)
    [] pc = "flusherase" -> 3 + TotalSize + PageCnt + RunSteps(BlkCnt - step) + len

\* Every step of a call brings it nearer its end: the flush takes no block and no page
\* twice, and a chip erase whose flush fails goes on once (cache.c:210-290,
\* hal_spinor.c:90-98).
CallsWindDown == [][pc # "idle" => StepsLeft' \in 0 .. StepsLeft - 1]_vars

\* "On lfs, the last page before sync always meta data. We must ensure normal data to
\* write to flash before meta data" (cache.c:353-358): when the flash starts to take
\* the page written last, it has every other page written since the last sync, however
\* the writes were spread over windows and whatever flush failed before; pages that a
\* chip erase has not erased are left out.
MetaLast ==
  [][mem'[meta] # mem[meta] /\ Programming =>
       \A p \in (fresh \cap Trusted) \ {meta} : mem[p] = view[p]]_vars
=============================================================================
