----------------------------- MODULE FlashStore -----------------------------
(***************************************************************************)
(* What the SPI NOR driver promises the layers above it, with no SPI bus,  *)
(* no status register and no page or block commands: a flash array that    *)
(* serves one request at a time.                                           *)
(*                                                                         *)
(*   - programming can only clear bits, erasing sets them;                 *)
(*   - while a request is served, only cells of its own range may change,  *)
(*     and each of them only to its final value;                           *)
(*   - "ok" is answered only when the array is exactly what the request    *)
(*     asks for and nothing is still going on inside the chip (a request   *)
(*     for no cells need not wait for that); a read answers "ok" only      *)
(*     with the contents of the array;                                     *)
(*   - after an error part of the request may have been done, and one      *)
(*     operation may still be running in the chip; it lands later.         *)
(***************************************************************************)
EXTENDS Naturals

CONSTANTS
  Bits,        \* the bits of one flash cell
  TotalSize,   \* number of cells of the array
  Requests     \* the requests callers make

Addr == 0 .. TotalSize - 1
Cell == SUBSET Bits      \* the bits of the cell that read as 1
Erased == Bits

VARIABLES
  mem,      \* the array
  after,    \* the array once the operation running in the chip has ended
  req,      \* the request being served, or None
  goal,     \* history: the array the current request asks for
  result,   \* "ok" or an error: the answer to the last request
  rbuf      \* the cells the last read returned, by offset

svars == <<mem, after, req, goal, result, rbuf>>

None == [fn |-> "none", addr |-> 0, len |-> 0, data |-> <<>>]

InRange(a, addr, len) == addr <= a /\ a < addr + len

\* The array m with len cells programmed from addr on with data[off], data[off+1], ...
Programmed(m, addr, data, off, len) ==
  [a \in Addr |-> IF InRange(a, addr, len)
                  THEN m[a] \cap data[off + (a - addr)] ELSE m[a]]

\* The array m with len cells erased from addr on.
Wiped(m, addr, len) ==
  [a \in Addr |-> IF InRange(a, addr, len) THEN Erased ELSE m[a]]

\* What a completed request makes of the array m.
Effect(c, m) ==
  IF c.fn = "program" THEN Programmed(m, c.addr, c.data, 0, c.len)
  ELSE IF c.fn = "erase" THEN Wiped(m, c.addr, c.len)
  ELSE m

\* What the cells in the range of a read hold, by offset.
Contents(m, c) == [i \in 0 .. c.len - 1 |-> m[c.addr + i]]

Init ==
  /\ mem \in [Addr -> Cell]
  /\ after = mem
  /\ req = None
  /\ goal = mem
  /\ result = "none"
  /\ rbuf = <<>>

Call(c) ==
  /\ req = None
  /\ req' = c
  /\ goal' = Effect(c, after)
  /\ UNCHANGED <<mem, after>>

\* The request goes on, or is answered with an error.
GoOnOrFail ==
  \/ UNCHANGED <<req, result>>
  \/ req' = None /\ result' # "ok"

\* An operation begins in the chip: some cells of the request head for their
\* final values, no other cell does. The caller may be told it failed.
Begin ==
  /\ req.fn \in {"program", "erase"}
  /\ after = mem
  /\ after' \in [Addr -> Cell]
  /\ \A a \in Addr : after'[a] \in {mem[a], Effect(req, mem)[a]}
  /\ GoOnOrFail
  /\ UNCHANGED <<mem, goal, rbuf>>

\* Initialising again cuts short an operation an earlier request left running.
Abort ==
  /\ req.fn = "init"
  /\ mem' \in [Addr -> Cell]
  /\ \A a \in Addr : mem'[a] \in {mem[a], after[a]}
  /\ after' = mem'
  /\ GoOnOrFail
  /\ UNCHANGED <<goal, rbuf>>

\* The operation running in the chip ends, at any time, even between requests.
Land ==
  /\ mem' = after
  /\ UNCHANGED <<after, req, goal, result, rbuf>>

\* Work on the request that the caller cannot see.
Work ==
  /\ req # None
  /\ UNCHANGED <<mem, after, req, goal>>

Succeed ==
  /\ req # None
  /\ req.fn \in {"read", "program", "erase"} =>
        /\ after = goal
        /\ req.len > 0 => mem = after
  /\ req.fn = "read" => rbuf' = Contents(mem, req)
  /\ result' = "ok"
  /\ req' = None
  /\ UNCHANGED <<mem, after, goal>>

Fail ==
  /\ req # None
  /\ result' # "ok"
  /\ req' = None
  /\ UNCHANGED <<mem, after, goal>>

Next ==
  \/ \E c \in Requests : Call(c)
  \/ Begin
  \/ Abort
  \/ Land
  \/ Work
  \/ Succeed
  \/ Fail

Spec == Init /\ [][Next]_svars
=============================================================================
