--------------------------- MODULE FlashAppProofs ---------------------------
(***************************************************************************)
(* The flash application is one of the callers of the driver that SpiNor   *)
(* allows (DriverUnderApp), so what is proved of the driver holds under    *)
(* it.  Its type invariant and RefusedWithoutChip hold for every value of  *)
(* the constants; ZeroMeansDone and ChecksumTrue hold if the commands keep *)
(* to the chip (CallsInRange).                                             *)
(*                                                                         *)
(* The inductive invariant has two layers.  AppFlow, Present and Unheard   *)
(* say which driver call the application has made, what it holds meanwhile *)
(* and what it was answered.                                               *)
(* DriverInv is the invariant of the refinement of FlashStore, Wanted      *)
(* relates the command to the array, Told the answer to what the driver    *)
(* did, Summed the sum so far to the array.                                *)
(***************************************************************************)
EXTENDS FlashApp, SpiNorRefinement, NatFacts

-----------------------------------------------------------------------------
(* The invariant: which driver call is being made, and why.                *)

\* Where flash_handle is, which driver call it has made, and what it holds until the
\* call returns.
AppFlow ==
  /\ at = "start" => ~info /\ ~initOk
  /\ at = "init" /\ pc = "init" => ~info
  /\ at = "init" /\ pc # "idle" => call = InitCall
  /\ at \in {"switch", "wait", "ckloop", "ckwait"} => dbg \in Commands
  /\ at = "wait" => dbg.func \in 1 .. 5
  /\ at = "wait" /\ pc # "idle" => call = Request
  /\ at \in {"ckloop", "ckwait"} =>
        dbg.func = 6 /\ dbg.dst <= from /\ from + rest = dbg.dst + dbg.length
  /\ at = "ckwait" => rest > 0
  /\ at = "ckwait" /\ pc # "idle" => call = ReadCall(from, Turn)
  /\ at \in {"switch", "wait"} /\ dbg.func = 1 =>
        \A i \in 0 .. dbg.length - 1 : rw[i] = dbg.data[i]
  /\ (at = "wait" /\ dbg.func = 2) \/ at = "ckwait" => DOMAIN rbuf = 0 .. buf - 1

\* The driver answers "ok" only with a chip, deinit apart.
Present ==
  at \in {"wait", "ckwait"} /\ pc = "idle" /\ result = "ok" /\ dbg.func # 5 => info

\* A checksum that has begun to sum without a chip has had a read refused.
Unheard == at \in {"ckloop", "ckwait"} /\ ~info /\ rest < dbg.length => ~heard

AppControl == Inv /\ AppTypeOK /\ AppFlow /\ Present /\ Unheard

-----------------------------------------------------------------------------
(* Sums.                                                                   *)

\* s adds up the first n bytes of b one by one.
IsSum(s, b, n) ==
  /\ s \in [0 .. n -> Nat] /\ s[0] = 0
  /\ \A k \in 0 .. n - 1 : s[k + 1] = s[k] + ByteValue[b[k]]

IsBytes(b, n) == \A k \in 0 .. n - 1 : b[k] \in Cell

LEMMA SumExists ==
  ASSUME NEW b, NEW n \in Nat, IsBytes(b, n)
  PROVE  \E s : IsSum(s, b, n)
<1> DEFINE S == {m \in Nat : m <= n => \E s : IsSum(s, b, m)}
<1>1. ASSUME NEW m \in Nat, \A k \in 0 .. m - 1 : k \in S PROVE m \in S
  <2> SUFFICES ASSUME m <= n PROVE \E s : IsSum(s, b, m)
    OBVIOUS
  <2>1. CASE m = 0
    <3>1. IsSum([k \in 0 .. m |-> 0], b, m)
      BY <2>1 DEF IsSum
    <3> QED BY <3>1
  <2>2. CASE m > 0
    <3>1. m - 1 \in Nat /\ m - 1 <= n /\ m - 1 \in S
      BY <1>1, <2>2
    <3>2. PICK s : IsSum(s, b, m - 1)
      BY <3>1
    <3> DEFINE v == ByteValue[b[m - 1]]
               t == [k \in 0 .. m |-> IF k < m THEN s[k] ELSE s[m - 1] + v]
    <3>3. v \in Nat
      BY <2>2, CommandsAssumption DEF IsBytes
    <3>4. s \in [0 .. m - 1 -> Nat] /\ s[0] = 0
          /\ \A k \in 0 .. (m - 1) - 1 : s[k + 1] = s[k] + ByteValue[b[k]]
      BY <3>2 DEF IsSum
    <3>5. t \in [0 .. m -> Nat] /\ t[0] = 0
      BY <2>2, <3>3, <3>4
    <3>6. \A k \in 0 .. m - 1 : t[k + 1] = t[k] + ByteValue[b[k]]
      <4> SUFFICES ASSUME NEW k \in 0 .. m - 1 PROVE t[k + 1] = t[k] + ByteValue[b[k]]
        OBVIOUS
      <4>1. t[k] = s[k]
        OBVIOUS
      <4>2. CASE k = m - 1
        <5>1. t[k + 1] = s[m - 1] + v
          BY <4>2
        <5> QED BY <4>1, <4>2, <5>1
      <4>3. CASE k # m - 1
        <5>1. t[k + 1] = s[k + 1] /\ k \in 0 .. (m - 1) - 1
          BY <4>3
        <5> QED BY <3>4, <4>1, <5>1
      <4> QED BY <4>2, <4>3
    <3> HIDE DEF t
    <3>7. IsSum(t, b, m)
      BY <3>5, <3>6 DEF IsSum
    <3> QED BY <3>7
  <2> QED BY <2>1, <2>2
<1>2. n \in S
  <2> HIDE DEF S
  <2> QED BY <1>1, Induct
<1> QED BY <1>2

\* What the loop over a buffer computes.
LEMMA SumIs ==
  ASSUME NEW b, NEW n \in Nat, IsBytes(b, n)
  PROVE  \E s : IsSum(s, b, n) /\ SumOf(b, n) = s[n]
<1> DEFINE F(s) == [k \in 0 .. n |-> IF k = 0 THEN 0 ELSE s[k - 1] + ByteValue[b[k - 1]]]
           t == CHOOSE s : s = F(s)
<1>1. PICK s : IsSum(s, b, n)
  BY SumExists
<1>2. s = F(s)
  <2>1. \A k \in 0 .. n : s[k] = IF k = 0 THEN 0 ELSE s[k - 1] + ByteValue[b[k - 1]]
    BY <1>1 DEF IsSum
  <2> QED BY <1>1, <2>1 DEF IsSum
<1>3. t = F(t)
  BY <1>2
<1>4. SumOf(b, n) = t[n]
  BY DEF SumOf
<1> HIDE DEF t
<1>5. t[0] = 0 /\ \A k \in 0 .. n - 1 : t[k + 1] = t[k] + ByteValue[b[k]]
  <2>1. \A k \in 0 .. n : t[k] = IF k = 0 THEN 0 ELSE t[k - 1] + ByteValue[b[k - 1]]
    BY <1>3
  <2> QED BY <2>1
<1>6. \A k \in 0 .. n : t[k] \in Nat
  <2> DEFINE S == {k \in Nat : k <= n => t[k] \in Nat}
  <2>1. ASSUME NEW k \in Nat, \A j \in 0 .. k - 1 : j \in S PROVE k \in S
    <3> SUFFICES ASSUME k <= n, k > 0 PROVE t[k] \in Nat
      BY <1>5
    <3>1. k - 1 \in 0 .. n - 1 /\ t[k - 1] \in Nat
      BY <2>1
    <3>2. t[k] = t[k - 1] + ByteValue[b[k - 1]]
      BY <1>5, <3>1
    <3> QED BY <3>1, <3>2, CommandsAssumption DEF IsBytes
  <2>2. Nat \subseteq S
    <3> HIDE DEF S
    <3> QED BY <2>1, Induct
  <2> QED BY <2>2
<1>7. IsSum(t, b, n)
  <2>1. t \in [0 .. n -> Nat]
    BY <1>3, <1>6
  <2> QED BY <1>5, <2>1 DEF IsSum
<1> QED BY <1>4, <1>7

\* The sum of a range is the sum of its first part and the sum of its rest.
LEMMA SumSplit ==
  ASSUME NEW a, NEW b, NEW c, NEW n \in Nat, NEW m \in Nat,
         IsBytes(a, n), IsBytes(b, m),
         \A k \in 0 .. n - 1 : c[k] = a[k],
         \A k \in 0 .. m - 1 : c[n + k] = b[k]
  PROVE  SumOf(c, n + m) = SumOf(a, n) + SumOf(b, m)
<1>1. IsBytes(c, n + m)
  <2> SUFFICES ASSUME NEW k \in 0 .. (n + m) - 1 PROVE c[k] \in Cell
    BY DEF IsBytes
  <2>1. CASE k < n
    BY <2>1 DEF IsBytes
  <2>2. CASE k >= n
    <3>1. k - n \in 0 .. m - 1 /\ n + (k - n) = k
      BY <2>2
    <3>2. c[n + (k - n)] = b[k - n]
      BY <3>1
    <3> QED BY <3>1, <3>2 DEF IsBytes
  <2> QED BY <2>1, <2>2
<1>2. PICK r : IsSum(r, a, n) /\ SumOf(a, n) = r[n]
  BY SumIs
<1>3. PICK s : IsSum(s, b, m) /\ SumOf(b, m) = s[m]
  BY SumIs
<1>4. PICK t : IsSum(t, c, n + m) /\ SumOf(c, n + m) = t[n + m]
  BY <1>1, SumIs
<1>5. \A k \in 0 .. n : t[k] = r[k]
  <2> DEFINE S == {k \in Nat : k <= n => t[k] = r[k]}
  <2>1. ASSUME NEW k \in Nat, \A j \in 0 .. k - 1 : j \in S PROVE k \in S
    <3> SUFFICES ASSUME k <= n, k > 0 PROVE t[k] = r[k]
      BY <1>2, <1>4 DEF IsSum
    <3>1. k - 1 \in 0 .. n - 1 /\ k - 1 \in 0 .. (n + m) - 1 /\ t[k - 1] = r[k - 1]
          /\ (k - 1) + 1 = k
      BY <2>1
    <3>2. t[k] = t[k - 1] + ByteValue[c[k - 1]] /\ r[k] = r[k - 1] + ByteValue[a[k - 1]]
      BY <1>2, <1>4, <3>1 DEF IsSum
    <3> QED BY <3>1, <3>2
  <2>2. Nat \subseteq S
    <3> HIDE DEF S
    <3> QED BY <2>1, Induct
  <2> QED BY <2>2
<1>6. \A k \in 0 .. m : t[n + k] = r[n] + s[k]
  <2> DEFINE S == {k \in Nat : k <= m => t[n + k] = r[n] + s[k]}
  <2>1. ASSUME NEW k \in Nat, \A j \in 0 .. k - 1 : j \in S PROVE k \in S
    <3>0. r[n] \in Nat /\ s[0] = 0 /\ t[n] = r[n]
      BY <1>2, <1>3, <1>5 DEF IsSum
    <3> SUFFICES ASSUME k <= m, k > 0 PROVE t[n + k] = r[n] + s[k]
      BY <3>0
    <3>1. k - 1 \in 0 .. m - 1 /\ n + (k - 1) \in 0 .. (n + m) - 1
          /\ (n + (k - 1)) + 1 = n + k /\ (k - 1) + 1 = k
      OBVIOUS
    <3>2. t[n + (k - 1)] = r[n] + s[k - 1]
      BY <2>1, <3>1
    <3>3. t[n + k] = t[n + (k - 1)] + ByteValue[c[n + (k - 1)]]
          /\ s[k] = s[k - 1] + ByteValue[b[k - 1]]
      BY <1>3, <1>4, <3>1 DEF IsSum
    <3>4. c[n + (k - 1)] = b[k - 1] /\ s[k - 1] \in Nat /\ ByteValue[b[k - 1]] \in Nat
      BY <1>3, <3>1, CommandsAssumption DEF IsSum, IsBytes
    <3> QED BY <3>0, <3>2, <3>3, <3>4
  <2>2. Nat \subseteq S
    <3> HIDE DEF S
    <3> QED BY <2>1, Induct
  <2> QED BY <2>2
<1> QED BY <1>2, <1>3, <1>4, <1>6

\* A sum is a number; of no bytes it is 0; and it depends on the bytes summed only.
LEMMA SumFacts ==
  ASSUME NEW b, NEW n \in Nat, IsBytes(b, n)
  PROVE  /\ SumOf(b, n) \in Nat /\ (n = 0 => SumOf(b, n) = 0)
         /\ \A c : (\A k \in 0 .. n - 1 : c[k] = b[k]) => SumOf(c, n) = SumOf(b, n)
<1>1. SumOf(b, n) \in Nat /\ (n = 0 => SumOf(b, n) = 0)
  BY SumIs DEF IsSum
<1>2. ASSUME NEW c, \A k \in 0 .. n - 1 : c[k] = b[k] PROVE SumOf(c, n) = SumOf(b, n)
  <2>1. IsBytes(b, 0) /\ SumOf(b, 0) = 0
    BY SumIs DEF IsSum, IsBytes
  <2>2. SumOf(c, n + 0) = SumOf(b, n) + SumOf(b, 0)
    BY <1>2, <2>1, SumSplit
  <2> QED BY <1>1, <2>1, <2>2
<1> QED BY <1>1, <1>2
-----------------------------------------------------------------------------
(* A step of the driver, as the application sees it.                       *)

\* The call goes on, or returns with its loop variables and the buffer as they are; the
\* call itself and its goal do not change, nor does a call for the array change what
\* init found and did, and it is answered "ok" only with a chip.
DriverStep ==
  /\ pc # "idle" /\ pc' # "init"
  /\ UNCHANGED <<goal, calls>>
  /\ \/ pc' # "idle" /\ call' = call
     \/ pc' = "idle" /\ call' = NoCall /\ UNCHANGED <<addr, buf, len, rbuf>>
  /\ call.fn \in ArrayCalls =>
        /\ UNCHANGED <<info, initOk>>
        /\ pc' = "idle" /\ result' = "ok" => info

LEMMA DriverSteps ==
  ASSUME Inv, Driver
  PROVE  DriverStep
<1> USE DEF DriverStep, Goto, Return, Abandon, Modify, AfterWide
<1>b. call.fn \in ArrayCalls => pc \notin ScanPcs \cup WidePcs \cup {"deinit"}
                            /\ call.fn # "init" /\ call.fn # "deinit"
  BY DEF Inv, Flow, ArrayCalls, ScanPcs, WidePcs
<1>c. ASSUME NEW r, Abandon(r), r # "ok"
      PROVE  /\ pc' = "idle" /\ call' = NoCall /\ result' # "ok"
             /\ call.fn \in ArrayCalls => UNCHANGED <<info, initOk>>
  <2>1. info \in BOOLEAN /\ initOk \in BOOLEAN
    BY DEF Inv, TypeOK
  <2>2. call.fn # "init" => initOk' = initOk
    BY <1>c, <2>1
  <2>3. call.fn \in ArrayCalls => ~InScan
    BY <1>b DEF InScan, Inv, Flow, ScanPcs, ArrayCalls, NoCall
  <2>4. call.fn \in ArrayCalls => info' = info
    BY <1>c, <2>1, <2>3
  <2> QED BY <1>b, <1>c, <2>2, <2>4
<1>1. CASE NotReady
  BY <1>1, <1>b DEF NotReady, Inv, Flow, Setup, ArrayCalls, ScanPcs, WidePcs, ModifyPcs, StatusKinds
<1>2. CASE InitAgain
  BY <1>2, <1>b DEF InitAgain, Inv, Flow, Setup, ArrayCalls, ScanPcs, WidePcs, ModifyPcs, StatusKinds
<1>3. CASE InitSpi
  BY <1>3, <1>b, <1>c DEF InitSpi, Inv, Flow, Setup, ArrayCalls, ScanPcs, WidePcs, ModifyPcs, StatusKinds
<1>4. CASE WaitId
  BY <1>4, <1>b, <1>c DEF WaitId, Inv, Flow, Setup, ArrayCalls, ScanPcs, WidePcs, ModifyPcs, StatusKinds
<1>5. CASE Wait4Byte
  BY <1>5, <1>b DEF Wait4Byte, Inv, Flow, Setup, ArrayCalls, ScanPcs, WidePcs, ModifyPcs, StatusKinds
<1>6. CASE Scanned4Byte
  BY <1>6, <1>b DEF Scanned4Byte, Inv, Flow, Setup, ArrayCalls, ScanPcs, WidePcs, ModifyPcs, StatusKinds
<1>7. CASE NoFactoryInit
  BY <1>7, <1>b DEF NoFactoryInit, Inv, Flow, Setup, ArrayCalls, ScanPcs, WidePcs, ModifyPcs, StatusKinds
<1>8. CASE Deinit
  BY <1>8, <1>b DEF Deinit, Inv, Flow, Setup, ArrayCalls, ScanPcs, WidePcs, ModifyPcs, StatusKinds
<1>9. CASE DeinitDone
  BY <1>9, <1>b DEF DeinitDone, Inv, Flow, Setup, ArrayCalls, ScanPcs, WidePcs, ModifyPcs, StatusKinds
<1>10. CASE WaitWren
  BY <1>10, <1>b, <1>c DEF WaitWren, Inv, Flow, Setup, ArrayCalls, ScanPcs, WidePcs, ModifyPcs, StatusKinds
<1>11. CASE SettleTimedOut
  <2>1. Abandon("EBUSY") /\ pc # "idle" /\ UNCHANGED <<goal, calls, addr, buf, len, rbuf>>
    BY <1>11 DEF SettleTimedOut
  <2> HIDE DEF Abandon
  <2>2. /\ pc' = "idle" /\ call' = NoCall /\ result' # "ok"
        /\ call.fn \in ArrayCalls => UNCHANGED <<info, initOk>>
    BY <1>c, <2>1
  <2> QED BY <2>1, <2>2
<1>12. CASE InitSettled
  BY <1>12, <1>b DEF InitSettled, Inv, Flow, Setup, ArrayCalls, ScanPcs, WidePcs, ModifyPcs, StatusKinds
<1>13. CASE WaitFirst
  BY <1>13, <1>b, <1>c DEF WaitFirst, Inv, Flow, Setup, ArrayCalls, ScanPcs, WidePcs, ModifyPcs, StatusKinds
<1>14. CASE LoopDone
  BY <1>14, <1>b DEF LoopDone, Inv, Flow, Setup, ArrayCalls, ScanPcs, WidePcs, ModifyPcs, StatusKinds
<1>15. CASE ProgramPage
  BY <1>15, <1>b DEF ProgramPage, Inv, Flow, Setup, ArrayCalls, ScanPcs, WidePcs, ModifyPcs, StatusKinds
<1>16. CASE PageSettled
  BY <1>16, <1>b DEF PageSettled, Inv, Flow, Setup, ArrayCalls, ScanPcs, WidePcs, ModifyPcs, StatusKinds
<1>17. CASE EraseRefused
  BY <1>17, <1>b DEF EraseRefused, Inv, Flow, Setup, ArrayCalls, ScanPcs, WidePcs, ModifyPcs, StatusKinds
<1>18. CASE EraseChip
  BY <1>18, <1>b DEF EraseChip, Inv, Flow, Setup, ArrayCalls, ScanPcs, WidePcs, ModifyPcs, StatusKinds
<1>19. CASE EraseBegin
  BY <1>19, <1>b DEF EraseBegin, Inv, Flow, Setup, ArrayCalls, ScanPcs, WidePcs, ModifyPcs, StatusKinds
<1>20. CASE EraseUnit
  BY <1>20, <1>b DEF EraseUnit, Inv, Flow, Setup, ArrayCalls, ScanPcs, WidePcs, ModifyPcs, StatusKinds
<1>21. CASE UnitSettled
  BY <1>21, <1>b DEF UnitSettled, Inv, Flow, Setup, ArrayCalls, ScanPcs, WidePcs, ModifyPcs, StatusKinds
<1>22. CASE ChipSettled
  BY <1>22, <1>b DEF ChipSettled, Inv, Flow, Setup, ArrayCalls, ScanPcs, WidePcs, ModifyPcs, StatusKinds
<1>23. CASE EraseDone
  BY <1>23, <1>b DEF EraseDone, Inv, Flow, Setup, ArrayCalls, ScanPcs, WidePcs, ModifyPcs, StatusKinds
<1>24. ASSUME NEW x \in XferEnds, SendReset(x) PROVE DriverStep
  BY <1>24, <1>b DEF SendReset, Inv, Flow, Setup, ArrayCalls, ScanPcs, WidePcs, ModifyPcs, StatusKinds
<1>25. ASSUME NEW x \in XferEnds, ReadId(x) PROVE DriverStep
  BY <1>25, <1>b DEF ReadId, Inv, Flow, Setup, ArrayCalls, ScanPcs, WidePcs, ModifyPcs, StatusKinds
<1>26. ASSUME NEW x \in XferEnds, Send4Byte(x) PROVE DriverStep
  BY <1>26, <1>b DEF Send4Byte, Inv, Flow, Setup, ArrayCalls, ScanPcs, WidePcs, ModifyPcs, StatusKinds
<1>27. ASSUME NEW x \in XferEnds, ReadQuad(x) PROVE DriverStep
  BY <1>27, <1>b DEF ReadQuad, Inv, Flow, Setup, ArrayCalls, ScanPcs, WidePcs, ModifyPcs, StatusKinds
<1>28. ASSUME NEW x \in XferEnds, VerifyQuad(x) PROVE DriverStep
  BY <1>28, <1>b DEF VerifyQuad, Inv, Flow, Setup, ArrayCalls, ScanPcs, WidePcs, ModifyPcs, StatusKinds
<1>29. ASSUME NEW x \in XferEnds, FactoryInit(x) PROVE DriverStep
  BY <1>29, <1>b DEF FactoryInit, Inv, Flow, Setup, ArrayCalls, ScanPcs, WidePcs, ModifyPcs, StatusKinds
<1>30. ASSUME NEW x \in XferEnds, SendWren(x) PROVE DriverStep
  BY <1>30, <1>b, <1>c DEF SendWren, Inv, Flow, Setup, ArrayCalls, ScanPcs, WidePcs, ModifyPcs, StatusKinds
<1>31. ASSUME NEW x \in XferEnds, CheckWel(x) PROVE DriverStep
  BY <1>31, <1>b, <1>c DEF CheckWel, Inv, Flow, Setup, ArrayCalls, ScanPcs, WidePcs, ModifyPcs, StatusKinds
<1>32. ASSUME NEW x \in XferEnds, Issue(x) PROVE DriverStep
  BY <1>32, <1>b, <1>c DEF Issue, Inv, Flow, Setup, ArrayCalls, ScanPcs, WidePcs, ModifyPcs, StatusKinds
<1>33. ASSUME NEW x \in XferEnds, ReadPage(x) PROVE DriverStep
  BY <1>33, <1>b, <1>c DEF ReadPage, Inv, Flow, Setup, ArrayCalls, ScanPcs, WidePcs, ModifyPcs, StatusKinds
<1> QED BY <1>1, <1>2, <1>3, <1>4, <1>5, <1>6, <1>7, <1>8, <1>9, <1>10, <1>11, <1>12, <1>13, <1>14, <1>15, <1>16, <1>17, <1>18, <1>19, <1>20, <1>21, <1>22, <1>23, <1>24, <1>25, <1>26, <1>27, <1>28, <1>29, <1>30, <1>31, <1>32, <1>33 DEF Driver
-----------------------------------------------------------------------------
(* What the application adds to the driver.                                *)

\* The fields of a command.
LEMMA CommandIs ==
  ASSUME NEW d \in Commands
  PROVE  /\ d.func \in 0 .. 7 /\ d.dst \in Nat /\ d.length \in Nat /\ d.checksum \in Nat
         /\ d.func \in {1, 2} => d.length <= RwLen
         /\ d.func = 1 => d.data \in [0 .. d.length - 1 -> Cell]
BY CommandsAssumption

\* The call of a command is a call the driver's callers make, and asks for what the
\* command asks for.
LEMMA RequestIs ==
  ASSUME AppFlow, at = "switch", dbg.func \in 1 .. 5
  PROVE  /\ Request \in Calls
         /\ dbg.func = 1 => Request = ProgramCall(dbg.dst, dbg.data, dbg.length)
         /\ dbg.func = 2 => Request = ReadCall(dbg.dst, dbg.length)
         /\ dbg.func = 3 => Request = EraseCall(dbg.dst, dbg.length)
         /\ dbg.func = 4 => Request = EraseChipCall
         /\ dbg.func = 5 => Request = DeinitCall
<1>1. dbg \in Commands
  BY DEF AppFlow
<1>2. dbg.func = 1 => [i \in 0 .. dbg.length - 1 |-> rw[i]] = dbg.data
  BY <1>1, CommandIs DEF AppFlow
<1> QED BY <1>1, <1>2, AppCallsAssumption DEF Request

\* So is the read of the next turn of a checksum.
LEMMA TurnIs ==
  ASSUME AppTypeOK, AppFlow, at \in {"ckloop", "ckwait"}, rest > 0
  PROVE  /\ Turn \in 1 .. CkLen /\ Turn <= rest
         /\ ReadCall(from, Turn) \in Calls
<1>1. Turn \in 1 .. CkLen /\ Turn <= rest
  BY CommandsAssumption DEF AppTypeOK, Turn
<1>2. dbg \in Commands /\ dbg.func = 6 /\ dbg.dst <= from /\ from + rest = dbg.dst + dbg.length
  BY DEF AppFlow
<1>3. dbg.dst \in Nat /\ dbg.length \in Nat /\ from \in Nat /\ rest \in Nat
  BY <1>2, CommandIs DEF AppTypeOK
<1> DEFINE k == from - dbg.dst
<1>4. k \in 0 .. dbg.length /\ k + Turn <= dbg.length /\ dbg.dst + k = from
  BY <1>1, <1>2, <1>3
<1>5. ReadCall(dbg.dst + k, Turn) \in Calls
  <2> HIDE DEF k
  <2> QED BY <1>1, <1>2, <1>4, AppCallsAssumption
<1> QED BY <1>1, <1>4, <1>5

\* Every step of the application with the driver is one the driver's module allows, with
\* the application as its caller.
LEMMA StepIsNext ==
  ASSUME AppTypeOK, AppFlow, [AppNext]_appvars
  PROVE  [Next]_vars
<1>1. CASE Boot
  BY <1>1, AppCallsAssumption DEF Boot, Next
<1>2. CASE Forward
  BY <1>2, RequestIs DEF Forward, Next
<1>3. CASE CkRead
  BY <1>3, TurnIs DEF CkRead, Next
<1>4. CASE Driver \/ ChipFinish
  BY <1>4 DEF Next
<1>5. CASE UNCHANGED vars
  BY <1>5
<1> QED BY <1>1, <1>2, <1>3, <1>4, <1>5 DEF AppNext, AppStep, appvars, Debugger, InitReturned,
     NoWork, SkipBlank, RefuseErase, ForwardReturned, CkBegin, CkAdd, CkEnd

-----------------------------------------------------------------------------
(* Types.                                                                  *)

\* A read leaves cells in the buffer it reads into.
LEMMA ReceivedType ==
  ASSUME Inv, DOMAIN rbuf = 0 .. buf - 1, NEW n \in Partial,
         NEW m \in Nat, NEW b \in [0 .. m - 1 -> Cell]
  PROVE  Overlaid(b, Received(n)) \in [0 .. m - 1 -> Cell]
<1>1. n \in Nat /\ addr \in Nat /\ buf \in Nat /\ len \in Nat
      /\ \A i \in DOMAIN rbuf : rbuf[i] \in Cell
  BY ChunkType DEF Partial, Inv, TypeOK
<1>2. ASSUME NEW i \in 0 .. buf + n - 1 PROVE Received(n)[i] \in Cell
  <2>1. CASE i < buf
    BY <1>1, <2>1 DEF Received
  <2>2. CASE i >= buf
    <3>1. (addr + (i - buf)) % TotalSize \in Addr
      BY <1>1, <2>2, ModRange, SizesAssumption DEF Addr
    <3>2. Sensed((addr + (i - buf)) % TotalSize) \in Cell
      BY <3>1 DEF Sensed, Cell, Inv, TypeOK, ChipType
    <3>3. Received(n)[i] = Sensed((addr + (i - buf)) % TotalSize)
      BY <1>1, <2>2 DEF Received
    <3> QED BY <3>2, <3>3
  <2> QED BY <1>1, <2>1, <2>2
<1>3. DOMAIN Received(n) = 0 .. buf + n - 1
  BY DEF Received
<1> QED BY <1>2, <1>3 DEF Overlaid

\* What a command asks for is an array.
LEMMA AskedType ==
  ASSUME ChipType, NEW d \in Commands
  PROVE  Asked(d, after) \in [Addr -> Cell]
<1>1. \A c \in Calls : Store!Effect(c, after) \in [Addr -> Cell]
  BY CallTypes DEF ChipType
<1> QED BY <1>1, AppCallsAssumption DEF Asked, ChipType

LEMMA AppTypeStep ==
  ASSUME Inv, Inv', AppTypeOK, AppFlow, [AppNext]_appvars
  PROVE  AppTypeOK'
<1> USE DEF AppTypeOK, Answer, AppErrors
<1>a. ChipType' /\ info' \in BOOLEAN /\ initOk' \in BOOLEAN /\ pc' \in Labels
  BY DEF Inv, TypeOK
<1>b. ASSUME UNCHANGED vars PROVE UNCHANGED pc
  BY <1>b DEF vars, driver
<1>0. CASE UNCHANGED appvars
  BY <1>0, <1>a, <1>b DEF appvars, app
<1>1. CASE Boot
  BY <1>1, <1>a DEF Boot
<1>2. CASE InitReturned
  BY <1>2, <1>a, <1>b DEF InitReturned, Returned
<1>3. ASSUME NEW d \in Commands, Debugger(d) PROVE AppTypeOK'
  <2>1. rw' \in [0 .. RwLen - 1 -> Cell]
    <3>1. CASE d.func = 1
      <4>1. d.data \in [0 .. d.length - 1 -> Cell]
        BY <3>1, CommandIs
      <4> HIDE DEF AppTypeOK
      <4>2. rw \in [0 .. RwLen - 1 -> Cell]
        BY DEF AppTypeOK
      <4>3. Overlaid(rw, d.data) \in [0 .. RwLen - 1 -> Cell]
        BY <4>1, <4>2 DEF Overlaid
      <4> QED BY <1>3, <3>1, <4>3 DEF Debugger
    <3>2. CASE d.func # 1
      BY <1>3, <3>2 DEF Debugger
    <3> QED BY <3>1, <3>2
  <2>2. want' \in [Addr -> Cell]
    BY <1>3, AskedType DEF Debugger
  <2>3. commands' \in 0 .. MaxCommands
    BY <1>3, CommandsAssumption DEF Debugger
  <2> QED BY <1>3, <1>a, <1>b, <2>1, <2>2, <2>3 DEF Debugger
<1>4. CASE NoWork
  BY <1>4, <1>a, <1>b DEF NoWork
<1>5. CASE SkipBlank
  BY <1>5, <1>a, <1>b DEF SkipBlank
<1>6. CASE RefuseErase
  <2>1. "ERROR_ERASE" = Errors[3]
    BY DEF Errors
  <2> QED BY <1>6, <1>a, <1>b, <2>1 DEF RefuseErase
<1>7. CASE Forward
  BY <1>7, <1>a DEF Forward
<1>8. CASE ForwardReturned
  <2>1. rw' \in [0 .. RwLen - 1 -> Cell]
    BY <1>8, ReceivedType, CommandsAssumption DEF ForwardReturned, AppFlow
  <2>2. Reply(result) \in AppErrors
    <3>1. dbg.func \in 1 .. 5
      BY <1>8 DEF ForwardReturned, AppFlow
    <3> QED BY <3>1 DEF Reply
  <2> QED BY <1>8, <1>a, <1>b, <2>1, <2>2 DEF ForwardReturned, Returned
<1>9. CASE CkBegin
  <2>1. dbg.length \in Nat /\ dbg.dst \in Nat
    BY <1>9, CommandIs DEF CkBegin, AppFlow
  <2> QED BY <1>9, <1>a, <1>b, <2>1 DEF CkBegin
<1>10. CASE CkRead
  BY <1>10, <1>a DEF CkRead
<1>11. CASE CkAdd
  <2>1. ck' \in [0 .. CkLen - 1 -> Cell]
    <3>1. PICK n \in Partial : ck' = Overlaid(ck, Received(n))
      BY <1>11 DEF CkAdd
    <3>2. DOMAIN rbuf = 0 .. buf - 1 /\ ck \in [0 .. CkLen - 1 -> Cell] /\ CkLen \in Nat
      BY <1>11, CommandsAssumption DEF CkAdd, AppFlow
    <3> QED BY <3>1, <3>2, ReceivedType
  <2>2. Turn \in 1 .. CkLen /\ Turn <= rest
    BY <1>11, TurnIs DEF CkAdd, AppFlow
  <2>3. SumOf(ck', Turn) \in Nat
    <3>1. IsBytes(ck', Turn) /\ Turn \in Nat
      BY <2>1, <2>2, CommandsAssumption DEF IsBytes
    <3> QED BY <3>1, SumFacts
  <2>4. sum' \in Nat /\ rest' \in Nat /\ from' \in Nat /\ heard' \in BOOLEAN
    BY <1>11, <2>2, <2>3, CommandsAssumption DEF CkAdd
  <2> QED BY <1>11, <1>a, <1>b, <2>1, <2>4 DEF CkAdd, Returned
<1>12. CASE CkEnd
  BY <1>12, <1>a, <1>b DEF CkEnd
<1>13. CASE Driver /\ UNCHANGED app
  <2>1. at \notin {"start", "bkpt", "switch", "ckloop"}
    BY <1>13, DriverSteps DEF DriverStep
  <2> QED BY <1>13, <1>a, <2>1 DEF app
<1>14. CASE ChipFinish /\ UNCHANGED app
  BY <1>14, <1>a DEF app, ChipFinish, driver
<1> QED BY <1>0, <1>1, <1>2, <1>3, <1>4, <1>5, <1>6, <1>7, <1>8, <1>9, <1>10, <1>11, <1>12,
          <1>13, <1>14 DEF AppNext, AppStep

-----------------------------------------------------------------------------
(* Which call is being made.                                               *)

LEMMA AppFlowStep ==
  ASSUME Inv, Inv', AppTypeOK, AppFlow, [AppNext]_appvars
  PROVE  AppFlow'
<1> USE DEF AppFlow, Answer
<1>a. ASSUME UNCHANGED vars PROVE UNCHANGED <<pc, call, info, initOk, rbuf, buf>>
  BY <1>a DEF vars, driver
<1>0. CASE UNCHANGED appvars
  BY <1>0, <1>a DEF appvars, app, Request, Turn
<1>1. CASE Boot
  BY <1>1 DEF Boot, Call
<1>2. CASE InitReturned
  BY <1>2, <1>a DEF InitReturned
<1>3. ASSUME NEW d \in Commands, Debugger(d) PROVE AppFlow'
  <2>1. d.func = 1 => \A i \in 0 .. d.length - 1 : rw'[i] = d.data[i]
    <3> SUFFICES ASSUME d.func = 1, NEW i \in 0 .. d.length - 1 PROVE rw'[i] = d.data[i]
      OBVIOUS
    <3>1. DOMAIN d.data = 0 .. d.length - 1 /\ d.length <= RwLen /\ d.length \in Nat
      BY CommandIs
    <3>2. DOMAIN rw = 0 .. RwLen - 1 /\ RwLen \in Nat
      BY CommandsAssumption DEF AppTypeOK
    <3>3. i \in DOMAIN rw /\ i \in DOMAIN d.data
      BY <3>1, <3>2
    <3> QED BY <1>3, <3>3 DEF Debugger, Overlaid
  <2> QED BY <1>3, <1>a, <2>1 DEF Debugger
<1>4. CASE NoWork \/ SkipBlank \/ RefuseErase \/ ForwardReturned \/ CkEnd
  BY <1>4 DEF NoWork, SkipBlank, RefuseErase, ForwardReturned, CkEnd
<1>5. CASE Forward
  <2>1. call' = Request' /\ pc' # "idle" /\ rbuf' = <<>> /\ buf' = 0
    BY <1>5, RequestIs, CallsAssumption DEF Forward, Call, Goto, Request
  <2>2. DOMAIN rbuf' = 0 .. buf' - 1
    BY <2>1
  <2> QED BY <1>5, <2>1, <2>2 DEF Forward
<1>6. CASE CkBegin
  <2>1. dbg.dst \in Nat /\ dbg.length \in Nat
    BY <1>6, CommandIs DEF CkBegin
  <2> QED BY <1>6, <1>a, <2>1 DEF CkBegin
<1>7. CASE CkRead
  <2>1. call' = ReadCall(from, Turn) /\ Turn' = Turn /\ rbuf' = <<>> /\ buf' = 0
    BY <1>7 DEF CkRead, Call, Turn
  <2>2. DOMAIN rbuf' = 0 .. buf' - 1
    BY <2>1
  <2> QED BY <1>7, <2>1, <2>2 DEF CkRead
<1>8. CASE CkAdd
  <2>1. Turn \in 1 .. CkLen /\ Turn <= rest /\ Turn \in Nat
    BY <1>8, TurnIs, CommandsAssumption DEF CkAdd
  <2>2. dbg.dst \in Nat /\ from \in Nat /\ rest \in Nat
    BY <1>8, CommandIs DEF CkAdd, AppTypeOK
  <2> QED BY <1>8, <1>a, <2>1, <2>2 DEF CkAdd
<1>9. CASE Driver /\ UNCHANGED app
  <2>1. DriverStep
    BY <1>9, DriverSteps
  <2>2. UNCHANGED <<at, dbg, rw, from, rest>> /\ at \in {"init", "wait", "ckwait"}
    BY <1>9, <2>1 DEF app, AppTypeOK, DriverStep
  <2>3. (at = "wait" /\ dbg.func = 2) \/ at = "ckwait" => DOMAIN rbuf' = 0 .. buf' - 1
    <3>1. CASE pc' = "idle"
      BY <2>1, <3>1 DEF DriverStep
    <3>2. CASE pc' # "idle"
      <4>1. (at = "wait" /\ dbg.func = 2) \/ at = "ckwait" => call.fn = "read"
        BY <2>1 DEF DriverStep, Request, ReadCall, DriverCall
      <4>2. call' = call
        BY <2>1, <3>2 DEF DriverStep
      <4> QED BY <4>1, <4>2 DEF Inv, Loop
    <3> QED BY <3>1, <3>2
  <2> QED BY <2>1, <2>2, <2>3 DEF DriverStep, Request, Turn
<1>10. CASE ChipFinish /\ UNCHANGED app
  BY <1>10 DEF app, ChipFinish, driver, Request, Turn
<1> QED BY <1>0, <1>1, <1>2, <1>3, <1>4, <1>5, <1>6, <1>7, <1>8, <1>9, <1>10
        DEF AppNext, AppStep

\* "ok" from the driver means it has a chip.
LEMMA PresentStep ==
  ASSUME Inv, AppTypeOK, AppFlow, Present, [AppNext]_appvars
  PROVE  Present'
<1> USE DEF Present, Answer
<1>0. CASE UNCHANGED appvars
  BY <1>0 DEF appvars, app, vars, driver
<1>1. CASE Boot \/ InitReturned \/ NoWork \/ SkipBlank \/ RefuseErase \/ ForwardReturned \/ CkBegin
           \/ CkAdd \/ CkEnd \/ \E d \in Commands : Debugger(d)
  BY <1>1 DEF Boot, InitReturned, NoWork, SkipBlank, RefuseErase, ForwardReturned, CkBegin,
       CkAdd, CkEnd, Debugger
<1>2. CASE Forward \/ CkRead
  BY <1>2 DEF Forward, CkRead, Call
<1>3. CASE Driver /\ UNCHANGED app
  <2>1. DriverStep /\ UNCHANGED <<at, dbg>>
    BY <1>3, DriverSteps DEF app
  <2>2. at \in {"wait", "ckwait"} /\ dbg.func # 5 => call.fn \in ArrayCalls
    BY <2>1 DEF DriverStep, AppFlow, Request, ArrayCalls, ReadCall, ProgramCall, EraseCall,
       EraseChipCall, DriverCall
  <2> QED BY <2>1, <2>2 DEF DriverStep
<1>4. CASE ChipFinish /\ UNCHANGED app
  BY <1>4 DEF app, ChipFinish, driver
<1> QED BY <1>0, <1>1, <1>2, <1>3, <1>4 DEF AppNext, AppStep

\* What a turn of a checksum adds without a chip comes after a read that failed.
LEMMA UnheardStep ==
  ASSUME Inv, AppTypeOK, AppFlow, Present, Unheard, [AppNext]_appvars
  PROVE  Unheard'
<1> USE DEF Unheard, Answer
<1>0. CASE UNCHANGED appvars
  BY <1>0 DEF appvars, app, vars, driver
<1>1. CASE Boot \/ InitReturned \/ NoWork \/ SkipBlank \/ RefuseErase \/ Forward
           \/ ForwardReturned \/ CkEnd \/ \E d \in Commands : Debugger(d)
  BY <1>1 DEF Boot, InitReturned, NoWork, SkipBlank, RefuseErase, Forward, ForwardReturned,
       CkEnd, Debugger
<1>2. CASE CkBegin
  <2>1. dbg.length \in Nat /\ rest' = dbg.length /\ dbg' = dbg
    BY <1>2, CommandIs DEF CkBegin, AppFlow
  <2> QED BY <2>1
<1>3. CASE CkRead
  BY <1>3 DEF CkRead, Call
<1>4. CASE CkAdd
  <2>1. UNCHANGED <<info, dbg>> /\ heard' = (heard /\ result = "ok")
    BY <1>4 DEF CkAdd, vars, driver
  <2>2. at = "ckwait" /\ pc = "idle" /\ dbg.func # 5
    BY <1>4 DEF CkAdd, Returned, AppFlow
  <2>3. ~info => result # "ok"
    BY <2>2 DEF Present
  <2> QED BY <2>1, <2>3
<1>5. CASE Driver /\ UNCHANGED app
  <2>1. DriverStep /\ UNCHANGED <<at, dbg, rest, heard>>
    BY <1>5, DriverSteps DEF app
  <2>2. at \in {"ckloop", "ckwait"} => call.fn \in ArrayCalls
    BY <2>1 DEF DriverStep, AppFlow, AppTypeOK, ArrayCalls, ReadCall, DriverCall
  <2> QED BY <2>1, <2>2 DEF DriverStep
<1>6. CASE ChipFinish /\ UNCHANGED app
  BY <1>6 DEF app, ChipFinish, driver
<1> QED BY <1>0, <1>1, <1>2, <1>3, <1>4, <1>5, <1>6 DEF AppNext, AppStep

LEMMA ControlInit == AppInit => AppControl
<1> SUFFICES ASSUME AppInit PROVE AppControl
  OBVIOUS
<1>1. Inv
  BY InvInit DEF AppInit
<1>2. AppTypeOK
  <2>1. rw \in [0 .. RwLen - 1 -> Cell] /\ ck \in [0 .. CkLen - 1 -> Cell]
    BY DEF AppInit, Cell
  <2>2. want \in [Addr -> Cell] /\ commands \in 0 .. MaxCommands
    BY <1>1, CommandsAssumption DEF AppInit, Inv, TypeOK, ChipType
  <2> QED BY <1>1, <2>1, <2>2 DEF AppInit, Init, AppTypeOK, AppErrors, Inv, TypeOK
<1>3. AppFlow /\ Present /\ Unheard
  BY DEF AppInit, Init, AppFlow, Present, Unheard
<1> QED BY <1>1, <1>2, <1>3 DEF AppControl

LEMMA ControlStep == AppControl /\ [AppNext]_appvars => AppControl' /\ [Next]_vars
<1>1. AppTypeOK /\ AppFlow /\ [AppNext]_appvars => [Next]_vars
  BY StepIsNext
<1>2. Inv /\ [Next]_vars => Inv'
  BY InvStep
<1> QED BY <1>1, <1>2, AppTypeStep, AppFlowStep, PresentStep, UnheardStep DEF AppControl

\* The invariant of the control flow holds in every reachable state.
THEOREM ControlCorrect == AppSpec => []AppControl
BY ControlInit, ControlStep, PTL DEF AppSpec

\* The driver under the application is the driver of SpiNor with the calls the commands
\* lead to: every theorem about SpiNor holds of it.
THEOREM DriverUnderApp == AppSpec => Spec
<1>1. AppInit => Init
  BY DEF AppInit
<1>2. AppControl /\ [AppNext]_appvars => [Next]_vars
  BY ControlStep
<1> QED BY <1>1, <1>2, ControlCorrect, PTL DEF AppSpec, Spec

\* Every variable of the application and of the driver below it keeps its type: no sum, no
\* address and no rest of a checksum goes below zero, and buffers keep their size.
THEOREM AppTypeCorrect == AppSpec => []AppTypeOK
<1>1. AppControl => AppTypeOK
  BY DEF AppControl
<1> QED BY <1>1, ControlCorrect, PTL

\* Before an initialisation that found a chip and after flashUnInit no command that needs
\* the chip is answered 0, but for a checksum that has had a read refused.
THEOREM RefusedWithoutChipCorrect == AppSpec => RefusedWithoutChip
<1>1. ASSUME AppControl, [AppNext]_appvars, Answers0, ~info
      PROVE  \/ dbg.func \in {0, 5, 7}
             \/ dbg.func = 1 /\ \A i \in 0 .. dbg.length - 1 : rw[i] = Erased
             \/ dbg.func = 6 /\ (dbg.length = 0 \/ ~heard)
  <2>1. at \in {"switch", "wait", "ckloop"} /\ at' = "bkpt" /\ error' = "0"
    BY <1>1 DEF Answers0
  <2>2. CASE UNCHANGED app
    BY <2>1, <2>2 DEF app
  <2>3. CASE NoWork
    BY <2>3 DEF NoWork
  <2>8. CASE CkEnd
    <3>1. at = "ckloop" /\ rest = 0 /\ dbg.func = 6 /\ dbg.length \in Nat
      BY <1>1, <2>8, CommandIs DEF CkEnd, AppControl, AppFlow
    <3>2. rest < dbg.length => ~heard
      BY <1>1, <3>1 DEF AppControl, Unheard
    <3> QED BY <3>1, <3>2
  <2>4. CASE SkipBlank
    BY <2>4 DEF SkipBlank, Blank
  <2>5. CASE RefuseErase
    BY <2>1, <2>5 DEF RefuseErase, Answer
  <2>6. CASE ForwardReturned
    <3>1. at = "wait" /\ pc = "idle" /\ dbg.func \in 1 .. 5 /\ Reply(result) = "0"
      BY <1>1, <2>1, <2>6 DEF ForwardReturned, Returned, Answer, AppControl, AppFlow
    <3>2. dbg.func = 5 \/ result = "ok"
      BY <3>1 DEF Reply, Errors
    <3> QED BY <1>1, <3>1, <3>2 DEF AppControl, Present
  <2>7. CASE Boot \/ InitReturned \/ Forward \/ CkBegin \/ CkRead \/ CkAdd
             \/ \E d \in Commands : Debugger(d)
    BY <2>1, <2>7 DEF Boot, InitReturned, Forward, CkBegin, CkRead, CkAdd, Debugger
  <2> QED BY <1>1, <2>2, <2>3, <2>4, <2>5, <2>6, <2>7, <2>8 DEF AppNext, AppStep, appvars
<1>2. AppControl /\ [AppNext]_appvars =>
        [Answers0 /\ ~info =>
           \/ dbg.func \in {0, 5, 7}
           \/ dbg.func = 1 /\ \A i \in 0 .. dbg.length - 1 : rw[i] = Erased
           \/ dbg.func = 6 /\ (dbg.length = 0 \/ ~heard)]_appvars
  BY <1>1
<1> QED BY <1>2, ControlCorrect, PTL DEF AppSpec, RefusedWithoutChip

-----------------------------------------------------------------------------
(* The array under the application.                                        *)

\* The array is what SpiNorRefinement shows it to be once nor_init has returned 0; before
\* that, and after a nor_init that failed, only its rest state is known.
DriverInv ==
  /\ Place /\ Landed /\ UsableWhenInit
  /\ initOk => ArrayInv

\* Whatever the driver does, a chip that is not busy has its array as it is to be.
LEMMA LandedStep ==
  ASSUME Inv, Landed, [Next]_vars
  PROVE  Landed'
<1>1. CASE UNCHANGED vars \/ \E c \in Calls : Call(c)
  BY <1>1 DEF vars, chip, Call, Landed
<1>2. CASE ChipFinish
  BY <1>2 DEF ChipFinish, Finish, Landed
<1>3. CASE Fails \/ Session \/ Onward
  BY <1>3 DEF Fails, Session, Onward, Landed
<1>4. CASE Between
  BY <1>4 DEF Between, LoopBegins, LoopDone, ProgramPage, PageSettled, EraseChip, EraseBegin,
     EraseUnit, UnitSettled, ChipSettled, AllErased, EraseDone, PageRead, ReadPage,
     ReadTransfer, Ready, chip, Landed
<1>5. ASSUME NEW x \in XferEnds, SendReset(x) PROVE Landed'
  BY <1>5, ResetEffect DEF Landed
<1>6. ASSUME NEW x \in XferEnds, Issue(x) PROVE Landed'
  <2>1. ~wip /\ (UNCHANGED chip \/ Receive(cmd)) /\ cmd.kind \in ArrayKinds \cup StatusKinds
    BY <1>6 DEF Issue, Transfer, Inv, Quiet, Flow, ModifyPcs, ArrayKinds
  <2> QED BY <2>1 DEF Receive, Ignore, Refuse, Start, StartStatus, WriteEnable, Enter4Byte,
          Reset, Abort, ResetUnseen, chip, ArrayKinds, StatusKinds, Landed
<1> QED BY StepKind, <1>1, <1>2, <1>3, <1>4, <1>5, <1>6 DEF Kind

\* flash_handle calls nor_init once, before there is a chip.
LEMMA HostOfApp ==
  ASSUME AppControl
  PROVE  Host
<1>1. pc = "init" => call.fn = "init" /\ at \in {"init", "wait", "ckwait"}
  BY DEF AppControl, Inv, Flow, ScanPcs, AppTypeOK
<1>2. pc = "init" => at = "init"
  BY <1>1 DEF AppControl, AppFlow, Request, ReadCall, ProgramCall, EraseCall, EraseChipCall,
     DeinitCall, DriverCall
<1> QED BY <1>2 DEF AppControl, AppFlow, Host

LEMMA DriverInvStep ==
  ASSUME CallsInRange, AppControl, AppControl', DriverInv, [AppNext]_appvars
  PROVE  DriverInv'
<1>1. [Next]_vars /\ Inv /\ Inv'
  BY ControlStep DEF AppControl
<1>2. Place' /\ Landed' /\ UsableWhenInit'
  BY <1>1, PlaceStep, LandedStep, UsableStep, HostOfApp DEF DriverInv
<1>3. CASE initOk
  <2>1. initOk' => Served'
    BY DEF Served
  <2> QED BY <1>1, <1>2, <1>3, <2>1, ArrayStep DEF DriverInv
<1>4. CASE ~initOk /\ initOk'
  <2>1. call'.fn \notin ArrayCalls
    <3>1. CASE Driver
      <4>1. DriverStep /\ initOk' # initOk
        BY <1>1, <1>4, <3>1, DriverSteps
      <4>2. call.fn \notin ArrayCalls /\ NoCall.fn \notin ArrayCalls
        BY <4>1 DEF DriverStep, NoCall, ArrayCalls
      <4> QED BY <4>1, <4>2 DEF DriverStep
    <3>2. CASE ~Driver
      BY <1>1, <1>4, <3>2 DEF Next, Call, ChipFinish, vars, driver
    <3> QED BY <3>1, <3>2
  <2>2. Served' /\ Towards' /\ UnitsDone' /\ ReadSoFar'
    BY <1>1, <2>1 DEF Served, Towards, UnitsDone, ReadSoFar, ArrayCalls, Inv, Flow
  <2> QED BY <1>2, <2>2 DEF DriverInv, ArrayInv
<1> QED BY <1>2, <1>3, <1>4 DEF DriverInv

\* A step of the driver keeps the promise of FlashStore.
LEMMA DriverKeepsPromise ==
  ASSUME CallsInRange, Inv, Inv', DriverInv, Driver, initOk
  PROVE  [Store!Next]_Store!svars
<1>1. [Next]_vars
  BY DEF Next
<1> QED BY <1>1, Refines DEF DriverInv

\* What "ok" says of the array: it is what the call asks for, and at rest unless the call
\* was for no cells; a read has its cells.
LEMMA OkMeansDone ==
  ASSUME CallsInRange, Inv, Inv', DriverInv, Driver, initOk,
         call.fn \in ArrayCalls, pc' = "idle", result' = "ok"
  PROVE  /\ UNCHANGED <<mem, after, goal>>
         /\ after = goal
         /\ call.len > 0 => mem = after
         /\ call.fn = "read" => rbuf' = Store!Contents(mem, call)
<1>1. call' = NoCall /\ NoCall = Store!None /\ call # Store!None
  BY DriverSteps DEF DriverStep, NoCall, Store!None, ArrayCalls
<1>2. [Store!Next]_Store!svars
  BY DriverKeepsPromise
<1>3. Store!Succeed
  BY <1>1, <1>2 DEF Store!Next, Store!svars, Store!Call, Store!Begin, Store!Abort, Store!GoOnOrFail,
     Store!Land, Store!Work, Store!Fail
<1> QED BY <1>3 DEF Store!Succeed, ArrayCalls

\* A read leaves an array at rest alone.
LEMMA ReadKeeps ==
  ASSUME CallsInRange, Inv, Inv', DriverInv, Driver, initOk, call.fn = "read", mem = after
  PROVE  UNCHANGED <<mem, after>>
<1>1. [Store!Next]_Store!svars /\ call # Store!None
  BY DriverKeepsPromise DEF Store!None
<1> QED BY <1>1 DEF Store!Next, Store!svars, Store!Call, Store!Begin, Store!Abort, Store!GoOnOrFail,
     Store!Land, Store!Work, Store!Succeed, Store!Fail

-----------------------------------------------------------------------------
(* What the answers mean.                                                  *)

\* What the command asks for is what the driver call it makes asks for.
Wanted ==
  /\ at = "switch" => want = Asked(dbg, after)
  /\ at = "wait" /\ pc # "idle" /\ dbg.func \in {1, 3, 4} => goal = want

\* What "ok" from the driver tells flash_handle.
Told ==
  at \in {"wait", "ckwait"} /\ pc = "idle" /\ result = "ok" /\ initOk =>
    /\ dbg.func \in {1, 3, 4} => after = want
    /\ dbg.func = 4 \/ (dbg.func = 3 /\ dbg.length > 0) => mem = after
    /\ dbg.func = 2 => \A i \in 0 .. dbg.length - 1 :
         mem = after /\ i < buf /\ rbuf[i] = mem[dbg.dst + i]
    /\ dbg.func = 6 => \A i \in 0 .. Turn - 1 :
         mem = after /\ i < buf /\ rbuf[i] = mem[from + i]

\* The cells of the array m from address a on.
Cells(m, a, n) == [i \in 0 .. n - 1 |-> m[a + i]]

\* The turns of a checksum so far have summed the array, which is at rest.
Summed ==
  at \in {"ckloop", "ckwait"} /\ heard /\ initOk =>
    /\ from > dbg.dst => mem = after
    /\ sum = SumOf(Cells(mem, dbg.dst, from - dbg.dst), from - dbg.dst)

AppInv == AppControl /\ DriverInv /\ Wanted /\ Told /\ Summed

LEMMA WantedStep ==
  ASSUME AppControl, Wanted, [AppNext]_appvars
  PROVE  Wanted'
<1> USE DEF Wanted, Answer
<1>a. Inv /\ AppTypeOK /\ AppFlow
  BY DEF AppControl
<1>0. CASE UNCHANGED appvars
  BY <1>0 DEF appvars, app, vars, chip, driver, Asked
<1>1. CASE Boot \/ InitReturned \/ NoWork \/ SkipBlank \/ RefuseErase \/ ForwardReturned \/ CkBegin
           \/ CkRead \/ CkAdd \/ CkEnd
  BY <1>1 DEF Boot, InitReturned, NoWork, SkipBlank, RefuseErase, ForwardReturned, CkBegin,
       CkRead, CkAdd, CkEnd
<1>2. ASSUME NEW d \in Commands, Debugger(d) PROVE Wanted'
  <2>1. after' = after
    BY <1>2 DEF Debugger, vars, chip
  <2> QED BY <1>2, <2>1 DEF Debugger, Asked
<1>3. CASE Forward
  <2>1. goal' = Store!Effect(Request, after) /\ UNCHANGED <<dbg, want>> /\ at' = "wait"
        /\ at = "switch" /\ dbg.func \in 1 .. 5
    BY <1>3 DEF Forward, Call
  <2>2. dbg.func \in {1, 3, 4} => Asked(dbg, after) = Store!Effect(Request, after)
    BY <1>a, <2>1, RequestIs DEF Asked
  <2> QED BY <2>1, <2>2
<1>4. CASE Driver /\ UNCHANGED app
  BY <1>4, <1>a, DriverSteps DEF DriverStep, app, AppTypeOK
<1>5. CASE ChipFinish /\ UNCHANGED app
  BY <1>5 DEF app, ChipFinish, Finish, driver, Asked
<1> QED BY <1>0, <1>1, <1>2, <1>3, <1>4, <1>5 DEF AppNext, AppStep

LEMMA ToldStep ==
  ASSUME CallsInRange, AppControl, AppControl', DriverInv, Wanted, Told, [AppNext]_appvars
  PROVE  Told'
<1> USE DEF Told, Answer
<1>a. Inv /\ Inv' /\ AppTypeOK /\ AppFlow /\ AppFlow'
  BY DEF AppControl
<1>0. CASE UNCHANGED appvars
  BY <1>0 DEF appvars, app, vars, chip, driver, Turn
<1>1. CASE Boot \/ InitReturned \/ NoWork \/ SkipBlank \/ RefuseErase \/ ForwardReturned \/ CkBegin
           \/ CkAdd \/ CkEnd \/ \E d \in Commands : Debugger(d)
  BY <1>1 DEF Boot, InitReturned, NoWork, SkipBlank, RefuseErase, ForwardReturned, CkBegin,
       CkAdd, CkEnd, Debugger
<1>2. CASE Forward \/ CkRead
  BY <1>2 DEF Forward, CkRead, Call
<1>3. CASE Driver /\ UNCHANGED app
  <2> SUFFICES ASSUME at \in {"wait", "ckwait"}, pc' = "idle", result' = "ok", initOk' PROVE Told'
    BY <1>3 DEF app
  <2>1. CASE at = "wait" /\ dbg.func = 5
    BY <1>3, <2>1 DEF app
  <2>2. CASE ~(at = "wait" /\ dbg.func = 5)
    <3>1. pc # "idle"
      BY <1>3, <1>a, DriverSteps DEF DriverStep
    <3>2. /\ at = "wait" /\ dbg.func = 1 => call = ProgramCall(dbg.dst, call.data, dbg.length)
          /\ at = "wait" /\ dbg.func = 2 => call = ReadCall(dbg.dst, dbg.length)
          /\ at = "wait" /\ dbg.func = 3 => call = EraseCall(dbg.dst, dbg.length)
          /\ at = "wait" /\ dbg.func = 4 => call = EraseChipCall
          /\ at = "ckwait" => call = ReadCall(from, Turn) /\ dbg.func = 6
          /\ at = "wait" => dbg.func \in 1 .. 5
      BY <1>a, <3>1 DEF AppFlow, Request, ProgramCall, DriverCall
    <3>3. call.fn \in ArrayCalls
      BY <2>2, <3>2 DEF ArrayCalls, ProgramCall, ReadCall, EraseCall, EraseChipCall, DriverCall
    <3>4. UNCHANGED <<at, dbg, want, from, rest, goal, initOk>> /\ Turn' = Turn
      BY <1>3, <1>a, <3>3, DriverSteps DEF app, DriverStep, Turn
    <3>5. /\ UNCHANGED <<mem, after, goal>>
          /\ after = goal
          /\ call.len > 0 => mem = after
          /\ call.fn = "read" => rbuf' = Store!Contents(mem, call)
      BY <1>3, <1>a, <3>3, <3>4, OkMeansDone
    <3>6. dbg.func \in {1, 3, 4} => after' = want'
      BY <3>1, <3>2, <3>4, <3>5 DEF Wanted
    <3>7. dbg.func = 4 \/ (dbg.func = 3 /\ dbg.length > 0) => mem' = after'
      BY <3>2, <3>5, SizesAssumption DEF EraseCall, EraseChipCall, DriverCall
    <3>8. dbg.func = 2 => \A i \in 0 .. dbg.length - 1 :
            mem' = after' /\ i < buf' /\ rbuf'[i] = mem'[dbg.dst + i]
      <4> SUFFICES ASSUME dbg.func = 2, NEW i \in 0 .. dbg.length - 1
                   PROVE  mem' = after' /\ i < buf' /\ rbuf'[i] = mem'[dbg.dst + i]
        OBVIOUS
      <4>1. at = "wait" /\ call.fn = "read" /\ call.len = dbg.length /\ call.addr = dbg.dst
        BY <3>2 DEF ReadCall, DriverCall
      <4>2. rbuf' = [j \in 0 .. dbg.length - 1 |-> mem[dbg.dst + j]] /\ DOMAIN rbuf' = 0 .. buf' - 1
        BY <1>a, <3>4, <3>5, <4>1 DEF Store!Contents, AppFlow
      <4>3. dbg.length > 0 /\ i \in 0 .. buf' - 1 /\ buf' \in Nat
        <5>1. dbg \in Commands
          BY <1>a, <4>1 DEF AppFlow
        <5>2. dbg.length \in Nat /\ buf' \in Nat
          BY <1>a, <5>1, CommandIs DEF Inv, TypeOK
        <5>3. i \in DOMAIN rbuf'
          BY <4>2
        <5> QED BY <4>2, <5>2, <5>3
      <4> QED BY <3>5, <4>1, <4>2, <4>3
    <3>9. dbg.func = 6 => \A i \in 0 .. Turn - 1 :
            mem' = after' /\ i < buf' /\ rbuf'[i] = mem'[from + i]
      <4> SUFFICES ASSUME dbg.func = 6, NEW i \in 0 .. Turn - 1
                   PROVE  mem' = after' /\ i < buf' /\ rbuf'[i] = mem'[from + i]
        OBVIOUS
      <4>1. at = "ckwait" /\ call.fn = "read" /\ call.len = Turn /\ call.addr = from
        BY <3>2 DEF ReadCall, DriverCall
      <4>2. rbuf' = [j \in 0 .. Turn - 1 |-> mem[from + j]] /\ DOMAIN rbuf' = 0 .. buf' - 1
        BY <1>a, <3>4, <3>5, <4>1 DEF Store!Contents, AppFlow
      <4>3. Turn > 0 /\ i \in 0 .. buf' - 1 /\ buf' \in Nat
        <5>1. Turn \in 1 .. CkLen /\ CkLen \in Nat
          BY <1>a, <4>1, TurnIs, CommandsAssumption DEF AppFlow
        <5>2. buf' \in Nat
          BY <1>a DEF Inv, TypeOK
        <5>3. i \in DOMAIN rbuf'
          BY <4>2
        <5> QED BY <4>2, <5>1, <5>2, <5>3
      <4>4. mem' = after' /\ mem' = mem
        BY <3>5, <4>1, <4>3
      <4> QED BY <4>2, <4>3, <4>4
    <3> QED BY <3>4, <3>6, <3>7, <3>8, <3>9
  <2> QED BY <2>1, <2>2
<1>4. CASE ChipFinish /\ UNCHANGED app
  BY <1>4 DEF app, ChipFinish, Finish, driver, Turn
<1> QED BY <1>0, <1>1, <1>2, <1>3, <1>4 DEF AppNext, AppStep

\* The range of a checksum lies in the chip, so its cells are cells of the array.
LEMMA CellsAre ==
  ASSUME CallsInRange, AppTypeOK, AppFlow, at \in {"ckloop", "ckwait"},
         NEW m \in [Addr -> Cell], NEW n \in Nat, n <= dbg.length
  PROVE  IsBytes(Cells(m, dbg.dst, n), n)
<1>1. dbg \in Commands /\ dbg.func = 6 /\ dbg.dst \in Nat /\ dbg.length \in Nat
  BY CommandIs DEF AppFlow
<1>2. dbg.length > 0 => dbg.dst + dbg.length <= TotalSize
  <2> SUFFICES ASSUME dbg.length > 0 PROVE dbg.dst + dbg.length <= TotalSize
    OBVIOUS
  <2> DEFINE k == dbg.length - 1
             c == ReadCall(dbg.dst + k, 1)
  <2>1. c \in Calls
    <3>1. k \in 0 .. dbg.length /\ 1 \in 1 .. CkLen /\ k + 1 <= dbg.length
      BY <1>1, CommandsAssumption
    <3> HIDE DEF k
    <3> QED BY <1>1, <3>1, AppCallsAssumption
  <2>2. c.fn = "read" /\ c.addr = dbg.dst + k /\ c.len = 1
    BY DEF ReadCall, DriverCall
  <2> HIDE DEF c
  <2>3. (dbg.dst + k) + 1 <= TotalSize
    BY <2>1, <2>2 DEF CallsInRange
  <2> QED BY <1>1, <2>3
<1>3. \A k \in 0 .. n - 1 : dbg.dst + k \in Addr
  BY <1>1, <1>2, SizesAssumption DEF Addr
<1> QED BY <1>3 DEF IsBytes, Cells

\* The buffer of a turn that succeeded holds the cells of its piece of the range.
LEMMA TurnSummed ==
  ASSUME CallsInRange, AppControl, Told, Summed, CkAdd, heard, initOk, result = "ok"
  PROVE  /\ mem = after
         /\ sum' = SumOf(Cells(mem, dbg.dst, from' - dbg.dst), from' - dbg.dst)
<1>a. AppTypeOK /\ AppFlow /\ mem \in [Addr -> Cell]
  BY DEF AppControl, AppTypeOK, ChipType
<1>b. at = "ckwait" /\ pc = "idle" /\ dbg.func = 6 /\ rest > 0 /\ dbg \in Commands
      /\ dbg.dst <= from /\ from + rest = dbg.dst + dbg.length
  BY <1>a DEF CkAdd, Returned, AppFlow
<1>c. Turn \in 1 .. CkLen /\ Turn <= rest /\ CkLen \in Nat
  BY <1>a, <1>b, TurnIs, CommandsAssumption
<1>d. dbg.dst \in Nat /\ dbg.length \in Nat /\ from \in Nat /\ rest \in Nat
  BY <1>a, <1>b, CommandIs DEF AppTypeOK
<1>1. \A i \in 0 .. Turn - 1 : mem = after /\ i < buf /\ rbuf[i] = mem[from + i]
  BY <1>b DEF Told
<1>2. mem = after
  BY <1>1, <1>c
<1>3. ck' = Overlaid(ck, Received(0))
  BY DEF CkAdd, Partial
<1>4. ck' \in [0 .. CkLen - 1 -> Cell] /\ DOMAIN ck = 0 .. CkLen - 1
  <2>1. DOMAIN rbuf = 0 .. buf - 1 /\ ck \in [0 .. CkLen - 1 -> Cell] /\ 0 \in Partial
    BY <1>a, <1>b DEF AppFlow, AppTypeOK, Partial
  <2> QED BY <1>3, <1>c, <2>1, ReceivedType DEF AppControl
<1>5. \A i \in 0 .. Turn - 1 : ck'[i] = mem[from + i]
  <2> SUFFICES ASSUME NEW i \in 0 .. Turn - 1 PROVE ck'[i] = mem[from + i]
    OBVIOUS
  <2>1. i \in 0 .. CkLen - 1 /\ i < buf /\ rbuf[i] = mem[from + i] /\ buf \in Nat
    BY <1>1, <1>c DEF AppControl, Inv, TypeOK
  <2>2. i \in DOMAIN Received(0) /\ Received(0)[i] = rbuf[i]
    BY <2>1 DEF Received
  <2> QED BY <1>3, <1>4, <2>1, <2>2 DEF Overlaid
<1> DEFINE n == from - dbg.dst
           a == Cells(mem, dbg.dst, n)
           c == Cells(mem, dbg.dst, n + Turn)
<1>6. n \in Nat /\ Turn \in Nat /\ n + Turn <= dbg.length /\ n <= dbg.length
      /\ from' - dbg.dst = n + Turn
  BY <1>b, <1>c, <1>d DEF CkAdd
<1>7. IsBytes(a, n)
  <2> HIDE DEF n
  <2> QED BY <1>a, <1>b, <1>6, CellsAre
<1>8. IsBytes(ck', Turn)
  BY <1>4, <1>c DEF IsBytes
<1>9. \A k \in 0 .. n - 1 : c[k] = a[k]
  BY <1>6 DEF Cells
<1>10. \A k \in 0 .. Turn - 1 : c[n + k] = ck'[k]
  <2> SUFFICES ASSUME NEW k \in 0 .. Turn - 1 PROVE c[n + k] = ck'[k]
    OBVIOUS
  <2>1. n + k \in 0 .. (n + Turn) - 1 /\ dbg.dst + (n + k) = from + k
    BY <1>6, <1>d
  <2>2. c[n + k] = mem[dbg.dst + (n + k)]
    BY <2>1 DEF Cells
  <2> QED BY <1>5, <2>1, <2>2
<1>11. SumOf(c, n + Turn) = SumOf(a, n) + SumOf(ck', Turn)
  <2> HIDE DEF n, a, c
  <2> QED BY <1>6, <1>7, <1>8, <1>9, <1>10, SumSplit
<1>12. sum' = sum + SumOf(ck', Turn) /\ sum = SumOf(a, n)
  BY <1>b DEF CkAdd, Summed
<1> QED BY <1>2, <1>6, <1>11, <1>12

LEMMA SummedStep ==
  ASSUME CallsInRange, AppControl, AppControl', DriverInv, Told, Summed, [AppNext]_appvars
  PROVE  Summed'
<1> USE DEF Answer
<1>a. Inv /\ Inv' /\ AppTypeOK /\ AppFlow /\ AppTypeOK' /\ AppFlow'
  BY DEF AppControl
\* While no turn has been added the sum is 0 whatever the array is; then the array rests.
<1>b. ASSUME at \in {"ckloop", "ckwait"}, UNCHANGED <<dbg, from, sum>>,
             heard' => heard, initOk' => initOk, at' \in {"ckloop", "ckwait"},
             mem = after => UNCHANGED <<mem, after>>
      PROVE  Summed'
  <2> SUFFICES ASSUME heard', initOk'
               PROVE  /\ from > dbg.dst => mem' = after'
                      /\ sum = SumOf(Cells(mem', dbg.dst, from - dbg.dst), from - dbg.dst)
    BY <1>b DEF Summed
  <2>1. /\ from > dbg.dst => mem = after
        /\ sum = SumOf(Cells(mem, dbg.dst, from - dbg.dst), from - dbg.dst)
    BY <1>b DEF Summed
  <2>2. from >= dbg.dst /\ from \in Nat /\ dbg.dst \in Nat
    BY <1>a, <1>b, CommandIs DEF AppFlow, AppTypeOK
  <2>3. CASE from > dbg.dst
    BY <1>b, <2>1, <2>3
  <2>4. CASE from = dbg.dst
    <3>1. from - dbg.dst = 0
      BY <2>2, <2>4
    <3>2. SumOf(Cells(mem, dbg.dst, 0), 0) = 0 /\ SumOf(Cells(mem', dbg.dst, 0), 0) = 0
      <4>1. IsBytes(Cells(mem, dbg.dst, 0), 0) /\ IsBytes(Cells(mem', dbg.dst, 0), 0)
        BY DEF IsBytes
      <4> QED BY <4>1, SumFacts
    <3> QED BY <2>1, <2>2, <2>4, <3>1, <3>2
  <2> QED BY <2>2, <2>3, <2>4
<1>0. CASE UNCHANGED appvars
  BY <1>0 DEF appvars, app, vars, chip, driver, Summed
<1>1. CASE Boot \/ InitReturned \/ NoWork \/ SkipBlank \/ RefuseErase \/ ForwardReturned
           \/ Forward \/ CkEnd \/ \E d \in Commands : Debugger(d)
  BY <1>1 DEF Boot, InitReturned, NoWork, SkipBlank, RefuseErase, ForwardReturned, Forward,
       CkEnd, Debugger, Summed
<1>2. CASE CkBegin
  <2>1. sum' = 0 /\ from' = dbg.dst /\ dbg' = dbg /\ dbg.dst \in Nat
    BY <1>2, <1>a, CommandIs DEF CkBegin, AppFlow
  <2>2. from' - dbg.dst = 0
    BY <2>1
  <2>3. SumOf(Cells(mem', dbg.dst, 0), 0) = 0
    <3>1. IsBytes(Cells(mem', dbg.dst, 0), 0)
      BY DEF IsBytes
    <3> QED BY <3>1, SumFacts
  <2> QED BY <2>1, <2>2, <2>3 DEF Summed
<1>3. CASE CkRead
  BY <1>3, <1>b DEF CkRead, Call, chip
<1>4. CASE CkAdd
  <2> SUFFICES ASSUME heard', initOk' PROVE Summed'
    BY DEF Summed
  <2>1. heard /\ result = "ok" /\ initOk /\ UNCHANGED <<mem, after, dbg>>
    BY <1>4 DEF CkAdd, vars, driver, chip
  <2>2. /\ mem = after
        /\ sum' = SumOf(Cells(mem, dbg.dst, from' - dbg.dst), from' - dbg.dst)
    BY <1>4, <2>1, TurnSummed
  <2> QED BY <2>1, <2>2 DEF Summed
<1>5. CASE Driver /\ UNCHANGED app
  <2> SUFFICES ASSUME at \in {"ckloop", "ckwait"}, initOk' PROVE Summed'
    BY <1>5 DEF app, Summed
  <2>1. DriverStep /\ at = "ckwait" /\ call = ReadCall(from, Turn)
    BY <1>5, <1>a, DriverSteps DEF DriverStep, AppTypeOK, AppFlow
  <2>2. call.fn = "read"
    BY <2>1 DEF ReadCall, DriverCall
  <2>3. UNCHANGED initOk
    BY <2>1, <2>2 DEF DriverStep, ArrayCalls
  <2>4. mem = after => UNCHANGED <<mem, after>>
    BY <1>5, <1>a, <2>2, <2>3, ReadKeeps
  <2> QED BY <1>5, <1>b, <2>1, <2>3, <2>4 DEF app
<1>6. CASE ChipFinish /\ UNCHANGED app
  <2>1. mem = after => UNCHANGED <<mem, after>>
    BY <1>6 DEF ChipFinish, Finish
  <2>2. UNCHANGED <<at, dbg, from, sum, heard, initOk>>
    BY <1>6 DEF app, ChipFinish, driver
  <2>3. CASE at \in {"ckloop", "ckwait"}
    BY <1>b, <2>1, <2>2, <2>3
  <2>4. CASE at \notin {"ckloop", "ckwait"}
    BY <2>2, <2>4 DEF Summed
  <2> QED BY <2>3, <2>4
<1> QED BY <1>0, <1>1, <1>2, <1>3, <1>4, <1>5, <1>6 DEF AppNext, AppStep

LEMMA AppInvInit == AppInit => AppInv
<1> SUFFICES ASSUME AppInit PROVE AppInv
  OBVIOUS
<1>1. AppControl
  BY ControlInit
<1>2. DriverInv
  BY DEF AppInit, Init, DriverInv, Place, ArrayCalls, NoCall, Landed, UsableWhenInit
<1>3. Wanted /\ Told /\ Summed
  BY DEF AppInit, Wanted, Told, Summed
<1> QED BY <1>1, <1>2, <1>3 DEF AppInv

LEMMA AppInvStep == CallsInRange /\ AppInv /\ [AppNext]_appvars => AppInv'
BY ControlStep, DriverInvStep, WantedStep, ToldStep, SummedStep DEF AppInv

\* The invariant of the application holds in every reachable state.
THEOREM AppInvCorrect ==
  ASSUME CallsInRange
  PROVE  AppSpec => []AppInv
BY AppInvInit, AppInvStep, PTL DEF AppSpec

\* After an initialisation that succeeded, an answer of 0 means that what a program or an
\* erase asked for is in the array or heads there, and that a read has the array's cells.
THEOREM ZeroMeansDoneCorrect ==
  ASSUME CallsInRange
  PROVE  AppSpec => ZeroMeansDone
<1> DEFINE Done ==
      /\ dbg.func \in {1, 3, 4} => after' = want
      /\ dbg.func \in {3, 4} /\ dbg.length > 0 => mem' = want
      /\ dbg.func = 2 => \A i \in 0 .. dbg.length - 1 : rw'[i] = mem'[dbg.dst + i]
<1>1. ASSUME AppInv, [AppNext]_appvars, Answers0, initOk
      PROVE  Done
  <2>a. Inv /\ AppTypeOK /\ AppFlow /\ Wanted /\ Told
    BY <1>1 DEF AppInv, AppControl
  <2>b. at \in {"switch", "wait", "ckloop"} /\ at' = "bkpt" /\ error' = "0"
    BY <1>1 DEF Answers0
  <2>1. CASE SkipBlank
    <3>1. at = "switch" /\ dbg.func = 1 /\ dbg \in Commands /\ UNCHANGED <<mem, after>>
          /\ \A i \in 0 .. dbg.length - 1 : rw[i] = Erased
      BY <2>1, <2>a DEF SkipBlank, Blank, AppFlow, vars, chip
    <3>2. want = Store!Programmed(after, dbg.dst, dbg.data, 0, dbg.length)
      BY <2>a, <3>1 DEF Wanted, Asked, Store!Effect, ProgramCall, DriverCall
    <3>3. dbg.dst \in Nat /\ dbg.length \in Nat
      BY <3>1, CommandIs
    <3>4. ASSUME NEW x \in Addr
          PROVE  (IF Store!InRange(x, dbg.dst, dbg.length)
                  THEN after[x] \cap dbg.data[0 + (x - dbg.dst)] ELSE after[x]) = after[x]
      <4>1. CASE Store!InRange(x, dbg.dst, dbg.length)
        <5>1. 0 + (x - dbg.dst) \in 0 .. dbg.length - 1
          BY <3>3, <4>1 DEF Store!InRange, Addr
        <5>2. dbg.data[0 + (x - dbg.dst)] = Bits
          BY <2>a, <3>1, <5>1 DEF AppFlow, Erased
        <5>3. after[x] \subseteq Bits
          BY <2>a DEF AppTypeOK, ChipType, Cell
        <5> QED BY <4>1, <5>2, <5>3
      <4> QED BY <4>1
    <3>5. want = after
      <4>1. after = [x \in Addr |-> after[x]]
        BY <2>a DEF AppTypeOK, ChipType
      <4>2. want = [x \in Addr |-> after[x]]
        BY <3>2, <3>4 DEF Store!Programmed, Store!Addr, Addr
      <4> QED BY <4>1, <4>2
    <3> QED BY <3>1, <3>5
  <2>2. CASE ForwardReturned
    <3>1. at = "wait" /\ pc = "idle" /\ dbg.func \in 1 .. 5 /\ dbg \in Commands
          /\ Reply(result) = "0" /\ UNCHANGED <<mem, after>>
      BY <2>2, <2>a, <2>b DEF ForwardReturned, Returned, Answer, AppFlow, vars, chip
    <3>2. dbg.func = 5 \/ result = "ok"
      BY <3>1 DEF Reply, Errors
    <3>3. CASE dbg.func \in {1, 3, 4, 5}
      BY <1>1, <2>a, <3>1, <3>2, <3>3 DEF Told
    <3>4. CASE dbg.func = 2
      <4>1. rw' = Overlaid(rw, Received(0))
        BY <2>2, <3>2, <3>4 DEF ForwardReturned, Partial
      <4>2. ASSUME NEW i \in 0 .. dbg.length - 1
            PROVE  rw'[i] = mem'[dbg.dst + i]
        <5>1. dbg.length \in Nat /\ dbg.length <= RwLen /\ RwLen \in Nat
          BY <3>1, <3>4, CommandIs, CommandsAssumption
        <5>2. i < buf /\ rbuf[i] = mem[dbg.dst + i] /\ buf \in Nat
          BY <1>1, <2>a, <3>1, <3>2, <3>4 DEF Told, Inv, TypeOK
        <5>3. i \in DOMAIN rw /\ i \in DOMAIN Received(0) /\ Received(0)[i] = rbuf[i]
          BY <2>a, <5>1, <5>2 DEF AppTypeOK, Received
        <5> QED BY <3>1, <4>1, <5>2, <5>3 DEF Overlaid
      <4> QED BY <3>4, <4>2
    <3> QED BY <3>1, <3>3, <3>4
  <2>3. CASE NoWork
    BY <2>3 DEF NoWork
  <2>4. CASE CkEnd
    BY <2>4, <2>a DEF CkEnd, AppFlow
  <2>5. CASE RefuseErase
    BY <2>5, <2>b DEF RefuseErase, Answer
  <2>6. CASE UNCHANGED app
    BY <2>6, <2>b DEF app
  <2>7. CASE Boot \/ InitReturned \/ Forward \/ CkBegin \/ CkRead \/ CkAdd
             \/ \E d \in Commands : Debugger(d)
    BY <2>b, <2>7 DEF Boot, InitReturned, Forward, CkBegin, CkRead, CkAdd, Debugger
  <2> QED BY <1>1, <2>1, <2>2, <2>3, <2>4, <2>5, <2>6, <2>7 DEF AppNext, AppStep, appvars
<1>2. AppInv /\ [AppNext]_appvars => [Answers0 /\ initOk => Done]_appvars
  BY <1>1
<1> QED BY <1>2, AppInvCorrect, PTL DEF AppSpec, ZeroMeansDone

\* When every read of a checksum succeeded, its answer is 0 exactly if the sum of the
\* array's bytes is the one expected, for any range and any size of the buffer.
THEOREM ChecksumTrueCorrect ==
  ASSUME CallsInRange
  PROVE  AppSpec => ChecksumTrue
<1>1. ASSUME AppInv, [AppNext]_appvars, at = "ckloop", at' = "bkpt", heard, initOk
      PROVE  error' = "0" <=> TrueSum = dbg.checksum
  <2>1. CkEnd
    BY <1>1 DEF AppNext, AppStep, appvars, app, Boot, InitReturned, NoWork, SkipBlank, RefuseErase,
       Forward, ForwardReturned, CkBegin, CkRead, CkAdd, Debugger
  <2>2. AppTypeOK /\ AppFlow /\ Summed
    BY <1>1 DEF AppInv, AppControl
  <2>3. from - dbg.dst = dbg.length
    BY <1>1, <2>1, <2>2, CommandIs DEF CkEnd, AppFlow, AppTypeOK
  <2>4. sum = TrueSum
    BY <1>1, <2>2, <2>3 DEF Summed, Cells, TrueSum
  <2> QED BY <2>1, <2>4 DEF CkEnd, Answer
<1>2. AppInv /\ [AppNext]_appvars =>
        [at = "ckloop" /\ at' = "bkpt" /\ heard /\ initOk =>
           (error' = "0" <=> TrueSum = dbg.checksum)]_appvars
  BY <1>1
<1> QED BY <1>2, AppInvCorrect, PTL DEF AppSpec, ChecksumTrue

-----------------------------------------------------------------------------
(* Every command winds down.                                               *)

\* The steps of n turns, and after k cells of one turn.
TurnsLess(n, k) ==
  /\ TurnSteps(n) \in Nat
  /\ k > 0 => /\ TurnSteps(n - k) \in Nat
              /\ TurnSteps(n) >= TurnSteps(n - k) + LoopSteps(k) + 3

LEMMA TurnLess == ASSUME NEW n \in Nat, NEW k \in 0 .. n, k <= CkLen PROVE TurnsLess(n, k)
<1>. DEFINE w == LoopSteps(CkLen) + 3
            m == n - k
<1>1. w \in Nat /\ k \in Nat /\ m \in Nat /\ n = m + k /\ LoopSteps(k) + 3 <= w
  BY CommandsAssumption DEF LoopSteps
<1>2. TurnSteps(n) = n * w /\ TurnSteps(m) = m * w
  BY DEF TurnSteps
<1>. HIDE DEF w, m
<1>3. n * w = m * w + k * w /\ m * w \in Nat /\ k * w \in Nat
  BY <1>1
<1>4. k > 0 => k * w >= w
  <2>1. k > 0 => k * w = (k - 1) * w + w /\ (k - 1) * w \in Nat
    BY <1>1
  <2>. QED BY <1>1, <2>1
<1>5. LoopSteps(k) \in Nat
  BY <1>1 DEF LoopSteps
<1>6. TurnSteps(n) \in Nat /\ TurnSteps(m) \in Nat
      /\ (k > 0 => TurnSteps(n) >= TurnSteps(m) + LoopSteps(k) + 3)
  BY <1>1, <1>2, <1>3, <1>4, <1>5
<1>. QED BY <1>6 DEF TurnsLess, m

\* AppStepsLeft by the place, for this state and, primed, for the next.
AppStepsAt ==
  /\ at = "bkpt" => AppStepsLeft = 0
  /\ at = "start" => AppStepsLeft = 27
  /\ at \in {"init", "wait"} => AppStepsLeft = StepsLeft + 1
  /\ at = "switch" => AppStepsLeft = CommandSteps
  /\ at = "ckloop" => AppStepsLeft = TurnSteps(rest) + 1
  /\ at = "ckwait" => AppStepsLeft = TurnSteps(rest - Turn) + StepsLeft + 2

LEMMA AppStepsAre == AppStepsAt
BY DEF AppStepsAt, AppStepsLeft, InitSteps

LEMMA AppStepsNext == AppStepsAt'
BY AppStepsAre, PTL

\* A step of the application leaves fewer steps.
LEMMA AppStepWinds ==
  ASSUME AppControl, AppControl', AppStep
  PROVE  AppStepsLeft' \in 0 .. AppStepsLeft - 1
<1>1. AppStepsAt /\ AppStepsAt' /\ StepsKnown /\ StepsKnown'
  BY AppStepsAre, AppStepsNext, StepsAre
<1>2. rest \in Nat /\ AppTypeOK /\ AppFlow
  BY DEF AppControl, AppTypeOK
<1>3. CASE Boot
  <2>1. at = "start" /\ at' = "init" /\ pc' = "init"
    BY <1>3 DEF Boot, Call, Goto, InitCall, DriverCall
  <2>. QED BY ONLY <1>1, <2>1 DEF AppStepsAt, StepsKnown
<1>4. CASE InitReturned \/ ForwardReturned
  <2>1. at \in {"init", "wait"} /\ pc = "idle" /\ at' = "bkpt"
    BY <1>4 DEF InitReturned, ForwardReturned, Returned, Answer
  <2>. QED BY ONLY <1>1, <2>1 DEF AppStepsAt, StepsKnown
<1>5. CASE NoWork \/ SkipBlank \/ RefuseErase
  <2>1. at = "switch" /\ at' = "bkpt" /\ dbg.func \in {0, 1, 3, 7}
    BY <1>5 DEF NoWork, SkipBlank, RefuseErase, Answer
  <2>2. dbg.length \in Nat
    BY <1>2, <2>1, CommandIs DEF AppFlow
  <2>3. CommandSteps \in Nat /\ CommandSteps > 0
    BY <2>1, <2>2 DEF CommandSteps, LoopSteps
  <2>. QED BY ONLY <1>1, <2>1, <2>3 DEF AppStepsAt
<1>6. CASE Forward
  <2>1. /\ at = "switch" /\ at' = "wait" /\ dbg.func \in 1 .. 5
        /\ pc' = Request.fn /\ len' = Request.len
    BY <1>6 DEF Forward, Call, Goto
  <2>2. dbg.length \in Nat /\ TotalSize \in Nat
    BY <1>2, <2>1, CommandIs, SizesAssumption DEF AppFlow
  <2>3. /\ dbg.func = 1 => Request.fn = "program" /\ Request.len = dbg.length
        /\ dbg.func = 2 => Request.fn = "read" /\ Request.len = dbg.length
        /\ dbg.func = 3 => Request.fn = "erase" /\ Request.len = dbg.length
        /\ dbg.func = 4 => Request.fn = "erase" /\ Request.len = TotalSize
        /\ dbg.func = 5 => Request.fn = "deinit"
    BY <2>1 DEF Request, ProgramCall, ReadCall, EraseCall, EraseChipCall, DeinitCall,
                DriverCall
  <2>4. /\ dbg.func \in 1 .. 3 => CommandSteps = LoopSteps(dbg.length) + 3
        /\ dbg.func = 4 => CommandSteps = LoopSteps(TotalSize) + 3
        /\ dbg.func = 5 => CommandSteps = 24
    BY <2>1 DEF CommandSteps, InitSteps
  <2>5. LoopSteps(dbg.length) \in Nat /\ LoopSteps(TotalSize) \in Nat
    BY <2>2 DEF LoopSteps
  <2>6. CASE dbg.func \in 1 .. 3
    BY ONLY <1>1, <2>1, <2>3, <2>4, <2>5, <2>6 DEF AppStepsAt, StepsKnown
  <2>7. CASE dbg.func \in {4, 5}
    BY ONLY <1>1, <2>1, <2>3, <2>4, <2>5, <2>7 DEF AppStepsAt, StepsKnown
  <2>. QED BY <2>1, <2>6, <2>7
<1>7. CASE CkBegin
  <2>1. at = "switch" /\ at' = "ckloop" /\ dbg.func = 6 /\ rest' = dbg.length
    BY <1>7 DEF CkBegin
  <2>2. dbg.length \in Nat
    BY <1>2, <2>1, CommandIs DEF AppFlow
  <2>3. TurnsLess(dbg.length, 0)
    BY <2>2, TurnLess, CommandsAssumption
  <2>4. CommandSteps = TurnSteps(dbg.length) + 2
    BY <2>1 DEF CommandSteps
  <2>. QED BY ONLY <1>1, <2>1, <2>3, <2>4 DEF AppStepsAt, TurnsLess
<1>8. CASE CkRead
  <2>1. /\ at = "ckloop" /\ at' = "ckwait" /\ rest > 0 /\ rest' = rest
        /\ pc' = "read" /\ len' = Turn
    BY <1>8 DEF CkRead, Call, Goto, ReadCall, DriverCall
  <2>2. Turn \in 1 .. CkLen /\ Turn <= rest /\ Turn' = Turn
    BY <1>2, <2>1, TurnIs DEF Turn
  <2>3. TurnsLess(rest, Turn) /\ LoopSteps(Turn) \in Nat
    <3>. DEFINE t == Turn
    <3>1. t \in 0 .. rest /\ t <= CkLen /\ t \in Nat
      BY <1>2, <2>2
    <3>. HIDE DEF t
    <3>2. TurnsLess(rest, t) /\ LoopSteps(t) \in Nat
      BY <1>2, <3>1, TurnLess DEF LoopSteps
    <3>. QED BY <3>2 DEF t
  <2>4. /\ AppStepsLeft = TurnSteps(rest) + 1
        /\ AppStepsLeft' = TurnSteps(rest - Turn) + (LoopSteps(Turn) + 1) + 2
    BY ONLY <1>1, <2>1, <2>2 DEF AppStepsAt, StepsKnown
  <2>. QED BY ONLY <2>2, <2>3, <2>4 DEF TurnsLess
<1>9. CASE CkAdd
  <2>1. at = "ckwait" /\ at' = "ckloop" /\ pc = "idle" /\ rest' = rest - Turn
    BY <1>9 DEF CkAdd, Returned
  <2>2. rest > 0 /\ Turn \in 1 .. CkLen /\ Turn <= rest
    BY <1>2, <2>1, TurnIs DEF AppFlow
  <2>3. TurnSteps(rest') \in Nat
    <3>1. rest' \in Nat
      BY <1>2, <2>1, <2>2
    <3>2. TurnsLess(rest', 0)
      BY <3>1, TurnLess, CommandsAssumption
    <3>. QED BY <3>2 DEF TurnsLess
  <2>. QED BY ONLY <1>1, <2>1, <2>3 DEF AppStepsAt, StepsKnown
<1>10. CASE CkEnd
  <2>1. at = "ckloop" /\ at' = "bkpt"
    BY <1>10 DEF CkEnd, Answer
  <2>2. TurnsLess(rest, 0)
    BY <1>2, TurnLess, CommandsAssumption
  <2>. QED BY ONLY <1>1, <2>1, <2>2 DEF AppStepsAt, TurnsLess
<1>. QED BY <1>3, <1>4, <1>5, <1>6, <1>7, <1>8, <1>9, <1>10 DEF AppStep

\* So does one of the driver under it.
LEMMA DriverWinds ==
  ASSUME AppControl, AppControl', Driver, UNCHANGED app, at # "bkpt"
  PROVE  AppStepsLeft' \in 0 .. AppStepsLeft - 1
<1>1. AppStepsAt /\ AppStepsAt'
  BY AppStepsAre, AppStepsNext
<1>2. pc # "idle"
  BY DEF Driver, NotReady, InitAgain, InitSpi, SendReset, WaitId, ReadId, Send4Byte, Wait4Byte,
         Scanned4Byte, ReadQuad, VerifyQuad, NoFactoryInit, FactoryInit, Deinit, DeinitDone,
         SendWren, WaitWren, CheckWel, Issue, SettleTimedOut, InitSettled, WaitFirst,
         ReadPage, LoopDone, ProgramPage, PageSettled, EraseRefused, EraseChip, EraseBegin,
         EraseUnit, UnitSettled, ChipSettled, EraseDone
<1>3. at' = at /\ rest' = rest /\ at \in {"init", "wait", "ckwait"} /\ Turn' = Turn
  BY <1>2 DEF app, AppControl, AppTypeOK, Turn
<1>4. StepsLeft \in Nat /\ StepsLeft' \in 0 .. StepsLeft - 1
  BY <1>2, StepsPositive, WindStep DEF Positive, AppControl
<1>5. at = "ckwait" => TurnSteps(rest - Turn) \in Nat
  <2>. SUFFICES ASSUME at = "ckwait" PROVE TurnSteps(rest - Turn) \in Nat
    OBVIOUS
  <2>1. rest \in Nat /\ rest > 0 /\ Turn \in 1 .. CkLen /\ Turn <= rest
    BY TurnIs DEF AppControl, AppFlow, AppTypeOK
  <2>. DEFINE r == rest - Turn
  <2>2. r \in Nat
    BY <2>1
  <2>. HIDE DEF r
  <2>3. TurnsLess(r, 0)
    BY <2>2, TurnLess, CommandsAssumption
  <2>. QED BY <2>3 DEF TurnsLess, r
<1>. QED BY ONLY <1>1, <1>3, <1>4, <1>5 DEF AppStepsAt

\* Every command leads back to the breakpoint in a number of steps that its length gives:
\* no turn of a checksum is repeated and no failed call tried again, whatever chip and bus
\* do, for every size of the buffers.
THEOREM CommandsWindDownCorrect == AppSpec => CommandsWindDown
<1>1. AppControl /\ AppControl' /\ [AppNext]_appvars
      => [at # "bkpt" /\ <<driver, app>>' # <<driver, app>>
            => AppStepsLeft' \in 0 .. AppStepsLeft - 1]_appvars
  <2>. SUFFICES ASSUME AppControl, AppControl', [AppNext]_appvars, at # "bkpt",
                       <<driver, app>>' # <<driver, app>>
                PROVE  AppStepsLeft' \in 0 .. AppStepsLeft - 1
    OBVIOUS
  <2>1. AppStep \/ (Driver /\ UNCHANGED app)
    BY DEF AppNext, Debugger, ChipFinish, appvars, vars
  <2>. QED BY <2>1, AppStepWinds, DriverWinds
<1>. QED BY <1>1, ControlCorrect, PTL DEF AppSpec, CommandsWindDown
=============================================================================
