--------------------------- MODULE WaitReadyProofs --------------------------
(***************************************************************************)
(* Proofs about WaitReady for every word size and every pair of counts:    *)
(* the two loops make exactly the polls their arguments allow, wrap-around *)
(* included, and sleep no longer than asked when any sleep is asked for.   *)
(***************************************************************************)
EXTENDS WaitReady, TLAPS

USE DEF Turns, HistoryCap

\* What the counters have left, the polls have used up.
Counting ==
  /\ pc = "sleep" => polls + Turns(ms) = Turns(asked.ms) /\ times = asked.times
  /\ pc = "spin"  => polls + Turns(times) = Turns(asked.ms) + Turns(asked.times)
  /\ pc = "last"  => polls = Turns(asked.ms) + Turns(asked.times)
  /\ pc # "idle"  => ret = "none"

\* The sleep that is left is in _ms while the first loop runs; later there is none.
Sleeping ==
  asked.ms > 0 =>
    /\ pc = "sleep" => ms > 0 /\ slept + ms = asked.ms
    /\ slept <= asked.ms

Inv == TypeOK /\ Counting /\ Sleeping /\ GivesUpLast

-----------------------------------------------------------------------------
(* Arithmetic of the counters.                                             *)

\* --_ms and --_times on an unsigned word.
LEMMA Less1Value ==
  ASSUME NEW x \in 0 .. WordSize - 1
  PROVE  Less1(x) = IF x = 0 THEN WordSize - 1 ELSE x - 1
<1>1. WordSize \in Nat \ {0}
  BY WaitAssumption
<1>2. CASE x = 0
  <2>1. (WordSize - 1) % WordSize = WordSize - 1
    BY <1>1
  <2>. QED BY <1>1, <1>2, <2>1 DEF Less1
<1>3. CASE x > 0
  <2>1. (x - 1) % WordSize = x - 1
    BY <1>1, <1>3
  <2>2. (x - 1 + WordSize) % WordSize = (x - 1) % WordSize
    BY <1>1, <1>3
  <2>3. x + WordSize - 1 = x - 1 + WordSize
    BY <1>1, <1>3
  <2>. QED BY <1>3, <2>1, <2>2, <2>3 DEF Less1
<1>. QED BY <1>1, <1>2, <1>3

\* A turn of a loop leaves one turn less, and the loop ends at zero.
LEMMA TurnsLess ==
  ASSUME NEW x \in 0 .. WordSize - 1
  PROVE  /\ Less1(x) \in 0 .. WordSize - 1
         /\ Less1(x) > 0 => Turns(Less1(x)) = Turns(x) - 1
         /\ Less1(x) = 0 => Turns(x) = 1
         /\ Turns(x) \in 1 .. WordSize
BY Less1Value, WaitAssumption

LEMMA InvInit == Init => Inv
BY WaitAssumption DEF Init, Inv, TypeOK, Counting, Sleeping, GivesUpLast

LEMMA InvStep == Inv /\ [Next]_vars => Inv'
<1>. SUFFICES ASSUME Inv, [Next]_vars PROVE Inv'
  OBVIOUS
<1>. USE WaitAssumption DEF Inv, TypeOK, Counting, Sleeping, GivesUpLast
<1>a. /\ asked.ms \in 0 .. WordSize - 1
      /\ asked.times \in 0 .. WordSize - 1
  BY WaitAssumption
<1>1. ASSUME NEW w \in Waits, Enter(w) PROVE Inv'
  <2>1. w.ms \in 0 .. WordSize - 1 /\ w.times \in 0 .. WordSize - 1
    BY WaitAssumption
  <2>. QED BY <1>1, <2>1 DEF Enter
<1>2. CASE SeeIdle
  BY <1>2, <1>a DEF SeeIdle, Count
<1>3. CASE SleepTurn
  BY <1>3, <1>a, TurnsLess, Less1Value DEF SleepTurn, SeeBusy, Count
<1>4. CASE SpinTurn
  <2>1. /\ times' = Less1(times) /\ times' \in 0 .. WordSize - 1
        /\ polls' = polls + 1 /\ polls' \in 0 .. HistoryCap
    BY <1>4, <1>a, TurnsLess DEF SpinTurn, SeeBusy, Count
  <2>2. TypeOK'
    BY <1>4, <2>1 DEF SpinTurn, SeeBusy
  <2>3. Counting' /\ GivesUpLast'
    BY <1>4, <1>a, <2>1, TurnsLess DEF SpinTurn, SeeBusy
  <2>4. Sleeping'
    BY <1>4 DEF SpinTurn, SeeBusy
  <2>. QED BY <2>2, <2>3, <2>4
<1>5. CASE LastTurn
  BY <1>5, <1>a, TurnsLess DEF LastTurn, SeeBusy, Count
<1>6. CASE ChipEnds
  BY <1>6 DEF ChipEnds
<1>7. CASE ChipBegins
  BY <1>7 DEF ChipBegins
<1>8. CASE UNCHANGED vars
  BY <1>8 DEF vars
<1>. QED BY <1>1, <1>2, <1>3, <1>4, <1>5, <1>6, <1>7, <1>8 DEF Next, Turn

-----------------------------------------------------------------------------
(* Theorems.                                                               *)

\* The counters and the history agree in every reachable state of nor_wait_ready.
THEOREM InvCorrect == Spec => []Inv
BY InvInit, InvStep, PTL DEF Spec

\* Every variable of nor_wait_ready keeps its type: the counters stay words.
THEOREM TypeCorrect == Spec => []TypeOK
BY InvCorrect, PTL DEF Inv

\* nor_wait_ready gives up after exactly the polls its arguments allow, for every word
\* size and all counts, zero included (core.c:211-228).
THEOREM GivesUpLastCorrect == Spec => []GivesUpLast
BY InvCorrect, PTL DEF Inv

\* A wait that asks for any sleep never sleeps longer than asked (core.c:211-216).
THEOREM SleepsAtMostAskedCorrect == Spec => []SleepsAtMostAsked
<1>1. Inv => SleepsAtMostAsked
  BY DEF Inv, Sleeping, SleepsAtMostAsked
<1>. QED BY <1>1, InvCorrect, PTL
\* Every turn of a wait leaves one turn less or ends it, for every word size and all
\* counts.
THEOREM WaitsWindDownCorrect == Spec => WaitsWindDown
<1>1. Inv /\ [Next]_vars
      => [pc # "idle" /\ busy' = busy
            => TurnsLeft > 0 /\ TurnsLeft' \in {0, TurnsLeft - 1}]_vars
  <2> SUFFICES ASSUME Inv, [Next]_vars, pc # "idle", busy' = busy, vars' # vars
               PROVE  TurnsLeft > 0 /\ TurnsLeft' \in {0, TurnsLeft - 1}
    OBVIOUS
  <2>1. /\ ms \in 0 .. WordSize - 1 /\ times \in 0 .. WordSize - 1
        /\ asked.ms \in 0 .. WordSize - 1 /\ asked.times \in 0 .. WordSize - 1
        /\ pc \in {"sleep", "spin", "last"}
        /\ pc = "sleep" => times = asked.times
    BY WaitAssumption DEF Inv, TypeOK, Counting
  <2> HIDE DEF Turns
  <2>2. /\ Turns(ms) \in 1 .. WordSize /\ Turns(times) \in 1 .. WordSize
        /\ Turns(asked.times) \in 1 .. WordSize
    BY <2>1, TurnsLess
  <2>3. TurnsLeft > 0
    BY <2>1, <2>2, WaitAssumption DEF TurnsLeft
  <2>4. CASE SeeIdle
    BY <2>3, <2>4 DEF SeeIdle, TurnsLeft
  <2>5. CASE SleepTurn
    <3>1. /\ pc = "sleep" /\ ms' = Less1(ms) /\ times' = times /\ asked' = asked
          /\ pc' = IF Less1(ms) > 0 THEN "sleep" ELSE "spin"
      BY <2>5 DEF SleepTurn, SeeBusy
    <3>2. CASE Less1(ms) > 0
      <4>1. Turns(ms') = Turns(ms) - 1
        BY <2>1, <3>1, <3>2, TurnsLess
      <4> QED BY <2>1, <2>2, <2>3, <3>1, <3>2, <4>1 DEF TurnsLeft
    <3>3. CASE ~(Less1(ms) > 0)
      <4>1. Turns(ms) = 1
        BY <2>1, <3>3, TurnsLess
      <4> QED BY <2>1, <2>2, <2>3, <3>1, <3>3, <4>1 DEF TurnsLeft
    <3> QED BY <3>2, <3>3
  <2>6. CASE SpinTurn
    <3>1. /\ pc = "spin" /\ times' = Less1(times)
          /\ pc' = IF Less1(times) > 0 THEN "spin" ELSE "last"
      BY <2>6 DEF SpinTurn
    <3>2. CASE Less1(times) > 0
      <4>1. Turns(times') = Turns(times) - 1
        BY <2>1, <3>1, <3>2, TurnsLess
      <4> QED BY <2>2, <2>3, <3>1, <3>2, <4>1 DEF TurnsLeft
    <3>3. CASE ~(Less1(times) > 0)
      <4>1. Turns(times) = 1
        BY <2>1, <3>3, TurnsLess
      <4> QED BY <2>3, <3>1, <3>3, <4>1 DEF TurnsLeft
    <3> QED BY <3>2, <3>3
  <2>7. CASE LastTurn
    BY <2>3, <2>7 DEF LastTurn, TurnsLeft
  <2> QED BY <2>4, <2>5, <2>6, <2>7 DEF Next, Turn, Enter, ChipEnds, ChipBegins
<1> QED BY <1>1, InvCorrect, PTL DEF Spec, WaitsWindDown
=============================================================================
