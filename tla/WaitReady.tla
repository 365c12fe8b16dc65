----------------------------- MODULE WaitReady ------------------------------
(***************************************************************************)
(* nor_wait_ready(ms, times) of spinor/core.c: poll the chip's busy bit,   *)
(* first up to ms times with a millisecond of sleep after each poll, then  *)
(* up to times times without, then once more. SpiNor takes a call of it as *)
(* one step (Ready or TimedOut); this module has its loops and its two     *)
(* unsigned counters.                                                      *)
(*                                                                         *)
(* A status read that fails counts as busy (nor_is_busy returns its error, *)
(* which is not false).                                                    *)
(***************************************************************************)
EXTENDS Naturals

CONSTANTS
  WordSize,   \* 2^32: _ms and _times are unsigned int
  Waits,      \* the calls: [ms, times]
  MaxWaits    \* bound on the number of calls

ASSUME WaitAssumption ==
  /\ WordSize \in Nat \ {0}
  /\ Waits \subseteq [ms : 0 .. WordSize - 1, times : 0 .. WordSize - 1]
  /\ MaxWaits \in Nat

VARIABLES
  pc,      \* "idle", "sleep", "spin" or "last": the loop the call is in
  asked,   \* the arguments
  ms,      \* _ms
  times,   \* _times
  ret,     \* "none", "ready" (0) or "EBUSY"
  busy,    \* the chip is busy
  polls,   \* history: status reads of this call
  slept,   \* history: milliseconds slept in this call
  waits    \* number of calls

vars == <<pc, asked, ms, times, ret, busy, polls, slept, waits>>

\* The history counters stop here: far beyond any call of a correct driver.
HistoryCap == 3 * WordSize + 2
Count(n) == IF n < HistoryCap THEN n + 1 ELSE n

\* x - 1 on unsigned int, and a mutant: without the wrap-around.
Less1Signed(x) == x - 1
Less1(x) == (x + WordSize - 1) % WordSize

Enter(w) ==
  /\ pc = "idle" /\ waits < MaxWaits
  /\ waits' = waits + 1
  /\ pc' = "sleep"
  /\ asked' = w
  /\ ms' = w.ms
  /\ times' = w.times
  /\ polls' = 0 /\ slept' = 0
  /\ ret' = "none"
  /\ UNCHANGED busy

\* A poll finds the chip idle.
SeeIdle ==
  /\ pc # "idle" /\ ~busy
  /\ pc' = "idle"
  /\ ret' = "ready"
  /\ polls' = Count(polls)
  /\ UNCHANGED <<asked, ms, times, busy, slept, waits>>

\* Any poll may find the chip busy: it is, or the status read fails.
SeeBusy == polls' = Count(polls) /\ UNCHANGED <<asked, busy, waits>>

\* A mutant: the first loop does not count down.
SleepTurnForever ==
  /\ pc = "sleep"
  /\ SeeBusy
  /\ slept' = IF ms > 0 THEN Count(slept) ELSE slept
  /\ pc' = IF ms > 0 THEN "sleep" ELSE "spin"
  /\ UNCHANGED <<ms, times, ret>>

SleepTurn ==
  /\ pc = "sleep"
  /\ SeeBusy
  /\ slept' = IF ms > 0 THEN Count(slept) ELSE slept
  /\ ms' = Less1(ms)
  /\ pc' = IF Less1(ms) > 0 THEN "sleep" ELSE "spin"
  /\ UNCHANGED <<times, ret>>

\* A mutant: the second loop ends one poll early.
SpinTurnShort ==
  /\ pc = "spin"
  /\ SeeBusy
  /\ times' = Less1(times)
  /\ pc' = IF Less1(times) > 1 THEN "spin" ELSE "last"
  /\ UNCHANGED <<ms, ret, slept>>

\* A mutant: the second loop goes on while the counter is not below zero.
SpinTurnForever ==
  /\ pc = "spin"
  /\ SeeBusy
  /\ times' = Less1(times)
  /\ pc' = IF Less1(times) >= 0 THEN "spin" ELSE "last"
  /\ UNCHANGED <<ms, ret, slept>>

SpinTurn ==
  /\ pc = "spin"
  /\ SeeBusy
  /\ times' = Less1(times)
  /\ pc' = IF Less1(times) > 0 THEN "spin" ELSE "last"
  /\ UNCHANGED <<ms, ret, slept>>

LastTurn ==
  /\ pc = "last"
  /\ SeeBusy
  /\ pc' = "idle"
  /\ ret' = "EBUSY"
  /\ UNCHANGED <<ms, times, slept>>

\* The operation running in the chip ends; nothing starts one during the wait.
ChipEnds == busy /\ busy' = FALSE /\ UNCHANGED <<pc, asked, ms, times, ret, polls, slept, waits>>

\* Between calls the driver sends the chip a command.
ChipBegins ==
  /\ pc = "idle" /\ ~busy
  /\ busy' = TRUE
  /\ UNCHANGED <<pc, asked, ms, times, ret, polls, slept, waits>>

Init ==
  /\ pc = "idle"
  /\ asked = [ms |-> 0, times |-> 0]
  /\ ms = 0 /\ times = 0
  /\ ret = "none"
  /\ busy \in BOOLEAN
  /\ polls = 0 /\ slept = 0 /\ waits = 0

Turn == SeeIdle \/ SleepTurn \/ SpinTurn \/ LastTurn

Next ==
  \/ \E w \in Waits : Enter(w)
  \/ Turn
  \/ ChipEnds
  \/ ChipBegins

Spec == Init /\ [][Next]_vars

\* The waiting thread runs; the chip need not end anything.
FairSpec == Spec /\ WF_vars(Turn)

-----------------------------------------------------------------------------
(* Properties.                                                             *)

\* Every variable holds a value of its type.
TypeOK ==
  /\ pc \in {"idle", "sleep", "spin", "last"}
  /\ asked \in Waits \cup {[ms |-> 0, times |-> 0]}
  /\ ms \in 0 .. WordSize - 1
  /\ times \in 0 .. WordSize - 1
  /\ ret \in {"none", "ready", "EBUSY"}
  /\ busy \in BOOLEAN
  /\ polls \in 0 .. HistoryCap
  /\ slept \in 0 .. HistoryCap
  /\ waits \in 0 .. MaxWaits

\* The turns a do-while loop on an unsigned counter makes that starts from n.
Turns(n) == IF n = 0 THEN WordSize ELSE n

\* A call gives up only after all the polls its arguments allow, and its counters'
\* wrap-around never costs it one: -EBUSY after ms + times + 1 polls, no fewer and no
\* more, where a count of zero stands for 2^32 (core.c:211-228).
GivesUpLast ==
  ret = "EBUSY" => polls = Turns(asked.ms) + Turns(asked.times) + 1

\* A call never sleeps longer than it was asked to, for the calls that ask for any
\* sleep at all (core.c:211-216).
SleepsAtMostAsked == asked.ms > 0 => slept <= asked.ms

\* A call never sleeps longer than it was asked to: "1. sleep on ms" (core.c:202-206)
\* and, when it gives up, "wait nor flash for %d ms" (core.c:227).
SleepsAsAsked == slept <= asked.ms

\* The turns a wait may still make.
TurnsLeft ==
  CASE pc = "idle"  -> 0
    [] pc = "sleep" -> Turns(ms) + Turns(asked.times) + 1
    [] pc = "spin"  -> Turns(times) + 1
    [] pc = "last"  -> 1

\* Every turn leaves one turn less or ends the wait, also when a counter that starts at
\* zero wraps: no turn is for nothing and none gives up others (core.c:211-228).
WaitsWindDown ==
  [][pc # "idle" /\ busy' = busy => TurnsLeft > 0 /\ TurnsLeft' \in {0, TurnsLeft - 1}]_vars

\* A wait returns even if the chip never becomes ready.
Returns == (pc # "idle") ~> (pc = "idle")
=============================================================================
