---------------------------- MODULE MCWaitReady -----------------------------
(* Instances of WaitReady for TLC: a small word, counts of 0, 1 and more.   *)
EXTENDS WaitReady

MCWaits == [ms : {0, 1, 3}, times : {0, 1, 4, 7}]

\* The shape of nor_wait_ready(0, 500), the wait of nor_send_cmd, nor_read, nor_write.
NoSleepWaits == {[ms |-> 0, times |-> 4]}
=============================================================================
