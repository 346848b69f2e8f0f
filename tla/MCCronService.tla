--------------------------- MODULE MCCronService ---------------------------
(* Instantiates CronService for TLC: one-shot jobs due at 2; periodic ones *)
(* whose schedule names no time after 3.                                   *)
EXTENDS CronService

MCAt    == [j \in OneShot |-> 2]
MCUntil == [j \in Periodic |-> 3]
=============================================================================
