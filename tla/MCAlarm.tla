-------------------------------- MODULE MCAlarm --------------------------------
(* Small instances of the alarm clock for TLC.                                *)
EXTENDS Alarm, TLC

CONSTANTS main, idle, t1, t2, s1, s2

MCListName == Sema \cup {"ready"}
MCSleepTicks == 0 .. 2
=============================================================================
