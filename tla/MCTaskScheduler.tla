--------------------------- MODULE MCTaskScheduler ---------------------------
(* One run of four slots, and the next run after it.                         *)
EXTENDS TaskScheduler, TLC
=============================================================================
