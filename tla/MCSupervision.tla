---------------------------- MODULE MCSupervision ----------------------------
(* One zone: the offset stands for the hours local time is ahead, longer    *)
(* silences take its place when it is larger.  Six processes are enough:    *)
(* one engine the watchdog cannot see, at most four it can when the fifth   *)
(* is started.                                                              *)
EXTENDS Supervision

MCUtcOffsets == {1}

MCProcesses == 1..6
=============================================================================
