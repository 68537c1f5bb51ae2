---------------------------- MODULE MCScheduler ----------------------------
(* Two created threads and the boot thread, registers of two words, stacks  *)
(* that are exactly large enough for the deeper of a switch and an          *)
(* interrupt.                                                               *)
EXTENDS Scheduler

CONSTANTS v1, v2
MCValues == {v1, v2}
=============================================================================
