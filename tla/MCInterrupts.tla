---------------------------- MODULE MCInterrupts ----------------------------
(* Enough pulses and keys for each to arrive while the handler of each      *)
(* other kind is at any of its steps, and for a third byte to find no room. *)
(* One disk command, from a thread or from the handler: what it does to the *)
(* drive's line lasts.                                                      *)
EXTENDS Interrupts
=============================================================================
