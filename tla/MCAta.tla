------------------------------- MODULE MCAta -------------------------------
(* Two worlds, so that an older save can be told from a newer one; the two  *)
(* sectors that the code uses.                                              *)
EXTENDS Ata
=============================================================================
