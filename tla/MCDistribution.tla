--------------------------- MODULE MCDistribution ---------------------------
(* A vocabulary of two entries, a context of three slots and a ring of two  *)
(* particles, all of which wrap; a token that is no entry, a word that its  *)
(* entry cuts, and lives that are over at once or after a frame.            *)
EXTENDS Distribution

MCLifespans == {1, 2}
MCKept == [w \in Words |-> IF w = "elongated" THEN "elong" ELSE w]
=============================================================================
