------------------------------- MODULE Trail -------------------------------
(* What the particle ring promises: the latest particles, oldest first,     *)
(* each with the number of frames in which it is still to be drawn.  A new  *)
(* particle takes the place of the oldest.                                  *)
EXTENDS Integers, Sequences

CONSTANTS Lifespans,  \* lifespans of the particles that are spawned
          Length      \* how many particles are remembered

VARIABLE trail

\* The last tick of a particle ends it without drawing it.
Frames(lifespan) == IF lifespan > 1 THEN lifespan - 1 ELSE 0

Init == trail = [k \in 1 .. Length |-> 0]

Spawn(lifespan) == trail' = Append(Tail(trail), Frames(lifespan))

Draw == trail' = [k \in 1 .. Length |-> Frames(trail[k])]

Spec == Init /\ [][Draw \/ \E l \in Lifespans : Spawn(l)]_trail
=============================================================================
