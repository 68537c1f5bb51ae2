----------------------------- MODULE MCSandbox -----------------------------
(* A closed room of one tile: blocks are destroyed on every side, the       *)
(* camera walks through the gaps, past corners and off the map, and blocks  *)
(* are put down from wherever it stands, also from less than a step of the  *)
(* ray before a block.                                                      *)
EXTENDS Sandbox

MCAngles == -2 .. 2
MCDeltas == {-40, 0, 40}
MCStartMap == Tiles \ {[x |-> 1, y |-> 1]}
MCStartPosition == [x |-> TILE + 37, y |-> TILE + 41]
=============================================================================
