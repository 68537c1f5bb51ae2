--------------------------- MODULE SandboxProofs ---------------------------
(***************************************************************************)
(* Theorems about Sandbox, for every size of the map and of the sector     *)
(* grid, every map to start from, and all angles and movements: where the  *)
(* camera can be, that moving never takes it into a block, and that every  *)
(* column shows the nearest block.  And about the disk driver that keeps   *)
(* the world (Ata), for all contents: a save that returned in time         *)
(* survives, and loading it restores it.                                   *)
(***************************************************************************)
EXTENDS Sandbox, Ata, IntervalInduction, TLAPS

Position == [x : Int, y : Int]

\* The camera's part of the invariant; the rest of CameraStaysNear follows.
Near ==
    /\ camera.x > PLAYER_RADIUS - TILE /\ camera.x < TILE * MAP_WIDTH - PLAYER_RADIUS
    /\ camera.y > PLAYER_RADIUS - TILE /\ camera.y < TILE * MAP_HEIGHT - PLAYER_RADIUS

IInv == TypeOK /\ Near

-----------------------------------------------------------------------------
(* Tiles.                                                                  *)

\* A cast drops the fraction, towards zero.
LEMMA TileBounds ==
    ASSUME NEW u \in Int
    PROVE  /\ Quotient(u, TILE) \in Int
           /\ u >= 0 => TILE * Quotient(u, TILE) <= u /\ u < TILE * Quotient(u, TILE) + TILE
           /\ u < 0 => TILE * Quotient(u, TILE) - TILE < u /\ u <= TILE * Quotient(u, TILE)
BY DEF Quotient, TILE

\* The tiles of the map are those of positions between a tile before it and its end.
LEMMA InsideMap ==
    ASSUME NEW u \in Int, NEW size \in Nat \ {0}
    PROVE  0 <= Quotient(u, TILE) /\ Quotient(u, TILE) < size
             <=> -TILE < u /\ u < TILE * size
<1> DEFINE a == Quotient(u, TILE)
<1>1. /\ a \in Int
      /\ u >= 0 => 80 * a <= u /\ u < 80 * a + 80
      /\ u < 0 => 80 * a - 80 < u /\ u <= 80 * a
    BY TileBounds DEF TILE
<1> HIDE DEF a
<1>2. CASE u >= 0
    BY <1>1, <1>2 DEF a, TILE
<1>3. CASE u < 0
    BY <1>1, <1>3 DEF a, TILE
<1> QED BY <1>2, <1>3

\* Tiles are in the order of their positions, and positions a tile apart are at most
\* one tile apart.
LEMMA TilesInOrder ==
    ASSUME NEW u \in Int, NEW v \in Int, u <= v
    PROVE  /\ Quotient(u, TILE) <= Quotient(v, TILE)
           /\ v - u <= TILE => Quotient(v, TILE) <= Quotient(u, TILE) + 1
<1> DEFINE a == Quotient(u, TILE)
           b == Quotient(v, TILE)
<1>1. /\ a \in Int /\ b \in Int
      /\ u >= 0 => 80 * a <= u /\ u < 80 * a + 80
      /\ u < 0 => 80 * a - 80 < u /\ u <= 80 * a
      /\ v >= 0 => 80 * b <= v /\ v < 80 * b + 80
      /\ v < 0 => 80 * b - 80 < v /\ v <= 80 * b
    BY TileBounds DEF TILE
<1> HIDE DEF a, b
<1>2. a <= b /\ (v - u <= 80 => b <= a + 1)
    BY <1>1
<1> QED BY <1>2 DEF a, b, TILE

\* So one that is between them is in the tile of one of them.
LEMMA BetweenTiles ==
    ASSUME NEW u \in Int, NEW v \in Int, NEW w \in Int,
           (u <= v /\ v <= w /\ w - u <= TILE) \/ (w <= v /\ v <= u /\ u - w <= TILE)
    PROVE  Quotient(v, TILE) = Quotient(u, TILE) \/ Quotient(v, TILE) = Quotient(w, TILE)
<1>1. /\ Quotient(u, TILE) \in Int /\ Quotient(v, TILE) \in Int
      /\ Quotient(w, TILE) \in Int
    BY TileBounds
<1>2. CASE u <= v /\ v <= w /\ w - u <= TILE
    <2>1. /\ Quotient(u, TILE) <= Quotient(v, TILE) /\ Quotient(v, TILE) <= Quotient(w, TILE)
          /\ Quotient(w, TILE) <= Quotient(u, TILE) + 1
        BY <1>2, TilesInOrder DEF TILE
    <2> QED BY <1>1, <2>1
<1>3. CASE w <= v /\ v <= u /\ u - w <= TILE
    <2>1. /\ Quotient(w, TILE) <= Quotient(v, TILE) /\ Quotient(v, TILE) <= Quotient(u, TILE)
          /\ Quotient(u, TILE) <= Quotient(w, TILE) + 1
        BY <1>3, TilesInOrder DEF TILE
    <2> QED BY <1>1, <2>1
<1> QED BY <1>2, <1>3

\* A cell of a grid that covers the map needs no clamping.
LEMMA CellInGrid ==
    ASSUME NEW t \in Nat, NEW c \in Nat \ {0}, NEW l \in Nat \ {0}, t < c * l
    PROVE  t \div c \in 0 .. l - 1
<1>1. t \div c \in Nat /\ c * (t \div c) <= t
    OBVIOUS
<1>2. ASSUME t \div c >= l PROVE FALSE
    <2> DEFINE q == t \div c
    <2>1. c * q >= c * l
        <3>1. q \in Nat /\ q - l \in Nat
            BY <1>1, <1>2
        <3> HIDE DEF q
        <3>2. c * (q - l) >= 0 /\ c * (q - l) = c * q - c * l
            BY <3>1
        <3>3. c * q \in Int /\ c * l \in Int
            BY <3>1
        <3> QED BY <3>2, <3>3
    <2>2. c * q \in Int /\ c * l \in Int
        BY <1>1
    <2> QED BY <1>1, <2>1, <2>2
<1> QED BY <1>1, <1>2

\* A sector is that of the tile, when the tile is on the map.
LEMMA SectorOfTile ==
    ASSUME NEW u \in Int, NEW size \in Nat, size <= CELL_SCALE * SECTOR_GRID_LIMIT,
           0 <= Quotient(u, TILE), Quotient(u, TILE) < size
    PROVE  Sector(u) = Quotient(u, TILE) \div CELL_SCALE
<1> DEFINE t == Quotient(u, TILE)
<1>1. t \in Nat /\ CELL_SCALE \in Nat \ {0} /\ SECTOR_GRID_LIMIT \in Nat \ {0}
    BY TileBounds, SandboxAssumption DEF SandboxAssumption
<1> HIDE DEF t
<1>2. CELL_SCALE * SECTOR_GRID_LIMIT \in Int
    BY <1>1
<1>3. t < CELL_SCALE * SECTOR_GRID_LIMIT
    BY <1>1, <1>2 DEF t
<1>4. t \div CELL_SCALE \in 0 .. SECTOR_GRID_LIMIT - 1
    BY <1>1, <1>3, CellInGrid
<1>5. Sector(u) = Clamped(t \div CELL_SCALE)
    BY <1>1 DEF Sector, Quotient, t
<1>6. Clamped(t \div CELL_SCALE) = t \div CELL_SCALE
    BY <1>1, <1>4 DEF Clamped, Least
<1> QED BY <1>5, <1>6 DEF t

-----------------------------------------------------------------------------
(* Movement.                                                               *)

NearAt(p) ==
    /\ p.x > PLAYER_RADIUS - TILE /\ p.x < TILE * MAP_WIDTH - PLAYER_RADIUS
    /\ p.y > PLAYER_RADIUS - TILE /\ p.y < TILE * MAP_HEIGHT - PLAYER_RADIUS

\* What is free of collision is on the map, and not in a block.
LEMMA FreeIsInside ==
    ASSUME NEW p \in Position, ~check_wall_collision(p)
    PROVE  /\ -TILE < p.x /\ p.x < TILE * MAP_WIDTH
           /\ -TILE < p.y /\ p.y < TILE * MAP_HEIGHT
           /\ TileOf(p) \notin world_map
<1>1. MAP_WIDTH \in Nat \ {0} /\ MAP_HEIGHT \in Nat \ {0} /\ p.x \in Int /\ p.y \in Int
    BY SandboxAssumption DEF SandboxAssumption, Position
<1>2. OnMap(TileOf(p)) /\ TileOf(p) \notin world_map
    BY DEF check_wall_collision
<1>3. /\ 0 <= Quotient(p.x, TILE) /\ Quotient(p.x, TILE) < MAP_WIDTH
      /\ 0 <= Quotient(p.y, TILE) /\ Quotient(p.y, TILE) < MAP_HEIGHT
    BY <1>2 DEF OnMap, TileOf
<1> QED BY <1>1, <1>2, <1>3, InsideMap

\* A slide along an axis keeps its distance from the ends of the map, and does not
\* enter a block.
LEMMA SlideIsSafe ==
    ASSUME NEW p \in Position, NEW axis \in Axes, NEW d \in Deltas
    PROVE  /\ Slide(p, axis, d) \in Position
           /\ NearAt(p) => NearAt(Slide(p, axis, d))
           /\ TileOf(p) \notin world_map => TileOf(Slide(p, axis, d)) \notin world_map
<1>1. d \in Int /\ -64 <= d /\ d <= 64 /\ MAP_WIDTH \in Nat /\ MAP_HEIGHT \in Nat
    BY SandboxAssumption DEF SandboxAssumption, TILE, PLAYER_RADIUS
<1>2. p.x \in Int /\ p.y \in Int
    BY DEF Position
<1> DEFINE edge == [p EXCEPT ![axis] = @ + d + Sign(d) * PLAYER_RADIUS]
           moved == [p EXCEPT ![axis] = @ + d]
<1>3. CASE d = 0 \/ check_wall_collision(edge)
    BY <1>3 DEF Slide
<1>4. CASE d # 0 /\ ~check_wall_collision(edge)
    <2>1. Slide(p, axis, d) = moved
        BY <1>4 DEF Slide
    <2>2. (d > 0 /\ Sign(d) * PLAYER_RADIUS = 16) \/ (d < 0 /\ Sign(d) * PLAYER_RADIUS = -16)
        BY <1>1, <1>4 DEF Sign, PLAYER_RADIUS
    <2>3. CASE axis = "x"
        <3>1. /\ moved = [x |-> p.x + d, y |-> p.y]
              /\ edge = [x |-> p.x + d + Sign(d) * PLAYER_RADIUS, y |-> p.y]
            <4>1. ASSUME NEW e PROVE [p EXCEPT !.x = e] = [x |-> e, y |-> p.y]
                BY DEF Position
            <4> QED BY <2>3, <4>1
        <3>2. edge \in Position
            BY <1>1, <1>2, <2>2, <3>1 DEF Position
        <3>3. /\ -TILE < edge.x /\ edge.x < TILE * MAP_WIDTH /\ TileOf(edge) \notin world_map
            BY <1>4, <3>2, FreeIsInside
        <3>4. NearAt(p) => NearAt(moved)
            BY <1>1, <1>2, <2>2, <3>1, <3>3 DEF NearAt, TILE, PLAYER_RADIUS
        <3>5. Quotient(moved.x, TILE) \in {Quotient(p.x, TILE), Quotient(edge.x, TILE)}
            BY <1>1, <1>2, <2>2, <3>1, BetweenTiles DEF TILE
        <3>6. TileOf(moved) = TileOf(p) \/ TileOf(moved) = TileOf(edge)
            BY <3>1, <3>5 DEF TileOf
        <3>7. moved \in Position
            BY <1>1, <1>2, <3>1 DEF Position
        <3> QED BY <2>1, <3>3, <3>4, <3>6, <3>7
    <2>4. CASE axis = "y"
        <3>1. /\ moved = [x |-> p.x, y |-> p.y + d]
              /\ edge = [x |-> p.x, y |-> p.y + d + Sign(d) * PLAYER_RADIUS]
            <4>1. ASSUME NEW e PROVE [p EXCEPT !.y = e] = [x |-> p.x, y |-> e]
                BY DEF Position
            <4> QED BY <2>4, <4>1
        <3>2. edge \in Position
            BY <1>1, <1>2, <2>2, <3>1 DEF Position
        <3>3. /\ -TILE < edge.y /\ edge.y < TILE * MAP_HEIGHT /\ TileOf(edge) \notin world_map
            BY <1>4, <3>2, FreeIsInside
        <3>4. NearAt(p) => NearAt(moved)
            BY <1>1, <1>2, <2>2, <3>1, <3>3 DEF NearAt, TILE, PLAYER_RADIUS
        <3>5. Quotient(moved.y, TILE) \in {Quotient(p.y, TILE), Quotient(edge.y, TILE)}
            BY <1>1, <1>2, <2>2, <3>1, BetweenTiles DEF TILE
        <3>6. TileOf(moved) = TileOf(p) \/ TileOf(moved) = TileOf(edge)
            BY <3>1, <3>5 DEF TileOf
        <3>7. moved \in Position
            BY <1>1, <1>2, <3>1 DEF Position
        <3> QED BY <2>1, <3>3, <3>4, <3>6, <3>7
    <2> QED BY <2>3, <2>4 DEF Axes
<1> QED BY <1>3, <1>4

\* So is a movement, which is two slides.
LEMMA MoveIsSafe ==
    ASSUME camera \in Position, NEW dx \in Deltas, NEW dy \in Deltas, Move(dx, dy)
    PROVE  /\ camera' \in Position
           /\ NearAt(camera) => NearAt(camera')
           /\ TileOf(camera) \notin world_map => TileOf(camera') \notin world_map
<1> DEFINE half == Slide(camera, "x", dx)
<1>1. /\ half \in Position
      /\ NearAt(camera) => NearAt(half)
      /\ TileOf(camera) \notin world_map => TileOf(half) \notin world_map
    BY SlideIsSafe DEF Axes
<1>2. camera' = Slide(half, "y", dy)
    BY DEF Move, apply_aabb_clipping
<1> HIDE DEF half
<1> QED BY <1>1, <1>2, SlideIsSafe DEF Axes

-----------------------------------------------------------------------------
(* The theorems.                                                           *)

\* The invariant: the map is a set of tiles, the camera is near it.
THEOREM Invariance == Spec => []IInv
<1>1. Init => IInv
    BY SandboxAssumption
    DEF SandboxAssumption, Init, IInv, TypeOK, Near, TILE, PLAYER_RADIUS
<1>2. IInv /\ [Next]_vars => IInv'
    <2> SUFFICES ASSUME IInv, [Next]_vars PROVE IInv'
        OBVIOUS
    <2>1. camera \in Position /\ world_map \subseteq Tiles
        BY DEF IInv, TypeOK, Position
    <2>2. ASSUME NEW dx \in Deltas, NEW dy \in Deltas, Move(dx, dy) PROVE IInv'
        <3>1. camera' \in Position /\ NearAt(camera')
            BY <2>1, <2>2, MoveIsSafe DEF IInv, Near, NearAt
        <3> QED BY <2>1, <2>2, <3>1 DEF IInv, TypeOK, Near, NearAt, Position, Move
    <2>3. ASSUME NEW a \in Angles, Destroy(a) PROVE IInv'
        BY <2>1, <2>3 DEF IInv, TypeOK, Near, Destroy
    <2>4. ASSUME NEW a \in Angles, Place(a) PROVE IInv'
        <3>1. PICK q \in trace_selection_ray(a) :
                /\ OnMap(BeforeFace(q, a))
                /\ world_map' = world_map \cup {BeforeFace(q, a)}
            BY <2>4 DEF Place
        <3>2. BeforeFace(q, a) \in Tiles
            <4>1. PICK n \in 1 .. RaySteps : q = RayAt(camera, a, n)
                BY DEF trace_selection_ray
            <4>2. q.x \in Int /\ q.y \in Int
                BY <2>1, <4>1, SandboxAssumption
                DEF SandboxAssumption, RayAt, Position, TwiceCos
            <4>3. TileOf(q) \in [x : Int, y : Int]
                BY <4>2, TileBounds DEF TileOf
            <4>4. face_axis(q) \in Axes /\ Backward(face_axis(q), a) \in Int
                BY DEF face_axis, Backward, Sign, Axes
            <4>5. BeforeFace(q, a) \in [x : Int, y : Int]
                BY <4>3, <4>4 DEF BeforeFace, Axes
            <4> QED BY <3>1, <4>5, SandboxAssumption DEF SandboxAssumption, OnMap, Tiles
        <3> QED BY <2>1, <2>4, <3>1, <3>2 DEF IInv, TypeOK, Near, Place
    <2>5. CASE UNCHANGED vars
        BY <2>5 DEF IInv, TypeOK, Near, vars
    <2> QED BY <2>2, <2>3, <2>4, <2>5 DEF Next
<1> QED BY <1>1, <1>2, PTL DEF Spec

\* Every variable keeps its type: no block is put outside the map.
THEOREM TypeCorrect == Spec => []TypeOK
BY Invariance, PTL DEF IInv

\* The camera stays near the map, and in the sector of its tile.
THEOREM CameraIsNear == Spec => []CameraStaysNear
<1>1. IInv => CameraStaysNear
    <2> SUFFICES ASSUME IInv PROVE CameraStaysNear
        OBVIOUS
    <2>1. /\ MAP_WIDTH \in Nat \ {0} /\ MAP_HEIGHT \in Nat \ {0}
          /\ CELL_SCALE * SECTOR_GRID_LIMIT >= MAP_WIDTH
          /\ CELL_SCALE * SECTOR_GRID_LIMIT >= MAP_HEIGHT
          /\ CELL_SCALE * SECTOR_GRID_LIMIT \in Int
        BY SandboxAssumption DEF SandboxAssumption
    <2>2. camera.x \in Int /\ camera.y \in Int
        BY DEF IInv, TypeOK
    <2>3. /\ -TILE < camera.x /\ camera.x < TILE * MAP_WIDTH
          /\ -TILE < camera.y /\ camera.y < TILE * MAP_HEIGHT
        BY <2>1, <2>2 DEF IInv, Near, TILE, PLAYER_RADIUS
    <2>4. /\ 0 <= Quotient(camera.x, TILE) /\ Quotient(camera.x, TILE) < MAP_WIDTH
          /\ 0 <= Quotient(camera.y, TILE) /\ Quotient(camera.y, TILE) < MAP_HEIGHT
        BY <2>1, <2>2, <2>3, InsideMap
    <2>5. OnMap(TileOf(camera))
        BY <2>4 DEF OnMap, TileOf
    <2>6. /\ Sector(camera.x) = TileOf(camera).x \div CELL_SCALE
          /\ Sector(camera.y) = TileOf(camera).y \div CELL_SCALE
        BY <2>1, <2>2, <2>4, SectorOfTile DEF TileOf
    <2> QED BY <2>5, <2>6 DEF IInv, Near, CameraStaysNear, calculate_cell_index
<1> QED BY <1>1, Invariance, PTL

\* No movement takes the camera into a block.
THEOREM MovingNeverBuries == Spec => OnlyPlacingBuries
<1> DEFINE Safe == ~Buried /\ Buried' => camera' = camera
<1>1. IInv /\ [Next]_vars => [Safe]_vars
    <2> SUFFICES ASSUME IInv, Next PROVE Safe
        OBVIOUS
    <2>1. ASSUME NEW dx \in Deltas, NEW dy \in Deltas, Move(dx, dy) PROVE Safe
        <3>1. camera \in Position
            BY DEF IInv, TypeOK, Position
        <3>2. TileOf(camera) \notin world_map => TileOf(camera') \notin world_map
            BY <2>1, <3>1, MoveIsSafe
        <3> QED BY <2>1, <3>2 DEF Buried, Move, TileOf
    <2>2. ASSUME NEW a \in Angles, Destroy(a) \/ Place(a) PROVE Safe
        BY <2>2 DEF Destroy, Place
    <2> QED BY <2>1, <2>2 DEF Next
<1> QED BY <1>1, Invariance, PTL DEF Spec, OnlyPlacingBuries
-----------------------------------------------------------------------------
(* The ray ahead, and the block that is put before what it strikes.        *)

LEMMA RayAhead ==
    ASSUME NEW p \in Position, NEW n \in Int
    PROVE  RayAt(p, 0, n) = [x |-> p.x + 4 * n, y |-> p.y]
BY DEF RayAt, TwiceCos, Position

\* A ray ahead that strikes a block after a sample that did not has just crossed the
\* line between the two tiles, so that the face is that line.
LEMMA StrikesNextTile ==
    ASSUME NEW p \in Position, NEW n \in Int,
           ~check_wall_collision(RayAt(p, 0, n - 1)), check_wall_collision(RayAt(p, 0, n)),
           OnMap(TileOf(RayAt(p, 0, n)))
    PROVE  BeforeFace(RayAt(p, 0, n), 0) = TileOf(RayAt(p, 0, n - 1))
<1> DEFINE u == p.x + 4 * (n - 1)
           v == p.x + 4 * n
           a == Quotient(u, TILE)
           b == Quotient(v, TILE)
           y == Quotient(p.y, TILE)
           q == RayAt(p, 0, n)
<1>1. p.x \in Int /\ p.y \in Int /\ u \in Int /\ v \in Int /\ v = u + 4
    BY DEF Position
<1>2. q = [x |-> v, y |-> p.y] /\ RayAt(p, 0, n - 1) = [x |-> u, y |-> p.y]
    BY RayAhead
<1> HIDE DEF u, v, q
<1>3. TileOf(q) = [x |-> b, y |-> y] /\ TileOf(RayAt(p, 0, n - 1)) = [x |-> a, y |-> y]
    BY <1>2 DEF TileOf
<1>4. a # b
    BY <1>3 DEF check_wall_collision, q
<1>5. a \in Int /\ b \in Int /\ a <= b /\ b <= a + 1
    <2>1. u <= v /\ v - u <= TILE
        BY <1>1 DEF TILE
    <2>2. a \in Int /\ b \in Int
        BY <1>1, TileBounds
    <2>3. a <= b /\ b <= a + 1
        BY <1>1, <2>1, TilesInOrder
    <2> QED BY <2>2, <2>3
<1>6. b = a + 1 /\ a >= 0
    <2>1. OnMap([x |-> a, y |-> y])
        BY <1>3 DEF check_wall_collision
    <2> QED BY <1>4, <1>5, <2>1 DEF OnMap
<1>7. v - TILE * b < LineMargin
    <2>1. u < 80 * a + 80
        BY <1>1, <1>5, <1>6, TileBounds DEF TILE
    <2> QED BY <1>1, <1>5, <1>6, <2>1 DEF TILE, LineMargin
<1>8. face_axis(q) = "x"
    BY <1>2, <1>7 DEF face_axis, NearLine
<1>9. Backward("x", 0) = -1
    BY DEF Backward, Sign, TwiceCos
<1>10. BeforeFace(q, 0) = [TileOf(q) EXCEPT !["x"] = @ + -1]
    BY <1>8, <1>9 DEF BeforeFace
<1> HIDE DEF a, b, y
<1>11. BeforeFace(q, 0) = [x |-> a, y |-> y]
    BY <1>3, <1>5, <1>6, <1>10
<1> QED BY <1>3, <1>11 DEF q

\* Straight ahead, destroying undoes placing, from wherever the camera stands, for
\* every map: unless its first sample is in a block, the ray passes the tile of the
\* new block, which it took for free, before it reaches the one behind.
THEOREM PlacingIsUndone == Spec => StraightPlaceUndone
<1> DEFINE Step ==
        world_map' # world_map /\ ~check_wall_collision(RayAt(camera, 0, 1)) /\ Place(0) =>
            \E q \in trace_selection_ray(0)' : world_map' \ {TileOf(q)} = world_map
<1>1. ASSUME IInv, ~check_wall_collision(RayAt(camera, 0, 1)), Place(0)
      PROVE  \E q \in trace_selection_ray(0)' : world_map' \ {TileOf(q)} = world_map
    <2>1. camera \in Position /\ camera' = camera
        BY <1>1 DEF IInv, TypeOK, Position, Place
    <2>2. PICK n \in 1 .. RaySteps :
              /\ Ends(0, n) /\ OnMap(TileOf(RayAt(camera, 0, n)))
              /\ OnMap(BeforeFace(RayAt(camera, 0, n), 0))
              /\ world_map' = world_map \cup {BeforeFace(RayAt(camera, 0, n), 0)}
        BY <1>1 DEF Place, trace_selection_ray
    <2>3. /\ check_wall_collision(RayAt(camera, 0, n))
          /\ \A m \in 1 .. n - 1 : ~check_wall_collision(RayAt(camera, 0, m))
        BY <2>2 DEF Ends
    <2>4. RaySteps \in Nat /\ n \in Nat /\ n - 1 \in 1 .. n - 1
        BY <1>1, <2>3, SandboxAssumption
    <2> DEFINE new == TileOf(RayAt(camera, 0, n - 1))
               S == {m \in 1 .. n - 1 : TileOf(RayAt(camera, 0, m)) = new}
    <2>5. world_map' = world_map \cup {new} /\ OnMap(new) /\ new \notin world_map
        <3>1. BeforeFace(RayAt(camera, 0, n), 0) = new
            BY <2>1, <2>2, <2>3, <2>4, StrikesNextTile
        <3> QED BY <2>2, <2>3, <2>4, <3>1 DEF check_wall_collision
    <2>6. PICK m \in S : \A k \in S : m <= k
        <3>1. S \subseteq Nat /\ n - 1 \in S
            BY <2>4
        <3> QED BY <3>1, Smallest
    <2>7. m \in 1 .. n - 1 /\ m \in 1 .. RaySteps /\ TileOf(RayAt(camera, 0, m)) = new
        BY <2>2, <2>4, <2>6
    <2>8. \A k \in 1 .. m - 1 : k \in 1 .. n - 1 /\ TileOf(RayAt(camera, 0, k)) # new
        BY <2>4, <2>6, <2>7
    <2> HIDE DEF new, S
    <2> DEFINE Wall(p) == ~OnMap(TileOf(p)) \/ TileOf(p) \in world_map'
    <2>9. Wall(RayAt(camera, 0, m))
        BY <2>5, <2>7
    <2>10. \A k \in 1 .. m - 1 : ~Wall(RayAt(camera, 0, k))
        BY <2>3, <2>5, <2>8 DEF check_wall_collision
    <2>11. Ends(0, m)'
        BY <2>1, <2>9, <2>10 DEF Ends, check_wall_collision, TileOf, OnMap, RayAt
    <2>12. RayAt(camera, 0, m) \in trace_selection_ray(0)'
        BY <2>1, <2>5, <2>7, <2>11 DEF trace_selection_ray, RayAt
    <2>13. world_map' \ {TileOf(RayAt(camera, 0, m))} = world_map
        BY <2>5, <2>7
    <2> QED BY <2>12, <2>13
<1>2. IInv /\ [Next]_vars => [Step]_vars
    BY <1>1
<1> QED BY <1>2, Invariance, PTL DEF Spec, StraightPlaceUndone
-----------------------------------------------------------------------------
(* The columns.                                                            *)

\* What a factor that is not negative does to the sign of a product.
LEMMA ProductSigns ==
    ASSUME NEW u \in Int, NEW a \in Nat
    PROVE  /\ u * a \in Int
           /\ u >= 0 => u * a >= 0
           /\ u <= 0 => u * a <= 0
           /\ u > 0 /\ a > 0 => u * a > 0
           /\ u < 0 /\ a > 0 => u * a < 0
OBVIOUS

LEMMA ProductOrder ==
    ASSUME NEW u \in Int, NEW v \in Int, NEW a \in Nat, u <= v
    PROVE  u * a <= v * a
<1>1. (v - u) * a >= 0
    BY ProductSigns
<1>2. (v - u) * a = v * a - u * a
    OBVIOUS
<1>3. u * a \in Int /\ v * a \in Int
    OBVIOUS
<1> QED BY <1>1, <1>2, <1>3

LEMMA AbsIsNat == \A d \in Int : Abs(d) \in Nat /\ (Abs(d) = 0 <=> d = 0)
BY DEF Abs

\* Two lengths forward along the axes are in the ratio of the direction exactly when
\* the point they lead to is on the line of sight.
LEMMA OnTheLine ==
    ASSUME NEW u \in Int, NEW v \in Int, NEW a \in Int, NEW b \in Int,
           (IF a < 0 THEN -u ELSE u) * Abs(b) = (IF b < 0 THEN -v ELSE v) * Abs(a)
    PROVE  u * b = v * a
<1>1. CASE a < 0 /\ b < 0
    <2>1. (-u) * (-b) = (-v) * (-a)
        BY <1>1 DEF Abs
    <2> QED BY <2>1
<1>2. CASE a < 0 /\ b >= 0
    <2>1. (-u) * b = v * (-a)
        BY <1>2 DEF Abs
    <2> QED BY <2>1
<1>3. CASE a >= 0 /\ b < 0
    <2>1. u * (-b) = (-v) * a
        BY <1>3 DEF Abs
    <2> QED BY <2>1
<1>4. CASE a >= 0 /\ b >= 0
    BY <1>4 DEF Abs
<1> QED BY <1>1, <1>2, <1>3, <1>4

\* A march is in a tile that the line of sight has met: as Crosses, but the camera
\* may be at the grid line by which the line leaves the tile.
Met(p, dir, t) ==
    /\ Enters(p, dir, t, "x") + TILE >= 0 /\ Enters(p, dir, t, "y") + TILE >= 0
    /\ Enters(p, dir, t, "x") * Abs(dir.y) < (Enters(p, dir, t, "y") + TILE) * Abs(dir.x)
    /\ Enters(p, dir, t, "y") * Abs(dir.x) < (Enters(p, dir, t, "x") + TILE) * Abs(dir.y)

States == [tile : Position, side : Axes, side_dist : [Axes -> Int]]

\* side_dist is the length at which the line of sight leaves the tile.
Measured(p, dir, s) ==
    /\ s \in States
    /\ \A i \in Axes : s.side_dist[i] = Enters(p, dir, s.tile, i) + TILE

EnteredBySide(p, dir, s) ==
    s.side = "x" <=> Enters(p, dir, s.tile, "x") * Abs(dir.y)
                     > Enters(p, dir, s.tile, "y") * Abs(dir.x)

\* Where the line of sight enters a tile, along each axis.
LEMMA EntersAt ==
    ASSUME NEW p \in Position, NEW dir \in Position, NEW t \in Position
    PROVE  /\ Enters(p, dir, t, "x")
                = IF dir.x < 0 THEN p.x - 80 * (t.x + 1) ELSE 80 * t.x - p.x
           /\ Enters(p, dir, t, "y")
                = IF dir.y < 0 THEN p.y - 80 * (t.y + 1) ELSE 80 * t.y - p.y
           /\ Enters(p, dir, t, "x") \in Int /\ Enters(p, dir, t, "y") \in Int
           /\ p.x \in Int /\ p.y \in Int /\ dir.x \in Int /\ dir.y \in Int
           /\ t.x \in Int /\ t.y \in Int
<1>1. /\ p.x \in Int /\ p.y \in Int /\ dir.x \in Int /\ dir.y \in Int
      /\ t.x \in Int /\ t.y \in Int
    BY DEF Position
<1>2. p["x"] = p.x /\ p["y"] = p.y /\ dir["x"] = dir.x /\ dir["y"] = dir.y
      /\ t["x"] = t.x /\ t["y"] = t.y
    OBVIOUS
<1>3. /\ Enters(p, dir, t, "x")
           = IF dir.x < 0 THEN p.x - 80 * (t.x + 1) ELSE 80 * t.x - p.x
      /\ Enters(p, dir, t, "y")
           = IF dir.y < 0 THEN p.y - 80 * (t.y + 1) ELSE 80 * t.y - p.y
    BY <1>2 DEF Enters, TILE
<1> QED BY <1>1, <1>3

\* A tile further along an axis is entered a tile later.
LEMMA OneTileOn ==
    ASSUME NEW p \in Position, NEW dir \in Position, NEW t \in Position, NEW u \in Position
    PROVE  /\ u.x = t.x => Enters(p, dir, u, "x") = Enters(p, dir, t, "x")
           /\ u.y = t.y => Enters(p, dir, u, "y") = Enters(p, dir, t, "y")
           /\ u.x = (IF dir.x < 0 THEN t.x - 1 ELSE t.x + 1) =>
                 Enters(p, dir, u, "x") = Enters(p, dir, t, "x") + 80
           /\ u.y = (IF dir.y < 0 THEN t.y - 1 ELSE t.y + 1) =>
                 Enters(p, dir, u, "y") = Enters(p, dir, t, "y") + 80
<1>1. /\ Enters(p, dir, t, "x")
           = IF dir.x < 0 THEN p.x - 80 * (t.x + 1) ELSE 80 * t.x - p.x
      /\ Enters(p, dir, t, "y")
           = IF dir.y < 0 THEN p.y - 80 * (t.y + 1) ELSE 80 * t.y - p.y
      /\ t.x \in Int /\ t.y \in Int
    BY EntersAt
<1>2. /\ Enters(p, dir, u, "x")
           = IF dir.x < 0 THEN p.x - 80 * (u.x + 1) ELSE 80 * u.x - p.x
      /\ Enters(p, dir, u, "y")
           = IF dir.y < 0 THEN p.y - 80 * (u.y + 1) ELSE 80 * u.y - p.y
      /\ p.x \in Int /\ p.y \in Int /\ dir.x \in Int /\ dir.y \in Int
      /\ u.x \in Int /\ u.y \in Int
    BY EntersAt
<1> QED BY <1>1, <1>2

LEMMA SameSign ==
    ASSUME NEW u \in Int, NEW d \in Int, (IF d < 0 THEN -u ELSE u) >= 0
    PROVE  u * d >= 0
<1>1. CASE d < 0
    <2>1. (-u) * (-d) >= 0
        BY <1>1, ProductSigns
    <2> QED BY <2>1
<1>2. CASE d >= 0
    BY <1>2, ProductSigns
<1> QED BY <1>1, <1>2

\* No corner that is ahead, or where the camera is, lies in the line of sight.
LEMMA CornerAhead ==
    ASSUME NEW p \in Position, NEW dir \in Position, ~MeetsCorner(p, dir),
           NEW i \in 0 .. MAP_WIDTH, NEW j \in 0 .. MAP_HEIGHT, NEW u \in Int, NEW v \in Int,
           u = 80 * i - p.x, v = 80 * j - p.y,
           (IF dir.x < 0 THEN -u ELSE u) >= 0, (IF dir.y < 0 THEN -v ELSE v) >= 0
    PROVE  u * dir.y # v * dir.x
<1>1. u * dir.x >= 0 /\ v * dir.y >= 0
    BY SameSign DEF Position
<1> QED BY <1>1 DEF MeetsCorner, TILE

\* Unless it meets a corner, the line of sight leaves a tile of the map by one of its
\* lines first.
LEMMA NoTie ==
    ASSUME NEW p \in Position, NEW dir \in Position, NEW t \in Position,
           OnMap(t), ~MeetsCorner(p, dir),
           Enters(p, dir, t, "x") + TILE >= 0, Enters(p, dir, t, "y") + TILE >= 0
    PROVE  (Enters(p, dir, t, "x") + TILE) * Abs(dir.y)
             # (Enters(p, dir, t, "y") + TILE) * Abs(dir.x)
<1> DEFINE i == IF dir.x < 0 THEN t.x ELSE t.x + 1
           j == IF dir.y < 0 THEN t.y ELSE t.y + 1
           u == 80 * i - p.x
           v == 80 * j - p.y
<1>1. MAP_WIDTH \in Nat /\ MAP_HEIGHT \in Nat
    BY SandboxAssumption DEF SandboxAssumption
<1>2. i \in 0 .. MAP_WIDTH /\ j \in 0 .. MAP_HEIGHT
    <2>1. t.x \in Int /\ t.y \in Int
        BY DEF Position
    <2> QED BY <1>1, <2>1 DEF OnMap
<1>3. /\ Enters(p, dir, t, "x") + TILE = IF dir.x < 0 THEN -u ELSE u
      /\ Enters(p, dir, t, "y") + TILE = IF dir.y < 0 THEN -v ELSE v
      /\ u \in Int /\ v \in Int /\ dir.x \in Int /\ dir.y \in Int
    <2>1. /\ Enters(p, dir, t, "x")
                = IF dir.x < 0 THEN p.x - 80 * (t.x + 1) ELSE 80 * t.x - p.x
          /\ Enters(p, dir, t, "y")
                = IF dir.y < 0 THEN p.y - 80 * (t.y + 1) ELSE 80 * t.y - p.y
          /\ p.x \in Int /\ p.y \in Int /\ dir.x \in Int /\ dir.y \in Int
          /\ t.x \in Int /\ t.y \in Int
        BY EntersAt
    <2> QED BY <2>1 DEF TILE
<1>4. u = 80 * i - p.x /\ v = 80 * j - p.y
    OBVIOUS
<1>5. (IF dir.x < 0 THEN -u ELSE u) >= 0 /\ (IF dir.y < 0 THEN -v ELSE v) >= 0
    BY <1>3
<1> HIDE DEF i, j, u, v
<1>6. u * dir.y # v * dir.x
    BY <1>2, <1>3, <1>4, <1>5, CornerAhead
<1> QED BY <1>3, <1>6, OnTheLine

\* The next tile by a line of x: the arithmetic.
LEMMA NextByX ==
    ASSUME NEW x \in Int, NEW y \in Int, NEW a \in Nat, NEW b \in Nat,
           x + 80 >= 0, y + 80 >= 0, y * a < (x + 80) * b, (x + 80) * b < (y + 80) * a
    PROVE  /\ x + 160 > 0 /\ y + 80 > 0
           /\ y * a < (x + 160) * b
<1>1. (x + 80) * b >= 0
    BY ProductSigns
<1>2. y + 80 # 0
    BY <1>1, ProductSigns
<1>3. (x + 80) * b <= (x + 160) * b
    BY ProductOrder
<1>4. y * a \in Int /\ (x + 80) * b \in Int /\ (x + 160) * b \in Int
    OBVIOUS
<1> QED BY <1>2, <1>3, <1>4

\* A jump goes to the next tile that the line of sight crosses.
LEMMA JumpCrosses ==
    ASSUME NEW p \in Position, NEW dir \in Position, NEW s,
           Measured(p, dir, s), Met(p, dir, s.tile), OnMap(s.tile), ~MeetsCorner(p, dir)
    PROVE  LET n == Jump(s, dir) IN
           /\ Measured(p, dir, n) /\ Crosses(p, dir, n.tile) /\ EnteredBySide(p, dir, n)
           /\ \/ /\ Enters(p, dir, n.tile, "x") = Enters(p, dir, s.tile, "x") + 80
                 /\ Enters(p, dir, n.tile, "y") = Enters(p, dir, s.tile, "y")
              \/ /\ Enters(p, dir, n.tile, "x") = Enters(p, dir, s.tile, "x")
                 /\ Enters(p, dir, n.tile, "y") = Enters(p, dir, s.tile, "y") + 80
<1> DEFINE n == Jump(s, dir)
           x == Enters(p, dir, s.tile, "x")
           y == Enters(p, dir, s.tile, "y")
           a == Abs(dir.x)
           b == Abs(dir.y)
<1>1. /\ s.tile \in Position /\ s.tile.x \in Int /\ s.tile.y \in Int
      /\ s.side_dist \in [Axes -> Int]
      /\ s.side_dist["x"] = x + 80 /\ s.side_dist["y"] = y + 80
    BY DEF Measured, States, Position, Axes, TILE
<1>2. x \in Int /\ y \in Int /\ a \in Nat /\ b \in Nat /\ dir.x \in Int /\ dir.y \in Int
    BY <1>1, EntersAt, AbsIsNat
<1>3. x + 80 >= 0 /\ y + 80 >= 0 /\ x * b < (y + 80) * a /\ y * a < (x + 80) * b
    BY DEF Met, TILE
<1>4. (x + 80) * b # (y + 80) * a
    BY <1>1, <1>3, NoTie DEF TILE
<1>5. (x + 80) * b \in Int /\ (y + 80) * a \in Int
    BY <1>2
<1>6. CASE (x + 80) * b < (y + 80) * a
    <2>1. /\ n.tile = [s.tile EXCEPT !["x"] = @ + IF dir["x"] < 0 THEN -1 ELSE 1]
          /\ n.side = "x" /\ n.side_dist = [s.side_dist EXCEPT !["x"] = @ + 80]
          /\ n = [tile |-> n.tile, side |-> n.side, side_dist |-> n.side_dist]
        BY <1>1, <1>6 DEF Jump, TILE
    <2>2. /\ n.tile \in Position /\ n.tile.y = s.tile.y
          /\ n.tile.x = IF dir.x < 0 THEN s.tile.x - 1 ELSE s.tile.x + 1
        BY <1>1, <1>2, <2>1 DEF Position
    <2>3. /\ n.side_dist \in [Axes -> Int]
          /\ n.side_dist["x"] = x + 160 /\ n.side_dist["y"] = y + 80
        BY <1>1, <1>2, <2>1 DEF Axes
    <2>4. Enters(p, dir, n.tile, "x") = x + 80 /\ Enters(p, dir, n.tile, "y") = y
        BY <1>1, <1>2, <2>2, OneTileOn
    <2>5. Measured(p, dir, n)
        BY <2>1, <2>2, <2>3, <2>4 DEF Measured, States, Axes, TILE
    <2>6. x + 160 > 0 /\ y + 80 > 0 /\ y * a < (x + 160) * b
        BY <1>2, <1>3, <1>6, NextByX
    <2>7. Crosses(p, dir, n.tile)
        BY <1>2, <1>6, <2>4, <2>6 DEF Crosses, Axes, TILE
    <2>8. EnteredBySide(p, dir, n)
        BY <1>2, <1>3, <2>1, <2>4 DEF EnteredBySide
    <2> QED BY <2>4, <2>5, <2>7, <2>8
<1>7. CASE (y + 80) * a < (x + 80) * b
    <2>1. /\ n.tile = [s.tile EXCEPT !["y"] = @ + IF dir["y"] < 0 THEN -1 ELSE 1]
          /\ n.side = "y" /\ n.side_dist = [s.side_dist EXCEPT !["y"] = @ + 80]
          /\ n = [tile |-> n.tile, side |-> n.side, side_dist |-> n.side_dist]
        BY <1>1, <1>5, <1>7 DEF Jump, TILE
    <2>2. /\ n.tile \in Position /\ n.tile.x = s.tile.x
          /\ n.tile.y = IF dir.y < 0 THEN s.tile.y - 1 ELSE s.tile.y + 1
        BY <1>1, <1>2, <2>1 DEF Position
    <2>3. /\ n.side_dist \in [Axes -> Int]
          /\ n.side_dist["x"] = x + 80 /\ n.side_dist["y"] = y + 160
        BY <1>1, <1>2, <2>1 DEF Axes
    <2>4. Enters(p, dir, n.tile, "x") = x /\ Enters(p, dir, n.tile, "y") = y + 80
        BY <1>1, <1>2, <2>2, OneTileOn
    <2>5. Measured(p, dir, n)
        BY <2>1, <2>2, <2>3, <2>4 DEF Measured, States, Axes, TILE
    <2>6. y + 160 > 0 /\ x + 80 > 0 /\ x * b < (y + 160) * a
        BY <1>2, <1>3, <1>7, NextByX
    <2>7. Crosses(p, dir, n.tile)
        BY <1>2, <1>7, <2>4, <2>6 DEF Crosses, Axes, TILE
    <2>8. EnteredBySide(p, dir, n)
        BY <1>2, <1>3, <2>1, <2>4 DEF EnteredBySide
    <2> QED BY <2>4, <2>5, <2>7, <2>8
<1> QED BY <1>4, <1>5, <1>6, <1>7

\* The start of a line of sight in the tile of the camera: the arithmetic.
LEMMA StartIsMet ==
    ASSUME NEW x \in -80 .. 0, NEW y \in -80 .. 0, NEW a \in Nat, NEW b \in Nat,
           a > 0 \/ b > 0, x = -80 => a > 0, a = 0 => x # 0,
           y = -80 => b > 0, b = 0 => y # 0, ~(x \in {-80, 0} /\ y \in {-80, 0})
    PROVE  x * b < (y + 80) * a
<1>1. (y + 80) * a >= 0 /\ x * b <= 0 /\ (y + 80) * a \in Int /\ x * b \in Int
    BY ProductSigns
<1>2. CASE x < 0 /\ b > 0
    BY <1>1, <1>2, ProductSigns
<1>3. CASE x = 0 \/ b = 0
    <2>1. y + 80 > 0 /\ a > 0
        BY <1>3
    <2>2. (y + 80) * a > 0
        BY <2>1, ProductSigns
    <2> QED BY <1>1, <2>2
<1> QED BY <1>1, <1>2, <1>3

LEMMA OutsetIsMet ==
    ASSUME NEW p \in Position, NEW dir \in Position, p.x >= 0, p.y >= 0,
           OnMap(TileOf(p)), ~MeetsCorner(p, dir), dir.x # 0 \/ dir.y # 0
    PROVE  /\ Measured(p, dir, Outset(p, dir)) /\ Met(p, dir, TileOf(p))
           /\ Enters(p, dir, TileOf(p), "x") \in -80 .. 0
           /\ Enters(p, dir, TileOf(p), "y") \in -80 .. 0
<1> DEFINE t == TileOf(p)
           x == Enters(p, dir, t, "x")
           y == Enters(p, dir, t, "y")
           a == Abs(dir.x)
           b == Abs(dir.y)
<1>1. /\ t = [x |-> t.x, y |-> t.y] /\ t \in Position /\ t.x \in Int /\ t.y \in Int
      /\ 80 * t.x <= p.x /\ p.x < 80 * t.x + 80
      /\ 80 * t.y <= p.y /\ p.y < 80 * t.y + 80
    BY TileBounds DEF TileOf, Position, TILE
<1> HIDE DEF t
<1>2. /\ x = IF dir.x < 0 THEN p.x - 80 * (t.x + 1) ELSE 80 * t.x - p.x
      /\ y = IF dir.y < 0 THEN p.y - 80 * (t.y + 1) ELSE 80 * t.y - p.y
      /\ x \in Int /\ y \in Int /\ p.x \in Int /\ p.y \in Int /\ dir.x \in Int /\ dir.y \in Int
    BY <1>1, EntersAt
<1> HIDE DEF x, y
<1>3. a \in Nat /\ b \in Nat /\ (a = 0 <=> dir.x = 0) /\ (b = 0 <=> dir.y = 0)
    BY <1>2, AbsIsNat
<1> HIDE DEF a, b
<1>4. /\ x \in -80 .. 0 /\ y \in -80 .. 0
      /\ x \in {-80, 0} => p.x = 80 * t.x
      /\ y \in {-80, 0} => p.y = 80 * t.y
      /\ x = -80 => a > 0
      /\ y = -80 => b > 0
      /\ a > 0 \/ b > 0
    BY <1>1, <1>2, <1>3
<1>5. /\ t.x \in 0 .. MAP_WIDTH /\ t.x + 1 \in 0 .. MAP_WIDTH
      /\ t.y \in 0 .. MAP_HEIGHT /\ t.y + 1 \in 0 .. MAP_HEIGHT
    BY <1>1, SandboxAssumption DEF SandboxAssumption, OnMap, t
<1> DEFINE i == IF dir.x < 0 THEN t.x ELSE t.x + 1
           j == IF dir.y < 0 THEN t.y ELSE t.y + 1
           u == 80 * i - p.x
           v == 80 * j - p.y
<1>6. /\ i \in 0 .. MAP_WIDTH /\ j \in 0 .. MAP_HEIGHT /\ u \in Int /\ v \in Int
      /\ u = 80 * i - p.x /\ v = 80 * j - p.y
      /\ (IF dir.x < 0 THEN -u ELSE u) >= 0 /\ (IF dir.y < 0 THEN -v ELSE v) >= 0
    BY <1>1, <1>2, <1>5
<1>7. /\ a = 0 => x # 0
      /\ b = 0 => y # 0
      /\ ~(x \in {-80, 0} /\ y \in {-80, 0})
    <2> HIDE DEF i, j, u, v
    <2>1. 0 * dir.x = 0 /\ 0 * dir.y = 0 /\ u * 0 = 0 /\ v * 0 = 0
        BY <1>2, <1>6
    <2>2. /\ 0 \in Int
          /\ (IF dir.x < 0 THEN -0 ELSE 0) >= 0
          /\ (IF dir.y < 0 THEN -0 ELSE 0) >= 0
        OBVIOUS
    <2>3. ASSUME a = 0, x = 0 PROVE FALSE
        <3>1. 0 = 80 * t.x - p.x /\ dir.x = 0
            BY <1>1, <1>2, <1>3, <1>4, <2>3
        <3>2. 0 * dir.y # v * dir.x
            BY <1>5, <1>6, <2>2, <3>1, CornerAhead
        <3> QED BY <2>1, <3>1, <3>2
    <2>4. ASSUME b = 0, y = 0 PROVE FALSE
        <3>1. 0 = 80 * t.y - p.y /\ dir.y = 0
            BY <1>1, <1>2, <1>3, <1>4, <2>4
        <3>2. u * dir.y # 0 * dir.x
            BY <1>5, <1>6, <2>2, <3>1, CornerAhead
        <3> QED BY <2>1, <3>1, <3>2
    <2>5. ASSUME x \in {-80, 0}, y \in {-80, 0} PROVE FALSE
        <3>1. 0 = 80 * t.x - p.x /\ 0 = 80 * t.y - p.y
            BY <1>1, <1>2, <1>4, <2>5
        <3>2. 0 * dir.y # 0 * dir.x
            BY <1>5, <2>2, <3>1, CornerAhead
        <3> QED BY <2>1, <3>2
    <2> QED BY <2>3, <2>4, <2>5
<1>8. x * b < (y + 80) * a
    BY <1>3, <1>4, <1>7, StartIsMet
<1>9. y * a < (x + 80) * b
    <2>1. b > 0 \/ a > 0
        BY <1>4
    <2>2. ~(y \in {-80, 0} /\ x \in {-80, 0})
        BY <1>7
    <2> QED BY <1>3, <1>4, <1>7, <2>1, <2>2, StartIsMet
<1>10. Met(p, dir, t)
    BY <1>4, <1>8, <1>9 DEF Met, TILE, x, y, a, b
<1>11. Measured(p, dir, Outset(p, dir))
    <2>1. /\ Outset(p, dir) =
               [tile |-> t, side |-> "x",
                side_dist |-> [k \in Axes |-> SideDist(p[k], t[k], dir[k])]]
        BY DEF Outset, t
    <2>2. SideDist(p["x"], t["x"], dir["x"]) = x + 80
        BY <1>1, <1>2 DEF SideDist, TILE
    <2>3. SideDist(p["y"], t["y"], dir["y"]) = y + 80
        BY <1>1, <1>2 DEF SideDist, TILE
    <2>4. [k \in Axes |-> SideDist(p[k], t[k], dir[k])] \in [Axes -> Int]
        BY <1>2, <2>2, <2>3 DEF Axes
    <2> QED BY <1>1, <2>1, <2>2, <2>3, <2>4 DEF Measured, States, Axes, TILE, x, y
<1> QED BY <1>4, <1>10, <1>11 DEF t, x, y

\* Of two tiles that the line of sight crosses, none is further along one axis and
\* less far along the other.
LEMMA Chain ==
    ASSUME NEW x \in Int, NEW y \in Int, NEW u \in Int, NEW v \in Int,
           NEW a \in Nat, NEW b \in Nat,
           x * b < (y + 80) * a, v * a < (u + 80) * b, x >= u + 80, v >= y + 80
    PROVE  FALSE
<1>1. (y + 80) * a <= v * a /\ (u + 80) * b <= x * b
    BY ProductOrder
<1>2. /\ (y + 80) * a \in Int /\ v * a \in Int
      /\ (u + 80) * b \in Int /\ x * b \in Int
    OBVIOUS
<1> QED BY <1>1, <1>2

\* How many tiles a tile is ahead of that of the camera, along each axis.
AheadX(p, dir, t) == IF dir.x < 0 THEN TileOf(p).x - t.x ELSE t.x - TileOf(p).x
AheadY(p, dir, t) == IF dir.y < 0 THEN TileOf(p).y - t.y ELSE t.y - TileOf(p).y

LEMMA CrossedIsAhead ==
    ASSUME NEW p \in Position, NEW dir \in Position, NEW t \in Position,
           TileOf(p) \in Position,
           Enters(p, dir, TileOf(p), "x") \in -80 .. 0,
           Enters(p, dir, TileOf(p), "y") \in -80 .. 0,
           Crosses(p, dir, t)
    PROVE  /\ AheadX(p, dir, t) \in Nat /\ AheadY(p, dir, t) \in Nat
           /\ Away(p, t) = AheadX(p, dir, t) + AheadY(p, dir, t)
           /\ Enters(p, dir, t, "x")
                = Enters(p, dir, TileOf(p), "x") + 80 * AheadX(p, dir, t)
           /\ Enters(p, dir, t, "y")
                = Enters(p, dir, TileOf(p), "y") + 80 * AheadY(p, dir, t)
<1> DEFINE s == TileOf(p)
<1> HIDE DEF s
<1>1. /\ Enters(p, dir, t, "x")
           = IF dir.x < 0 THEN p.x - 80 * (t.x + 1) ELSE 80 * t.x - p.x
      /\ Enters(p, dir, t, "y")
           = IF dir.y < 0 THEN p.y - 80 * (t.y + 1) ELSE 80 * t.y - p.y
      /\ t.x \in Int /\ t.y \in Int
    BY EntersAt
<1>2. /\ Enters(p, dir, s, "x")
           = IF dir.x < 0 THEN p.x - 80 * (s.x + 1) ELSE 80 * s.x - p.x
      /\ Enters(p, dir, s, "y")
           = IF dir.y < 0 THEN p.y - 80 * (s.y + 1) ELSE 80 * s.y - p.y
      /\ p.x \in Int /\ p.y \in Int /\ dir.x \in Int /\ dir.y \in Int
      /\ s.x \in Int /\ s.y \in Int
    BY EntersAt DEF s
<1>3. Enters(p, dir, t, "x") + 80 > 0 /\ Enters(p, dir, t, "y") + 80 > 0
    BY DEF Crosses, Axes, TILE
<1>4. /\ AheadX(p, dir, t) = IF dir.x < 0 THEN s.x - t.x ELSE t.x - s.x
      /\ AheadY(p, dir, t) = IF dir.y < 0 THEN s.y - t.y ELSE t.y - s.y
    BY DEF AheadX, AheadY, s
<1>5. /\ Enters(p, dir, t, "x") = Enters(p, dir, s, "x") + 80 * AheadX(p, dir, t)
      /\ Enters(p, dir, t, "y") = Enters(p, dir, s, "y") + 80 * AheadY(p, dir, t)
    BY <1>1, <1>2, <1>4
<1>6. Enters(p, dir, s, "x") <= 0 /\ Enters(p, dir, s, "y") <= 0
    BY DEF s
<1>7. AheadX(p, dir, t) \in Nat /\ AheadY(p, dir, t) \in Nat
    BY <1>1, <1>2, <1>3, <1>4, <1>5, <1>6
<1>8. Away(p, t) = AheadX(p, dir, t) + AheadY(p, dir, t)
    <2>1. Away(p, t) = Abs(t.x - s.x) + Abs(t.y - s.y)
        BY DEF Away, s
    <2> QED BY <1>1, <1>2, <1>4, <1>7, <2>1 DEF Abs
<1> QED BY <1>5, <1>7, <1>8 DEF s

\* So the one that is further away is at least as far along both axes, and no two
\* are equally far away.
LEMMA FurtherIsAhead ==
    ASSUME NEW p \in Position, NEW dir \in Position,
           NEW t \in Position, NEW u \in Position,
           TileOf(p) \in Position,
           Enters(p, dir, TileOf(p), "x") \in -80 .. 0,
           Enters(p, dir, TileOf(p), "y") \in -80 .. 0,
           Crosses(p, dir, t), Crosses(p, dir, u), Away(p, t) >= Away(p, u)
    PROVE  /\ AheadX(p, dir, t) >= AheadX(p, dir, u)
           /\ AheadY(p, dir, t) >= AheadY(p, dir, u)
           /\ Away(p, t) = Away(p, u) => t = u
<1> DEFINE i == AheadX(p, dir, t)
           j == AheadY(p, dir, t)
           k == AheadX(p, dir, u)
           l == AheadY(p, dir, u)
           x == Enters(p, dir, t, "x")
           y == Enters(p, dir, t, "y")
           z == Enters(p, dir, u, "x")
           w == Enters(p, dir, u, "y")
           a == Abs(dir.x)
           b == Abs(dir.y)
<1>1. /\ i \in Nat /\ j \in Nat /\ Away(p, t) = i + j
      /\ x = Enters(p, dir, TileOf(p), "x") + 80 * i
      /\ y = Enters(p, dir, TileOf(p), "y") + 80 * j
    BY CrossedIsAhead
<1>2. /\ k \in Nat /\ l \in Nat /\ Away(p, u) = k + l
      /\ z = Enters(p, dir, TileOf(p), "x") + 80 * k
      /\ w = Enters(p, dir, TileOf(p), "y") + 80 * l
    BY CrossedIsAhead
<1>3. a \in Nat /\ b \in Nat
    BY EntersAt, AbsIsNat
<1>4. /\ x * b < (y + 80) * a /\ y * a < (x + 80) * b
      /\ z * b < (w + 80) * a /\ w * a < (z + 80) * b
    BY DEF Crosses, TILE
<1>5. t = [x |-> t.x, y |-> t.y] /\ u = [x |-> u.x, y |-> u.y]
      /\ t.x \in Int /\ t.y \in Int /\ u.x \in Int /\ u.y \in Int
      /\ TileOf(p).x \in Int /\ TileOf(p).y \in Int
    BY DEF Position
<1>6. /\ i = k => t.x = u.x
      /\ j = l => t.y = u.y
    BY <1>5 DEF AheadX, AheadY
<1> HIDE DEF i, j, k, l, x, y, z, w, a, b
<1>7. x \in Int /\ y \in Int /\ z \in Int /\ w \in Int
    BY <1>1, <1>2
<1>8. ASSUME i < k PROVE FALSE
    <2>1. z >= x + 80 /\ y >= w + 80
        BY <1>1, <1>2, <1>8
    <2> QED BY <1>3, <1>4, <1>7, <2>1, Chain
<1>9. ASSUME j < l PROVE FALSE
    <2>1. w >= y + 80 /\ x >= z + 80
        BY <1>1, <1>2, <1>9
    <2> QED BY <1>3, <1>4, <1>7, <2>1, Chain
<1>10. i >= k /\ j >= l
    BY <1>1, <1>2, <1>8, <1>9
<1>11. Away(p, t) = Away(p, u) => i = k /\ j = l
    BY <1>1, <1>2, <1>10
<1> QED BY <1>5, <1>6, <1>10, <1>11 DEF i, j, k, l

\* The recursion of a march.
Marching(p, dir, after) ==
    [n \in 0 .. MAP_WIDTH + MAP_HEIGHT |->
        IF n = 0 THEN Outset(p, dir)
        ELSE IF n > 1 /\ Over(after[n - 1]) THEN after[n - 1] ELSE Jump(after[n - 1], dir)]

LEMMA JumpTypes ==
    ASSUME NEW dir \in Position, NEW s \in States PROVE Jump(s, dir) \in States
<1> DEFINE i == IF s.side_dist["x"] * Abs(dir.y) < s.side_dist["y"] * Abs(dir.x)
                THEN "x" ELSE "y"
<1>1. i \in Axes
    BY DEF Axes
<1> HIDE DEF i
<1>2. /\ [s.tile EXCEPT ![i] = @ + IF dir[i] < 0 THEN -1 ELSE 1] \in Position
      /\ [s.side_dist EXCEPT ![i] = @ + TILE] \in [Axes -> Int]
    BY <1>1 DEF States, Position, Axes, TILE
<1> QED BY <1>1, <1>2 DEF Jump, States, i

LEMMA MarchingExists ==
    ASSUME NEW p, NEW dir \in Position, Outset(p, dir) \in States
    PROVE  \E after : after = Marching(p, dir, after)
<1> DEFINE N == MAP_WIDTH + MAP_HEIGHT
           step == [n \in 1 .. N |->
                       [s \in States |-> IF n > 1 /\ Over(s) THEN s ELSE Jump(s, dir)]]
<1>1. N \in Nat
    BY SandboxAssumption DEF SandboxAssumption
<1>2. step \in [1 .. N -> [States -> States]]
    BY JumpTypes
<1>3. \E w : Computes(w, N, States, Outset(p, dir), step)
    <2> HIDE DEF N, step
    <2> QED BY <1>1, <1>2, RecursionExists
<1>4. PICK w : Computes(w, N, States, Outset(p, dir), step)
    BY <1>3
<1>5. /\ w \in [0 .. N -> States] /\ w[0] = Outset(p, dir)
      /\ \A n \in 1 .. N : w[n] = step[n][w[n - 1]]
    <2> HIDE DEF N, step
    <2> QED BY <1>4 DEF Computes
<1>6. ASSUME NEW n \in 0 .. N PROVE w[n] = Marching(p, dir, w)[n]
    <2>1. CASE n = 0
        BY <1>5, <2>1 DEF Marching
    <2>2. CASE n # 0
        <3>1. n \in 1 .. N /\ n - 1 \in 0 .. N
            BY <1>1, <2>2
        <3>2. w[n] = step[n][w[n - 1]] /\ w[n - 1] \in States
            BY <1>5, <3>1
        <3>3. w[n] = IF n > 1 /\ Over(w[n - 1]) THEN w[n - 1] ELSE Jump(w[n - 1], dir)
            BY <3>1, <3>2
        <3> QED BY <2>2, <3>3 DEF Marching
    <2> QED BY <2>1, <2>2
<1>7. w = [n \in 0 .. N |-> w[n]]
    BY <1>5
<1>8. Marching(p, dir, w) = [n \in 0 .. N |-> Marching(p, dir, w)[n]]
    BY DEF Marching
<1> HIDE DEF N, step
<1>9. w = Marching(p, dir, w)
    BY <1>6, <1>7, <1>8
<1> QED BY <1>9

\* What a march knows of the tile it is in: the line of sight crosses it, and no block
\* that the line crosses is nearer.
Nearest(p, dir, s) ==
    /\ Measured(p, dir, s) /\ Crosses(p, dir, s.tile) /\ EnteredBySide(p, dir, s)
    /\ Away(p, s.tile) \in Nat \ {0}
    /\ \A t \in world_map \ {TileOf(p)} :
          Crosses(p, dir, t) => Away(p, s.tile) <= Away(p, t)

LEMMA CrossesIsMet ==
    ASSUME NEW p \in Position, NEW dir \in Position, NEW t \in Position, Crosses(p, dir, t)
    PROVE  Met(p, dir, t)
<1>1. Enters(p, dir, t, "x") \in Int /\ Enters(p, dir, t, "y") \in Int
    BY EntersAt
<1> QED BY <1>1 DEF Crosses, Met, Axes, TILE

\* The camera of the property: on the map, in a line of sight that meets no corner.
Looks(p, dir) ==
    /\ p \in Position /\ dir \in Position /\ p.x >= 0 /\ p.y >= 0
    /\ OnMap(TileOf(p)) /\ ~MeetsCorner(p, dir) /\ (dir.x # 0 \/ dir.y # 0)
    /\ world_map \subseteq Tiles

LEMMA LooksFrom ==
    ASSUME NEW p, NEW dir, Looks(p, dir)
    PROVE  /\ p \in Position /\ dir \in Position /\ TileOf(p) \in Position
           /\ Outset(p, dir) \in States /\ Outset(p, dir).tile = TileOf(p)
           /\ Measured(p, dir, Outset(p, dir)) /\ Met(p, dir, TileOf(p))
           /\ Enters(p, dir, TileOf(p), "x") \in -80 .. 0
           /\ Enters(p, dir, TileOf(p), "y") \in -80 .. 0
           /\ world_map \subseteq Position
<1>1. p \in Position /\ dir \in Position
    BY DEF Looks
<1>2. /\ Measured(p, dir, Outset(p, dir)) /\ Met(p, dir, TileOf(p))
      /\ Enters(p, dir, TileOf(p), "x") \in -80 .. 0
      /\ Enters(p, dir, TileOf(p), "y") \in -80 .. 0
    BY OutsetIsMet DEF Looks
<1>3. TileOf(p) \in Position
    BY <1>1, TileBounds DEF TileOf, Position
<1>4. world_map \subseteq Position
    BY DEF Looks, Tiles, Position
<1>5. Outset(p, dir) \in States /\ Outset(p, dir).tile = TileOf(p)
    BY <1>2 DEF Measured, Outset
<1> QED BY <1>1, <1>2, <1>3, <1>4, <1>5

\* The camera's tile is the one that is not away.
LEMMA NotAway ==
    ASSUME NEW p, NEW dir, NEW t \in Position, Looks(p, dir)
    PROVE  /\ Away(p, t) \in Nat
           /\ Away(p, t) = 0 <=> t = TileOf(p)
           /\ AheadX(p, dir, TileOf(p)) = 0 /\ AheadY(p, dir, TileOf(p)) = 0
<1>1. TileOf(p) \in Position
    BY LooksFrom
<1> DEFINE s == TileOf(p)
<1>2. /\ t = [x |-> t.x, y |-> t.y] /\ s = [x |-> s.x, y |-> s.y]
      /\ t.x \in Int /\ t.y \in Int /\ s.x \in Int /\ s.y \in Int
    BY <1>1 DEF Position
<1> HIDE DEF s
<1>3. Away(p, t) = Abs(t.x - s.x) + Abs(t.y - s.y)
    BY DEF Away, s
<1>4. /\ Abs(t.x - s.x) \in Nat /\ (Abs(t.x - s.x) = 0 <=> t.x = s.x)
      /\ Abs(t.y - s.y) \in Nat /\ (Abs(t.y - s.y) = 0 <=> t.y = s.y)
    BY <1>2 DEF Abs
<1>5. AheadX(p, dir, s) = 0 /\ AheadY(p, dir, s) = 0
    BY <1>2 DEF AheadX, AheadY, s
<1> QED BY <1>2, <1>3, <1>4, <1>5 DEF s

\* A jump from the camera's tile, or from one where the march is not over, goes one
\* tile further, and passes no block by.
LEMMA JumpIsNearest ==
    ASSUME NEW p, NEW dir, NEW s, Looks(p, dir),
           s = Outset(p, dir) \/ (Nearest(p, dir, s) /\ ~Over(s))
    PROVE  LET n == Jump(s, dir) IN
           Nearest(p, dir, n) /\ Away(p, n.tile) = Away(p, s.tile) + 1
<1> DEFINE n == Jump(s, dir)
           x == Enters(p, dir, TileOf(p), "x")
           y == Enters(p, dir, TileOf(p), "y")
<1>1. /\ p \in Position /\ dir \in Position /\ TileOf(p) \in Position
      /\ x \in -80 .. 0 /\ y \in -80 .. 0
      /\ world_map \subseteq Position
    BY LooksFrom
<1>2. OnMap(TileOf(p)) /\ ~MeetsCorner(p, dir)
    BY DEF Looks
<1>3. Measured(p, dir, s) /\ Met(p, dir, s.tile) /\ OnMap(s.tile)
    BY <1>1, <1>2, LooksFrom, CrossesIsMet DEF Nearest, Measured, States, Over
<1>4. s.tile \in Position
    BY <1>3 DEF Measured, States
<1>5. /\ AheadX(p, dir, s.tile) \in Nat /\ AheadY(p, dir, s.tile) \in Nat
      /\ Away(p, s.tile) = AheadX(p, dir, s.tile) + AheadY(p, dir, s.tile)
      /\ Enters(p, dir, s.tile, "x") = x + 80 * AheadX(p, dir, s.tile)
      /\ Enters(p, dir, s.tile, "y") = y + 80 * AheadY(p, dir, s.tile)
    <2>1. CASE s = Outset(p, dir)
        <3>1. s.tile = TileOf(p)
            BY <2>1, LooksFrom
        <3>2. /\ AheadX(p, dir, s.tile) = 0 /\ AheadY(p, dir, s.tile) = 0
              /\ Away(p, s.tile) = 0
            BY <1>1, <3>1, NotAway
        <3> QED BY <1>1, <3>1, <3>2
    <2>2. CASE Nearest(p, dir, s)
        BY <1>1, <1>4, <2>2, CrossedIsAhead DEF Nearest
    <2> QED BY <2>1, <2>2
<1>6. /\ Measured(p, dir, n) /\ Crosses(p, dir, n.tile) /\ EnteredBySide(p, dir, n)
      /\ \/ /\ Enters(p, dir, n.tile, "x") = Enters(p, dir, s.tile, "x") + 80
            /\ Enters(p, dir, n.tile, "y") = Enters(p, dir, s.tile, "y")
         \/ /\ Enters(p, dir, n.tile, "x") = Enters(p, dir, s.tile, "x")
            /\ Enters(p, dir, n.tile, "y") = Enters(p, dir, s.tile, "y") + 80
    BY <1>1, <1>2, <1>3, JumpCrosses
<1>7. n.tile \in Position
    BY <1>6 DEF Measured, States
<1> HIDE DEF n
<1>8. /\ AheadX(p, dir, n.tile) \in Nat /\ AheadY(p, dir, n.tile) \in Nat
      /\ Away(p, n.tile) = AheadX(p, dir, n.tile) + AheadY(p, dir, n.tile)
      /\ Enters(p, dir, n.tile, "x") = x + 80 * AheadX(p, dir, n.tile)
      /\ Enters(p, dir, n.tile, "y") = y + 80 * AheadY(p, dir, n.tile)
    BY <1>1, <1>6, <1>7, CrossedIsAhead
<1>9. Away(p, n.tile) = Away(p, s.tile) + 1
    <2> DEFINE i == AheadX(p, dir, s.tile)
               j == AheadY(p, dir, s.tile)
               k == AheadX(p, dir, n.tile)
               l == AheadY(p, dir, n.tile)
    <2>1. \/ x + 80 * k = x + 80 * i + 80 /\ y + 80 * l = y + 80 * j
          \/ x + 80 * k = x + 80 * i /\ y + 80 * l = y + 80 * j + 80
        BY <1>5, <1>6, <1>8
    <2>2. /\ i \in Nat /\ j \in Nat /\ k \in Nat /\ l \in Nat
          /\ x \in Int /\ y \in Int
        BY <1>1, <1>5, <1>8
    <2> HIDE DEF i, j, k, l, x, y
    <2>3. k + l = i + j + 1
        BY <2>1, <2>2
    <2> QED BY <1>5, <1>8, <2>3 DEF i, j, k, l
<1>10. ASSUME NEW t \in world_map \ {TileOf(p)}, Crosses(p, dir, t)
       PROVE  Away(p, n.tile) <= Away(p, t)
    <2>1. t \in Position /\ Away(p, t) \in Nat \ {0}
        BY <1>1, NotAway
    <2>2. CASE s = Outset(p, dir)
        <3>1. Away(p, s.tile) = 0
            BY <1>4, <2>2, LooksFrom, NotAway
        <3> QED BY <1>9, <2>1, <3>1
    <2>3. CASE Nearest(p, dir, s) /\ ~Over(s)
        <3>1. Away(p, s.tile) <= Away(p, t) /\ Crosses(p, dir, s.tile) /\ t # s.tile
            BY <1>10, <2>3 DEF Nearest, Over
        <3>2. Away(p, t) \in Nat /\ Away(p, s.tile) \in Nat
            BY <1>5, <2>1
        <3>3. Away(p, t) # Away(p, s.tile)
            BY <1>1, <1>4, <1>10, <2>1, <3>1, <3>2, FurtherIsAhead
        <3> QED BY <1>9, <3>1, <3>2, <3>3
    <2> QED BY <2>2, <2>3
<1>11. Away(p, n.tile) \in Nat \ {0}
    BY <1>5, <1>9
<1> QED BY <1>6, <1>9, <1>10, <1>11 DEF Nearest, n

\* A tile of the map is less away than the map is wide and high together.
LEMMA AwayOnMap ==
    ASSUME NEW p, NEW dir, NEW t \in Position, Looks(p, dir), OnMap(t)
    PROVE  Away(p, t) < (MAP_WIDTH + MAP_HEIGHT) - 1
<1> DEFINE s == TileOf(p)
<1>1. /\ s.x \in Int /\ s.y \in Int /\ t.x \in Int /\ t.y \in Int
      /\ MAP_WIDTH \in Nat \ {0} /\ MAP_HEIGHT \in Nat \ {0} /\ OnMap(s)
    BY LooksFrom, SandboxAssumption DEF SandboxAssumption, Position, Looks
<1> HIDE DEF s
<1>2. Abs(t.x - s.x) < MAP_WIDTH /\ Abs(t.y - s.y) < MAP_HEIGHT
      /\ Abs(t.x - s.x) \in Nat /\ Abs(t.y - s.y) \in Nat
    BY <1>1 DEF OnMap, Abs
<1>3. Away(p, t) = Abs(t.x - s.x) + Abs(t.y - s.y)
    BY DEF Away, s
<1> QED BY <1>1, <1>2, <1>3

\* A march ends in the nearest block, or off the map.
LEMMA MarchEnds ==
    ASSUME NEW p, NEW dir, Looks(p, dir)
    PROVE  Nearest(p, dir, March(p, dir)) /\ Over(March(p, dir))
<1> DEFINE N == MAP_WIDTH + MAP_HEIGHT
           after == CHOOSE a : a = Marching(p, dir, a)
<1>1. after = Marching(p, dir, after)
    BY LooksFrom, MarchingExists
<1>2. March(p, dir) = after[N]
    BY DEF March, Marching
<1> HIDE DEF after
<1>3. N \in Nat /\ N >= 2
    BY SandboxAssumption DEF SandboxAssumption
<1> DEFINE T == {n \in 0 .. N - 1 :
                    /\ Nearest(p, dir, after[n + 1])
                    /\ Over(after[n + 1]) \/ Away(p, after[n + 1].tile) = n + 1}
<1>4. 0 \in T
    <2>1. after[0] = Outset(p, dir)
        BY <1>1, <1>3 DEF Marching
    <2>2. after[1] = Jump(after[0], dir)
        BY <1>1, <1>3 DEF Marching
    <2>3. Nearest(p, dir, after[1]) /\ Away(p, after[1].tile) = Away(p, TileOf(p)) + 1
        BY <2>1, <2>2, JumpIsNearest, LooksFrom
    <2>4. Away(p, TileOf(p)) = 0
        BY LooksFrom, NotAway
    <2> QED BY <1>3, <2>3, <2>4
<1>5. ASSUME NEW n \in 0 .. (N - 1) - 1, n \in T PROVE n + 1 \in T
    <2>1. /\ n \in Nat /\ n + 1 \in 0 .. N - 1 /\ n + 2 \in 0 .. N
          /\ n + 2 > 1 /\ n + 2 # 0 /\ (n + 2) - 1 = n + 1 /\ (n + 1) + 1 = n + 2
        BY <1>3
    <2>2. /\ Nearest(p, dir, after[n + 1])
          /\ Over(after[n + 1]) \/ Away(p, after[n + 1].tile) = n + 1
        BY <1>5
    <2>3. after[n + 2] = IF Over(after[n + 1]) THEN after[n + 1]
                         ELSE Jump(after[n + 1], dir)
        <3> HIDE DEF N
        <3> QED BY <1>1, <2>1 DEF Marching, N
    <2>4. CASE Over(after[n + 1])
        BY <2>1, <2>2, <2>3, <2>4
    <2>5. CASE ~Over(after[n + 1])
        <3>1. Nearest(p, dir, after[n + 2])
              /\ Away(p, after[n + 2].tile) = Away(p, after[n + 1].tile) + 1
            BY <2>2, <2>3, <2>5, JumpIsNearest
        <3>2. Away(p, after[n + 2].tile) = n + 2
            BY <2>1, <2>2, <2>5, <3>1
        <3> QED BY <2>1, <3>1, <3>2
    <2> QED BY <2>4, <2>5
<1> HIDE DEF T
<1>6. 0 .. N - 1 \subseteq T
    <2> HIDE DEF N
    <2> QED BY <1>3, <1>4, <1>5, UpTo
<1>7. N - 1 \in T
    BY <1>3, <1>6
<1>8. /\ Nearest(p, dir, after[N])
      /\ Over(after[N]) \/ Away(p, after[N].tile) = N
    <2> HIDE DEF N
    <2> QED BY <1>3, <1>7 DEF T
<1>9. ASSUME ~Over(after[N]) PROVE FALSE
    <2>1. after[N].tile \in Position /\ OnMap(after[N].tile)
        BY <1>8, <1>9 DEF Nearest, Measured, States, Over
    <2> DEFINE t == after[N].tile
    <2> HIDE DEF t
    <2>2. t \in Position /\ OnMap(t)
        BY <2>1 DEF t
    <2>3. Away(p, t) < N - 1
        BY <2>2, AwayOnMap, SandboxAssumption DEF SandboxAssumption
    <2> HIDE DEF N
    <2> QED BY <1>3, <1>8, <1>9, <2>3 DEF t
<1> QED BY <1>2, <1>8, <1>9

\* Every column shows the nearest block its line of sight crosses, and the right face.
THEOREM ColumnsAreNearest == Spec => []ColumnsShowNearest
<1>1. IInv => ColumnsShowNearest
    <2> SUFFICES ASSUME IInv, camera.x >= 0, camera.y >= 0,
                        NEW column \in 0 .. Columns - 1, ~MeetsCorner(camera, RayDir(column))
                 PROVE  LET dir == RayDir(column)
                            end == March(camera, dir)
                            crossed == {t \in world_map \ {TileOf(camera)} :
                                           Crosses(camera, dir, t)}
                        IN  IF crossed = {} THEN ~OnMap(end.tile)
                            ELSE /\ end.tile \in crossed
                                 /\ \A t \in crossed :
                                       Away(camera, end.tile) <= Away(camera, t)
                                 /\ EnteredBySide(camera, dir, end)
        BY DEF ColumnsShowNearest, EnteredBySide
    <2> DEFINE dir == RayDir(column)
               end == March(camera, dir)
               crossed == {t \in world_map \ {TileOf(camera)} : Crosses(camera, dir, t)}
    <2>1. Looks(camera, dir)
        <3>1. Columns \in Nat \ {0} /\ MAP_WIDTH \in Nat \ {0} /\ MAP_HEIGHT \in Nat \ {0}
            BY SandboxAssumption DEF SandboxAssumption
        <3>2. /\ camera \in Position /\ camera.x \in Int /\ camera.y \in Int
              /\ world_map \subseteq Tiles
            BY DEF IInv, TypeOK, Position
        <3>3. OnMap(TileOf(camera))
            BY <3>1, <3>2, InsideMap
            DEF IInv, Near, TILE, PLAYER_RADIUS, OnMap, TileOf
        <3>4. dir \in Position /\ (dir.x # 0 \/ dir.y # 0)
            <4> DEFINE c == 2 * column - Columns
            <4>1. c \in Int /\ c * Columns \in Int /\ Columns * Columns - c * c \in Int
                BY <3>1
            <4>2. dir = [x |-> Columns * Columns - c * c, y |-> c * Columns]
                BY DEF RayDir
            <4>3. dir \in Position
                BY <4>1, <4>2 DEF Position
            <4>4. c = 0 => Columns * Columns - c * c > 0
                BY <3>1
            <4>5. c # 0 => c * Columns # 0
                BY <3>1, <4>1
            <4> QED BY <4>2, <4>3, <4>4, <4>5
        <3> QED BY <3>2, <3>3, <3>4 DEF Looks
    <2> HIDE DEF dir
    <2>2. Nearest(camera, dir, end) /\ Over(end)
        BY <2>1, MarchEnds
    <2> HIDE DEF end
    <2>3. /\ camera \in Position /\ dir \in Position /\ TileOf(camera) \in Position
          /\ Enters(camera, dir, TileOf(camera), "x") \in -80 .. 0
          /\ Enters(camera, dir, TileOf(camera), "y") \in -80 .. 0
          /\ world_map \subseteq Position
        BY <2>1, LooksFrom
    <2>4. /\ end.tile \in Position /\ Crosses(camera, dir, end.tile)
          /\ EnteredBySide(camera, dir, end) /\ end.tile # TileOf(camera)
          /\ \A t \in crossed : Away(camera, end.tile) <= Away(camera, t)
        BY <2>1, <2>2, <2>3, NotAway DEF Nearest, Measured, States
    <2>5. CASE OnMap(end.tile)
        <3>1. end.tile \in crossed
            BY <2>2, <2>4, <2>5 DEF Over
        <3> QED BY <2>4, <3>1 DEF dir, end
    <2>6. CASE ~OnMap(end.tile)
        <3>1. ASSUME NEW t \in crossed PROVE FALSE
            <4>1. t \in Position /\ OnMap(t) /\ OnMap(TileOf(camera))
                BY <2>1, <2>3, SandboxAssumption DEF Looks, Tiles, OnMap, SandboxAssumption
            <4>2. Away(camera, t) >= Away(camera, end.tile)
                <5>1. Away(camera, t) \in Nat /\ Away(camera, end.tile) \in Nat
                    BY <2>1, <2>4, <4>1, NotAway
                <5> QED BY <2>4, <5>1
            <4>3. /\ AheadX(camera, dir, t) >= AheadX(camera, dir, end.tile)
                  /\ AheadY(camera, dir, t) >= AheadY(camera, dir, end.tile)
                BY <2>3, <2>4, <4>1, <4>2, FurtherIsAhead
            <4>4. /\ AheadX(camera, dir, end.tile) \in Nat
                  /\ AheadY(camera, dir, end.tile) \in Nat
                BY <2>3, <2>4, CrossedIsAhead
            <4> DEFINE s == TileOf(camera)
                       e == end.tile
            <4>5. /\ e.x \in Int /\ e.y \in Int /\ t.x \in Int /\ t.y \in Int
                  /\ s.x \in Int /\ s.y \in Int /\ dir.x \in Int /\ dir.y \in Int
                BY <2>3, <2>4, <4>1 DEF Position
            <4>6. /\ AheadX(camera, dir, t) = IF dir.x < 0 THEN s.x - t.x ELSE t.x - s.x
                  /\ AheadY(camera, dir, t) = IF dir.y < 0 THEN s.y - t.y ELSE t.y - s.y
                  /\ AheadX(camera, dir, e) = IF dir.x < 0 THEN s.x - e.x ELSE e.x - s.x
                  /\ AheadY(camera, dir, e) = IF dir.y < 0 THEN s.y - e.y ELSE e.y - s.y
                BY DEF AheadX, AheadY
            <4>7. OnMap(s) /\ ~OnMap(e) /\ OnMap(t)
                BY <2>6, <4>1
            <4>8. MAP_WIDTH \in Nat /\ MAP_HEIGHT \in Nat
                BY SandboxAssumption DEF SandboxAssumption
            <4>9. /\ AheadX(camera, dir, t) >= AheadX(camera, dir, e)
                  /\ AheadY(camera, dir, t) >= AheadY(camera, dir, e)
                  /\ AheadX(camera, dir, e) >= 0 /\ AheadY(camera, dir, e) >= 0
                BY <4>3, <4>4
            <4> HIDE DEF s, e
            <4>10. 0 <= e.x /\ e.x < MAP_WIDTH
                BY <4>5, <4>6, <4>7, <4>8, <4>9 DEF OnMap
            <4>11. 0 <= e.y /\ e.y < MAP_HEIGHT
                BY <4>5, <4>6, <4>7, <4>8, <4>9 DEF OnMap
            <4> QED BY <4>7, <4>10, <4>11 DEF OnMap
        <3> QED BY <2>6, <3>1 DEF dir, end
    <2> QED BY <2>5, <2>6
<1> QED BY <1>1, Invariance, PTL

-----------------------------------------------------------------------------
(* Saving and loading the world: the disk driver, its callers and the      *)
(* drive.  What the driver moves is the map as a sector, world_buffer.     *)

\* The places of a call, and the calls there are.
WriteSteps == {"snapshot", "address", "command", "wait_data", "transfer", "wait_done",
               "flush", "wait_flush", "return"}
ReadSteps == {"address", "command", "wait_data", "transfer", "copy"}
Calls ==
    [job : Jobs, lba : Sectors, buffer : Data,
     at : WriteSteps \cup ReadSteps]

WellFormed(c) ==
    /\ c.lba = IF c.job \in {"dump", "load"} THEN WORLD_SAVE_LBA_SECTOR
                                             ELSE TestSector
    /\ c.at \in (IF IsRead(c) THEN ReadSteps ELSE WriteSteps)
    /\ c.job = "test_write" => c.buffer = Secret
    /\ c.at = "command" => address = c.lba

\* What a read that was never late knows of the drive.
ReadInTime(c) ==
    /\ c.at \in {"address", "command", "copy"} => drive.does = "nothing"
    /\ c.at = "wait_data" => drive.does \in {"read", "offer"} /\ drive.lba = c.lba
    /\ c.at = "transfer" => drive.does = "offer" /\ drive.lba = c.lba
    /\ c.at = "copy" => ata_io_buffer = cache[c.lba]
    /\ c.job = "test_read" => cache[TestSector] = Secret

\* And a write: its data is in the buffer, then in the cache, then on the medium.
WriteInTime(c) ==
    /\ c.at \in {"snapshot", "address", "command", "flush", "return"}
          => drive.does = "nothing"
    /\ c.at \in {"address", "command", "wait_data", "transfer"} => ata_io_buffer = c.buffer
    /\ c.at = "wait_data" => drive.does \in {"write", "accept"} /\ drive.lba = c.lba
    /\ c.at = "transfer" => drive.does = "accept" /\ drive.lba = c.lba
    /\ c.at = "wait_done" => drive.does \in {"store", "nothing"}
    /\ c.at = "wait_flush" => drive.does \in {"flush", "nothing"}
    /\ c.at \in {"wait_done", "flush", "wait_flush", "return"} => cache[c.lba] = c.buffer
    /\ c.at = "return" \/ (c.at = "wait_flush" /\ drive.does = "nothing")
          => medium[c.lba] = c.buffer

InTime(c) == IF IsRead(c) THEN ReadInTime(c) ELSE WriteInTime(c)

\* The one call of the driver, if there is one.
CallsKept ==
    \/ calls = << >> /\ (late \/ drive.does = "nothing")
    \/ \E c \in Calls : calls = <<c>> /\ WellFormed(c) /\ (late \/ InTime(c))

DriveTypes ==
    /\ drive \in [does : {"nothing", "read", "write", "offer", "accept", "store", "flush"},
                  lba : Sectors]
    /\ cache \in [Sectors -> Data] /\ medium \in [Sectors -> Data]
    /\ saved \in [Sectors -> Data \cup {NoData}]
    /\ ata_io_buffer \in Data /\ world_buffer \in Data
    /\ address \in Sectors /\ late \in BOOLEAN

\* What is saved is in the cache as well, and no write that the drive still waits
\* for, however old, is to a sector that is saved.
SavedTwice ==
    \A l \in Sectors :
        saved[l] # NoData =>
            /\ medium[l] = saved[l] /\ cache[l] = saved[l]
            /\ drive.does \in {"write", "accept"} => drive.lba # l

DriveInv == DriveTypes /\ CallsKept /\ SavedTwice

\* A call in progress, and what its next step does to it.
LEMMA InCall ==
    ASSUME NEW c \in Calls, calls = <<c>>
    PROVE  /\ \A s : In(s) <=> c.at = s
           /\ call = c /\ Outer = << >> /\ Len(calls) = 1
           /\ \A s : Goto(s) => calls' = <<[c EXCEPT !.at = s]>>
<1>1. Len(calls) = 1 /\ calls # << >> /\ call = c
    BY DEF call
<1>2. Outer = << >>
    BY <1>1 DEF Outer
<1> QED BY <1>1, <1>2 DEF In, Goto

LEMMA MovesOn ==
    ASSUME NEW c \in Calls, NEW s \in WriteSteps \cup ReadSteps
    PROVE  \E d \in Calls :
              /\ d = [c EXCEPT !.at = s]
              /\ d.job = c.job /\ d.lba = c.lba /\ d.buffer = c.buffer /\ d.at = s
              /\ IsRead(d) <=> IsRead(c)
<1>1. [c EXCEPT !.at = s] \in Calls
    BY DEF Calls
<1> QED BY <1>1 DEF Calls, IsRead

\* These do not depend on the state.
LEMMA DriveConstants ==
    /\ Sectors' = Sectors /\ Data' = Data
    /\ NoData' = NoData /\ TestSector' = TestSector
    /\ WORLD_SAVE_LBA_SECTOR' = WORLD_SAVE_LBA_SECTOR
    /\ Calls' = Calls /\ WriteSteps' = WriteSteps /\ ReadSteps' = ReadSteps
BY DEF Sectors, Data, NoData, TestSector,
       WORLD_SAVE_LBA_SECTOR, Calls, WriteSteps, ReadSteps, Jobs

LEMMA InitDrive == AtaInit => DriveInv
<1> SUFFICES ASSUME AtaInit PROVE DriveInv
    OBVIOUS
<1>1. DriveTypes
    BY DEF AtaInit, DriveTypes, Idle, Data, Sectors, TestSector
<1>2. CallsKept
    BY DEF AtaInit, CallsKept, Idle
<1>3. SavedTwice
    BY DEF AtaInit, SavedTwice
<1> QED BY <1>1, <1>2, <1>3 DEF DriveInv

\* A call starts when no other runs: the drive is idle, unless it was late.
LEMMA CallStarts ==
    ASSUME DriveInv, calls = << >>, NEW c \in Calls, calls' = <<c>>,
           WellFormed(c), c.at \in {"snapshot", "address"},
           c.job = "test_read" => late,
           c.at = "address" => IsRead(c),
           UNCHANGED <<ata_io_buffer, world_buffer, address, drive, cache, medium, late, saved>>
    PROVE  DriveInv'
<1>1. late \/ drive.does = "nothing"
    BY DEF DriveInv, CallsKept
<1>2. WellFormed(c)' /\ (late' \/ InTime(c)')
    BY <1>1 DEF WellFormed, InTime, ReadInTime, WriteInTime, IsRead, ReadSteps, WriteSteps
<1>3. CallsKept'
    BY <1>2, DriveConstants DEF CallsKept
<1>4. DriveTypes' /\ SavedTwice'
    BY DriveConstants DEF DriveInv, DriveTypes, SavedTwice
<1> QED BY <1>3, <1>4 DEF DriveInv

\* The calls of the thread, and of the keyboard handler while no thread is in the
\* driver.
LEMMA StartKeeps ==
    ASSUME DriveInv, ~Preempts,
           \/ dump_sandbox_to_disk \/ load_sandbox_from_disk
           \/ ChangeWorld \/ disktest
    PROVE  DriveInv'
<1>1. CASE dump_sandbox_to_disk
    <2>1. PICK c : c = Write("dump", WORLD_SAVE_LBA_SECTOR, world_buffer)
        OBVIOUS
    <2>2. c \in Calls /\ WellFormed(c) /\ c.at = "snapshot" /\ c.job = "dump"
        BY <2>1 DEF DriveInv, DriveTypes, Calls, WellFormed, Write, Jobs, Sectors,
                    IsRead, WriteSteps, ReadSteps
    <2>3. calls = << >> /\ calls' = <<c>>
        BY <1>1, <2>1 DEF dump_sandbox_to_disk
    <2>4. UNCHANGED <<ata_io_buffer, world_buffer, address, drive, cache, medium, late, saved>>
        BY <1>1 DEF dump_sandbox_to_disk, ram
    <2> QED BY <2>2, <2>3, <2>4, CallStarts
<1>2. CASE load_sandbox_from_disk
    <2>1. PICK c : c = Read("load", WORLD_SAVE_LBA_SECTOR)
        OBVIOUS
    <2>2. /\ c \in Calls /\ WellFormed(c) /\ c.at = "address" /\ c.job = "load"
          /\ IsRead(c)
        BY <2>1 DEF Calls, WellFormed, Read, Jobs, Sectors, Data,
                    IsRead, WriteSteps, ReadSteps
    <2>3. calls = << >> /\ calls' = <<c>>
        BY <1>2, <2>1 DEF load_sandbox_from_disk
    <2>4. UNCHANGED <<ata_io_buffer, world_buffer, address, drive, cache, medium, late, saved>>
        BY <1>2 DEF load_sandbox_from_disk, ram
    <2> QED BY <2>2, <2>3, <2>4, CallStarts
<1>3. CASE ChangeWorld
    <2>1. /\ world_buffer' \in Data /\ calls' = calls /\ calls = << >>
          /\ UNCHANGED <<ata_io_buffer, address, drive, cache, medium, late, saved>>
        BY <1>3 DEF ChangeWorld, Data
    <2>2. DriveTypes' /\ SavedTwice'
        BY <2>1, DriveConstants DEF DriveInv, DriveTypes, SavedTwice
    <2>3. CallsKept'
        BY <2>1 DEF DriveInv, CallsKept
    <2> QED BY <2>2, <2>3 DEF DriveInv
<1>4. CASE disktest
    <2>1. PICK c : c = Write("test_write", TestSector, Secret)
        OBVIOUS
    <2>2. c \in Calls /\ WellFormed(c) /\ c.at = "snapshot" /\ c.job = "test_write"
        BY <2>1 DEF Calls, WellFormed, Write, Jobs, Sectors, Data,
                    IsRead, WriteSteps, ReadSteps
    <2>3. calls = << >>
        BY <1>4 DEF disktest, Unmasked
    <2>4. calls' = <<c>>
        BY <1>4, <2>1, <2>3 DEF disktest
    <2>5. UNCHANGED <<ata_io_buffer, world_buffer, address, drive, cache, medium, late, saved>>
        BY <1>4 DEF disktest, ram
    <2> QED BY <2>2, <2>3, <2>4, <2>5, CallStarts
<1> QED BY <1>1, <1>2, <1>3, <1>4

\* Inside a call there is one call, at one place.
LEMMA TheCall ==
    ASSUME DriveInv, NEW s, In(s)
    PROVE  \E c \in Calls :
              /\ calls = <<c>> /\ c.at = s /\ call = c /\ Outer = << >>
              /\ WellFormed(c) /\ (late \/ InTime(c))
              /\ \A t : In(t) <=> t = s
              /\ \A t : Goto(t) => calls' = <<[c EXCEPT !.at = t]>>
<1>1. calls # << >>
    BY DEF In
<1>2. PICK c \in Calls : calls = <<c>> /\ WellFormed(c) /\ (late \/ InTime(c))
    BY <1>1 DEF DriveInv, CallsKept
<1>3. /\ \A t : In(t) <=> c.at = t
      /\ call = c /\ Outer = << >>
      /\ \A t : Goto(t) => calls' = <<[c EXCEPT !.at = t]>>
    BY <1>2, InCall
<1> QED BY <1>2, <1>3

LEMMA SnapshotKeeps == DriveInv /\ Snapshot => DriveInv'
<1> SUFFICES ASSUME DriveInv, Snapshot PROVE DriveInv'
    OBVIOUS
<1>1. PICK c \in Calls :
          /\ calls = <<c>> /\ c.at = "snapshot" /\ call = c
          /\ WellFormed(c) /\ (late \/ InTime(c))
          /\ \A t : Goto(t) => calls' = <<[c EXCEPT !.at = t]>>
    BY TheCall DEF Snapshot
<1>2. PICK d \in Calls :
          /\ d = [c EXCEPT !.at = "address"]
          /\ d.job = c.job /\ d.lba = c.lba /\ d.buffer = c.buffer /\ d.at = "address"
          /\ IsRead(d) <=> IsRead(c)
    BY MovesOn DEF WriteSteps
<1>3. /\ calls' = <<d>> /\ ata_io_buffer' = c.buffer
      /\ UNCHANGED <<world_buffer, address, drive, cache, medium, late, saved>>
    BY <1>1, <1>2 DEF Snapshot
<1>4. ~IsRead(c)
    BY <1>1 DEF WellFormed, ReadSteps
<1>5. WellFormed(d)'
    BY <1>1, <1>2, <1>3, <1>4, DriveConstants DEF WellFormed, WriteSteps
<1>6. late' \/ InTime(d)'
    BY <1>1, <1>2, <1>3, <1>4 DEF InTime, WriteInTime
<1>7. DriveTypes'
    BY <1>3, DriveConstants DEF DriveInv, DriveTypes, Calls
<1>8. SavedTwice'
    BY <1>3, DriveConstants DEF DriveInv, SavedTwice
<1> QED BY <1>2, <1>3, <1>5, <1>6, <1>7, <1>8, DriveConstants DEF DriveInv, CallsKept

LEMMA AddressKeeps == DriveInv /\ Address => DriveInv'
<1> SUFFICES ASSUME DriveInv, Address PROVE DriveInv'
    OBVIOUS
<1>1. PICK c \in Calls :
          /\ calls = <<c>> /\ c.at = "address" /\ call = c
          /\ WellFormed(c) /\ (late \/ InTime(c))
          /\ \A t : Goto(t) => calls' = <<[c EXCEPT !.at = t]>>
    BY TheCall DEF Address
<1>2. PICK d \in Calls :
          /\ d = [c EXCEPT !.at = "command"]
          /\ d.job = c.job /\ d.lba = c.lba /\ d.buffer = c.buffer /\ d.at = "command"
          /\ IsRead(d) <=> IsRead(c)
    BY MovesOn DEF WriteSteps
<1>3. /\ calls' = <<d>> /\ address' = c.lba
      /\ UNCHANGED <<ata_io_buffer, world_buffer, drive, cache, medium, late, saved>>
    BY <1>1, <1>2 DEF Address, ram
<1>4. WellFormed(d)'
    BY <1>1, <1>2, <1>3, DriveConstants DEF WellFormed, WriteSteps, ReadSteps
<1>5. late' \/ InTime(d)'
    BY <1>1, <1>2, <1>3, DriveConstants DEF InTime, ReadInTime, WriteInTime
<1>6. DriveTypes'
    BY <1>3, DriveConstants DEF DriveInv, DriveTypes, Calls
<1>7. SavedTwice'
    BY <1>3, DriveConstants DEF DriveInv, SavedTwice
<1> QED BY <1>2, <1>3, <1>4, <1>5, <1>6, <1>7, DriveConstants DEF DriveInv, CallsKept

\* A write that begins takes the promise for its sector back.
LEMMA CommandKeeps == DriveInv /\ Command => DriveInv'
<1> SUFFICES ASSUME DriveInv, Command PROVE DriveInv'
    OBVIOUS
<1>1. PICK c \in Calls :
          /\ calls = <<c>> /\ c.at = "command" /\ call = c
          /\ WellFormed(c) /\ (late \/ InTime(c))
          /\ \A t : Goto(t) => calls' = <<[c EXCEPT !.at = t]>>
    BY TheCall DEF Command
<1>2. PICK d \in Calls :
          /\ d = [c EXCEPT !.at = "wait_data"]
          /\ d.job = c.job /\ d.lba = c.lba /\ d.buffer = c.buffer /\ d.at = "wait_data"
          /\ IsRead(d) <=> IsRead(c)
    BY MovesOn DEF WriteSteps
<1>3. PICK does : does = IF IsRead(c) THEN "read" ELSE "write"
    OBVIOUS
<1>4. /\ calls' = <<d>>
      /\ drive' = IF drive.does = "nothing" THEN [does |-> does, lba |-> address] ELSE drive
      /\ saved' = IF IsRead(c) THEN saved ELSE [saved EXCEPT ![c.lba] = NoData]
      /\ UNCHANGED <<ata_io_buffer, world_buffer, address, cache, medium, late>>
    BY <1>1, <1>2, <1>3 DEF Command, Accepted, ram
<1>5. address = c.lba
    BY <1>1 DEF WellFormed
<1>6. WellFormed(d)'
    BY <1>1, <1>2, <1>4, DriveConstants DEF WellFormed, WriteSteps, ReadSteps
<1>7. late' \/ InTime(d)'
    <2>1. CASE late
        BY <1>4, <2>1
    <2>2. CASE InTime(c)
        <3>1. drive.does = "nothing"
            BY <1>1, <2>2 DEF InTime, ReadInTime, WriteInTime
        <3>2. drive'.does = does /\ drive'.lba = d.lba
            BY <1>2, <1>4, <1>5, <3>1
        <3> QED BY <1>1, <1>2, <1>3, <1>4, <2>2, <3>2, DriveConstants
                DEF InTime, ReadInTime, WriteInTime
    <2> QED BY <1>1, <2>1, <2>2
<1>8. DriveTypes'
    <2>1. does \in {"read", "write"} /\ address \in Sectors /\ c.lba \in Sectors
        BY <1>3 DEF DriveInv, DriveTypes, Calls
    <2> QED BY <1>4, <2>1, DriveConstants DEF DriveInv, DriveTypes
<1>9. SavedTwice'
    <2>1. ASSUME NEW l \in Sectors, saved'[l] # NoData
          PROVE  /\ saved[l] = saved'[l]
                 /\ drive'.does \in {"write", "accept"} => drive'.lba # l
        BY <1>3, <1>4, <1>5, <2>1 DEF DriveInv, DriveTypes, SavedTwice
    <2> QED BY <1>4, <2>1, DriveConstants DEF DriveInv, SavedTwice
<1> QED BY <1>2, <1>4, <1>6, <1>7, <1>8, <1>9, DriveConstants DEF DriveInv, CallsKept

\* Where a wait goes on to.
LEMMA WaitsGoOn ==
    /\ DOMAIN After = {"wait_data", "wait_done", "wait_flush"}
    /\ After["wait_data"] = "transfer" /\ After["wait_done"] = "flush"
    /\ After["wait_flush"] = "return"
BY DEF After

\* A wait that ends in time has seen what it waited for; one that does not leaves
\* a late call behind, of which nothing more is said.
LEMMA WaitKeeps ==
    ASSUME DriveInv, NEW step \in DOMAIN After, In(step),
           Goto(After[step]),
           \/ Ready(step) /\ late' = late
           \/ late' = TRUE,
           UNCHANGED <<ata_io_buffer, world_buffer, address, drive, cache, medium, saved>>
    PROVE  DriveInv'
<1>1. PICK c \in Calls :
          /\ calls = <<c>> /\ c.at = step
          /\ WellFormed(c) /\ (late \/ InTime(c))
          /\ \A t : Goto(t) => calls' = <<[c EXCEPT !.at = t]>>
    BY TheCall
<1>2. PICK s : s = After[step]
    OBVIOUS
<1>3. \/ step = "wait_data" /\ s = "transfer"
      \/ step = "wait_done" /\ s = "flush"
      \/ step = "wait_flush" /\ s = "return"
    BY <1>2, WaitsGoOn
<1>4. PICK d \in Calls :
          /\ d = [c EXCEPT !.at = s]
          /\ d.job = c.job /\ d.lba = c.lba /\ d.buffer = c.buffer /\ d.at = s
          /\ IsRead(d) <=> IsRead(c)
    <2>1. s \in WriteSteps \cup ReadSteps
        BY <1>3 DEF WriteSteps
    <2> QED BY <2>1, MovesOn
<1>5. calls' = <<d>>
    BY <1>1, <1>2, <1>4
<1>6. WellFormed(d)'
    BY <1>1, <1>3, <1>4, DriveConstants DEF WellFormed, WriteSteps, ReadSteps
<1>7. late' \/ InTime(d)'
    <2> SUFFICES ASSUME Ready(step), late' = late, InTime(c) PROVE InTime(d)'
        BY <1>1
    <2>1. CASE IsRead(c)
        <3>1. step = "wait_data" /\ s = "transfer" /\ drive.does = "offer" /\ drive.lba = c.lba
            BY <1>1, <1>3, <2>1 DEF WellFormed, ReadSteps, InTime, ReadInTime, Ready
        <3> QED BY <1>4, <2>1, <3>1, DriveConstants DEF InTime, ReadInTime
    <2>2. CASE ~IsRead(c)
        <3>1. CASE step = "wait_data"
            <4>1. /\ drive.does = "accept" /\ drive.lba = c.lba /\ s = "transfer"
                  /\ ata_io_buffer = c.buffer
                BY <1>1, <1>3, <2>2, <3>1 DEF InTime, WriteInTime, Ready
            <4> QED BY <1>4, <2>2, <4>1 DEF InTime, WriteInTime
        <3>2. CASE step = "wait_done"
            <4>1. drive.does = "nothing" /\ cache[c.lba] = c.buffer /\ s = "flush"
                BY <1>1, <1>3, <2>2, <3>2 DEF InTime, WriteInTime, Ready
            <4> QED BY <1>4, <2>2, <4>1 DEF InTime, WriteInTime
        <3>3. CASE step = "wait_flush"
            <4>1. /\ drive.does = "nothing" /\ s = "return"
                  /\ cache[c.lba] = c.buffer /\ medium[c.lba] = c.buffer
                BY <1>1, <1>3, <2>2, <3>3 DEF InTime, WriteInTime, Ready
            <4> QED BY <1>4, <2>2, <4>1 DEF InTime, WriteInTime
        <3> QED BY <1>3, <3>1, <3>2, <3>3
    <2> QED BY <2>1, <2>2
<1>8. DriveTypes'
    BY DriveConstants DEF DriveInv, DriveTypes
<1>9. SavedTwice'
    BY DriveConstants DEF DriveInv, SavedTwice
<1> QED BY <1>4, <1>5, <1>6, <1>7, <1>8, <1>9, DriveConstants DEF DriveInv, CallsKept

LEMMA WaitingKeeps == DriveInv /\ (WaitEnds \/ WaitTimesOut) => DriveInv'
<1> SUFFICES ASSUME DriveInv, WaitEnds \/ WaitTimesOut PROVE DriveInv'
    OBVIOUS
<1>1. PICK step \in DOMAIN After :
          /\ In(step) /\ Goto(After[step])
          /\ (Ready(step) /\ late' = late) \/ late' = TRUE
    BY DEF WaitEnds, WaitTimesOut
<1>2. UNCHANGED <<ata_io_buffer, world_buffer, address, drive, cache, medium, saved>>
    BY DEF WaitEnds, WaitTimesOut, ram
<1> QED BY <1>1, <1>2, WaitKeeps

LEMMA TransferInKeeps == DriveInv /\ TransferIn => DriveInv'
<1> SUFFICES ASSUME DriveInv, TransferIn PROVE DriveInv'
    OBVIOUS
<1>1. PICK c \in Calls :
          /\ calls = <<c>> /\ c.at = "transfer" /\ call = c
          /\ WellFormed(c) /\ (late \/ InTime(c))
          /\ \A t : Goto(t) => calls' = <<[c EXCEPT !.at = t]>>
    BY TheCall DEF TransferIn
<1>2. PICK d \in Calls :
          /\ d = [c EXCEPT !.at = "copy"]
          /\ d.job = c.job /\ d.lba = c.lba /\ d.buffer = c.buffer /\ d.at = "copy"
          /\ IsRead(d) <=> IsRead(c)
    BY MovesOn DEF ReadSteps
<1>3. /\ calls' = <<d>> /\ IsRead(c)
      /\ ata_io_buffer' = IF drive.does = "offer" THEN cache[drive.lba] ELSE Noise
      /\ drive' = IF drive.does = "offer" THEN Idle ELSE drive
      /\ UNCHANGED <<world_buffer, address, cache, medium, late, saved>>
    BY <1>1, <1>2 DEF TransferIn
<1>4. Idle.does = "nothing" /\ Idle.lba \in Sectors
    BY DEF Idle, Sectors
<1>5. WellFormed(d)'
    BY <1>1, <1>2, <1>3, DriveConstants DEF WellFormed, WriteSteps, ReadSteps
<1>6. late' \/ InTime(d)'
    <2> SUFFICES ASSUME InTime(c) PROVE InTime(d)'
        BY <1>1, <1>3
    <2>1. /\ drive.does = "offer" /\ drive.lba = c.lba
          /\ c.job = "test_read" => cache[TestSector] = Secret
        BY <1>1, <1>3 DEF InTime, ReadInTime
    <2>2. ata_io_buffer' = cache'[d.lba] /\ drive'.does = "nothing"
        BY <1>2, <1>3, <1>4, <2>1
    <2> QED BY <1>2, <1>3, <2>1, <2>2, DriveConstants DEF InTime, ReadInTime
<1>7. DriveTypes'
    <2>1. drive.lba \in Sectors
        BY DEF DriveInv, DriveTypes
    <2>2. ata_io_buffer' \in Data
        BY <1>3, <2>1 DEF DriveInv, DriveTypes, Data
    <2>3. drive' \in [does : {"nothing", "read", "write", "offer", "accept", "store", "flush"},
                      lba : Sectors]
        BY <1>3 DEF DriveInv, DriveTypes, Idle, Sectors
    <2> QED BY <1>3, <2>2, <2>3, DriveConstants DEF DriveInv, DriveTypes
<1>8. SavedTwice'
    BY <1>3, <1>4, DriveConstants DEF DriveInv, SavedTwice
<1> QED BY <1>2, <1>3, <1>5, <1>6, <1>7, <1>8, DriveConstants DEF DriveInv, CallsKept

\* Data goes to the sector that the drive has accepted a write of, whosever it is.
LEMMA TransferOutKeeps == DriveInv /\ TransferOut => DriveInv'
<1> SUFFICES ASSUME DriveInv, TransferOut PROVE DriveInv'
    OBVIOUS
<1>1. PICK c \in Calls :
          /\ calls = <<c>> /\ c.at = "transfer" /\ call = c
          /\ WellFormed(c) /\ (late \/ InTime(c))
          /\ \A t : Goto(t) => calls' = <<[c EXCEPT !.at = t]>>
    BY TheCall DEF TransferOut
<1>2. PICK d \in Calls :
          /\ d = [c EXCEPT !.at = "wait_done"]
          /\ d.job = c.job /\ d.lba = c.lba /\ d.buffer = c.buffer /\ d.at = "wait_done"
          /\ IsRead(d) <=> IsRead(c)
    BY MovesOn DEF WriteSteps
<1>3. /\ calls' = <<d>> /\ ~IsRead(c)
      /\ \/ /\ drive.does = "accept"
            /\ drive' = [drive EXCEPT !.does = "store"]
            /\ cache' = [cache EXCEPT ![drive.lba] = ata_io_buffer]
         \/ drive.does # "accept" /\ drive' = drive /\ cache' = cache
      /\ UNCHANGED <<ata_io_buffer, world_buffer, address, medium, late, saved>>
    BY <1>1, <1>2 DEF TransferOut, ram
<1>4. DriveTypes'
    <2>1. drive' \in [does : {"nothing", "read", "write", "offer", "accept", "store", "flush"},
                      lba : Sectors]
        BY <1>3 DEF DriveInv, DriveTypes
    <2>2. cache' \in [Sectors -> Data]
        BY <1>3 DEF DriveInv, DriveTypes
    <2> QED BY <1>3, <2>1, <2>2, DriveConstants DEF DriveInv, DriveTypes
<1>5. WellFormed(d)'
    BY <1>1, <1>2, <1>3, DriveConstants DEF WellFormed, WriteSteps
<1>6. late' \/ InTime(d)'
    <2> SUFFICES ASSUME InTime(c) PROVE InTime(d)'
        BY <1>1, <1>3
    <2>1. drive.does = "accept" /\ drive.lba = c.lba /\ ata_io_buffer = c.buffer
        BY <1>1, <1>3 DEF InTime, WriteInTime
    <2>2. drive'.does = "store" /\ cache'[d.lba] = d.buffer
        BY <1>2, <1>3, <2>1 DEF DriveInv, DriveTypes, Calls
    <2> QED BY <1>2, <1>3, <2>2 DEF InTime, WriteInTime
<1>7. SavedTwice'
    <2>1. ASSUME NEW l \in Sectors, saved[l] # NoData
          PROVE  /\ medium[l] = saved[l] /\ cache'[l] = saved[l]
                 /\ drive'.does \in {"write", "accept"} => drive'.lba # l
        <3>1. /\ medium[l] = saved[l] /\ cache[l] = saved[l]
              /\ drive.does \in {"write", "accept"} => drive.lba # l
            BY <2>1 DEF DriveInv, SavedTwice
        <3> QED BY <1>3, <3>1 DEF DriveInv, DriveTypes
    <2> QED BY <1>3, <2>1, DriveConstants DEF SavedTwice
<1> QED BY <1>2, <1>3, <1>4, <1>5, <1>6, <1>7, DriveConstants DEF DriveInv, CallsKept

LEMMA FlushKeeps == DriveInv /\ FlushCommand => DriveInv'
<1> SUFFICES ASSUME DriveInv, FlushCommand PROVE DriveInv'
    OBVIOUS
<1>1. PICK c \in Calls :
          /\ calls = <<c>> /\ c.at = "flush" /\ call = c
          /\ WellFormed(c) /\ (late \/ InTime(c))
          /\ \A t : Goto(t) => calls' = <<[c EXCEPT !.at = t]>>
    BY TheCall DEF FlushCommand
<1>2. PICK d \in Calls :
          /\ d = [c EXCEPT !.at = "wait_flush"]
          /\ d.job = c.job /\ d.lba = c.lba /\ d.buffer = c.buffer /\ d.at = "wait_flush"
          /\ IsRead(d) <=> IsRead(c)
    BY MovesOn DEF WriteSteps
<1>3. /\ calls' = <<d>>
      /\ drive' = IF drive.does = "nothing" THEN [does |-> "flush", lba |-> address] ELSE drive
      /\ UNCHANGED <<ata_io_buffer, world_buffer, address, cache, medium, late, saved>>
    BY <1>1, <1>2 DEF FlushCommand, Accepted, ram
<1>4. ~IsRead(c)
    BY <1>1 DEF WellFormed, ReadSteps
<1>5. WellFormed(d)'
    BY <1>1, <1>2, <1>3, <1>4, DriveConstants DEF WellFormed, WriteSteps
<1>6. late' \/ InTime(d)'
    <2> SUFFICES ASSUME InTime(c) PROVE InTime(d)'
        BY <1>1, <1>3
    <2>1. drive'.does = "flush" /\ cache[c.lba] = c.buffer
        BY <1>1, <1>3, <1>4 DEF InTime, WriteInTime
    <2> QED BY <1>2, <1>3, <1>4, <2>1 DEF InTime, WriteInTime
<1>7. DriveTypes'
    BY <1>3, DriveConstants DEF DriveInv, DriveTypes
<1>8. SavedTwice'
    BY <1>3, DriveConstants DEF DriveInv, SavedTwice
<1> QED BY <1>2, <1>3, <1>5, <1>6, <1>7, <1>8, DriveConstants DEF DriveInv, CallsKept

\* What a write promises when it returns is on the medium and in the cache.
LEMMA WriteReturnsKeeps == DriveInv /\ WriteReturns => DriveInv'
<1> SUFFICES ASSUME DriveInv, WriteReturns PROVE DriveInv'
    OBVIOUS
<1>1. PICK c \in Calls :
          /\ calls = <<c>> /\ c.at = "return" /\ call = c /\ Outer = << >>
          /\ WellFormed(c) /\ (late \/ InTime(c))
    BY TheCall DEF WriteReturns
<1>2. PICK d : d = Read("test_read", TestSector)
    OBVIOUS
<1>3. /\ calls' = IF c.job = "test_write" THEN <<d>> ELSE << >>
      /\ saved' = [saved EXCEPT ![c.lba] = IF late THEN NoData ELSE c.buffer]
      /\ UNCHANGED <<ata_io_buffer, world_buffer, address, drive, cache, medium, late>>
    BY <1>1, <1>2 DEF WriteReturns, ram
<1>4. ~IsRead(c)
    BY <1>1 DEF WellFormed, ReadSteps
<1>5. ~late => /\ drive.does = "nothing"
               /\ cache[c.lba] = c.buffer /\ medium[c.lba] = c.buffer
    BY <1>1, <1>4 DEF InTime, WriteInTime
<1>6. c.lba \in Sectors /\ c.buffer \in Data
    BY DEF Calls
<1>7. DriveTypes'
    <2>1. saved' \in [Sectors -> Data \cup {NoData}]
        BY <1>3, <1>6 DEF DriveInv, DriveTypes
    <2> QED BY <1>3, <2>1, DriveConstants DEF DriveInv, DriveTypes
<1>8. CallsKept'
    <2>1. CASE c.job = "test_write"
        <3>1. /\ d \in Calls /\ IsRead(d) /\ d.at = "address" /\ d.job = "test_read"
              /\ d.lba = TestSector
            BY <1>2 DEF Calls, Read, Jobs, Sectors, Data,
                        IsRead, WriteSteps, ReadSteps
        <3>2. WellFormed(d)'
            BY <3>1, DriveConstants DEF WellFormed, ReadSteps
        <3>3. ~late => cache[TestSector] = Secret /\ drive.does = "nothing"
            BY <1>1, <1>5, <2>1 DEF WellFormed
        <3>4. late' \/ InTime(d)'
            <4>1. CASE late
                BY <1>3, <4>1
            <4>2. CASE ~late
                BY <1>3, <3>1, <3>3, <4>2, DriveConstants DEF InTime, ReadInTime
            <4> QED BY <4>1, <4>2
        <3> QED BY <1>3, <2>1, <3>1, <3>2, <3>4, DriveConstants DEF CallsKept
    <2>2. CASE c.job # "test_write"
        BY <1>3, <1>5, <2>2 DEF CallsKept
    <2> QED BY <2>1, <2>2
<1>9. SavedTwice'
    <2>1. ASSUME NEW l \in Sectors, saved'[l] # NoData
          PROVE  /\ medium[l] = saved'[l] /\ cache[l] = saved'[l]
                 /\ drive.does \in {"write", "accept"} => drive.lba # l
        <3>1. CASE l = c.lba
            <4>1. saved'[l] = (IF late THEN NoData ELSE c.buffer)
                BY <1>3, <1>6, <3>1 DEF DriveInv, DriveTypes
            <4> QED BY <1>5, <2>1, <3>1, <4>1
        <3>2. CASE l # c.lba
            <4>1. saved'[l] = saved[l]
                BY <1>3, <3>2 DEF DriveInv, DriveTypes
            <4> QED BY <2>1, <4>1 DEF DriveInv, SavedTwice
        <3> QED BY <3>1, <3>2
    <2> QED BY <1>3, <2>1, DriveConstants DEF SavedTwice
<1> QED BY <1>7, <1>8, <1>9 DEF DriveInv

LEMMA ReadReturnsKeeps == DriveInv /\ ReadReturns => DriveInv'
<1> SUFFICES ASSUME DriveInv, ReadReturns PROVE DriveInv'
    OBVIOUS
<1>1. PICK c \in Calls :
          /\ calls = <<c>> /\ c.at = "copy" /\ call = c /\ Outer = << >>
          /\ WellFormed(c) /\ (late \/ InTime(c))
    BY TheCall DEF ReadReturns
<1>2. /\ calls' = << >> /\ world_buffer' \in {ata_io_buffer, world_buffer}
      /\ UNCHANGED <<ata_io_buffer, address, drive, cache, medium, late, saved>>
    BY <1>1 DEF ReadReturns
<1>3. late \/ drive.does = "nothing"
    BY <1>1 DEF WellFormed, WriteSteps, InTime, ReadInTime
<1>4. DriveTypes' /\ SavedTwice'
    BY <1>2, DriveConstants DEF DriveInv, DriveTypes, SavedTwice
<1> QED BY <1>2, <1>3, <1>4 DEF DriveInv, CallsKept

\* The drive finishes what it was doing.
LEMMA DriveStepKeeps == DriveInv /\ DriveStep => DriveInv'
<1> SUFFICES ASSUME DriveInv, DriveStep PROVE DriveInv'
    OBVIOUS
<1>1. /\ \/ drive.does = "read" /\ drive' = [drive EXCEPT !.does = "offer"]
         \/ drive.does = "write" /\ drive' = [drive EXCEPT !.does = "accept"]
         \/ drive.does \in {"store", "flush"} /\ drive' = Idle
      /\ medium' = IF drive.does = "flush" THEN cache ELSE medium
      /\ UNCHANGED <<calls, ata_io_buffer, world_buffer, address, cache, late, saved>>
    BY DEF DriveStep, ram
<1>2. Idle.does = "nothing" /\ Idle.lba \in Sectors
    BY DEF Idle, Sectors
<1>3. DriveTypes'
    <2>1. drive' \in [does : {"nothing", "read", "write", "offer", "accept", "store", "flush"},
                      lba : Sectors]
        BY <1>1 DEF DriveInv, DriveTypes, Idle, Sectors
    <2> QED BY <1>1, <2>1, DriveConstants DEF DriveInv, DriveTypes
<1>4. \/ drive'.does \in {"offer", "accept"} /\ drive'.lba = drive.lba
      \/ drive'.does = "nothing"
    BY <1>1, <1>2 DEF DriveInv, DriveTypes
<1>5. SavedTwice'
    <2>1. ASSUME NEW l \in Sectors, saved[l] # NoData
          PROVE  /\ medium'[l] = saved[l] /\ cache[l] = saved[l]
                 /\ drive'.does \in {"write", "accept"} => drive'.lba # l
        <3>1. /\ medium[l] = saved[l] /\ cache[l] = saved[l]
              /\ drive.does \in {"write", "accept"} => drive.lba # l
            BY <2>1 DEF DriveInv, SavedTwice
        <3>2. drive'.does = "accept" => drive.does = "write"
            BY <1>1, <1>2 DEF DriveInv, DriveTypes
        <3>3. drive'.does # "write"
            BY <1>4
        <3> QED BY <1>1, <1>4, <3>1, <3>2, <3>3
    <2> QED BY <1>1, <2>1, DriveConstants DEF SavedTwice
<1>6. CallsKept'
    <2>1. CASE calls = << >>
        BY <1>1, <2>1 DEF DriveInv, CallsKept
    <2>2. CASE calls # << >>
        <3>1. PICK c \in Calls : calls = <<c>> /\ WellFormed(c) /\ (late \/ InTime(c))
            BY <2>2 DEF DriveInv, CallsKept
        <3>2. WellFormed(c)'
            BY <1>1, <3>1, DriveConstants DEF WellFormed
        <3>3. late' \/ InTime(c)'
            <4> SUFFICES ASSUME InTime(c) PROVE InTime(c)'
                BY <1>1, <3>1
            <4>1. CASE IsRead(c)
                <5>1. c.at = "wait_data" /\ drive.does = "read" /\ drive.lba = c.lba
                    BY <1>1, <3>1, <4>1 DEF InTime, ReadInTime, WellFormed, ReadSteps
                <5>2. drive'.does = "offer" /\ drive'.lba = c.lba
                    BY <1>1, <5>1 DEF DriveInv, DriveTypes
                <5> QED BY <1>1, <4>1, <5>1, <5>2, DriveConstants DEF InTime, ReadInTime
            <4>2. CASE ~IsRead(c)
                <5>1. \/ c.at = "wait_data" /\ drive.does = "write" /\ drive.lba = c.lba
                      \/ c.at = "wait_done" /\ drive.does = "store"
                      \/ c.at = "wait_flush" /\ drive.does = "flush"
                    BY <1>1, <3>1, <4>2 DEF InTime, WriteInTime, WellFormed, WriteSteps
                <5>2. \/ c.at = "wait_data" /\ drive'.does = "accept" /\ drive'.lba = c.lba
                      \/ c.at = "wait_done" /\ drive'.does = "nothing"
                      \/ c.at = "wait_flush" /\ drive'.does = "nothing" /\ medium' = cache
                    BY <1>1, <1>2, <5>1 DEF DriveInv, DriveTypes
                <5> QED BY <1>1, <4>2, <5>2 DEF InTime, WriteInTime
            <4> QED BY <4>1, <4>2
        <3> QED BY <1>1, <3>1, <3>2, <3>3, DriveConstants DEF CallsKept
    <2> QED BY <2>1, <2>2
<1> QED BY <1>3, <1>5, <1>6 DEF DriveInv

\* Moving a cached sector to the medium changes no sector that is saved.
LEMMA DestageKeeps == DriveInv /\ Destage => DriveInv'
<1> SUFFICES ASSUME DriveInv, Destage PROVE DriveInv'
    OBVIOUS
<1>1. PICK l \in Sectors : medium' = [medium EXCEPT ![l] = cache[l]]
    BY DEF Destage
<1>2. UNCHANGED <<calls, ata_io_buffer, world_buffer, address, drive, cache, late, saved>>
    BY DEF Destage, ram
<1>3. /\ medium' \in [Sectors -> Data]
      /\ \A m \in Sectors : medium'[m] = medium[m] \/ medium'[m] = cache[m]
    BY <1>1 DEF DriveInv, DriveTypes
<1>4. DriveTypes' /\ SavedTwice'
    <2>1. DriveTypes'
        BY <1>2, <1>3, DriveConstants DEF DriveInv, DriveTypes
    <2>2. SavedTwice'
        BY <1>2, <1>3, DriveConstants DEF DriveInv, SavedTwice
    <2> QED BY <2>1, <2>2
<1>5. CallsKept'
    <2>1. CASE calls = << >>
        BY <1>2, <2>1 DEF DriveInv, CallsKept
    <2>2. CASE calls # << >>
        <3>1. PICK c \in Calls : calls = <<c>> /\ WellFormed(c) /\ (late \/ InTime(c))
            BY <2>2 DEF DriveInv, CallsKept
        <3>2. c.lba \in Sectors
            BY DEF Calls
        <3>3. WellFormed(c)'
            BY <1>2, <3>1, DriveConstants DEF WellFormed
        <3>4. InTime(c) => InTime(c)'
            BY <1>2, <1>3, <3>2, DriveConstants DEF InTime, ReadInTime, WriteInTime
        <3> QED BY <1>2, <3>1, <3>3, <3>4, DriveConstants DEF CallsKept
    <2> QED BY <2>1, <2>2
<1> QED BY <1>4, <1>5 DEF DriveInv

\* What is saved is on the medium when power fails.
LEMMA PowerKeeps == DriveInv /\ PowerFails => DriveInv'
<1> SUFFICES ASSUME DriveInv, PowerFails PROVE DriveInv'
    OBVIOUS
<1>1. /\ calls' = << >> /\ ata_io_buffer' = Noise /\ world_buffer' \in Worlds
      /\ address' = TestSector /\ drive' = Idle /\ cache' = medium
      /\ late' = FALSE /\ medium' = medium /\ saved' = saved
    BY DEF PowerFails
<1>2. /\ Idle.does = "nothing"
      /\ Idle \in [does : {"nothing", "read", "write", "offer", "accept", "store",
                                 "flush"},
                         lba : Sectors]
    BY DEF Idle, Sectors
<1>3. DriveTypes'
    BY <1>1, <1>2, DriveConstants DEF DriveInv, DriveTypes, Data, Sectors
<1>4. SavedTwice'
    BY <1>1, <1>2, DriveConstants DEF DriveInv, SavedTwice
<1>5. CallsKept'
    BY <1>1, <1>2 DEF CallsKept
<1> QED BY <1>3, <1>4, <1>5 DEF DriveInv

LEMMA StepKeepsDrive ==
    ASSUME ~Preempts
    PROVE  DriveInv /\ [AtaNext]_ata_vars => DriveInv'
<1> SUFFICES ASSUME DriveInv, [AtaNext]_ata_vars PROVE DriveInv'
    OBVIOUS
<1>1. CASE UNCHANGED ata_vars
    <2>1. UNCHANGED <<calls, ata_io_buffer, world_buffer, address, drive, cache, medium,
                      late, saved>>
        BY <1>1 DEF ata_vars, ram
    <2>2. DriveTypes' /\ SavedTwice'
        BY <2>1, DriveConstants DEF DriveInv, DriveTypes, SavedTwice
    <2>3. \A c : (WellFormed(c) => WellFormed(c)') /\ (InTime(c) => InTime(c)')
        BY <2>1, DriveConstants DEF WellFormed, InTime, ReadInTime, WriteInTime
    <2>4. CallsKept'
        BY <2>1, <2>3, DriveConstants DEF DriveInv, CallsKept
    <2> QED BY <2>2, <2>4 DEF DriveInv
<1>2. CASE AtaNext
    BY <1>2, StartKeeps, SnapshotKeeps, AddressKeeps, CommandKeeps, WaitingKeeps,
       TransferInKeeps, TransferOutKeeps, FlushKeeps, WriteReturnsKeeps, ReadReturnsKeeps,
       DriveStepKeeps, DestageKeeps, PowerKeeps
    DEF AtaNext, DriverStep
<1> QED BY <1>1, <1>2

\* As long as no interrupt handler enters the driver while a thread is inside it, the
\* drive and the driver agree on what is under way until the first wait times out, and
\* what was saved before is left alone also after that.
THEOREM DriveInvariance ==
    ASSUME ~Preempts
    PROVE  AtaSpec => []DriveInv
<1>1. AtaInit => DriveInv
    BY InitDrive
<1>2. DriveInv /\ [AtaNext]_ata_vars => DriveInv'
    BY StepKeepsDrive
<1> QED BY <1>1, <1>2, PTL DEF AtaSpec

\* A sector whose write returned in time is on the medium and stays there, through
\* power failures and whatever a late drive does, until its next write begins.
THEOREM SavesAreDurable ==
    ASSUME ~Preempts
    PROVE  AtaSpec => []SavedIsDurable
<1>1. DriveInv => SavedIsDurable
    BY DEF DriveInv, SavedTwice, SavedIsDurable
<1> QED BY <1>1, DriveInvariance, PTL

\* A read that was not late has the sector in the buffer when it returns.
LEMMA ReadInBuffer ==
    ASSUME DriveInv, ReadReturns, ~late
    PROVE  /\ call.job = "load" =>
                 ata_io_buffer = cache[WORLD_SAVE_LBA_SECTOR]
           /\ call.job = "test_read" => ata_io_buffer = Secret
<1>1. PICK c \in Calls :
          /\ calls = <<c>> /\ c.at = "copy" /\ call = c /\ WellFormed(c) /\ InTime(c)
    BY TheCall DEF ReadReturns
<1>2. IsRead(c)
    BY <1>1 DEF WellFormed, WriteSteps
<1>3. /\ ata_io_buffer = cache[c.lba]
      /\ c.job = "test_read" => cache[TestSector] = Secret
    BY <1>1, <1>2 DEF InTime, ReadInTime
<1> QED BY <1>1, <1>3 DEF WellFormed

\* Loading restores what was saved, also after a power failure.
THEOREM LoadingRestores ==
    ASSUME ~Preempts
    PROVE  AtaSpec => LoadRestoresSaved
<1> DEFINE Step == (/\ ReadReturns /\ call.job = "load" /\ ~late
                    /\ saved[WORLD_SAVE_LBA_SECTOR] # NoData) =>
                       world_buffer' = saved[WORLD_SAVE_LBA_SECTOR]
<1>1. ASSUME DriveInv, AtaNext PROVE Step
    <2> SUFFICES ASSUME ReadReturns, call.job = "load", ~late,
                        saved[WORLD_SAVE_LBA_SECTOR] # NoData
                 PROVE  world_buffer' = saved[WORLD_SAVE_LBA_SECTOR]
        OBVIOUS
    <2>1. ata_io_buffer = cache[WORLD_SAVE_LBA_SECTOR]
        BY <1>1, ReadInBuffer
    <2>2. cache[WORLD_SAVE_LBA_SECTOR] = saved[WORLD_SAVE_LBA_SECTOR]
        BY <1>1 DEF DriveInv, SavedTwice, Sectors
    <2> QED BY <2>1, <2>2 DEF ReadReturns
<1>2. DriveInv /\ [AtaNext]_ata_vars => [Step]_ata_vars
    BY <1>1
<1> QED BY <1>2, DriveInvariance, PTL DEF AtaSpec, LoadRestoresSaved

\* "disktest" reads back what it wrote.
THEOREM EchoesAreGenuine ==
    ASSUME ~Preempts
    PROVE  AtaSpec => EchoIsGenuine
<1> DEFINE Step == (/\ ReadReturns /\ call.job = "test_read" /\ ~late)
                       => ata_io_buffer = Secret
<1>1. ASSUME DriveInv, AtaNext PROVE Step
    BY <1>1, ReadInBuffer
<1>2. DriveInv /\ [AtaNext]_ata_vars => [Step]_ata_vars
    BY <1>1
<1> QED BY <1>2, DriveInvariance, PTL DEF AtaSpec, EchoIsGenuine
=============================================================================
