------------------------------ MODULE Sandbox ------------------------------
(***************************************************************************)
(* The voxel sandbox: the map of src/raycast.cpp, the camera that          *)
(* src/collision.cpp moves through it, the ray of src/selection.cpp that   *)
(* finds the block in view, src/modification.cpp which destroys it or puts *)
(* a new one next to it, the sectors of src/spatial.cpp, and the columns   *)
(* that raycast.cpp draws.  Nothing shipped calls the first four: any      *)
(* order of calls is taken.                                                *)
(*                                                                         *)
(* Lengths are whole numbers of 1/80 of a tile, so that a step of the ray, *)
(* the radius of the camera and the margins of a face are exact.  TLC's    *)
(* positions are odd multiples and its rays move by even ones: no sample   *)
(* falls on a grid line or on a margin, where the rounding of a float      *)
(* would decide.  Angles are whole radians; the code takes 1 - a^2/2 for   *)
(* the cosine of a and a for its sine.                                     *)
(***************************************************************************)
EXTENDS Integers

CONSTANTS MAP_WIDTH, MAP_HEIGHT,         \* 16 by 16
          CELL_SCALE, SECTOR_GRID_LIMIT, \* 4, 4
          RaySteps,                      \* MAX_SELECTION_DISTANCE / RAY_STEP_SIZE: 80
          Columns,                       \* SCREEN_WIDTH (800)
          Angles,                        \* angles a caller passes
          Deltas,                        \* movements along an axis a caller passes
          StartMap, StartPosition        \* the pre-baked world_map; the first camera

TILE == 80
PLAYER_RADIUS == 16
LineMargin == 4                          \* 0.05 of a tile

Tiles == [x : 0 .. MAP_WIDTH - 1, y : 0 .. MAP_HEIGHT - 1]

\* A movement is shorter than what is left of a tile beside the camera: the code
\* looks at the end of a movement only, and would jump over what is between.
ASSUME SandboxAssumption ==
    /\ MAP_WIDTH \in Nat \ {0} /\ MAP_HEIGHT \in Nat \ {0}
    /\ CELL_SCALE \in Nat \ {0} /\ SECTOR_GRID_LIMIT \in Nat \ {0}
    /\ CELL_SCALE * SECTOR_GRID_LIMIT >= MAP_WIDTH
    /\ CELL_SCALE * SECTOR_GRID_LIMIT >= MAP_HEIGHT
    /\ RaySteps \in Nat /\ Columns \in Nat \ {0} /\ Angles \subseteq Int
    /\ Deltas \subseteq PLAYER_RADIUS - TILE .. TILE - PLAYER_RADIUS
    /\ StartMap \subseteq Tiles
    /\ StartPosition \in [x : PLAYER_RADIUS .. TILE * MAP_WIDTH - PLAYER_RADIUS - 1,
                          y : PLAYER_RADIUS .. TILE * MAP_HEIGHT - PLAYER_RADIUS - 1]

VARIABLES world_map,   \* the tiles that hold a block
          camera       \* the position of the player

vars == <<world_map, camera>>

Init == world_map = StartMap /\ camera = StartPosition

-----------------------------------------------------------------------------
(* Positions and tiles.  A cast to int, and a division, drop the fraction: *)
(* what is less than a tile outside, to the left or above, counts as the   *)
(* first column or row.                                                    *)

Quotient(a, b) == IF a >= 0 THEN a \div b ELSE -((-a) \div b)
TileOf(p) == [x |-> Quotient(p.x, TILE), y |-> Quotient(p.y, TILE)]

OnMap_PastRight(t) == t.x >= 0 /\ t.x <= MAP_WIDTH /\ t.y >= 0 /\ t.y < MAP_HEIGHT
OnMap(t) == t.x >= 0 /\ t.x < MAP_WIDTH /\ t.y >= 0 /\ t.y < MAP_HEIGHT

check_wall_collision(p) == ~OnMap(TileOf(p)) \/ TileOf(p) \in world_map

Least(a, b) == IF a <= b THEN a ELSE b
Clamped(c) == IF c < 0 THEN 0 ELSE Least(c, SECTOR_GRID_LIMIT - 1)
Sector(u) == Clamped(Quotient(Quotient(u, TILE), CELL_SCALE))
calculate_cell_index(p) == Sector(p.y) * SECTOR_GRID_LIMIT + Sector(p.x)

-----------------------------------------------------------------------------
(* Movement: along one axis, then, from there, along the other.  The edge  *)
(* that leads is looked at, at the height of the centre.                   *)

Sign(d) == IF d > 0 THEN 1 ELSE -1

Slide(p, axis, d) ==
    IF d # 0 /\ ~check_wall_collision([p EXCEPT ![axis] = @ + d + Sign(d) * PLAYER_RADIUS])
    THEN [p EXCEPT ![axis] = @ + d]
    ELSE p

apply_aabb_clipping_FromOldX(p, dx, dy) ==
    [x |-> Slide(p, "x", dx).x, y |-> Slide(p, "y", dy).y]
apply_aabb_clipping(p, dx, dy) == Slide(Slide(p, "x", dx), "y", dy)

Move(dx, dy) ==
    /\ camera' = apply_aabb_clipping(camera, dx, dy)
    /\ UNCHANGED world_map

-----------------------------------------------------------------------------
(* The ray in the direction of view, the block it strikes, and the face.   *)

TwiceCos(a) == 2 - a * a
RayAt(p, a, n) == [x |-> p.x + 2 * n * TwiceCos(a), y |-> p.y + 4 * n * a]

\* Where the ray ends within reach, if it does and that is on the map.
Ends(a, n) == /\ check_wall_collision(RayAt(camera, a, n))
              /\ \A m \in 1 .. n - 1 : ~check_wall_collision(RayAt(camera, a, m))
trace_selection_ray(a) ==
    {q \in {RayAt(camera, a, n) : n \in {n \in 1 .. RaySteps : Ends(a, n)}} : OnMap(TileOf(q))}

NearLine(u) ==
    LET rem == u - TILE * Quotient(u, TILE) IN rem < LineMargin \/ rem > TILE - LineMargin
face_axis(q) == IF NearLine(q.y) /\ ~NearLine(q.x) THEN "y" ELSE "x"

Backward_Forward(axis, a) ==
    IF axis = "x" THEN -Sign(-TwiceCos(a)) ELSE -Sign(a)
Backward(axis, a) ==
    IF axis = "x" THEN -Sign(TwiceCos(a)) ELSE -Sign(a)
BeforeFace(q, a) ==
    LET axis == face_axis(q) IN [TileOf(q) EXCEPT ![axis] = @ + Backward(axis, a)]

\* execute_voxel_mutation with VOXEL_ACTION_DESTROY and VOXEL_ACTION_PLACE; its
\* early returns, and a place that is taken or not on the map, change nothing.
Destroy(a) ==
    /\ \E q \in trace_selection_ray(a) : world_map' = world_map \ {TileOf(q)}
    /\ UNCHANGED camera

Place(a) ==
    /\ \E q \in trace_selection_ray(a) :
         LET new_block == BeforeFace(q, a) IN
           OnMap(new_block) /\ world_map' = world_map \cup {new_block}
    /\ UNCHANGED camera

-----------------------------------------------------------------------------
Next ==
    \/ \E dx, dy \in Deltas : Move(dx, dy)
    \/ \E a \in Angles : Destroy(a) \/ Place(a)

Spec == Init /\ [][Next]_vars

-----------------------------------------------------------------------------
(* render_voxel_world: the direction of a column, scaled by Columns^2, and *)
(* the march from grid line to grid line.  Times to the next lines are     *)
(* compared as fractions, by cross multiplication; a direction of 0, for   *)
(* which the code takes 1e30, needs no case of its own.                    *)

RayDir(column) ==
    LET c == 2 * column - Columns IN [x |-> Columns * Columns - c * c, y |-> c * Columns]

Abs(d) == IF d < 0 THEN -d ELSE d
Axes == {"x", "y"}

SideDist_Swapped(u, tile, d) == IF d < 0 THEN TILE * (tile + 1) - u ELSE u - TILE * tile
SideDist(u, tile, d) == IF d < 0 THEN u - TILE * tile ELSE TILE * (tile + 1) - u

\* A march: the tile it is in, the side it came in by, and for each axis the length
\* along it from the camera to the next grid line.
Outset(p, dir) ==
    [tile |-> TileOf(p), side |-> "x",
     side_dist |-> [i \in Axes |-> SideDist(p[i], TileOf(p)[i], dir[i])]]

Jump(s, dir) ==
    LET i == IF s.side_dist["x"] * Abs(dir.y) < s.side_dist["y"] * Abs(dir.x)
             THEN "x" ELSE "y" IN
      [tile      |-> [s.tile EXCEPT ![i] = @ + IF dir[i] < 0 THEN -1 ELSE 1],
       side      |-> i,
       side_dist |-> [s.side_dist EXCEPT ![i] = @ + TILE]]

Over(s) == ~OnMap(s.tile) \/ s.tile \in world_map

\* How it ends; the tile of the camera is not looked at.
March(p, dir) ==
    LET after[n \in 0 .. MAP_WIDTH + MAP_HEIGHT] ==
            IF n = 0 THEN Outset(p, dir)
            ELSE LET s == after[n - 1] IN IF n > 1 /\ Over(s) THEN s ELSE Jump(s, dir)
    IN  after[MAP_WIDTH + MAP_HEIGHT]

-----------------------------------------------------------------------------
(* Properties.                                                             *)

\* Every variable holds a value of its type.
TypeOK == world_map \subseteq Tiles /\ camera \in [x : Int, y : Int]

\* The camera stays a radius away from the end of the map on the right and below;
\* on the left and above it may leave the map, but by less than a tile, because
\* casts drop the fraction ("Treat out-of-bounds space as a solid wall clip",
\* collision.cpp:17).  Every table is then read inside its bounds, and the sector
\* is that of the camera's tile without any clamping.
CameraStaysNear ==
    /\ camera.x > PLAYER_RADIUS - TILE /\ camera.x < TILE * MAP_WIDTH - PLAYER_RADIUS
    /\ camera.y > PLAYER_RADIUS - TILE /\ camera.y < TILE * MAP_HEIGHT - PLAYER_RADIUS
    /\ OnMap(TileOf(camera))
    /\ calculate_cell_index(camera) =
         (TileOf(camera).y \div CELL_SCALE) * SECTOR_GRID_LIMIT
         + TileOf(camera).x \div CELL_SCALE

Buried == TileOf(camera) \in world_map

\* No movement takes the camera into a block, past a corner or with both axes at
\* once: only a block that is put where the camera stands buries it ("stop the
\* camera coordinate offsets from sliding through blocks", README.md:33).
OnlyPlacingBuries == [][~Buried /\ Buried' => camera' = camera]_vars

\* Straight ahead, a block that was put down is the next one in view: destroying
\* it restores the map.  Unless the ray starts in a block: from the last 0.05 of a
\* tile before a block the new one lands where the camera stands, and the next ray
\* passes it by.
StraightPlaceUndone ==
    [][world_map' # world_map /\ ~check_wall_collision(RayAt(camera, 0, 1)) /\ Place(0) =>
         \E q \in trace_selection_ray(0)' : world_map' \ {TileOf(q)} = world_map]_vars

\* A line of sight crosses a tile: the times at which it is between the tile's
\* grid lines of either axis overlap.
Enters(p, dir, t, i) == IF dir[i] < 0 THEN p[i] - TILE * (t[i] + 1) ELSE TILE * t[i] - p[i]
Crosses(p, dir, t) ==
    /\ \A i \in Axes : Enters(p, dir, t, i) + TILE > 0
    /\ Enters(p, dir, t, "x") * Abs(dir.y) < (Enters(p, dir, t, "y") + TILE) * Abs(dir.x)
    /\ Enters(p, dir, t, "y") * Abs(dir.x) < (Enters(p, dir, t, "x") + TILE) * Abs(dir.y)
\* A corner of the grid lies ahead in a line of sight.
MeetsCorner(p, dir) ==
    \E i \in 0 .. MAP_WIDTH, j \in 0 .. MAP_HEIGHT :
        LET u == TILE * i - p.x
            v == TILE * j - p.y
        IN  u * dir.x >= 0 /\ v * dir.y >= 0 /\ u * dir.y = v * dir.x
Away(p, t) == Abs(t.x - TileOf(p).x) + Abs(t.y - TileOf(p).y)

\* Every column shows the nearest block that its line of sight crosses, by the face
\* through which it enters; a march that finds none leaves the map.  For a camera
\* on the map; its own tile is not looked at.  Where a line of sight meets a corner
\* of the grid, two tiles are next, and the code takes the one across the line of y.
ColumnsShowNearest ==
    camera.x >= 0 /\ camera.y >= 0 =>
      \A column \in {c \in 0 .. Columns - 1 : ~MeetsCorner(camera, RayDir(c))} :
        LET dir == RayDir(column)
            end == March(camera, dir)
            crossed == {t \in world_map \ {TileOf(camera)} : Crosses(camera, dir, t)}
        IN  IF crossed = {} THEN ~OnMap(end.tile)
            ELSE /\ end.tile \in crossed
                 /\ \A t \in crossed : Away(camera, end.tile) <= Away(camera, t)
                 /\ end.side = "x" <=> Enters(camera, dir, end.tile, "x") * Abs(dir.y)
                                       > Enters(camera, dir, end.tile, "y") * Abs(dir.x)
=============================================================================
