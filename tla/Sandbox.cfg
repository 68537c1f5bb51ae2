SPECIFICATION Spec
CONSTANTS
  MAP_WIDTH = 3
  MAP_HEIGHT = 3
  CELL_SCALE = 2
  SECTOR_GRID_LIMIT = 2
  RaySteps = 24
  Columns = 4
  Angles <- MCAngles
  Deltas <- MCDeltas
  StartMap <- MCStartMap
  StartPosition <- MCStartPosition
INVARIANTS
  CameraStaysNear
  ColumnsShowNearest
PROPERTIES
  OnlyPlacingBuries
  StraightPlaceUndone
