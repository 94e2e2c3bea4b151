---------------------------- MODULE TileGeometry ----------------------------
(***************************************************************************)
(* The arithmetic by which CpuRenderer::render clips the region of a       *)
(* request to the image, divides it into tiles, and finds the rows of a    *)
(* tile in row-major images.  Coordinates are 32-bit; sums are 64-bit, so  *)
(* none wraps.                                                             *)
(*                                                                         *)
(* A definition named Operator_Defect is a faulty variant of Operator.     *)
(***************************************************************************)
EXTENDS Integers

CONSTANTS
  MaxCoordinate,    \* largest coordinate and dimension (2^32 - 1)
  MaximumTileSize,  \* kMaximumTileSize (512)
  MaximumTiles      \* kMaximumTilesPerRenderRequest (65536)

ASSUME GeometryAssumption ==
  MaxCoordinate \in Nat /\ MaximumTileSize \in Nat \ {0} /\ MaximumTiles \in Nat \ {0}

Coordinates == 0..MaxCoordinate

\* ImageRect
Rectangles == [x : Coordinates, y : Coordinates, width : Coordinates, height : Coordinates]

\* The pixels of a rectangle; its left upper corner is part of it.
Pixels(rect) == (rect.x .. rect.x + rect.width - 1) \X (rect.y .. rect.y + rect.height - 1)

Smaller(a, b) == IF a <= b THEN a ELSE b

\* Where a pixel is in the samples of an image of some width.
Offset(width, x, y) == y * width + x

(***************************************************************************)
(* validate_request: the part of the region inside the image               *)
(***************************************************************************)

\* Variant: the sum is formed in 32 bits.
End_Narrow(start, length) == (start + length) % (MaxCoordinate + 1)

End(start, length) == start + length

IsEmpty(rect) == rect.width = 0 \/ rect.height = 0

Intersects(width, height, roi) ==
  /\ Smaller(End(roi.x, roi.width), width) > Smaller(roi.x, width)
  /\ Smaller(End(roi.y, roi.height), height) > Smaller(roi.y, height)

Clipped(width, height, roi) ==
  LET x == Smaller(roi.x, width)
      y == Smaller(roi.y, height)
  IN  [x      |-> x,
       y      |-> y,
       width  |-> Smaller(End(roi.x, roi.width), width) - x,
       height |-> Smaller(End(roi.y, roi.height), height) - y]

(***************************************************************************)
(* make_tile_grid and tile_at                                              *)
(***************************************************************************)
Tiled(length, size) == (length + size - 1) \div size

TileGrid(roi, size) ==
  [roi     |-> roi,
   size    |-> size,
   columns |-> Tiled(roi.width, size),
   count   |-> Tiled(roi.width, size) * Tiled(roi.height, size)]

Indices(grid) == 0 .. grid.count - 1

\* Tiles at the right and lower edge of the region are cut off.
TileAt(grid, index) ==
  LET x == grid.roi.x + (index % grid.columns) * grid.size
      y == grid.roi.y + (index \div grid.columns) * grid.size
  IN  [x      |-> x,
       y      |-> y,
       width  |-> Smaller(grid.size, grid.roi.x + grid.roi.width - x),
       height |-> Smaller(grid.size, grid.roi.y + grid.roi.height - y)]

\* What render sets aside for one thread: no tile is larger.
PeakTile(roi, size) == Smaller(size, roi.width) * Smaller(size, roi.height)
=============================================================================
