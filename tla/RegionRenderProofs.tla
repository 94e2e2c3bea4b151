------------------------- MODULE RegionRenderProofs -------------------------
(***************************************************************************)
(* For every size of image, region and tile: the tiles of an accepted      *)
(* request partition its region and fit the memory set aside, a finished   *)
(* image is what the graph makes of each pixel alone, and what no node     *)
(* reaches is exported as it was decoded.  The lemmas take the arithmetic  *)
(* apart, one dimension and one rounding at a time, so that each rests on  *)
(* few products.                                                           *)
(***************************************************************************)
EXTENDS RegionRender, FiniteSetTheorems, SequenceTheorems, TLAPS

(***************************************************************************)
(* Integer arithmetic                                                      *)
(***************************************************************************)

\* Quotient and remainder.
LEMMA Division ==
  ASSUME NEW n \in Nat, NEW d \in Nat, d > 0
  PROVE  /\ n \div d \in Nat /\ n % d \in Nat
         /\ n = d * (n \div d) + (n % d)
         /\ n % d < d
  BY SMT

\* They are unique.
LEMMA DivisionUnique ==
  ASSUME NEW q \in Nat, NEW r \in Nat, NEW d \in Nat, r < d
  PROVE  (q * d + r) \div d = q /\ (q * d + r) % d = r
  BY SMT

\* Multiplication by a natural number is monotone.
LEMMA ProductMonotone ==
  ASSUME NEW a \in Nat, NEW b \in Nat, NEW c \in Nat, NEW d \in Nat, a <= b, c <= d
  PROVE  a * c <= b * d
<1>1. a * c <= b * c
  BY SMT
<1>2. b * c <= b * d
  BY SMT
<1> QED BY <1>1, <1>2, SMT

\* make_tile_grid: the last tile begins inside a length and reaches its end.
LEMMA TiledBounds ==
  ASSUME NEW length \in Nat, NEW size \in Nat, length > 0, size > 0
  PROVE  /\ Tiled(length, size) \in Nat /\ Tiled(length, size) > 0
         /\ length <= Tiled(length, size) * size
         /\ (Tiled(length, size) - 1) * size < length
<1> DEFINE n == length + size - 1
           q == n \div size
<1>1. q \in Nat /\ n % size \in Nat /\ n = size * q + (n % size) /\ n % size < size
  BY Division
<1>2. q > 0
  BY <1>1, SMT
<1>3. size * q = q * size /\ (q - 1) * size = q * size - size
  BY <1>1, SMT
<1> HIDE DEF q
<1>4. length <= q * size /\ (q - 1) * size < length
  BY <1>1, <1>3, SMT
<1> QED BY <1>1, <1>2, <1>4 DEF Tiled, q

(***************************************************************************)
(* One dimension: cells of some size laid side by side along a length      *)
(***************************************************************************)

\* Where cell k ends, the last one being cut off.
CellEnd(length, size, k) == k * size + Smaller(size, length - k * size)

\* A cell of the grid lies within the length and is not empty.
LEMMA CellInside ==
  ASSUME NEW length \in Nat, NEW size \in Nat, length > 0, size > 0,
         NEW k \in 0 .. Tiled(length, size) - 1
  PROVE  /\ k * size \in Nat /\ CellEnd(length, size, k) \in Nat
         /\ Smaller(size, length - k * size) \in 1 .. Smaller(size, length)
         /\ CellEnd(length, size, k) <= length
<1>1. Tiled(length, size) \in Nat /\ (Tiled(length, size) - 1) * size < length
  BY TiledBounds
<1>2. k \in Nat /\ k <= Tiled(length, size) - 1 /\ Tiled(length, size) - 1 \in Nat
  BY <1>1
<1>3. k * size <= (Tiled(length, size) - 1) * size /\ k * size \in Nat
  BY <1>2, ProductMonotone, SMT
<1>4. (Tiled(length, size) - 1) * size \in Nat
  BY <1>2, SMT
<1> DEFINE start == k * size
<1>5. start \in Nat /\ start < length
  BY <1>1, <1>3, <1>4
<1> HIDE DEF start
<1>6. /\ Smaller(size, length - start) \in 1 .. Smaller(size, length)
      /\ start + Smaller(size, length - start) \in 0 .. length
  BY <1>5 DEF Smaller
<1> QED BY <1>5, <1>6 DEF CellEnd, start

\* Every place along the length is in the cell its quotient names.
LEMMA CellOf ==
  ASSUME NEW length \in Nat, NEW size \in Nat, length > 0, size > 0,
         NEW p \in 0 .. length - 1
  PROVE  /\ p \div size \in 0 .. Tiled(length, size) - 1
         /\ (p \div size) * size <= p
         /\ p < CellEnd(length, size, p \div size)
<1> DEFINE q == p \div size
           t == Tiled(length, size)
<1>1. q \in Nat /\ p % size \in Nat /\ p = size * q + (p % size) /\ p % size < size
  BY Division
<1>2. t \in Nat /\ t > 0 /\ length <= t * size
  BY TiledBounds
<1>3. size * q = q * size
  BY <1>1, SMT
<1>4. q < t
  <2>1. SUFFICES ASSUME t <= q PROVE FALSE
    BY <1>1, <1>2
  <2>2. t * size <= q * size
    BY <1>1, <1>2, <2>1, ProductMonotone
  <2> HIDE DEF q, t
  <2>3. t * size \in Nat /\ q * size \in Nat
    BY <1>1, <1>2, SMT
  <2> QED BY <1>1, <1>2, <1>3, <2>2, <2>3
<1> HIDE DEF q, t
<1> DEFINE start == q * size
<1>5. start \in Nat /\ start <= p /\ p < start + size
  BY <1>1, <1>3, SMT
<1> HIDE DEF start
<1>6. p < start + Smaller(size, length - start)
  BY <1>5 DEF Smaller
<1> QED BY <1>1, <1>2, <1>4, <1>5, <1>6 DEF CellEnd, start, q, t

\* Different cells share no place.
LEMMA CellsApart ==
  ASSUME NEW length \in Nat, NEW size \in Nat, length > 0, size > 0,
         NEW j \in 0 .. Tiled(length, size) - 1, NEW k \in 0 .. Tiled(length, size) - 1, j < k
  PROVE  CellEnd(length, size, j) <= k * size
<1>1. Tiled(length, size) \in Nat
  BY TiledBounds
<1>2. j \in Nat /\ k \in Nat /\ j + 1 <= k
  BY <1>1
<1>3. (j + 1) * size <= k * size
  BY <1>2, ProductMonotone
<1>4. (j + 1) * size = j * size + size /\ j * size \in Nat /\ k * size \in Nat
  BY <1>2, SMT
<1> DEFINE start == j * size
           next  == k * size
<1>5. start \in Nat /\ next \in Nat /\ start + size <= next
  BY <1>3, <1>4
<1> HIDE DEF start, next
<1>6. start + Smaller(size, length - start) <= next
  BY <1>5 DEF Smaller
<1> QED BY <1>6 DEF CellEnd, start, next

(***************************************************************************)
(* Two dimensions: an index is a row and a column                          *)
(***************************************************************************)

\* tile_at: the row and the column of an index.
LEMMA IndexSplit ==
  ASSUME NEW c \in Nat, NEW r \in Nat, c > 0, r > 0, NEW i \in 0 .. c * r - 1
  PROVE  i % c \in 0 .. c - 1 /\ i \div c \in 0 .. r - 1 /\ i = (i \div c) * c + (i % c)
<1> DEFINE q == i \div c
<1>1. c * r \in Nat
  BY SMT
<1>2. i \in Nat /\ i < c * r
  BY <1>1
<1>3. q \in Nat /\ i % c \in Nat /\ i = c * q + (i % c) /\ i % c < c
  BY <1>2, Division
<1>4. c * q = q * c /\ c * r = r * c /\ c * q \in Nat
  BY <1>3, SMT
<1>5. q < r
  <2>1. SUFFICES ASSUME r <= q PROVE FALSE
    BY <1>3
  <2>2. r * c <= q * c
    BY <1>3, <2>1, ProductMonotone
  <2> HIDE DEF q
  <2> QED BY <1>1, <1>2, <1>3, <1>4, <2>2
<1> HIDE DEF q
<1> QED BY <1>3, <1>4, <1>5 DEF q

\* Row and column make an index.
LEMMA IndexJoin ==
  ASSUME NEW c \in Nat, NEW r \in Nat, c > 0, r > 0, NEW col \in 0 .. c - 1, NEW row \in 0 .. r - 1
  PROVE  /\ row * c + col \in 0 .. c * r - 1
         /\ (row * c + col) % c = col /\ (row * c + col) \div c = row
<1>1. col \in Nat /\ row \in Nat /\ col < c /\ row + 1 <= r
  OBVIOUS
<1>2. (row + 1) * c <= r * c
  BY <1>1, ProductMonotone
<1>3. (row + 1) * c = row * c + c /\ r * c = c * r /\ row * c \in Nat /\ c * r \in Nat
  BY <1>1, SMT
<1>4. row * c + col \in 0 .. c * r - 1
  BY <1>1, <1>2, <1>3
<1> QED BY <1>1, <1>4, DivisionUnique

(***************************************************************************)
(* The tiles of a region                                                   *)
(***************************************************************************)
Regions == [x : Nat, y : Nat, width : Nat \ {0}, height : Nat \ {0}]

\* A tile is a cell in each dimension.
LEMMA TileIsCell ==
  ASSUME NEW roi \in Regions, NEW size \in Nat, size > 0,
         NEW i \in Indices(TileGrid(roi, size)),
         NEW col, col = i % Tiled(roi.width, size),
         NEW row, row = i \div Tiled(roi.width, size)
  PROVE  LET tile == TileAt(TileGrid(roi, size), i) IN
         /\ col \in 0 .. Tiled(roi.width, size) - 1
         /\ row \in 0 .. Tiled(roi.height, size) - 1
         /\ i = row * Tiled(roi.width, size) + col
         /\ tile.width \in 1 .. Smaller(size, roi.width)
         /\ tile.height \in 1 .. Smaller(size, roi.height)
         /\ Pixels(tile) =
              (roi.x + col * size .. roi.x + CellEnd(roi.width, size, col) - 1)
              \X (roi.y + row * size .. roi.y + CellEnd(roi.height, size, row) - 1)
<1> DEFINE c == Tiled(roi.width, size)
           r == Tiled(roi.height, size)
           tile == TileAt(TileGrid(roi, size), i)
<1>1. /\ roi.x \in Nat /\ roi.y \in Nat
      /\ roi.width \in Nat /\ roi.height \in Nat /\ roi.width > 0 /\ roi.height > 0
  BY DEF Regions
<1>2. c \in Nat /\ c > 0 /\ r \in Nat /\ r > 0
  BY <1>1, TiledBounds
<1>3. i \in 0 .. c * r - 1
  BY DEF Indices, TileGrid
<1>4. col \in 0 .. c - 1 /\ row \in 0 .. r - 1 /\ i = row * c + col
  BY <1>2, <1>3, IndexSplit
<1>5. /\ col * size \in Nat
      /\ Smaller(size, roi.width - col * size) \in 1 .. Smaller(size, roi.width)
  BY <1>1, <1>4, CellInside
<1>6. /\ row * size \in Nat
      /\ Smaller(size, roi.height - row * size) \in 1 .. Smaller(size, roi.height)
  BY <1>1, <1>4, CellInside
<1>7. /\ tile.x = roi.x + col * size /\ tile.y = roi.y + row * size
      /\ tile.width = Smaller(size, roi.x + roi.width - (roi.x + col * size))
      /\ tile.height = Smaller(size, roi.y + roi.height - (roi.y + row * size))
  BY DEF TileAt, TileGrid
<1> HIDE DEF c, r, tile
<1> DEFINE cs == col * size
           rs == row * size
<1>8. cs \in Nat /\ rs \in Nat
  BY <1>5, <1>6
<1>9. /\ tile.width = Smaller(size, roi.width - cs)
      /\ tile.height = Smaller(size, roi.height - rs)
  <2> HIDE DEF cs, rs
  <2>1. /\ roi.x + roi.width - (roi.x + cs) = roi.width - cs
        /\ roi.y + roi.height - (roi.y + rs) = roi.height - rs
    BY <1>1, <1>8
  <2> QED BY <2>1, <1>7 DEF cs, rs
<1>10. /\ Smaller(size, roi.width - cs) \in Int
       /\ Smaller(size, roi.height - rs) \in Int
  <2> HIDE DEF cs, rs
  <2> QED BY <1>1, <1>8 DEF Smaller
<1>11. Pixels(tile) =
         (roi.x + cs .. roi.x + CellEnd(roi.width, size, col) - 1)
         \X (roi.y + rs .. roi.y + CellEnd(roi.height, size, row) - 1)
  <2>1. /\ CellEnd(roi.width, size, col) = cs + Smaller(size, roi.width - cs)
        /\ CellEnd(roi.height, size, row) = rs + Smaller(size, roi.height - rs)
    BY DEF CellEnd
  <2>2. tile.x = roi.x + cs /\ tile.y = roi.y + rs
    BY <1>7
  <2> HIDE DEF cs, rs
  <2>3. /\ roi.x + cs + Smaller(size, roi.width - cs) - 1
             = roi.x + (cs + Smaller(size, roi.width - cs)) - 1
        /\ roi.y + rs + Smaller(size, roi.height - rs) - 1
             = roi.y + (rs + Smaller(size, roi.height - rs)) - 1
    BY <1>1, <1>8, <1>10
  <2> QED BY <2>1, <2>2, <2>3, <1>9 DEF Pixels
<1> QED BY <1>4, <1>5, <1>6, <1>9, <1>11 DEF c, r, tile

\* Each pixel of a region is in a tile of its grid.
LEMMA TilesCover ==
  ASSUME NEW roi \in Regions, NEW size \in Nat, size > 0, NEW p \in Pixels(roi)
  PROVE  \E i \in Indices(TileGrid(roi, size)) : p \in Pixels(TileAt(TileGrid(roi, size), i))
<1> DEFINE c == Tiled(roi.width, size)
           r == Tiled(roi.height, size)
           col == (p[1] - roi.x) \div size
           row == (p[2] - roi.y) \div size
           i == row * c + col
<1>1. /\ roi.x \in Nat /\ roi.y \in Nat
      /\ roi.width \in Nat /\ roi.height \in Nat /\ roi.width > 0 /\ roi.height > 0
  BY DEF Regions
<1>2. /\ p = <<p[1], p[2]>> /\ p[1] \in Int /\ p[2] \in Int
      /\ p[1] - roi.x \in 0 .. roi.width - 1 /\ p[2] - roi.y \in 0 .. roi.height - 1
  BY <1>1 DEF Pixels
<1>3. c \in Nat /\ c > 0 /\ r \in Nat /\ r > 0
  BY <1>1, TiledBounds
<1>4. /\ col \in 0 .. c - 1
      /\ col * size <= p[1] - roi.x /\ p[1] - roi.x < CellEnd(roi.width, size, col)
  BY <1>1, <1>2, CellOf
<1>5. /\ row \in 0 .. r - 1
      /\ row * size <= p[2] - roi.y /\ p[2] - roi.y < CellEnd(roi.height, size, row)
  BY <1>1, <1>2, CellOf
<1>6. i \in 0 .. c * r - 1 /\ i % c = col /\ i \div c = row
  <2>1. col \in 0 .. c - 1
    BY <1>4
  <2>2. row \in 0 .. r - 1
    BY <1>5
  <2> HIDE DEF col, row, c, r
  <2> QED BY <1>3, <2>1, <2>2, IndexJoin
<1> HIDE DEF col, row
<1>7. i \in Indices(TileGrid(roi, size))
  BY <1>6 DEF Indices, TileGrid
<1>8. Pixels(TileAt(TileGrid(roi, size), i)) =
        (roi.x + col * size .. roi.x + CellEnd(roi.width, size, col) - 1)
        \X (roi.y + row * size .. roi.y + CellEnd(roi.height, size, row) - 1)
  BY <1>6, <1>7, TileIsCell
<1> DEFINE cs == col * size
           rs == row * size
<1>9. /\ cs \in Nat /\ rs \in Nat
      /\ CellEnd(roi.width, size, col) \in Nat /\ CellEnd(roi.height, size, row) \in Nat
  BY <1>1, <1>4, <1>5, CellInside
<1>10. /\ p[1] \in roi.x + cs .. roi.x + CellEnd(roi.width, size, col) - 1
       /\ p[2] \in roi.y + rs .. roi.y + CellEnd(roi.height, size, row) - 1
  <2>1. cs <= p[1] - roi.x /\ rs <= p[2] - roi.y
    BY <1>4, <1>5
  <2> HIDE DEF cs, rs
  <2> QED BY <2>1, <1>1, <1>2, <1>4, <1>5, <1>9
<1>11. p \in Pixels(TileAt(TileGrid(roi, size), i))
  BY <1>2, <1>8, <1>10
<1> QED BY <1>7, <1>11

\* A tile does not leave its region.
LEMMA TilesInside ==
  ASSUME NEW roi \in Regions, NEW size \in Nat, size > 0, NEW i \in Indices(TileGrid(roi, size))
  PROVE  Pixels(TileAt(TileGrid(roi, size), i)) \subseteq Pixels(roi)
<1> DEFINE col == i % Tiled(roi.width, size)
           row == i \div Tiled(roi.width, size)
           cs == col * size
           rs == row * size
           ce == CellEnd(roi.width, size, col)
           re == CellEnd(roi.height, size, row)
<1>1. /\ roi.x \in Nat /\ roi.y \in Nat
      /\ roi.width \in Nat /\ roi.height \in Nat /\ roi.width > 0 /\ roi.height > 0
  BY DEF Regions
<1>2. /\ col \in 0 .. Tiled(roi.width, size) - 1
      /\ row \in 0 .. Tiled(roi.height, size) - 1
      /\ Pixels(TileAt(TileGrid(roi, size), i)) =
           (roi.x + cs .. roi.x + ce - 1) \X (roi.y + rs .. roi.y + re - 1)
  BY TileIsCell
<1>3. cs \in Nat /\ ce \in Nat /\ ce <= roi.width /\ rs \in Nat /\ re \in Nat /\ re <= roi.height
  BY <1>1, <1>2, CellInside
<1> HIDE DEF cs, rs, ce, re
<1>4. /\ (roi.x + cs .. roi.x + ce - 1) \subseteq (roi.x .. roi.x + roi.width - 1)
      /\ (roi.y + rs .. roi.y + re - 1) \subseteq (roi.y .. roi.y + roi.height - 1)
  BY <1>1, <1>3
<1> QED BY <1>2, <1>4 DEF Pixels

\* Two tiles share no pixel.
LEMMA TilesApart ==
  ASSUME NEW roi \in Regions, NEW size \in Nat, size > 0,
         NEW i \in Indices(TileGrid(roi, size)), NEW j \in Indices(TileGrid(roi, size)), i # j
  PROVE  Pixels(TileAt(TileGrid(roi, size), i)) \cap Pixels(TileAt(TileGrid(roi, size), j)) = {}
<1> DEFINE c == Tiled(roi.width, size)
           r == Tiled(roi.height, size)
           Xs(k) == roi.x + k * size .. roi.x + CellEnd(roi.width, size, k) - 1
           Ys(k) == roi.y + k * size .. roi.y + CellEnd(roi.height, size, k) - 1
<1>1. /\ roi.x \in Nat /\ roi.y \in Nat
      /\ roi.width \in Nat /\ roi.height \in Nat /\ roi.width > 0 /\ roi.height > 0
  BY DEF Regions
<1>2. ASSUME NEW k \in Indices(TileGrid(roi, size))
      PROVE  /\ k % c \in 0 .. c - 1 /\ k \div c \in 0 .. r - 1 /\ k = (k \div c) * c + (k % c)
             /\ Pixels(TileAt(TileGrid(roi, size), k)) = Xs(k % c) \X Ys(k \div c)
  BY TileIsCell
<1>3. c \in Nat /\ r \in Nat
  BY <1>1, TiledBounds
<1>4. ASSUME NEW a \in 0 .. c - 1, NEW b \in 0 .. c - 1, a < b
      PROVE  Xs(a) \cap Xs(b) = {}
  <2>1. CellEnd(roi.width, size, a) <= b * size /\ b * size \in Nat
        /\ CellEnd(roi.width, size, a) \in Nat
    BY <1>1, <1>4, CellsApart, CellInside
  <2> DEFINE next == b * size
             end  == CellEnd(roi.width, size, a)
  <2>2. next \in Nat /\ end \in Nat /\ end <= next
    BY <2>1
  <2>3. \A x \in Xs(a) : x < roi.x + end
    <3>1. a * size \in Nat
      BY <1>1, CellInside
    <3> HIDE DEF end
    <3> QED BY <3>1, <2>2, <1>1 DEF end
  <2>4. CellEnd(roi.width, size, b) \in Nat
    BY <1>1, CellInside
  <2>5. \A x \in Xs(b) : x \in Int /\ roi.x + next <= x
    BY <2>1, <2>4, <1>1
  <2> HIDE DEF next, end, Xs
  <2>6. \A x \in Xs(a) \cap Xs(b) : FALSE
    BY <2>2, <2>3, <2>5, <1>1
  <2> QED BY <2>6
<1>5. ASSUME NEW a \in 0 .. r - 1, NEW b \in 0 .. r - 1, a < b
      PROVE  Ys(a) \cap Ys(b) = {}
  <2>1. CellEnd(roi.height, size, a) <= b * size /\ b * size \in Nat
        /\ CellEnd(roi.height, size, a) \in Nat
    BY <1>1, <1>5, CellsApart, CellInside
  <2> DEFINE next == b * size
             end  == CellEnd(roi.height, size, a)
  <2>2. next \in Nat /\ end \in Nat /\ end <= next
    BY <2>1
  <2>3. \A y \in Ys(a) : y < roi.y + end
    <3>1. a * size \in Nat
      BY <1>1, CellInside
    <3> HIDE DEF end
    <3> QED BY <3>1, <2>2, <1>1 DEF end
  <2>4. CellEnd(roi.height, size, b) \in Nat
    BY <1>1, CellInside
  <2>5. \A y \in Ys(b) : y \in Int /\ roi.y + next <= y
    BY <2>1, <2>4, <1>1
  <2> HIDE DEF next, end, Ys
  <2>6. \A y \in Ys(a) \cap Ys(b) : FALSE
    BY <2>2, <2>3, <2>5, <1>1
  <2> QED BY <2>6
<1>6. i % c # j % c \/ i \div c # j \div c
  BY <1>2
<1>7. CASE i % c # j % c
  <2>1. i % c < j % c \/ j % c < i % c
    BY <1>2, <1>3, <1>7
  <2>2. Xs(i % c) \cap Xs(j % c) = {}
    BY <2>1, <1>2, <1>4
  <2> HIDE DEF Xs, Ys
  <2> QED BY <2>2, <1>2
<1>8. CASE i \div c # j \div c
  <2>1. i \div c < j \div c \/ j \div c < i \div c
    BY <1>2, <1>3, <1>8
  <2>2. Ys(i \div c) \cap Ys(j \div c) = {}
    BY <2>1, <1>2, <1>5
  <2> HIDE DEF Xs, Ys
  <2> QED BY <2>2, <1>2
<1> QED BY <1>6, <1>7, <1>8

(***************************************************************************)
(* An accepted request                                                     *)
(***************************************************************************)

\* validate_request: a region that meets the image is cut down to its part in
\* the image, and nothing that was asked for is lost.
LEMMA ClippedIsAskedFor ==
  ASSUME NEW roi \in Rectangles, Intersects(Width, Height, roi)
  PROVE  /\ Clipped(Width, Height, roi) \in Regions
         /\ Pixels(Clipped(Width, Height, roi)) = AskedFor(roi)
<1>1. Width \in Nat /\ Height \in Nat
  BY RegionAssumption, GeometryAssumption DEF Coordinates
<1>2. roi.x \in Nat /\ roi.y \in Nat /\ roi.width \in Nat /\ roi.height \in Nat
  BY GeometryAssumption DEF Rectangles, Coordinates
<1>3. Clipped(Width, Height, roi) \in Regions
  BY <1>1, <1>2 DEF Clipped, Intersects, Smaller, End, Regions
<1>4. Pixels(Clipped(Width, Height, roi)) = AskedFor(roi)
  <2> DEFINE xs == Smaller(roi.x, Width) ..
                     Smaller(roi.x, Width)
                       + (Smaller(roi.x + roi.width, Width) - Smaller(roi.x, Width)) - 1
             ys == Smaller(roi.y, Height) ..
                     Smaller(roi.y, Height)
                       + (Smaller(roi.y + roi.height, Height) - Smaller(roi.y, Height)) - 1
  <2>1. Pixels(Clipped(Width, Height, roi)) = xs \X ys
    BY DEF Pixels, Clipped, End
  <2>2. xs = {u \in 0 .. Width - 1 : roi.x <= u /\ u - roi.x < roi.width}
    <3>1. ASSUME NEW u \in xs
          PROVE  u \in 0 .. Width - 1 /\ roi.x <= u /\ u - roi.x < roi.width
      BY <1>1, <1>2 DEF Smaller
    <3>2. ASSUME NEW u \in 0 .. Width - 1, roi.x <= u, u - roi.x < roi.width
          PROVE  u \in xs
      BY <1>1, <1>2, <3>2 DEF Smaller
    <3> HIDE DEF xs
    <3> QED BY <3>1, <3>2, Zenon
  <2>3. ys = {u \in 0 .. Height - 1 : roi.y <= u /\ u - roi.y < roi.height}
    <3>1. ASSUME NEW u \in ys
          PROVE  u \in 0 .. Height - 1 /\ roi.y <= u /\ u - roi.y < roi.height
      BY <1>1, <1>2 DEF Smaller
    <3>2. ASSUME NEW u \in 0 .. Height - 1, roi.y <= u, u - roi.y < roi.height
          PROVE  u \in ys
      BY <1>1, <1>2, <3>2 DEF Smaller
    <3> HIDE DEF ys
    <3> QED BY <3>1, <3>2, Zenon
  <2> HIDE DEF xs, ys
  <2> QED BY <2>1, <2>2, <2>3 DEF AskedFor
<1> QED BY <1>3, <1>4

\* A region that does not meet the image asks for none of its pixels.
LEMMA BesideAsksNothing ==
  ASSUME NEW roi \in Rectangles, ~Intersects(Width, Height, roi)
  PROVE  AskedFor(roi) = {}
<1>1. Width \in Nat /\ Height \in Nat
  BY RegionAssumption, GeometryAssumption DEF Coordinates
<1>2. roi.x \in Nat /\ roi.y \in Nat /\ roi.width \in Nat /\ roi.height \in Nat
  BY GeometryAssumption DEF Rectangles, Coordinates
<1>3. SUFFICES ASSUME NEW p \in AskedFor(roi) PROVE FALSE
  OBVIOUS
<1>4. /\ p[1] \in 0 .. Width - 1 /\ p[2] \in 0 .. Height - 1
      /\ roi.x <= p[1] /\ p[1] - roi.x < roi.width
      /\ roi.y <= p[2] /\ p[2] - roi.y < roi.height
  BY DEF AskedFor
<1> DEFINE u == p[1]
           v == p[2]
<1>5. /\ u \in Int /\ 0 <= u /\ u < Width /\ roi.x <= u /\ u < roi.x + roi.width
      /\ v \in Int /\ 0 <= v /\ v < Height /\ roi.y <= v /\ v < roi.y + roi.height
  BY <1>1, <1>2, <1>4
<1> HIDE DEF u, v
<1>6. Intersects(Width, Height, roi)
  BY <1>1, <1>2, <1>5 DEF Intersects, Smaller, End
<1> QED BY <1>6

\* CpuRenderer::render, the transient memory: what is set aside for a thread
\* holds any tile of the region.
LEMMA TilesFitMemory ==
  ASSUME NEW roi \in Regions, NEW size \in Nat, size > 0, NEW workers \in Nat,
         TileGrid(roi, size).count \in Nat,
         MemorySuffices(roi, TileGrid(roi, size), workers),
         NEW i \in Indices(TileGrid(roi, size))
  PROVE  Area(TileAt(TileGrid(roi, size), i)) * Threads(workers, TileGrid(roi, size))
           <= MaximumTransient
<1> DEFINE tile    == TileAt(TileGrid(roi, size), i)
           threads == Threads(workers, TileGrid(roi, size))
           w == Smaller(size, roi.width)
           h == Smaller(size, roi.height)
<1>1. threads \in Nat
  BY DEF Threads, Smaller
<1>2. w \in Nat /\ h \in Nat
  BY DEF Regions, Smaller
<1>3. tile.width \in 1 .. w /\ tile.height \in 1 .. h
  BY TileIsCell
<1>4. PeakTile(roi, size) = w * h
  BY DEF PeakTile
<1>5. w * h * threads <= MaximumTransient
  BY <1>4 DEF MemorySuffices, TileGrid
<1> HIDE DEF tile, threads, w, h
<1>6. /\ tile.width \in Nat /\ tile.width <= w
      /\ tile.height \in Nat /\ tile.height <= h
  BY <1>2, <1>3
<1>7. tile.width * tile.height <= w * h
  BY <1>2, <1>6, ProductMonotone
<1>8. tile.width * tile.height \in Nat /\ w * h \in Nat
  BY <1>2, <1>6, SMT
<1> DEFINE a == tile.width * tile.height
           b == w * h
<1>9. a \in Nat /\ b \in Nat /\ a <= b /\ b * threads <= MaximumTransient
  BY <1>5, <1>7, <1>8
<1> HIDE DEF a, b
<1>10. a * threads <= b * threads
  BY <1>1, <1>9, ProductMonotone
<1>11. a * threads \in Nat /\ b * threads \in Nat
  BY <1>1, <1>9, SMT
<1>12. MaximumTransient \in Nat
  BY RegionAssumption
<1>13. a * threads <= MaximumTransient
  <2> DEFINE at == a * threads
             bt == b * threads
  <2>1. at \in Nat /\ bt \in Nat /\ at <= bt /\ bt <= MaximumTransient
    BY <1>9, <1>10, <1>11
  <2> HIDE DEF at, bt
  <2>2. at <= MaximumTransient
    BY <1>12, <2>1
  <2> QED BY <2>2 DEF at
<1>14. Area(tile) = a
  BY DEF Area, a
<1> QED BY <1>13, <1>14 DEF tile, threads

(***************************************************************************)
(* Every call                                                              *)
(***************************************************************************)

\* What a call prepared, until the next call, came from an accepted request;
\* what was refused as lying beside the image lies beside the image.
PreparedFor(q) ==
  /\ Accepted(q)
  /\ job.graph = q.graph
  /\ job.chain = Executable(q.graph, q.views)
  /\ job.grid = TileGrid(Clipped(Width, Height, q.roi), q.size)
  /\ job.threads = Threads(q.workers, job.grid)
  /\ job.asked = AskedFor(q.roi)

Prepared ==
  /\ phase \in {"rendering", "done"} => \E q \in Requests : PreparedFor(q)
  /\ phase = "empty_region" =>
       \E q \in Requests :
         /\ ~Intersects(Width, Height, q.roi)
         /\ job.asked = AskedFor(q.roi)

\* Every call prepares before it renders (CpuRenderer::render calls
\* prepare_render first) and no tile changes what was prepared.
LEMMA PreparedInvariant == Spec => []Prepared
<1>1. Init => Prepared
  BY DEF Init, Prepared
<1>2. Prepared /\ [Next]_vars => Prepared'
  <2> SUFFICES ASSUME Prepared, [Next]_vars PROVE Prepared'
    OBVIOUS
  <2>1. ASSUME NEW q \in Requests, Begin(q) PROVE Prepared'
    <3>1. /\ phase' = "rendering" /\ Accepted(q)
          /\ job'.graph = q.graph
          /\ job'.chain = Executable(q.graph, q.views)
          /\ job'.grid = TileGrid(Clipped(Width, Height, q.roi), q.size)
          /\ job'.threads = Threads(q.workers, job'.grid)
          /\ job'.asked = AskedFor(q.roi)
      BY <2>1 DEF Begin
    <3> QED BY <3>1 DEF Prepared, PreparedFor
  <2>2. ASSUME NEW q \in Requests, Refuse(q) PROVE Prepared'
    <3>1. /\ phase' \in {"empty_region", "failed"}
          /\ phase' = "empty_region" => ~Intersects(Width, Height, q.roi)
          /\ job'.asked = AskedFor(q.roi)
      BY <2>2 DEF Refuse, NoJob
    <3> QED BY <3>1 DEF Prepared
  <2>3. ASSUME NEW i \in todo, RenderTile(i) PROVE Prepared'
    <3>1. job' = job /\ phase = "rendering" /\ phase' \in {"rendering", "failed"}
      BY <2>3 DEF RenderTile
    <3> QED BY <3>1 DEF Prepared, PreparedFor
  <2>4. CASE Finish
    BY <2>4 DEF Finish, Prepared, PreparedFor
  <2>5. CASE UNCHANGED vars
    BY <2>5 DEF vars, Prepared, PreparedFor
  <2> QED BY <2>1, <2>2, <2>3, <2>4, <2>5 DEF Next
<1> QED BY <1>1, <1>2, PTL DEF Spec

\* The grid of a call that renders: a region of the image, the pixels of which
\* are those asked for, cut into tiles that are not empty.
LEMMA PreparedGrid ==
  ASSUME Prepared, phase \in {"rendering", "done"}
  PROVE  \E roi \in Regions, size \in Nat \ {0} :
           /\ job.grid = TileGrid(roi, size) /\ job.grid.roi = roi
           /\ Pixels(roi) = job.asked
<1>1. PICK q \in Requests : PreparedFor(q)
  BY DEF Prepared
<1> DEFINE roi == Clipped(Width, Height, q.roi)
<1>2. q.roi \in Rectangles /\ Intersects(Width, Height, q.roi) /\ q.size \in Nat \ {0}
  BY <1>1, RegionAssumption, GeometryAssumption DEF PreparedFor, Accepted
<1>3. roi \in Regions /\ Pixels(roi) = job.asked
  BY <1>1, <1>2, ClippedIsAskedFor DEF PreparedFor
<1>4. job.grid = TileGrid(roi, q.size) /\ job.grid.roi = roi
  BY <1>1 DEF PreparedFor, TileGrid
<1> QED BY <1>2, <1>3, <1>4

\* The tiles of every accepted request partition the pixels asked for and fit
\* the memory, and no region beside the image has a pixel of it: for images,
\* regions and tiles of any size.
THEOREM TilesFitAlways == Spec => []TilesFit
<1>1. Prepared => TilesFit
  <2> SUFFICES ASSUME Prepared PROVE TilesFit
    OBVIOUS
  <2>1. ASSUME phase = "empty_region" PROVE job.asked = {}
    <3>1. PICK q \in Requests : ~Intersects(Width, Height, q.roi) /\ job.asked = AskedFor(q.roi)
      BY <2>1 DEF Prepared
    <3>2. q.roi \in Rectangles
      BY RegionAssumption
    <3> QED BY <3>1, <3>2, BesideAsksNothing
  <2>2. ASSUME phase = "rendering"
        PROVE  /\ Pixels(job.grid.roi) = job.asked
               /\ \A p \in job.asked :
                    \E i \in Indices(job.grid) : p \in Pixels(TileAt(job.grid, i))
               /\ \A i \in Indices(job.grid) : Pixels(TileAt(job.grid, i)) \subseteq job.asked
               /\ \A i, j \in Indices(job.grid) :
                    i # j => Pixels(TileAt(job.grid, i)) \cap Pixels(TileAt(job.grid, j)) = {}
               /\ \A i \in Indices(job.grid) :
                    Area(TileAt(job.grid, i)) * job.threads <= MaximumTransient
    <3>1. PICK q \in Requests :
            /\ Accepted(q)
            /\ job.grid = TileGrid(Clipped(Width, Height, q.roi), q.size)
            /\ job.threads = Threads(q.workers, job.grid)
            /\ job.asked = AskedFor(q.roi)
      BY <2>2 DEF Prepared, PreparedFor
    <3> DEFINE roi == Clipped(Width, Height, q.roi)
    <3>2. q.roi \in Rectangles /\ Intersects(Width, Height, q.roi)
      BY <3>1, RegionAssumption DEF Accepted
    <3>3. roi \in Regions /\ Pixels(roi) = job.asked
      BY <3>1, <3>2, ClippedIsAskedFor
    <3>4. q.size \in Nat /\ q.size > 0 /\ q.workers \in Nat
      BY <3>1, RegionAssumption, GeometryAssumption DEF Accepted
    <3>5. /\ TileGrid(roi, q.size).count \in Nat
          /\ MemorySuffices(roi, TileGrid(roi, q.size), q.workers)
      BY <3>1, GeometryAssumption DEF Accepted
    <3>6. job.grid = TileGrid(roi, q.size) /\ job.grid.roi = roi
      BY <3>1 DEF TileGrid
    <3> HIDE DEF roi
    <3>7. \A i \in Indices(job.grid) : Pixels(TileAt(job.grid, i)) \subseteq job.asked
      BY <3>3, <3>4, <3>6, TilesInside
    <3>8. \A p \in job.asked : \E i \in Indices(job.grid) : p \in Pixels(TileAt(job.grid, i))
      BY <3>3, <3>4, <3>6, TilesCover
    <3>9. \A i, j \in Indices(job.grid) :
            i # j => Pixels(TileAt(job.grid, i)) \cap Pixels(TileAt(job.grid, j)) = {}
      BY <3>3, <3>4, <3>6, TilesApart
    <3>10. \A i \in Indices(job.grid) : Area(TileAt(job.grid, i)) * job.threads <= MaximumTransient
      BY <3>1, <3>3, <3>4, <3>5, <3>6, TilesFitMemory
    <3> QED BY <3>3, <3>6, <3>7, <3>8, <3>9, <3>10
  <2> QED BY <2>1, <2>2 DEF TilesFit
<1> QED BY <1>1, PreparedInvariant, PTL

(***************************************************************************)
(* The samples of a tile                                                   *)
(***************************************************************************)

\* The samples of a tile as the graph makes them of the source, without tiles.
ReferenceTile(graph, tile) ==
  [k \in 0 .. Area(tile) - 1 |->
     Reference(graph, Offset(Width, tile.x + (k % tile.width), tile.y + (k \div tile.width)))]

\* compile_linear_chain: the masks a chain is executed with are those the graph
\* names, whatever other masks were supplied.
LEMMA MasksAreNamed ==
  ASSUME NEW graph, NEW views, MasksAccepted(graph, views), NEW i \in Masked(graph),
         \A j \in DOMAIN views : views[j].content \in DOMAIN Masks
  PROVE  /\ MaskOf(graph[i], views) = graph[i].mask.hash
         /\ graph[i].mask.hash # NoContent
         /\ graph[i].mask.hash \in DOMAIN Masks
         /\ Masks[graph[i].mask.hash].width = Width
         /\ Masks[graph[i].mask.hash].height = Height
<1> DEFINE v == CHOOSE v \in Supplied(views, graph[i].mask.id) : TRUE
<1>1. PICK w \in Supplied(views, graph[i].mask.id) : w.claimed = graph[i].mask.hash
  BY DEF MasksAccepted
<1>2. v \in Supplied(views, graph[i].mask.id)
  BY <1>1
<1>3. \A u \in Supplied(views, graph[i].mask.id) :
        u.id = graph[i].mask.id /\ \E j \in DOMAIN views : u = views[j]
  BY DEF Supplied
<1> HIDE DEF v
<1>4. PICK j \in DOMAIN views : v = views[j]
  BY <1>2, <1>3
<1>5. PICK k \in DOMAIN views : w = views[k]
  BY <1>3
<1>6. v = w
  <2>1. views[j].id = views[k].id
    BY <1>2, <1>3, <1>4, <1>5
  <2> QED
    BY <1>4, <1>5, <2>1 DEF MasksAccepted
<1>7. /\ v.content = v.claimed /\ v.content \in DOMAIN Masks
      /\ Masks[v.content].width = Width /\ Masks[v.content].height = Height
  BY <1>4 DEF MasksAccepted, Honest, Fitting
<1>8. graph[i].mask # NoMask
  BY DEF Masked
<1> QED
  BY <1>1, <1>6, <1>7, <1>8, RegionAssumption DEF MaskOf, v

\* render_tile_samples: each pixel of a tile is what the graph makes of it.
LEMMA TileIsReference ==
  ASSUME NEW graph, NEW views, MasksAccepted(graph, views), NEW tile,
         \A j \in DOMAIN views : views[j].content \in DOMAIN Masks
  PROVE  TileSamples(Executable(graph, views), tile) = ReferenceTile(graph, tile)
<1> DEFINE chain == Executable(graph, views)
<1>1. DOMAIN chain = DOMAIN graph
  BY DEF Executable
<1>2. ASSUME NEW x, NEW y, NEW i \in DOMAIN graph
      PROVE  /\ chain[i].node = graph[i]
             /\ CoverageAt(chain[i], tile, x, y)
                  = Reach(graph[i], Offset(Width, tile.x + x, tile.y + y))
  <2>1. chain[i].node = graph[i] /\ chain[i].content = MaskOf(graph[i], views)
    BY DEF Executable
  <2>2. CASE graph[i].mask = NoMask
    <3>1. chain[i].content = NoContent
      BY <2>1, <2>2 DEF MaskOf
    <3> QED
      BY <2>1, <2>2, <3>1 DEF CoverageAt, Reach
  <2>3. CASE graph[i].mask # NoMask
    <3>1. /\ chain[i].content = graph[i].mask.hash /\ chain[i].content # NoContent
          /\ Masks[graph[i].mask.hash].width = Width
      BY <2>1, <2>3, MasksAreNamed DEF Masked
    <3> HIDE DEF chain
    <3> QED
      BY <2>1, <2>3, <3>1 DEF CoverageAt, Reach
  <2> QED
    BY <2>2, <2>3
<1> HIDE DEF chain
<1>3. ASSUME NEW x, NEW y
      PROVE  [i \in DOMAIN chain |-> [node     |-> chain[i].node,
                                      coverage |-> CoverageAt(chain[i], tile, x, y)]]
               = [i \in DOMAIN graph |->
                    [node     |-> graph[i],
                     coverage |-> Reach(graph[i], Offset(Width, tile.x + x, tile.y + y))]]
  BY <1>1, <1>2
<1> DEFINE O(k) == Offset(Width, tile.x + (k % tile.width), tile.y + (k \div tile.width))
           A(k) == [i \in DOMAIN chain |->
                      [node     |-> chain[i].node,
                       coverage |-> CoverageAt(chain[i], tile, k % tile.width, k \div tile.width)]]
           B(k) == [i \in DOMAIN graph |->
                      [node |-> graph[i], coverage |-> Reach(graph[i], O(k))]]
<1>5. \A k \in 0 .. Area(tile) - 1 : A(k) = B(k)
  <2> TAKE k \in 0 .. Area(tile) - 1
  <2> DEFINE x == k % tile.width
             y == k \div tile.width
  <2>1. /\ A(k) = [i \in DOMAIN chain |-> [node     |-> chain[i].node,
                                          coverage |-> CoverageAt(chain[i], tile, x, y)]]
        /\ B(k) = [i \in DOMAIN graph |->
                     [node     |-> graph[i],
                      coverage |-> Reach(graph[i], Offset(Width, tile.x + x, tile.y + y))]]
    OBVIOUS
  <2> HIDE DEF A, B, x, y
  <2> QED
    BY <1>3, <2>1
<1>6. TileSamples(chain, tile) = [k \in 0 .. Area(tile) - 1 |-> Developed(A(k), Source[O(k)])]
  BY DEF TileSamples
<1>7. ReferenceTile(graph, tile) = [k \in 0 .. Area(tile) - 1 |-> Developed(B(k), Source[O(k)])]
  BY DEF ReferenceTile, Reference
<1> HIDE DEF A, B, O
<1>4. TileSamples(chain, tile) = ReferenceTile(graph, tile)
  BY <1>5, <1>6, <1>7
<1> QED
  BY <1>4 DEF chain

(***************************************************************************)
(* The places of pixels in the output                                      *)
(***************************************************************************)

\* Where a pixel of a region is in the image of the region.
Place(roi, p) == Offset(roi.width, p[1] - roi.x, p[2] - roi.y)

\* The k-th pixel of a tile.
PixelOf(tile, k) == <<tile.x + (k % tile.width), tile.y + (k \div tile.width)>>

\* The pixels of a region and the samples of its image are one to one.
LEMMA PlacesOfRegion ==
  ASSUME NEW roi \in Regions
  PROVE  /\ \A p \in Pixels(roi) : Place(roi, p) \in 0 .. Area(roi) - 1
         /\ \A p, q \in Pixels(roi) : Place(roi, p) = Place(roi, q) => p = q
         /\ \A k \in 0 .. Area(roi) - 1 : PixelOf(roi, k) \in Pixels(roi)
                                         /\ Place(roi, PixelOf(roi, k)) = k
<1> DEFINE w == roi.width
           h == roi.height
<1>1. /\ roi.x \in Nat /\ roi.y \in Nat /\ w \in Nat /\ h \in Nat /\ w > 0 /\ h > 0
  BY DEF Regions
<1>2. ASSUME NEW p \in Pixels(roi)
      PROVE  /\ Place(roi, p) \in 0 .. Area(roi) - 1
             /\ p = <<roi.x + (Place(roi, p) % w), roi.y + (Place(roi, p) \div w)>>
  <2> DEFINE col == p[1] - roi.x
             row == p[2] - roi.y
  <2>1. /\ p = <<p[1], p[2]>> /\ p[1] = roi.x + col /\ p[2] = roi.y + row
        /\ col \in 0 .. w - 1 /\ row \in 0 .. h - 1
    BY <1>1 DEF Pixels
  <2>2. Place(roi, p) = row * w + col /\ Area(roi) = w * h
    BY DEF Place, Offset, Area
  <2> HIDE DEF col, row, w, h
  <2>3. row * w + col \in 0 .. w * h - 1 /\ (row * w + col) % w = col
        /\ (row * w + col) \div w = row
    BY <1>1, <2>1, IndexJoin
  <2> QED
    BY <2>1, <2>2, <2>3
<1>3. ASSUME NEW k \in 0 .. Area(roi) - 1
      PROVE  PixelOf(roi, k) \in Pixels(roi) /\ Place(roi, PixelOf(roi, k)) = k
  <2>1. Area(roi) = w * h
    BY DEF Area
  <2> DEFINE col == k % w
             row == k \div w
           p == PixelOf(roi, k)
           a == roi.x + col
           b == roi.y + row
  <2>2. p = <<a, b>>
    BY DEF PixelOf
  <2> HIDE DEF w, h, p
  <2>3. col \in 0 .. w - 1 /\ row \in 0 .. h - 1 /\ k = row * w + col
    BY <1>1, <2>1, IndexSplit
  <2> HIDE DEF col, row
  <2>4. /\ a \in roi.x .. roi.x + w - 1 /\ b \in roi.y .. roi.y + h - 1
        /\ a - roi.x = col /\ b - roi.y = row
    BY <1>1, <2>3
  <2> HIDE DEF a, b
  <2>5. p \in Pixels(roi) /\ p[1] = a /\ p[2] = b
    BY <2>2, <2>4 DEF Pixels, w, h
  <2>6. Place(roi, p) = row * w + col
    BY <2>4, <2>5 DEF Place, Offset, w
  <2> QED
    BY <2>3, <2>5, <2>6 DEF p
<1> HIDE DEF w
<1>4. \A p, q \in Pixels(roi) : Place(roi, p) = Place(roi, q) => p = q
  <2> SUFFICES ASSUME NEW p \in Pixels(roi), NEW q \in Pixels(roi), Place(roi, p) = Place(roi, q)
               PROVE  p = q
    OBVIOUS
  <2> QED
    BY <1>2
<1> QED
  BY <1>2, <1>3, <1>4

\* A tile is a region, and its samples are copied to the places of its pixels.
LEMMA PlacesOfTile ==
  ASSUME NEW roi \in Regions, NEW tile \in Regions, NEW k \in 0 .. Area(tile) - 1
  PROVE  PlaceOf(roi, tile, k) = Place(roi, PixelOf(tile, k))
<1> DEFINE col == k % tile.width
           row == k \div tile.width
<1>1. /\ tile.width \in Nat /\ tile.height \in Nat /\ tile.width > 0 /\ tile.height > 0
      /\ tile.x \in Nat /\ tile.y \in Nat /\ roi.x \in Nat /\ roi.y \in Nat
  BY DEF Regions
<1>2. k \in 0 .. tile.width * tile.height - 1
  BY DEF Area
<1>3. col \in 0 .. tile.width - 1 /\ row \in 0 .. tile.height - 1
  BY <1>1, <1>2, IndexSplit
<1>4. PlaceOf(roi, tile, k) = Offset(roi.width, tile.x - roi.x + col, tile.y - roi.y + row)
  BY DEF PlaceOf
<1> DEFINE p == PixelOf(tile, k)
           a == tile.x + col
           b == tile.y + row
<1>5. p = <<a, b>>
  BY DEF PixelOf
<1>6. tile.x - roi.x + col = a - roi.x /\ tile.y - roi.y + row = b - roi.y
  <2> HIDE DEF col, row
  <2> QED
    BY <1>1, <1>3
<1> HIDE DEF col, row, p, a, b
<1>7. p[1] = a /\ p[2] = b
  BY <1>5
<1> QED
  BY <1>4, <1>6, <1>7 DEF Place, p

\* The tiles of a grid are regions.
LEMMA TileIsRegion ==
  ASSUME NEW roi \in Regions, NEW size \in Nat, size > 0, NEW i \in Indices(TileGrid(roi, size))
  PROVE  TileAt(TileGrid(roi, size), i) \in Regions
<1> DEFINE tile == TileAt(TileGrid(roi, size), i)
           col  == i % Tiled(roi.width, size)
           row  == i \div Tiled(roi.width, size)
           cs == col * size
           rs == row * size
<1>1. /\ roi.x \in Nat /\ roi.y \in Nat
      /\ roi.width \in Nat /\ roi.height \in Nat /\ roi.width > 0 /\ roi.height > 0
  BY DEF Regions
<1>2. /\ col \in 0 .. Tiled(roi.width, size) - 1 /\ row \in 0 .. Tiled(roi.height, size) - 1
      /\ tile.width \in 1 .. Smaller(size, roi.width)
      /\ tile.height \in 1 .. Smaller(size, roi.height)
  BY TileIsCell
<1>3. tile.width \in Nat \ {0} /\ tile.height \in Nat \ {0}
  BY <1>1, <1>2 DEF Smaller
<1>4. cs \in Nat /\ rs \in Nat
  BY <1>1, <1>2, CellInside
<1>5. tile.x = roi.x + cs /\ tile.y = roi.y + rs
  BY DEF TileAt, TileGrid
<1>6. tile = [x |-> tile.x, y |-> tile.y, width |-> tile.width, height |-> tile.height]
  BY DEF TileAt
<1> HIDE DEF tile, cs, rs
<1>7. tile.x \in Nat /\ tile.y \in Nat
  BY <1>1, <1>4, <1>5
<1>8. tile \in Regions
  BY <1>3, <1>6, <1>7 DEF Regions
<1> QED
  BY <1>8 DEF tile

\* copy_to_output: the pixels of the tile are the reference's.
LEMMA CopyPaints ==
  ASSUME NEW roi \in Regions, NEW tile \in Regions, Pixels(tile) \subseteq Pixels(roi),
         NEW out, DOMAIN out = 0 .. Area(roi) - 1, NEW graph,
         NEW copied, copied = CopyToOutput(ReferenceTile(graph, tile), out, roi, tile)
  PROVE  /\ DOMAIN copied = 0 .. Area(roi) - 1
         /\ \A p \in Pixels(tile) :
              copied[Place(roi, p)] = Reference(graph, Offset(Width, p[1], p[2]))
<1> DEFINE samples == ReferenceTile(graph, tile)
           N       == 0 .. Area(tile) - 1
<1>1. DOMAIN samples = N
      /\ \A k \in N : samples[k] = Reference(graph, Offset(Width, PixelOf(tile, k)[1], PixelOf(tile, k)[2]))
  BY DEF ReferenceTile, PixelOf
<1>2. /\ DOMAIN copied = DOMAIN out
      /\ \A o \in DOMAIN out :
           copied[o] = IF \E k \in N : PlaceOf(roi, tile, k) = o
                       THEN samples[CHOOSE k \in N : PlaceOf(roi, tile, k) = o]
                       ELSE out[o]
  BY <1>1 DEF CopyToOutput
<1>3. \A p \in Pixels(roi) : Place(roi, p) \in DOMAIN out
  BY PlacesOfRegion
<1>4. \A k \in N : PlaceOf(roi, tile, k) = Place(roi, PixelOf(tile, k))
                   /\ PixelOf(tile, k) \in Pixels(tile)
  BY PlacesOfTile, PlacesOfRegion
<1>5. \A p, q \in Pixels(roi) : Place(roi, p) = Place(roi, q) => p = q
  BY PlacesOfRegion
<1>6. \A p \in Pixels(tile) : \E k \in N : PixelOf(tile, k) = p
  <2> TAKE p \in Pixels(tile)
  <2>1. Place(tile, p) \in N
    BY PlacesOfRegion
  <2>2. /\ PixelOf(tile, Place(tile, p)) \in Pixels(tile)
        /\ Place(tile, PixelOf(tile, Place(tile, p))) = Place(tile, p)
    BY <2>1, PlacesOfRegion
  <2>3. PixelOf(tile, Place(tile, p)) = p
    BY <2>2, PlacesOfRegion
  <2> QED
    BY <2>1, <2>3
<1> HIDE DEF samples, N
<1>7. ASSUME NEW p \in Pixels(tile)
      PROVE  copied[Place(roi, p)] = Reference(graph, Offset(Width, p[1], p[2]))
  <2> DEFINE k == CHOOSE k \in N : PlaceOf(roi, tile, k) = Place(roi, p)
  <2>1. \E j \in N : PlaceOf(roi, tile, j) = Place(roi, p)
    BY <1>4, <1>6
  <2>2. k \in N /\ PlaceOf(roi, tile, k) = Place(roi, p)
    BY <2>1
  <2>3. copied[Place(roi, p)] = samples[k]
    BY <1>2, <1>3, <2>1
  <2> HIDE DEF k
  <2>4. PixelOf(tile, k) = p
    BY <1>4, <1>5, <2>2
  <2> QED
    BY <1>1, <2>2, <2>3, <2>4
<1> QED
  BY <1>2, <1>7

\* copy_from_output: what is read back of a finished tile is the reference's.
LEMMA ReadBackIsReference ==
  ASSUME NEW roi \in Regions, NEW tile \in Regions, NEW out, NEW graph,
         \A p \in Pixels(tile) : out[Place(roi, p)] = Reference(graph, Offset(Width, p[1], p[2]))
  PROVE  CopyFromOutput(out, roi, tile) = ReferenceTile(graph, tile)
<1>1. ASSUME NEW k \in 0 .. Area(tile) - 1
      PROVE  out[PlaceOf(roi, tile, k)] =
               Reference(graph, Offset(Width, tile.x + (k % tile.width), tile.y + (k \div tile.width)))
  <2>1. PlaceOf(roi, tile, k) = Place(roi, PixelOf(tile, k)) /\ PixelOf(tile, k) \in Pixels(tile)
    BY PlacesOfTile, PlacesOfRegion
  <2> QED
    BY <2>1 DEF PixelOf
<1> QED
  BY <1>1 DEF CopyFromOutput, ReferenceTile

\* An image has as many samples as there are pixels in its region.
LEMMA SamplesOfRegion ==
  ASSUME NEW roi \in Regions
  PROVE  Cardinality(Pixels(roi)) = Cardinality(0 .. Area(roi) - 1)
<1> DEFINE N == 0 .. Area(roi) - 1
           f == [k \in N |-> PixelOf(roi, k)]
<1>1. Area(roi) \in Nat
  BY SMT DEF Regions, Area
<1>2. IsFiniteSet(N)
  BY <1>1, FS_Interval
<1>3. f \in [N -> Pixels(roi)] /\ \A k \in N : Place(roi, f[k]) = k
  BY PlacesOfRegion
<1>4. \A p \in Pixels(roi) : \E k \in N : f[k] = p
  <2> TAKE p \in Pixels(roi)
  <2>1. Place(roi, p) \in N /\ PixelOf(roi, Place(roi, p)) = p
    BY PlacesOfRegion
  <2> QED
    BY <2>1
<1> HIDE DEF N, f
<1>5. \A j, k \in N : f[j] = f[k] => j = k
  BY <1>3
<1>6. f \in Bijection(N, Pixels(roi))
  BY <1>3, <1>4, <1>5 DEF Bijection, Injection, Surjection, IsInjective
<1>7. ExistsBijection(N, Pixels(roi))
  BY <1>6 DEF ExistsBijection
<1> QED
  BY <1>2, <1>7, FS_Bijection DEF N

(***************************************************************************)
(* The image                                                               *)
(***************************************************************************)

\* Every pixel of a tile that is no longer to do is the reference's.
Painted ==
  phase \in {"rendering", "done"} =>
    /\ todo \subseteq Indices(job.grid)
    /\ DOMAIN output = 0 .. Area(job.grid.roi) - 1
    /\ \A i \in Indices(job.grid) \ todo : \A p \in Pixels(TileAt(job.grid, i)) :
         output[Place(job.grid.roi, p)] = Reference(job.graph, Offset(Width, p[1], p[2]))

\* The identity a tile is cached under determines its samples.
CachedIsReference ==
  \A entry \in cache : entry.samples = ReferenceTile(entry.key.graph, entry.key.tile)

RegionInv ==
  /\ Prepared
  /\ Painted
  /\ CachedIsReference
  /\ phase = "done" => todo = {}

\* A call begins with every tile to do.
LEMMA BeginPaints ==
  ASSUME RegionInv, NEW q \in Requests, Begin(q)
  PROVE  (Painted /\ CachedIsReference /\ (phase = "done" => todo = {}))'
<1> DEFINE grid == TileGrid(Clipped(Width, Height, q.roi), q.size)
<1>1. /\ phase' = "rendering" /\ job'.grid = grid /\ todo' = Indices(grid)
      /\ DOMAIN output' = 0 .. Area(grid.roi) - 1 /\ cache' = cache
  BY DEF Begin
<1>2. Painted'
  BY <1>1 DEF Painted
<1>3. CachedIsReference'
  BY <1>1 DEF RegionInv, CachedIsReference
<1> QED
  BY <1>1, <1>2, <1>3

\* An output of one sample for each pixel of the region.
OutputFor(out, roi) == DOMAIN out = 0 .. Area(roi) - 1

\* copy_to_output: a pixel outside the tile keeps its value.
LEMMA CopyKeeps ==
  ASSUME NEW roi \in Regions, NEW tile \in Regions, Pixels(tile) \subseteq Pixels(roi),
         NEW out, OutputFor(out, roi), NEW graph,
         NEW copied, copied = CopyToOutput(ReferenceTile(graph, tile), out, roi, tile),
         NEW p \in Pixels(roi), p \notin Pixels(tile)
  PROVE  copied[Place(roi, p)] = out[Place(roi, p)]
<1> DEFINE N == 0 .. Area(tile) - 1
           samples == ReferenceTile(graph, tile)
<1>1. DOMAIN samples = N
  BY DEF ReferenceTile
<1>2. \A o \in DOMAIN out :
        copied[o] = IF \E k \in N : PlaceOf(roi, tile, k) = o
                    THEN samples[CHOOSE k \in N : PlaceOf(roi, tile, k) = o]
                    ELSE out[o]
  BY <1>1 DEF CopyToOutput
<1>3. Place(roi, p) \in DOMAIN out
  BY PlacesOfRegion DEF OutputFor
<1>4. ASSUME NEW k \in N, PlaceOf(roi, tile, k) = Place(roi, p)
      PROVE  FALSE
  <2> DEFINE q == PixelOf(tile, k)
  <2>1. q \in Pixels(tile) /\ PlaceOf(roi, tile, k) = Place(roi, q)
    BY PlacesOfTile, PlacesOfRegion
  <2> HIDE DEF q
  <2>2. q = p
    BY <1>4, <2>1, PlacesOfRegion
  <2> QED
    BY <2>1, <2>2
<1> HIDE DEF N, samples
<1> QED
  BY <1>2, <1>3, <1>4

\* A tile, from the cache or rendered, is copied to its own place.
LEMMA TilePaints ==
  ASSUME RegionInv, NEW i \in todo, RenderTile(i)
  PROVE  (Painted /\ CachedIsReference /\ (phase = "done" => todo = {}))'
<1>1. /\ phase = "rendering" /\ phase' \in {"rendering", "failed"}
      /\ job' = job /\ cache' = cache
  BY DEF RenderTile
<1>2. CachedIsReference'
  BY <1>1 DEF RegionInv, CachedIsReference
<1>3. ASSUME phase' = "rendering"
      PROVE  Painted'
  <2>1. PICK roi \in Regions, size \in Nat \ {0} :
          /\ job.grid = TileGrid(roi, size) /\ job.grid.roi = roi
          /\ Pixels(roi) = job.asked
    BY <1>1, PreparedGrid DEF RegionInv
  <2>2. /\ todo \subseteq Indices(job.grid)
        /\ DOMAIN output = 0 .. Area(roi) - 1
        /\ \A j \in Indices(job.grid) \ todo : \A p \in Pixels(TileAt(job.grid, j)) :
             output[Place(roi, p)] = Reference(job.graph, Offset(Width, p[1], p[2]))
    BY <1>1, <2>1 DEF RegionInv, Painted
  <2> DEFINE tile == TileAt(job.grid, i)
             samples == ReferenceTile(job.graph, tile)
  <2>3. tile \in Regions /\ Pixels(tile) \subseteq Pixels(roi)
    BY <2>1, <2>2, TileIsRegion, TilesInside
  <2>4. TileSamples(job.chain, tile) = samples
    <3>1. PICK q \in Requests : PreparedFor(q)
      BY <1>1 DEF RegionInv, Prepared
    <3>2. MasksAccepted(q.graph, q.views) /\ \A j \in DOMAIN q.views : q.views[j].content \in DOMAIN Masks
      BY <3>1, RegionAssumption DEF PreparedFor, Accepted
    <3>3. job.graph = q.graph /\ job.chain = Executable(q.graph, q.views)
      BY <3>1 DEF PreparedFor
    <3> HIDE DEF tile
    <3> QED
      BY <3>2, <3>3, TileIsReference
  <2>5. \A entry \in cache : entry.key = Key(tile) => entry.samples = samples
    BY DEF RegionInv, CachedIsReference, Key
  <2>6. output' = CopyToOutput(samples, output, roi, tile) /\ todo' = todo \ {i}
    <3>1. PICK found : /\ found \in (IF {entry \in cache : entry.key = Key(tile)} # {}
                                     THEN {entry.samples : entry \in {e \in cache : e.key = Key(tile)}}
                                     ELSE {TileSamples(job.chain, tile)})
                       /\ IF \E k \in DOMAIN found : found[k] = NumericFailure
                          THEN phase' = "failed" /\ UNCHANGED <<todo, output>>
                          ELSE /\ output' = CopyToOutput(found, output, job.grid.roi, tile)
                               /\ todo' = todo \ {i}
                               /\ UNCHANGED phase
      BY DEF RenderTile
    <3> HIDE DEF tile, samples
    <3>2. found = samples
      BY <2>4, <2>5, <3>1
    <3> QED
      BY <1>3, <2>1, <3>1, <3>2
  <2>7. /\ DOMAIN output' = 0 .. Area(roi) - 1
        /\ \A p \in Pixels(tile) :
             output'[Place(roi, p)] = Reference(job.graph, Offset(Width, p[1], p[2]))
        /\ \A p \in Pixels(roi) \ Pixels(tile) : output'[Place(roi, p)] = output[Place(roi, p)]
    <3> DEFINE out == output
               graph == job.graph
    <3> HIDE DEF tile, out, graph
    <3>1. DOMAIN out = 0 .. Area(roi) - 1
      BY <2>2 DEF out
    <3>2. output' = CopyToOutput(ReferenceTile(graph, tile), out, roi, tile)
      BY <2>6 DEF out, graph
    <3> DEFINE copied == output'
    <3> HIDE DEF copied
    <3>3. copied = CopyToOutput(ReferenceTile(graph, tile), out, roi, tile)
      BY <3>2 DEF copied
    <3>4. DOMAIN copied = 0 .. Area(roi) - 1
      BY ONLY <2>3, <3>1, <3>3, CopyPaints
    <3>5. \A p \in Pixels(tile) :
            copied[Place(roi, p)] = Reference(graph, Offset(Width, p[1], p[2]))
      BY ONLY <2>3, <3>1, <3>3, CopyPaints
    <3>6. OutputFor(out, roi)
      BY <3>1 DEF OutputFor
    <3>7. ASSUME NEW p \in Pixels(roi), p \notin Pixels(tile)
          PROVE  copied[Place(roi, p)] = out[Place(roi, p)]
      BY ONLY <2>3, <3>3, <3>6, <3>7, CopyKeeps
    <3> QED
      BY <3>4, <3>5, <3>7 DEF copied, out, graph
  <2>8. ASSUME NEW j \in Indices(job.grid) \ (todo \ {i}), NEW p \in Pixels(TileAt(job.grid, j))
        PROVE  output'[Place(roi, p)] = Reference(job.graph, Offset(Width, p[1], p[2]))
    <3>1. CASE j = i
      BY <2>7, <2>8, <3>1
    <3>2. CASE j # i
      <4>1. p \in Pixels(roi)
        BY <2>1, <2>8, TilesInside
      <4>2. p \notin Pixels(tile)
        BY <2>1, <2>2, <2>8, <3>2, TilesApart
      <4> HIDE DEF tile
      <4> QED
        BY <2>2, <2>7, <2>8, <3>2, <4>1, <4>2
    <3> QED
      BY <3>1, <3>2
  <2> HIDE DEF tile
  <2> QED
    BY <1>1, <2>1, <2>2, <2>6, <2>7, <2>8 DEF Painted
<1>4. Painted'
  BY <1>1, <1>3 DEF Painted
<1> QED
  BY <1>1, <1>2, <1>4

\* What is read back into the cache is the reference's too.
LEMMA FinishPaints ==
  ASSUME RegionInv, Finish
  PROVE  (Painted /\ CachedIsReference /\ (phase = "done" => todo = {}))'
<1>1. /\ phase = "rendering" /\ todo = {} /\ phase' = "done"
      /\ job' = job /\ todo' = todo /\ output' = output
  BY DEF Finish
<1>2. Painted'
  BY <1>1 DEF RegionInv, Painted
<1>3. PICK roi \in Regions, size \in Nat \ {0} :
        job.grid = TileGrid(roi, size) /\ job.grid.roi = roi /\ Pixels(roi) = job.asked
  BY <1>1, PreparedGrid DEF RegionInv
<1>4. ASSUME NEW i \in Indices(job.grid)
      PROVE  CopyFromOutput(output, roi, TileAt(job.grid, i))
               = ReferenceTile(job.graph, TileAt(job.grid, i))
  <2> DEFINE tile == TileAt(job.grid, i)
             out == output
             graph == job.graph
  <2>1. tile \in Regions
    BY <1>3, TileIsRegion
  <2>2. \A p \in Pixels(tile) : out[Place(roi, p)] = Reference(graph, Offset(Width, p[1], p[2]))
    BY <1>1, <1>3 DEF RegionInv, Painted
  <2> HIDE DEF tile, out, graph
  <2>3. CopyFromOutput(out, roi, tile) = ReferenceTile(graph, tile)
    BY <2>1, <2>2, ReadBackIsReference
  <2> QED
    BY <2>3 DEF tile, out, graph
<1>5. CachedIsReference'
  <2> SUFFICES ASSUME NEW entry \in cache'
               PROVE  entry.samples = ReferenceTile(entry.key.graph, entry.key.tile)
    BY DEF CachedIsReference
  <2>1. CASE entry \in cache
    BY <2>1 DEF RegionInv, CachedIsReference
  <2>2. CASE entry \notin cache
    <3>1. PICK i \in Indices(job.grid) :
            entry = [key     |-> Key(TileAt(job.grid, i)),
                     samples |-> CopyFromOutput(output, job.grid.roi, TileAt(job.grid, i))]
      BY <2>2 DEF Finish
    <3>2. /\ entry.key.graph = job.graph /\ entry.key.tile = TileAt(job.grid, i)
          /\ entry.samples = CopyFromOutput(output, roi, TileAt(job.grid, i))
      BY <1>3, <3>1 DEF Key
    <3> QED
      BY <1>4, <3>2
  <2> QED
    BY <2>1, <2>2
<1> QED
  BY <1>1, <1>2, <1>5

\* The inductive invariant of the calls.
THEOREM RegionInvariant == Spec => []RegionInv
<1>1. Init => Painted /\ CachedIsReference /\ (phase = "done" => todo = {})
  BY DEF Init, Painted, CachedIsReference
<1>2. RegionInv /\ [Next]_vars => (Painted /\ CachedIsReference /\ (phase = "done" => todo = {}))'
  <2> SUFFICES ASSUME RegionInv, [Next]_vars
               PROVE  (Painted /\ CachedIsReference /\ (phase = "done" => todo = {}))'
    OBVIOUS
  <2>1. ASSUME NEW q \in Requests, Begin(q)
        PROVE  (Painted /\ CachedIsReference /\ (phase = "done" => todo = {}))'
    BY <2>1, BeginPaints
  <2>2. ASSUME NEW q \in Requests, Refuse(q)
        PROVE  (Painted /\ CachedIsReference /\ (phase = "done" => todo = {}))'
    BY <2>2 DEF Refuse, RegionInv, Painted, CachedIsReference
  <2>3. ASSUME NEW i \in todo, RenderTile(i)
        PROVE  (Painted /\ CachedIsReference /\ (phase = "done" => todo = {}))'
    BY <2>3, TilePaints
  <2>4. CASE Finish
    BY <2>4, FinishPaints
  <2>5. CASE UNCHANGED vars
    BY <2>5 DEF vars, RegionInv, Painted, CachedIsReference
  <2> QED
    BY <2>1, <2>2, <2>3, <2>4, <2>5 DEF Next
<1>3. Prepared /\ Painted /\ CachedIsReference /\ (phase = "done" => todo = {}) => RegionInv
  BY DEF RegionInv
<1> QED
  BY <1>1, <1>2, <1>3, PreparedInvariant, PTL DEF Spec

\* Every finished image, of any size, region and tile size, is pixel by pixel
\* what the graph makes of the source without tiles, with the masks the graph
\* names and whichever of its tiles were cached by an earlier call.
THEOREM ImageIsRegionAlways == Spec => []ImageIsRegion
<1>1. RegionInv => ImageIsRegion
  <2> SUFFICES ASSUME RegionInv, phase = "done"
               PROVE  /\ Cardinality(job.asked) = Cardinality(DOMAIN output)
                      /\ \A p \in job.asked :
                           Rendered(p) = Reference(job.graph, Offset(Width, p[1], p[2]))
    BY DEF ImageIsRegion
  <2>1. PICK roi \in Regions, size \in Nat \ {0} :
          job.grid = TileGrid(roi, size) /\ job.grid.roi = roi /\ Pixels(roi) = job.asked
    BY PreparedGrid DEF RegionInv
  <2>2. todo = {} /\ DOMAIN output = 0 .. Area(roi) - 1
    BY <2>1 DEF RegionInv, Painted
  <2>3. Cardinality(job.asked) = Cardinality(DOMAIN output)
    BY <2>1, <2>2, SamplesOfRegion
  <2>4. ASSUME NEW p \in job.asked
        PROVE  Rendered(p) = Reference(job.graph, Offset(Width, p[1], p[2]))
    <3>1. PICK i \in Indices(job.grid) : p \in Pixels(TileAt(job.grid, i))
      BY <2>1, <2>4, TilesCover
    <3>2. output[Place(roi, p)] = Reference(job.graph, Offset(Width, p[1], p[2]))
      BY <2>1, <2>2, <3>1 DEF RegionInv, Painted
    <3> QED
      BY <2>1, <3>2 DEF Rendered, Place
  <2> QED
    BY <2>3, <2>4
<1> QED
  BY <1>1, RegionInvariant, PTL

(***************************************************************************)
(* The exported samples                                                    *)
(***************************************************************************)

\* A set of natural numbers that is not empty has a least element.
LEMMA LeastElement ==
  ASSUME NEW S \in SUBSET Nat, S # {}
  PROVE  \E n \in S : \A m \in S : n <= m
<1> DEFINE Below    == {1..n : n \in S}
           Order    == StrictSubsetOrdering(Nat)
           Subsets  == FiniteSubsetsOf(Nat)
<1>1. \A n \in S : 1..n \in Subsets
  <2> TAKE n \in S
  <2>1. n \in Int /\ 1 \in Int /\ 1..n \subseteq Nat
    OBVIOUS
  <2>2. IsFiniteSet(1..n)
    BY <2>1, FS_Interval
  <2> QED
    BY <2>1, <2>2 DEF FiniteSubsetsOf
<1>2. \A m, n \in S : m < n => <<1..m, 1..n>> \in Order
  <2> SUFFICES ASSUME NEW m \in S, NEW n \in S, m < n
               PROVE  <<1..m, 1..n>> \in Order
    OBVIOUS
  <2>1. 1..m \subseteq 1..n /\ n \in 1..n /\ n \notin 1..m
    OBVIOUS
  <2>2. 1..m \in SUBSET Nat /\ 1..n \in SUBSET Nat
    OBVIOUS
  <2> QED
    BY <2>1, <2>2 DEF StrictSubsetOrdering
<1>3. \E x \in Below : \A y \in Below : ~ (<<y, x>> \in Order)
  <2>1. Below \subseteq Subsets /\ Below # {}
    BY <1>1
  <2>2. IsWellFoundedOn(Order, Subsets)
    BY FS_StrictSubsetOrderingWellFounded
  <2> HIDE DEF Below, Order, Subsets
  <2> QED
    BY <2>1, <2>2, WFMin, Zenon
<1> HIDE DEF Order
<1>4. PICK n \in S : \A m \in S : ~ (<<1..m, 1..n>> \in Order)
  BY <1>3
<1>5. \A m \in S : ~ (m < n)
  BY <1>2, <1>4
<1> QED
  BY <1>5

\* Induction for a set of natural numbers.
LEMMA SetInduction ==
  ASSUME NEW S, 0 \in S, \A n \in Nat : n \in S => n + 1 \in S
  PROVE  \A n \in Nat : n \in S
<1>1. SUFFICES ASSUME Nat \ S # {} PROVE FALSE
  OBVIOUS
<1>2. PICK n \in Nat \ S : \A m \in Nat \ S : n <= m
  BY <1>1, LeastElement
<1> QED
  BY <1>2

(***************************************************************************)
(* Powers of two                                                           *)
(***************************************************************************)

\* f doubles from each number up to n to the next.
Doubles(f, n) == f[0] = 1 /\ \A m \in 1..n : f[m] = 2 * f[m - 1]

\* There is such a function for every n.
LEMMA DoublesExist ==
  ASSUME NEW n \in Nat
  PROVE  \E f \in [0..n -> Nat] : Doubles(f, n)
<1> DEFINE S == {k \in Nat : \E f \in [0..k -> Nat] : Doubles(f, k)}
<1>1. 0 \in S
  <2> DEFINE f == [m \in 0..0 |-> 1]
  <2>1. f \in [0..0 -> Nat] /\ Doubles(f, 0)
    BY DEF Doubles
  <2> QED
    BY <2>1
<1>2. ASSUME NEW k \in Nat, k \in S
      PROVE  k + 1 \in S
  <2>1. PICK f \in [0..k -> Nat] : Doubles(f, k)
    BY <1>2
  <2> DEFINE g == [m \in 0..(k + 1) |-> IF m <= k THEN f[m] ELSE 2 * f[k]]
  <2>2. g \in [0..(k + 1) -> Nat] /\ Doubles(g, k + 1)
    BY <2>1 DEF Doubles
  <2> HIDE DEF g
  <2> QED
    BY <2>2
<1> HIDE DEF S
<1>3. \A k \in Nat : k \in S
  BY <1>1, <1>2, SetInduction
<1> QED
  BY <1>3 DEF S

\* They agree where they are defined.
LEMMA DoublesAgree ==
  ASSUME NEW n \in Nat, NEW m \in Nat, n <= m, NEW f, NEW g, Doubles(f, n), Doubles(g, m)
  PROVE  f[n] = g[n]
<1> DEFINE S == {k \in Nat : k <= n => f[k] = g[k]}
<1>1. 0 \in S
  BY DEF Doubles
<1>2. ASSUME NEW k \in Nat, k \in S
      PROVE  k + 1 \in S
  <2> SUFFICES ASSUME k + 1 <= n PROVE f[k + 1] = g[k + 1]
    OBVIOUS
  <2>1. f[k] = g[k] /\ k + 1 \in 1..n /\ k + 1 \in 1..m /\ (k + 1) - 1 = k
    BY <1>2
  <2>2. f[k + 1] = 2 * f[(k + 1) - 1] /\ g[k + 1] = 2 * g[(k + 1) - 1]
    BY <2>1 DEF Doubles
  <2> QED
    BY <2>1, <2>2
<1> HIDE DEF S
<1>3. \A k \in Nat : k \in S
  BY <1>1, <1>2, SetInduction
<1> QED
  BY <1>3 DEF S

\* PowerOfTwo is the function its recursion says.
LEMMA Powers ==
  /\ PowerOfTwo[0] = 1
  /\ \A e \in Nat : PowerOfTwo[e] \in Nat \ {0} /\ PowerOfTwo[e + 1] = 2 * PowerOfTwo[e]
<1> DEFINE upTo(n) == CHOOSE f \in [0..n -> Nat] : Doubles(f, n)
           power   == [n \in Nat |-> upTo(n)[n]]
<1>1. \A n \in Nat : upTo(n) \in [0..n -> Nat] /\ Doubles(upTo(n), n)
  BY DoublesExist
<1> HIDE DEF upTo
<1>2. ASSUME NEW n \in Nat
      PROVE  power[n + 1] = 2 * power[n]
  <2> DEFINE f == upTo(n)
             g == upTo(n + 1)
  <2>1. Doubles(f, n) /\ Doubles(g, n + 1) /\ n + 1 \in Nat /\ n + 1 \in 1..(n + 1)
    BY <1>1
  <2>2. power[n] = f[n] /\ power[n + 1] = g[n + 1]
    BY <2>1
  <2> HIDE DEF f, g, power
  <2>3. f[n] = g[n]
    BY <2>1, DoublesAgree
  <2>4. g[n + 1] = 2 * g[n]
    <3>1. g[n + 1] = 2 * g[(n + 1) - 1] /\ (n + 1) - 1 = n
      BY <2>1 DEF Doubles
    <3> QED
      BY <3>1
  <2> QED
    BY <2>2, <2>3, <2>4
<1>3. power[0] = 1
  BY <1>1 DEF Doubles
<1>4. power = [e \in Nat |-> IF e = 0 THEN 1 ELSE 2 * power[e - 1]]
  <2>1. ASSUME NEW e \in Nat, e # 0
        PROVE  power[e] = 2 * power[e - 1]
    <3>1. e - 1 \in Nat /\ (e - 1) + 1 = e
      BY <2>1
    <3> HIDE DEF power
    <3>2. power[(e - 1) + 1] = 2 * power[e - 1]
      BY <1>2, <3>1
    <3> QED
      BY <3>1, <3>2
  <2>2. power = [e \in Nat |-> power[e]]
    OBVIOUS
  <2> HIDE DEF power
  <2> QED
    BY <1>3, <2>1, <2>2
<1> HIDE DEF power
<1>5. \E p : p = [e \in Nat |-> IF e = 0 THEN 1 ELSE 2 * p[e - 1]]
  BY <1>4
<1>6. PowerOfTwo = [e \in Nat |-> IF e = 0 THEN 1 ELSE 2 * PowerOfTwo[e - 1]]
  BY <1>5 DEF PowerOfTwo
<1>7. PowerOfTwo[0] = 1
  BY <1>6
<1>8. ASSUME NEW e \in Nat
      PROVE  PowerOfTwo[e + 1] = 2 * PowerOfTwo[e]
  <2>1. e + 1 \in Nat /\ e + 1 # 0 /\ (e + 1) - 1 = e
    OBVIOUS
  <2>2. PowerOfTwo[e + 1] = 2 * PowerOfTwo[(e + 1) - 1]
    BY <1>6, <2>1
  <2> QED
    BY <2>1, <2>2
<1> DEFINE S == {e \in Nat : PowerOfTwo[e] \in Nat \ {0}}
<1>9. 0 \in S /\ \A e \in Nat : e \in S => e + 1 \in S
  BY <1>7, <1>8
<1>10. \A e \in Nat : e \in S
  <2> HIDE DEF S
  <2> QED
    BY <1>9, SetInduction
<1> QED
  BY <1>7, <1>8, <1>10

\* A power of two divides the larger ones.
LEMMA PowersDivide ==
  ASSUME NEW i \in Nat, NEW j \in Nat, i <= j
  PROVE  \E q \in Nat : PowerOfTwo[j] = PowerOfTwo[i] * q
<1> DEFINE S == {k \in Nat : \E q \in Nat : PowerOfTwo[i + k] = PowerOfTwo[i] * q}
<1>1. 0 \in S
  <2>1. PowerOfTwo[i] = PowerOfTwo[i] * 1 /\ i + 0 = i
    BY Powers
  <2> QED
    BY <2>1
<1>2. ASSUME NEW k \in Nat, k \in S
      PROVE  k + 1 \in S
  <2>1. PICK q \in Nat : PowerOfTwo[i + k] = PowerOfTwo[i] * q
    BY <1>2
  <2>2. PowerOfTwo[(i + k) + 1] = 2 * (PowerOfTwo[i] * q)
    BY <2>1, Powers
  <2>3. (i + k) + 1 = i + (k + 1) /\ 2 * (PowerOfTwo[i] * q) = PowerOfTwo[i] * (2 * q) /\ 2 * q \in Nat
    BY Powers
  <2> QED
    BY <2>2, <2>3
<1> HIDE DEF S
<1>3. \A k \in Nat : k \in S
  BY <1>1, <1>2, SetInduction
<1>4. j - i \in S /\ i + (j - i) = j
  BY <1>3
<1> QED
  BY <1>4 DEF S

(***************************************************************************)
(* Conversion to floats                                                    *)
(***************************************************************************)

\* The spacing is the least power of two with which the significand holds the
\* number.
LEMMA SpacingIsLeast ==
  ASSUME NEW n \in Nat, NEW d \in Nat \ {0},
         NEW m \in 0..MaxExponent, n < d * Significand * PowerOfTwo[m]
  PROVE  \E e \in 0..m :
           /\ Spacing(n, d) = PowerOfTwo[e]
           /\ n < d * Significand * PowerOfTwo[e]
           /\ e = 0 \/ n >= d * Significand * PowerOfTwo[e - 1]
<1> DEFINE enough == {e \in 0..MaxExponent : n < d * Significand * PowerOfTwo[e]}
           least  == CHOOSE e \in enough : \A f \in enough : e <= f
<1>1. MaxExponent \in Nat /\ Significand \in Nat
  BY FormatAssumption
<1>2. Spacing(n, d) = PowerOfTwo[least]
  <2>1. Magnitude(n) = n
    BY DEF Magnitude
  <2> QED
    BY <2>1 DEF Spacing
<1>3. enough \in SUBSET Nat /\ m \in enough
  BY <1>1
<1> HIDE DEF enough
<1>4. least \in enough /\ \A f \in enough : least <= f
  <2>1. \E e \in enough : \A f \in enough : e <= f
    BY <1>3, LeastElement
  <2> QED
    BY <2>1
<1> HIDE DEF least
<1>5. least \in 0..m /\ n < d * Significand * PowerOfTwo[least]
  BY <1>1, <1>3, <1>4 DEF enough
<1>6. ASSUME least # 0
      PROVE  n >= d * Significand * PowerOfTwo[least - 1]
  <2>1. least - 1 \in 0..MaxExponent /\ least - 1 \notin enough
    BY <1>1, <1>4, <1>5, <1>6
  <2>2. ~ (n < d * Significand * PowerOfTwo[least - 1])
    BY <2>1 DEF enough
  <2>3. d * Significand * PowerOfTwo[least - 1] \in Int
    BY <1>1, <2>1, Powers
  <2> QED
    BY <2>2, <2>3
<1> QED
  BY <1>2, <1>5, <1>6

\* A float is the nearest multiple of its spacing.
LEMMA ToFloatNear ==
  ASSUME NEW n \in Nat, NEW d \in Nat \ {0}, NEW step \in Nat \ {0}, Spacing(n, d) = step
  PROVE  \E k \in Nat :
           /\ ToFloat(n, d) = step * k
           /\ 2 * ((d * step) * k - n) <= d * step
           /\ 2 * (n - (d * step) * k) <= d * step
<1> DEFINE D     == d * step
           below == n \div D
           rest  == n % D
           down  == 2 * rest < D \/ (2 * rest = D /\ below % 2 = 0)
           k     == IF down THEN below ELSE below + 1
<1>1. D \in Nat /\ D > 0
  OBVIOUS
<1>2. ToFloat(n, d) = step * k
  BY DEF ToFloat
<1> HIDE DEF D
<1>3. below \in Nat /\ rest \in Nat /\ n = D * below + rest /\ rest < D
  BY <1>1, Division
<1>4. /\ down => 2 * rest <= D
      /\ ~ down => 2 * rest >= D
  <2> DEFINE even == below % 2 = 0
  <2> HIDE DEF below, rest, even
  <2> QED
    BY <1>1, <1>3 DEF even
<1>5. /\ down => k = below
      /\ ~ down => k = below + 1
  OBVIOUS
<1> HIDE DEF below, rest, down, k
<1>6. D * (below + 1) = D * below + D
  BY <1>1, <1>3
<1>7. k \in Nat /\ 2 * (D * k - n) <= D /\ 2 * (n - D * k) <= D
  <2>1. CASE down
    BY <1>1, <1>3, <1>4, <1>5, <2>1
  <2>2. CASE ~ down
    <3>1. D * k = D * below + D /\ k \in Nat
      BY <1>3, <1>5, <1>6, <2>2
    <3> QED
      BY <1>1, <1>3, <1>4, <2>2, <3>1
  <2> QED
    BY <2>1, <2>2
<1> QED
  BY <1>2, <1>7 DEF D

\* The numbers that are floats: multiples of a power of two that fit the
\* significand.
IsFloat(v) ==
  /\ v \in Nat
  /\ \E e \in 0..MaxExponent, k \in Nat : v = PowerOfTwo[e] * k /\ k < Significand

\* A float stays as it is.
LEMMA FloatIsKept ==
  ASSUME NEW v, IsFloat(v), NEW d \in Nat \ {0}
  PROVE  ToFloat(v * d, d) = v
<1>1. PICK m \in 0..MaxExponent, k \in Nat : v = PowerOfTwo[m] * k /\ k < Significand
  BY DEF IsFloat
<1> DEFINE p == PowerOfTwo[m]
<1>2. /\ m \in Nat /\ Significand \in Nat /\ v \in Nat
      /\ p \in Nat \ {0}
  BY <1>1, FormatAssumption, Powers DEF IsFloat
<1>3. v * d \in Nat /\ v * d < d * Significand * p
  <2> HIDE DEF p
  <2>1. v = p * k
    BY <1>1 DEF p
  <2>2. v < Significand * p
    <3>1. p * k < p * Significand
      BY <1>1, <1>2
    <3> QED
      BY <1>2, <2>1, <3>1
  <2>3. v * d < (Significand * p) * d
    BY <1>2, <2>2
  <2> QED
    BY <1>2, <2>3
<1>4. PICK e \in 0..m : Spacing(v * d, d) = PowerOfTwo[e]
  BY <1>3, SpacingIsLeast
<1>5. PICK q \in Nat : p = PowerOfTwo[e] * q
  BY <1>2, PowersDivide
<1> DEFINE step == PowerOfTwo[e]
           D    == d * step
           c    == q * k
<1>6. step \in Nat \ {0} /\ c \in Nat /\ D \in Nat /\ D > 0
  <2>1. step \in Nat \ {0}
    BY Powers
  <2> HIDE DEF step
  <2> QED
    BY <2>1
<1>7. v = step * c /\ v * d = c * D + 0
  <2>1. v = (step * q) * k
    BY <1>1, <1>5
  <2> HIDE DEF step
  <2>2. v = step * (q * k)
    BY <1>6, <2>1
  <2>3. v * d = (q * k) * (d * step)
    BY <1>6, <2>2
  <2> QED
    BY <2>2, <2>3
<1> HIDE DEF step, c, D
<1>8. (v * d) \div D = c /\ (v * d) % D = 0
  BY <1>6, <1>7, DivisionUnique
<1>9. ToFloat(v * d, d) = step * c
  <2> DEFINE n == v * d
  <2>1. Spacing(n, d) = step /\ n \div (d * step) = c /\ n % (d * step) = 0 /\ d * step = D
    BY <1>4, <1>8 DEF step, D
  <2> HIDE DEF n
  <2>2. 2 * 0 < D
    BY <1>6
  <2>3. ToFloat(n, d) = step * c
    BY <2>1, <2>2 DEF ToFloat
  <2> QED
    BY <2>3 DEF n
<1> QED
  BY <1>7, <1>9

\* None is beyond the largest.
LEMMA FloatBounded ==
  ASSUME NEW v, IsFloat(v)
  PROVE  v \in Nat /\ v <= FloatMax
<1>1. PICK e \in 0..MaxExponent, k \in Nat : v = PowerOfTwo[e] * k /\ k < Significand
  BY DEF IsFloat
<1>2. e \in Nat /\ MaxExponent \in Nat /\ e <= MaxExponent /\ Significand \in Nat
  BY FormatAssumption
<1>3. PICK q \in Nat : PowerOfTwo[MaxExponent] = PowerOfTwo[e] * q
  BY <1>2, PowersDivide
<1> DEFINE p   == PowerOfTwo[e]
           top == PowerOfTwo[MaxExponent]
<1>4. p \in Nat /\ top \in Nat \ {0} /\ top = p * q
  BY <1>2, <1>3, Powers
<1>5. v = k * p /\ FloatMax = (Significand - 1) * top
  BY <1>1, <1>4 DEF FloatMax
<1> HIDE DEF p, top
<1>6. q # 0
  BY <1>4
<1>7. p <= top
  <2>1. p * 1 <= p * q
    BY <1>4, <1>6, ProductMonotone
  <2> QED
    BY <1>4, <2>1
<1>8. k * p <= (Significand - 1) * top
  BY <1>1, <1>2, <1>4, <1>7, ProductMonotone
<1> QED
  BY <1>4, <1>5, <1>8

\* The float of a sample is nearer to it than to any other.
LEMMA SampleFloat ==
  ASSUME NEW s \in Samples, NEW v, v = ToFloat(s * Unit, Maximum)
  PROVE  /\ IsFloat(v)
         /\ 2 * (v * Maximum - s * Unit) < Unit
         /\ 2 * (s * Unit - v * Maximum) < Unit
<1> DEFINE N   == s * Unit
           top == PowerOfTwo[MaxExponent]
<1>1. /\ Maximum \in Nat \ {0} /\ Unit \in Nat \ {0} /\ Significand \in Nat \ {0}
      /\ MaxExponent \in Nat /\ top \in Nat \ {0} /\ s \in Nat /\ s <= Maximum
      /\ Maximum < Unit /\ 2 * Maximum < Significand /\ Significand % 2 = 0
      /\ Unit <= (Significand - 1) * top
  BY FormatAssumption, PrecisionAssumption, Powers DEF Samples, FloatMax
<1>2. N \in Nat /\ N <= Maximum * Unit
  <2>1. s * Unit <= Maximum * Unit
    BY <1>1, ProductMonotone
  <2> QED
    BY <1>1, <2>1
<1>3. N <= Maximum * ((Significand - 1) * top)
  <2> HIDE DEF top, N
  <2>0. (Significand - 1) * top \in Nat
    BY <1>1
  <2>1. Maximum * Unit <= Maximum * ((Significand - 1) * top)
    BY <1>1, <2>0, ProductMonotone
  <2> QED
    BY <1>1, <1>2, <2>0, <2>1
<1>4. N < Maximum * Significand * top
  <2> HIDE DEF top, N
  <2>1. Maximum * ((Significand - 1) * top) = Maximum * Significand * top - Maximum * top
    BY <1>1
  <2>2. Maximum * top \in Nat /\ Maximum * top > 0 /\ Maximum * Significand * top \in Nat
    BY <1>1
  <2> QED
    BY <1>2, <1>3, <2>1, <2>2
<1> HIDE DEF N
<1>5. PICK e \in 0..MaxExponent :
        /\ Spacing(N, Maximum) = PowerOfTwo[e]
        /\ N < Maximum * Significand * PowerOfTwo[e]
        /\ e = 0 \/ N >= Maximum * Significand * PowerOfTwo[e - 1]
  BY <1>1, <1>2, <1>4, SpacingIsLeast
<1> DEFINE step == PowerOfTwo[e]
           D    == Maximum * step
<1>6. step \in Nat \ {0} /\ D \in Nat \ {0}
  <2>1. step \in Nat \ {0}
    BY Powers
  <2> HIDE DEF step
  <2> QED
    BY <1>1, <2>1
<1>7. PICK k \in Nat :
        /\ v = step * k
        /\ 2 * (D * k - N) <= D
        /\ 2 * (N - D * k) <= D
  BY <1>1, <1>2, <1>5, <1>6, ToFloatNear DEF N
<1>8. D < Unit
  <2>1. CASE e = 0
    BY <1>1, <2>1, Powers
  <2>2. CASE e # 0
    <3> DEFINE half == PowerOfTwo[e - 1]
    <3>1. e - 1 \in Nat /\ (e - 1) + 1 = e
      BY <1>1, <2>2
    <3>2. half \in Nat \ {0} /\ step = 2 * half
      BY <3>1, Powers
    <3>3. N >= Maximum * Significand * half
      BY <1>5, <2>2
    <3> HIDE DEF step, half
    <3>4. Significand * half <= Unit
      <4>1. SUFFICES ASSUME Unit + 1 <= Significand * half PROVE FALSE
        BY <1>1, <3>2
      <4>2. Maximum * (Unit + 1) <= Maximum * (Significand * half)
        BY <1>1, <3>2, <4>1, ProductMonotone
      <4>3. Maximum * (Unit + 1) = Maximum * Unit + Maximum
        BY <1>1
      <4>4. Maximum * (Significand * half) = Maximum * Significand * half
        BY <1>1, <3>2
      <4>5. Maximum * Unit \in Nat /\ Maximum * Significand * half \in Nat
        BY <1>1, <3>2
      <4> QED
        BY <1>1, <1>2, <3>3, <4>2, <4>3, <4>4, <4>5
    <3>5. (2 * Maximum) * half < Significand * half
      <4>1. (2 * Maximum + 1) * half <= Significand * half
        BY <1>1, <3>2, ProductMonotone
      <4>2. (2 * Maximum + 1) * half = (2 * Maximum) * half + half
        BY <1>1, <3>2
      <4>3. (2 * Maximum) * half \in Nat /\ Significand * half \in Nat
        BY <1>1, <3>2
      <4> QED
        BY <3>2, <4>1, <4>2, <4>3
    <3>6. D = (2 * Maximum) * half
      BY <1>1, <3>2
    <3> HIDE DEF D
    <3>7. Significand * half \in Nat
      BY <1>1, <3>2
    <3> QED
      BY <1>1, <1>6, <3>4, <3>5, <3>6, <3>7
  <2> QED
    BY <2>1, <2>2
<1>9. v * Maximum = D * k
  <2> HIDE DEF step
  <2> QED
    BY <1>1, <1>6, <1>7
<1>10. k <= Significand /\ (k = Significand => e < MaxExponent)
  <2> HIDE DEF step, D
  <2>1. k <= Significand
    <3>1. SUFFICES ASSUME Significand + 1 <= k PROVE FALSE
      BY <1>1
    <3>2. D * (Significand + 1) <= D * k
      BY <1>1, <1>6, <3>1, ProductMonotone
    <3>3. D * (Significand + 1) = D * Significand + D
      BY <1>1, <1>6
    <3>4. N < D * Significand
      BY <1>1, <1>5, <1>6 DEF D, step
    <3>5. D * Significand \in Nat /\ D * k \in Nat
      BY <1>1, <1>6
    <3> QED
      BY <1>2, <1>6, <1>7, <3>2, <3>3, <3>4, <3>5
  <2>2. ASSUME k = Significand, e = MaxExponent
        PROVE  FALSE
    <3>1. step = top
      BY <2>2 DEF step
    <3>2. N <= D * Significand - D
      <4>1. Maximum * ((Significand - 1) * step) = D * Significand - D
        BY <1>1, <1>6 DEF D
      <4> QED
        BY <1>3, <3>1, <4>1
    <3>3. D * Significand \in Nat
      BY <1>1, <1>6
    <3> QED
      BY <1>2, <1>6, <1>7, <2>2, <3>2, <3>3
  <2> QED
    BY <1>1, <2>1, <2>2
<1>11. IsFloat(v)
  <2>1. v \in Nat
    <3> HIDE DEF step
    <3> QED
      BY <1>6, <1>7
  <2>2. CASE k < Significand
    BY <1>7, <2>1, <2>2 DEF IsFloat
  <2>3. CASE k = Significand
    <3>1. e + 1 \in 0..MaxExponent /\ e \in Nat
      BY <1>1, <1>10, <2>3
    <3> DEFINE c == Significand \div 2
    <3>2. c \in Nat /\ Significand = 2 * c /\ c < Significand
      BY <1>1
    <3> HIDE DEF c
    <3>3. PowerOfTwo[e + 1] = 2 * step
      BY <3>1, Powers
    <3> HIDE DEF step
    <3>4. v = (2 * step) * c
      BY <1>6, <1>7, <2>3, <3>2
    <3> QED
      BY <2>1, <3>1, <3>2, <3>3, <3>4 DEF IsFloat
  <2> QED
    BY <1>1, <1>10, <2>2, <2>3
<1>12. D * k \in Nat
  <2> HIDE DEF D
  <2> QED
    BY <1>6
<1>13. 2 * (D * k - N) < Unit /\ 2 * (N - D * k) < Unit
  <2> DEFINE X == D * k
  <2>1. 2 * (X - N) <= D /\ 2 * (N - X) <= D /\ X \in Nat
    BY <1>7, <1>12
  <2> HIDE DEF X, D
  <2>2. 2 * (X - N) < Unit /\ 2 * (N - X) < Unit
    BY <1>1, <1>2, <1>6, <1>8, <2>1
  <2> QED
    BY <2>2 DEF X
<1> QED
  BY <1>9, <1>11, <1>13 DEF N

\* Quantized, the float of a sample is the sample.
LEMMA SampleComesBack ==
  ASSUME NEW s \in Samples
  PROVE  Exported(Opaque(s), 0) = s
<1> DEFINE v == ToFloat(s * Unit, Maximum)
<1>1. /\ Maximum \in Nat \ {0} /\ Unit \in Nat \ {0} /\ s \in Nat /\ s <= Maximum
  BY FormatAssumption DEF Samples
<1>2. v \in Nat /\ 2 * (v * Maximum - s * Unit) < Unit /\ 2 * (s * Unit - v * Maximum) < Unit
  BY SampleFloat DEF IsFloat
<1>3. Exported(Opaque(s), 0) = Quantized(v * Unit + (Unit - Unit) * 0, Unit * Unit)
  BY DEF Exported, Opaque
<1> HIDE DEF v
<1>4. v * Unit + (Unit - Unit) * 0 = v * Unit
  BY <1>1, <1>2
<1> DEFINE n == v * Unit
           d == Unit * Unit
           a == s * Unit
           b == v * Maximum
<1>5. n \in Nat /\ d \in Nat \ {0} /\ a \in Nat /\ b \in Nat
  BY <1>1, <1>2
<1>6. 2 * (b - a) < Unit /\ 2 * (a - b) < Unit
  BY <1>2
<1>7. Quantized(n, d) = s
  <2>1. CASE n <= 0
    <3>1. v = 0
      <4>1. SUFFICES ASSUME 1 <= v PROVE FALSE
        BY <1>2
      <4>2. 1 * Unit <= v * Unit
        BY <1>1, <1>2, <4>1, ProductMonotone
      <4> QED
        BY <1>1, <1>5, <2>1, <4>2
    <3>2. b = 0
      BY <1>1, <3>1
    <3>3. s = 0
      <4>1. SUFFICES ASSUME 1 <= s PROVE FALSE
        BY <1>1
      <4>2. 1 * Unit <= s * Unit
        BY <1>1, <4>1, ProductMonotone
      <4> HIDE DEF b
      <4> QED
        BY <1>1, <1>5, <1>6, <3>2, <4>2
    <3> HIDE DEF n, d
    <3> QED
      BY <2>1, <3>3 DEF Quantized
  <2>2. CASE n > 0 /\ n >= d
    <3>1. v >= Unit
      <4>1. SUFFICES ASSUME v + 1 <= Unit PROVE FALSE
        BY <1>1, <1>2
      <4>2. (v + 1) * Unit <= Unit * Unit
        BY <1>1, <1>2, <4>1, ProductMonotone
      <4>3. (v + 1) * Unit = v * Unit + Unit
        BY <1>1, <1>2
      <4> QED
        BY <1>1, <1>5, <2>2, <4>2, <4>3
    <3>2. Unit * Maximum <= b
      BY <1>1, <1>2, <3>1, ProductMonotone
    <3>3. s = Maximum
      <4>1. SUFFICES ASSUME s + 1 <= Maximum PROVE FALSE
        BY <1>1
      <4>2. (s + 1) * Unit <= Maximum * Unit
        BY <1>1, <4>1, ProductMonotone
      <4>3. (s + 1) * Unit = a + Unit /\ Maximum * Unit = Unit * Maximum /\ Unit * Maximum \in Nat
        BY <1>1
      <4> HIDE DEF a, b
      <4> QED
        BY <1>1, <1>5, <1>6, <3>2, <4>2, <4>3
    <3> HIDE DEF n, d
    <3> QED
      BY <1>5, <2>2, <3>3 DEF Quantized
  <2>3. CASE n > 0 /\ n < d
    <3> DEFINE r == Unit * (2 * b + Unit - 2 * a)
               w == 2 * b + Unit - 2 * a
    <3>1. w \in Nat /\ w < 2 * Unit
      <4> HIDE DEF a, b
      <4> QED
        BY <1>1, <1>5, <1>6
    <3>2. r \in Nat /\ r < 2 * d
      <4>1. r = Unit * w
        OBVIOUS
      <4> HIDE DEF w, r
      <4>2. Unit * (w + 1) <= Unit * (2 * Unit)
        BY <1>1, <3>1, ProductMonotone
      <4>3. Unit * (w + 1) = Unit * w + Unit /\ Unit * (2 * Unit) = 2 * (Unit * Unit) /\ Unit * w \in Nat
        BY <1>1, <3>1
      <4> QED
        BY <1>1, <1>5, <4>1, <4>2, <4>3
    <3>3. 2 * n * Maximum + d = s * (2 * d) + r
      <4>1. 2 * n * Maximum = Unit * (2 * b)
        BY <1>1, <1>2
      <4>2. s * (2 * d) = Unit * (2 * a)
        BY <1>1
      <4>3. r = Unit * (2 * b) + Unit * Unit - Unit * (2 * a)
        <5> HIDE DEF a, b
        <5> QED
          BY <1>1, <1>5
      <4> DEFINE x == Unit * (2 * b)
                 y == Unit * (2 * a)
      <4>4. x \in Nat /\ y \in Nat
        <5> HIDE DEF a, b
        <5> QED
          BY <1>1, <1>5
      <4>5. 2 * n * Maximum = x /\ s * (2 * d) = y /\ r = x + d - y
        BY <4>1, <4>2, <4>3
      <4> HIDE DEF x, y, r, d
      <4> QED
        BY <1>5, <4>4, <4>5
    <3>4. 2 * d \in Nat
      BY <1>5
    <3> HIDE DEF n, d, r
    <3>5. (2 * n * Maximum + d) \div (2 * d) = s
      BY <1>1, <3>2, <3>3, <3>4, DivisionUnique
    <3> QED
      BY <1>5, <2>3, <3>5 DEF Quantized
  <2> HIDE DEF n, d
  <2> QED
    BY <1>5, <2>1, <2>2, <2>3
<1> QED
  BY <1>3, <1>4, <1>7

(***************************************************************************)
(* Nodes                                                                   *)
(***************************************************************************)

\* evaluate_curve never divides by zero: the two points differ.
LEMMA CurveFraction ==
  ASSUME NEW points \in Seq([x : 0..CurveUnit, y : 0..CurveUnit]), Len(points) >= 2,
         \A i, j \in DOMAIN points : i < j => points[i].x < points[j].x,
         NEW n \in Int, NEW d \in Nat \ {0}
  PROVE  CurveAt(points, n, d)[1] \in Int /\ CurveAt(points, n, d)[2] \in Nat \ {0}
<1> DEFINE above == {i \in DOMAIN points : points[i].x * d > n * CurveUnit}
           least == CHOOSE i \in above : \A j \in above : i <= j
           upper == IF above = {} THEN Len(points) + 1 ELSE least
           r     == IF upper = 1 THEN 2 ELSE IF above = {} THEN Len(points) ELSE upper
           l     == IF upper = 1 THEN 1 ELSE IF above = {} THEN Len(points) - 1 ELSE upper - 1
           run   == points[r].x - points[l].x
<1>1. CurveUnit \in Nat \ {0}
  BY FormatAssumption
<1>2. /\ Len(points) \in Nat /\ DOMAIN points = 1..Len(points)
      /\ \A i \in 1..Len(points) : points[i] \in [x : 0..CurveUnit, y : 0..CurveUnit]
  <2> DEFINE R == [x : 0..CurveUnit, y : 0..CurveUnit]
  <2>1. points \in Seq(R)
    OBVIOUS
  <2> HIDE DEF R
  <2>2. Len(points) \in Nat /\ DOMAIN points = 1..Len(points)
    BY ONLY <2>1, LenProperties
  <2>3. \A i \in 1..Len(points) : points[i] \in R
    BY ONLY <2>1, ElementOfSeq
  <2> QED
    BY <2>2, <2>3 DEF R
<1>3. CurveAt(points, n, d)
        = <<points[l].y * run * d + (n * CurveUnit - points[l].x * d) * (points[r].y - points[l].y),
            CurveUnit * run>>
  BY DEF CurveAt
<1>4. above # {} => least \in 1..Len(points)
  <2> SUFFICES ASSUME above # {} PROVE least \in 1..Len(points)
    OBVIOUS
  <2>1. above \in SUBSET Nat /\ above \subseteq 1..Len(points)
    BY <1>2
  <2> HIDE DEF above
  <2>2. \E i \in above : \A j \in above : i <= j
    BY <2>1, LeastElement
  <2>3. least \in above
    BY <2>2
  <2> QED
    BY <2>1, <2>3
<1> HIDE DEF above, least
<1>5. l \in 1..Len(points) /\ r \in 1..Len(points) /\ l < r
  <2>1. CASE above = {}
    BY <1>2, <2>1
  <2>2. CASE above # {}
    <3>1. upper = least
      BY <2>2
    <3> HIDE DEF upper
    <3>2. CASE least = 1
      <4>1. r = 2 /\ l = 1
        BY <3>1, <3>2
      <4> QED
        BY <1>2, <4>1
    <3>3. CASE least # 1
      <4>1. r = least /\ l = least - 1
        BY <2>2, <3>1, <3>3
      <4>2. least \in 1..Len(points)
        BY <1>4, <2>2
      <4> HIDE DEF l, r
      <4> QED
        BY <1>2, <3>3, <4>1, <4>2
    <3> QED
      BY <3>2, <3>3
  <2> QED
    BY <2>1, <2>2
<1> HIDE DEF l, r
<1> DEFINE lx == points[l].x
           ly == points[l].y
           rx == points[r].x
           ry == points[r].y
<1>6. lx \in Nat /\ ly \in Nat /\ rx \in Nat /\ ry \in Nat /\ lx < rx
  <2>1. points[l] \in [x : 0..CurveUnit, y : 0..CurveUnit] /\ points[r] \in [x : 0..CurveUnit, y : 0..CurveUnit]
    BY <1>2, <1>5
  <2>2. points[l].x < points[r].x
    BY <1>2, <1>5
  <2> QED
    BY <1>1, <2>1, <2>2
<1> HIDE DEF lx, ly, rx, ry
<1>7. run \in Nat \ {0}
  <2>1. run = rx - lx
    BY DEF lx, rx
  <2> HIDE DEF run
  <2> QED
    BY <1>6, <2>1
<1> HIDE DEF run
<1>8. CurveUnit * run \in Nat \ {0}
  BY <1>1, <1>7
<1>9. ly * run * d + (n * CurveUnit - lx * d) * (ry - ly) \in Int
  BY <1>1, <1>6, <1>7
<1> QED
  BY <1>3, <1>8, <1>9 DEF lx, ly, ry

\* apply_node: an adjustment is a number, and zero where there is no light.
LEMMA AdjustedFraction ==
  ASSUME NEW node, IsAdjustment(node), NEW pixel \in [colour : Nat, alpha : 0..Unit]
  PROVE  /\ Adjusted(node, pixel)[1] \in Int /\ Adjusted(node, pixel)[2] \in Nat \ {0}
         /\ pixel.colour = 0 /\ pixel.alpha = 0 => Adjusted(node, pixel)[1] = 0
<1>1. Unit \in Nat \ {0} /\ pixel.colour \in Nat /\ pixel.alpha \in 0..Unit /\ pixel.alpha \in Nat
  BY FormatAssumption
<1>2. CASE node.kind = "exposure"
  <2> DEFINE scale == Exp2[node.ev]
  <2>1. scale[1] \in Nat \ {0} /\ scale[2] \in Nat \ {0}
    <3>1. node.ev \in DOMAIN Exp2
      BY <1>2, ExponentialAssumption DEF IsAdjustment
    <3>2. scale \in (Nat \ {0}) \X (Nat \ {0})
      BY <3>1, ExponentialAssumption
    <3> QED
      BY <3>2
  <2>2. Adjusted(node, pixel) = <<pixel.colour * scale[1], scale[2]>>
    BY <1>2 DEF Adjusted
  <2> HIDE DEF scale
  <2>3. pixel.colour * scale[1] \in Int /\ (pixel.colour = 0 => pixel.colour * scale[1] = 0)
    BY <1>1, <2>1
  <2> QED
    BY <2>1, <2>2, <2>3
<1>4. CASE node.kind # "exposure" /\ pixel.alpha = 0
  <2>1. Adjusted(node, pixel) = <<pixel.colour, 1>>
    BY <1>4 DEF Adjusted
  <2> QED
    BY <1>1, <2>1
<1>5. CASE node.kind # "exposure" /\ pixel.alpha # 0
  <2>1. Adjusted(node, pixel) = CurveAt(node.points, pixel.colour, pixel.alpha)
    BY <1>5 DEF Adjusted
  <2>2. pixel.colour \in Int /\ pixel.alpha \in Nat \ {0}
    BY <1>1, <1>5
  <2>3. /\ node.points \in Seq([x : 0..CurveUnit, y : 0..CurveUnit]) /\ Len(node.points) >= 2
        /\ \A i, j \in DOMAIN node.points : i < j => node.points[i].x < node.points[j].x
    BY <1>5 DEF IsAdjustment
  <2>4. /\ CurveAt(node.points, pixel.colour, pixel.alpha)[1] \in Int
        /\ CurveAt(node.points, pixel.colour, pixel.alpha)[2] \in Nat \ {0}
    BY <2>2, <2>3, CurveFraction
  <2> QED
    BY <1>5, <2>1, <2>4
<1> QED
  BY <1>2, <1>4, <1>5

\* apply_node: a node that is skipped, or does not reach the pixel, leaves it,
\* and every node leaves a clear pixel.
LEMMA AppliedKeeps ==
  ASSUME NEW node, IsAdjustment(node),
         NEW coverage, coverage[1] \in Int, coverage[2] \in Nat \ {0},
         NEW pixel \in [colour : Nat, alpha : 0..Unit], IsFloat(pixel.colour),
         Skipped(node) \/ coverage[1] = 0 \/ (pixel.colour = 0 /\ pixel.alpha = 0)
  PROVE  Applied(node, coverage, pixel) = pixel
<1>1. CASE pixel = NumericFailure \/ Skipped(node)
  BY <1>1 DEF Applied
<1>2. CASE ~ (pixel = NumericFailure \/ Skipped(node))
  <2> DEFINE a == Adjusted(node, pixel)[1]
             b == Adjusted(node, pixel)[2]
             c == pixel.colour
             d == b * coverage[2]
             n == c * d + (a - c * b) * coverage[1]
  <2>1. Applied(node, coverage, pixel)
          = IF Magnitude(n) > FloatMax * d THEN NumericFailure
            ELSE [pixel EXCEPT !.colour = ToFloat(n, d)]
    BY <1>2 DEF Applied
  <2>2. /\ a \in Int /\ b \in Nat \ {0} /\ (pixel.colour = 0 /\ pixel.alpha = 0 => a = 0)
    BY AdjustedFraction
  <2>3. c \in Nat /\ c <= FloatMax
    BY FloatBounded
  <2> HIDE DEF a, b
  <2>4. d \in Nat \ {0}
    BY <2>2
  <2>5. n = c * d
    <3> HIDE DEF d
    <3>1. CASE coverage[1] = 0
      BY <2>2, <2>3, <2>4, <3>1
    <3>2. CASE c = 0 /\ a = 0
      BY <2>2, <2>4, <3>2
    <3> QED
      BY <1>2, <2>2, <3>1, <3>2
  <2>6. FloatMax \in Nat
    <3>1. PowerOfTwo[MaxExponent] \in Nat
      BY FormatAssumption, Powers
    <3> QED
      BY <3>1, FormatAssumption DEF FloatMax
  <2> HIDE DEF n, d
  <2>7. ~ (Magnitude(n) > FloatMax * d)
    <3>1. c * d <= FloatMax * d
      BY <2>3, <2>4, <2>6, ProductMonotone
    <3>2. c * d \in Nat /\ FloatMax * d \in Nat
      BY <2>3, <2>4, <2>6
    <3>3. Magnitude(n) = n
      BY <2>5, <3>2 DEF Magnitude
    <3> QED
      BY <2>5, <3>1, <3>2, <3>3
  <2>8. ToFloat(n, d) = c
    <3>1. IsFloat(c)
      OBVIOUS
    <3> HIDE DEF c
    <3> QED
      BY <2>4, <2>5, <3>1, FloatIsKept
  <2> QED
    BY <2>1, <2>7, <2>8
<1> QED
  BY <1>1, <1>2

\* A pixel that every step leaves is left by all of them.
LEMMA DevelopedKeeps ==
  ASSUME NEW steps, NEW pixel, Len(steps) \in Nat,
         \A i \in 1..Len(steps) : Applied(steps[i].node, steps[i].coverage, pixel) = pixel
  PROVE  Developed(steps, pixel) = pixel
<1> DEFINE L == Len(steps)
           Step(f) == [n \in 0..L |->
                         IF n = 0 THEN pixel
                         ELSE Applied(steps[n].node, steps[n].coverage, f[n - 1])]
           after == CHOOSE f : f = Step(f)
           same  == [n \in 0..L |-> pixel]
<1>1. same = Step(same)
  <2>1. \A n \in 0..L : n # 0 => n \in 1..L /\ same[n - 1] = pixel
    OBVIOUS
  <2> HIDE DEF same
  <2>2. \A n \in 0..L : n # 0 => Applied(steps[n].node, steps[n].coverage, same[n - 1]) = pixel
    BY <2>1
  <2>3. Step(same) = [n \in 0..L |-> pixel]
    BY <2>2
  <2> QED
    BY <2>3 DEF same
<1>2. Developed(steps, pixel) = after[L]
  BY DEF Developed
<1>3. after = Step(after)
  <2> HIDE DEF same, Step
  <2> QED
    BY <1>1
<1> HIDE DEF after
<1>4. after[0] = pixel
  <2>1. 0 \in 0..L
    OBVIOUS
  <2> QED
    BY <1>3, <2>1
<1>5. \A n \in 1..L : after[n] = Applied(steps[n].node, steps[n].coverage, after[n - 1])
  <2> TAKE n \in 1..L
  <2>1. n \in 0..L /\ n # 0
    OBVIOUS
  <2> QED
    BY <1>3, <2>1
<1> DEFINE S == {n \in Nat : n <= L => after[n] = pixel}
<1>6. 0 \in S
  BY <1>4
<1>7. ASSUME NEW n \in Nat, n \in S
      PROVE  n + 1 \in S
  <2> SUFFICES ASSUME n + 1 <= L PROVE after[n + 1] = pixel
    OBVIOUS
  <2>1. n + 1 \in 1..L /\ (n + 1) - 1 = n /\ after[n] = pixel
    BY <1>7
  <2>2. after[n + 1] = Applied(steps[n + 1].node, steps[n + 1].coverage, after[(n + 1) - 1])
    BY <1>5, <2>1
  <2> QED
    BY <2>1, <2>2
<1> HIDE DEF S
<1>8. L \in S
  BY <1>6, <1>7, SetInduction
<1> QED
  BY <1>2, <1>8 DEF S

\* mask_coverage: how much of a node reaches a pixel is a fraction.
LEMMA ReachFraction ==
  ASSUME NEW q \in Requests, Accepted(q), NEW i \in DOMAIN q.graph, NEW o \in DOMAIN Source
  PROVE  Reach(q.graph[i], o)[1] \in Int /\ Reach(q.graph[i], o)[2] \in Nat \ {0}
<1> DEFINE node == q.graph[i]
<1>1. node.opacity \in Nat \X (Nat \ {0})
  BY ImageAssumption DEF IsAdjustment
<1> HIDE DEF node
<1>2. CASE node.mask = NoMask
  BY <1>1, <1>2 DEF Reach, node
<1>3. CASE node.mask # NoMask
  <2> DEFINE mask   == Masks[node.mask.hash]
             sample == mask.samples[o]
             part   == IF node.mask.inverted THEN Maximum - sample ELSE sample
  <2>1. node.mask.hash \in DOMAIN Masks /\ mask.width = Width /\ mask.height = Height
    <3>1. i \in Masked(q.graph)
      BY <1>3 DEF Masked, node
    <3>2. MasksAccepted(q.graph, q.views)
      BY DEF Accepted
    <3>3. \A j \in DOMAIN q.views : q.views[j].content \in DOMAIN Masks
      BY RegionAssumption
    <3> QED
      BY <3>1, <3>2, <3>3, MasksAreNamed DEF node
  <2>2. mask.samples \in [0 .. mask.width * mask.height - 1 -> Samples]
    BY <2>1, ImageAssumption
  <2> HIDE DEF mask
  <2>3. o \in 0 .. mask.width * mask.height - 1
    BY <2>1, RegionAssumption
  <2>4. sample \in Samples
    BY <2>2, <2>3
  <2>5. Maximum \in Nat \ {0} /\ part \in Int
    BY <2>4, FormatAssumption DEF Samples
  <2>6. Reach(node, o) = <<node.opacity[1] * part, node.opacity[2] * Maximum>>
    BY <1>3 DEF Reach, mask
  <2> HIDE DEF part
  <2>7. node.opacity[1] \in Nat /\ node.opacity[2] \in Nat \ {0}
    BY <1>1
  <2>8. node.opacity[1] * part \in Int /\ node.opacity[2] * Maximum \in Nat \ {0}
    BY <2>5, <2>7
  <2> QED
    BY <2>6, <2>8 DEF node
<1> QED
  BY <1>2, <1>3 DEF node

\* A graph leaves the pixels that its nodes do not reach, and clear ones.
LEMMA ReferenceKeeps ==
  ASSUME NEW q \in Requests, Accepted(q), NEW o \in DOMAIN Source,
         Source[o] \in [colour : Nat, alpha : 0..Unit], IsFloat(Source[o].colour),
         Untouched(q.graph, o) \/ (Source[o].colour = 0 /\ Source[o].alpha = 0)
  PROVE  Reference(q.graph, o) = Source[o]
<1> DEFINE graph == q.graph
           pixel == Source[o]
           steps == [i \in DOMAIN graph |-> [node |-> graph[i], coverage |-> Reach(graph[i], o)]]
<1>1. Reference(graph, o) = Developed(steps, pixel)
  BY DEF Reference
<1>2. Len(steps) \in Nat /\ 1..Len(steps) = DOMAIN graph
  <2> DEFINE U == {steps[i] : i \in DOMAIN graph}
  <2>1. graph \in Seq(Range(graph))
    BY ImageAssumption
  <2>2. Len(graph) \in Nat /\ DOMAIN graph = 1..Len(graph)
    BY ONLY <2>1, LenProperties
  <2>3. steps \in [1..Len(graph) -> U]
    BY <2>2
  <2> HIDE DEF steps, U, graph
  <2>4. steps \in Seq(U)
    BY ONLY <2>2, <2>3, SeqDef
  <2>5. Len(steps) \in Nat /\ DOMAIN steps = 1..Len(steps)
    BY ONLY <2>4, LenProperties
  <2> QED
    BY <2>2, <2>3, <2>5
<1>3. ASSUME NEW i \in DOMAIN graph
      PROVE  Applied(steps[i].node, steps[i].coverage, pixel) = pixel
  <2> DEFINE node     == graph[i]
             coverage == Reach(node, o)
  <2>1. steps[i].node = node /\ steps[i].coverage = coverage
    OBVIOUS
  <2>2. IsAdjustment(node)
    BY ImageAssumption
  <2>3. coverage[1] \in Int /\ coverage[2] \in Nat \ {0}
    BY ReachFraction
  <2>4. Skipped(node) \/ coverage[1] = 0 \/ (pixel.colour = 0 /\ pixel.alpha = 0)
    BY DEF Untouched
  <2> HIDE DEF node, coverage, pixel
  <2>5. pixel \in [colour : Nat, alpha : 0..Unit] /\ IsFloat(pixel.colour)
    BY DEF pixel
  <2>6. Applied(node, coverage, pixel) = pixel
    BY <2>2, <2>3, <2>4, <2>5, AppliedKeeps
  <2> HIDE DEF steps
  <2> QED
    BY <2>1, <2>6
<1> HIDE DEF steps, pixel
<1>4. Developed(steps, pixel) = pixel
  BY <1>2, <1>3, DevelopedKeeps
<1> QED
  BY <1>1, <1>4 DEF pixel

\* What was asked for is in the source.
LEMMA AskedForIsInSource ==
  ASSUME NEW roi, NEW p \in AskedFor(roi)
  PROVE  At(p) \in DOMAIN Source
<1>1. Width \in Nat \ {0} /\ Height \in Nat \ {0} /\ DOMAIN Source = 0 .. Width * Height - 1
  BY RegionAssumption, GeometryAssumption DEF Coordinates
<1>2. p[1] \in 0 .. Width - 1 /\ p[2] \in 0 .. Height - 1
  BY DEF AskedFor
<1>3. p[2] * Width + p[1] \in 0 .. Width * Height - 1
  BY <1>1, <1>2, IndexJoin
<1> QED
  BY <1>1, <1>3 DEF At, Offset

\* Whatever the image, the graph, the masks and the formats: a transparent pixel
\* of a finished image stays clear, and a sample that no adjustment reaches is
\* exported as it was decoded.
THEOREM UntouchedComesBackAlways == Spec => [](ClearStaysClear /\ UntouchedComesBack)
<1>1. RegionInv /\ ImageIsRegion => ClearStaysClear /\ UntouchedComesBack
  <2> SUFFICES ASSUME RegionInv, ImageIsRegion, phase = "done", NEW p \in job.asked
               PROVE  /\ Source[At(p)].alpha = 0 => Sample(p) = 0
                      /\ \A s \in Samples :
                           Source[At(p)] = Opaque(s) /\ Untouched(job.graph, At(p)) => Sample(p) = s
    BY DEF ClearStaysClear, UntouchedComesBack
  <2>1. PICK q \in Requests : PreparedFor(q)
    BY DEF RegionInv, Prepared
  <2>2. Accepted(q) /\ job.graph = q.graph /\ At(p) \in DOMAIN Source
    BY <2>1, AskedForIsInSource DEF PreparedFor
  <2>3. Rendered(p) = Reference(q.graph, At(p))
    BY <2>2 DEF ImageIsRegion, At
  <2> DEFINE pixel == Source[At(p)]
  <2>4. Unit \in Nat \ {0} /\ pixel \in [colour : Int, alpha : 0..Unit]
    BY <2>2, FormatAssumption, ImageAssumption
  <2>5. ASSUME pixel.alpha = 0
        PROVE  Sample(p) = 0
    <3>1. pixel.colour = 0 /\ pixel \in [colour : Nat, alpha : 0..Unit]
      BY <2>2, <2>4, <2>5, ImageAssumption
    <3>2. IsFloat(0)
      <4>1. 0 \in 0..MaxExponent /\ PowerOfTwo[0] \in Nat /\ 0 < Significand
        BY FormatAssumption, Powers
      <4> QED
        BY <4>1 DEF IsFloat
    <3>3. Rendered(p) = pixel
      BY <2>2, <2>3, <2>5, <3>1, <3>2, ReferenceKeeps
    <3> HIDE DEF pixel
    <3>4. Sample(p) = Quantized(0 * Unit + (Unit - 0) * 0, Unit * Unit)
      BY <2>5, <3>1, <3>3 DEF Sample, Exported
    <3>5. 0 * Unit + (Unit - 0) * 0 = 0
      BY <2>4
    <3> QED
      BY <3>4, <3>5 DEF Quantized
  <2>6. ASSUME NEW s \in Samples, pixel = Opaque(s), Untouched(job.graph, At(p))
        PROVE  Sample(p) = s
    <3>1. IsFloat(pixel.colour)
      BY <2>6, SampleFloat DEF Opaque
    <3>2. pixel \in [colour : Nat, alpha : 0..Unit]
      BY <2>4, <3>1 DEF IsFloat
    <3>3. Rendered(p) = pixel
      BY <2>2, <2>3, <2>6, <3>1, <3>2, ReferenceKeeps
    <3> HIDE DEF pixel
    <3> QED
      BY <2>6, <3>3, SampleComesBack DEF Sample
  <2> QED
    BY <2>5, <2>6
<1> QED
  BY <1>1, RegionInvariant, ImageIsRegionAlways, PTL
=============================================================================
