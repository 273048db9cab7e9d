-------------------------------- MODULE Geo ---------------------------------
(***************************************************************************)
(* crates/geo: the cells of a geohash, and the covers of bounding boxes.   *)
(*                                                                         *)
(* The world is the square [0, Side] x [0, Side]; positions have integer   *)
(* coordinates.  A character of a hash halves each axis once instead of    *)
(* two or three times, so a cell has 4 children and not 32.                *)
(***************************************************************************)
EXTENDS Integers, Sequences, FiniteSets

CONSTANTS
  SubjectPrecision,   \* characters of a published geohash (4)
  CoverPrecision,     \* COVER_PRECISION (3)
  MaxCells            \* MAX_CELLS_PER_CLIENT (48)

ASSUME GeoAssumption ==
  /\ SubjectPrecision \in Nat \ {0} /\ MaxCells \in Nat \ {0}
  /\ CoverPrecision \in 0..SubjectPrecision

\* 2 ^ SubjectPrecision, so that the smallest cells have side 1.
Side ==
  LET twice[n \in 0..SubjectPrecision] == IF n = 0 THEN 1 ELSE 2 * twice[n - 1]
  IN  twice[SubjectPrecision]

\* A box is closed.  from_corners: the corners are given in any order, and
\* clamped to the world.
Clamp(c) == IF c < 0 THEN 0 ELSE IF c > Side THEN Side ELSE c
Lower(a, b) == IF a < b THEN a ELSE b
Upper(a, b) == IF a < b THEN b ELSE a
FromCorners(a, b) ==
  [lo |-> <<Clamp(Lower(a[1], b[1])), Clamp(Lower(a[2], b[2]))>>,
   hi |-> <<Clamp(Upper(a[1], b[1])), Clamp(Upper(a[2], b[2]))>>]

InBox(box, p) == \A k \in 1..2 : box.lo[k] <= p[k] /\ p[k] <= box.hi[k]
Intersects(a, b) == \A k \in 1..2 : a.lo[k] <= b.hi[k] /\ a.hi[k] >= b.lo[k]
Inside(a, b) == \A k \in 1..2 : a.lo[k] >= b.lo[k] /\ a.hi[k] <= b.hi[k]
Area(box) == (box.hi[1] - box.lo[1]) * (box.hi[2] - box.lo[2])

\* A character is the half taken on each axis.
Character == [1..2 -> 0..1]

World == [prefix |-> <<>>, bounds |-> [lo |-> [k \in 1..2 |-> 0],
                                      hi |-> [k \in 1..2 |-> Side]]]

Mid(bounds, k) == (bounds.lo[k] + bounds.hi[k]) \div 2

Child(cell, char) ==
  LET b == cell.bounds
  IN  [prefix |-> Append(cell.prefix, char),
       bounds |->
         [lo |-> [k \in 1..2 |-> IF char[k] = 1 THEN Mid(b, k) ELSE b.lo[k]],
          hi |-> [k \in 1..2 |-> IF char[k] = 1 THEN b.hi[k] ELSE Mid(b, k)]]]
Children(cell) == {Child(cell, char) : char \in Character}

\* encode bisects the world: a position on the line between two cells is in the
\* upper one, one on the edge of the world in the last.
Halves(bounds, p) == [k \in 1..2 |-> IF p[k] >= Mid(bounds, k) THEN 1 ELSE 0]
Cells(p) ==
  LET cell[n \in 0..SubjectPrecision] ==
        IF n = 0 THEN World
        ELSE Child(cell[n - 1], Halves(cell[n - 1].bounds, p))
  IN  cell
Encode(p, precision) == Cells(p)[precision].prefix

\* One round: cells inside the box are done, the others are replaced by those
\* of their children that touch it.
Refined(cells, box) ==
  {cell \in cells : Inside(cell.bounds, box)} \cup
  {child \in UNION {Children(cell) : cell \in
                      {c \in cells : ~Inside(c.bounds, box)}} :
     Intersects(child.bounds, box)}

\* Mutation: the budget is not looked at.
CoverWithoutBudget(box) ==
  LET round[n \in 0..CoverPrecision] ==
        IF n = 0 THEN {World} ELSE Refined(round[n - 1], box)
  IN  {cell.prefix : cell \in round[CoverPrecision]}

\* cover: refine until the precision or the budget of cells is reached.
Rounds(box) ==
  LET round[n \in 0..CoverPrecision] ==
        IF n = 0 THEN {World}
        ELSE LET next == Refined(round[n - 1], box)
             IN  IF Cardinality(next) > MaxCells THEN round[n - 1] ELSE next
  IN  round
Cover(box) == {cell.prefix : cell \in Rounds(box)[CoverPrecision]}

\* A cover is within its budget, and a position of the box lies in one cell of
\* it: nothing of the box is left out or comes twice.
Places == (0..Side) \X (0..Side)
SoundCover(box) ==
  LET cover == Cover(box)
  IN  /\ Cardinality(cover) <= MaxCells
      /\ \A p \in {q \in Places : InBox(box, q)} :
           Cardinality({n \in 0..CoverPrecision : Encode(p, n) \in cover}) = 1
=============================================================================
