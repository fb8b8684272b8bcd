-------------------------------- MODULE Tracing --------------------------------
(***************************************************************************)
(* The drawing primitives of the graphics screen, as the sets of pixels    *)
(* they light: those of the server, which composes animations in           *)
(* oascii.HiresScreen, and those of the terminals, which execute the       *)
(* primitives of a page (hires.Raster).                                    *)
(***************************************************************************)
EXTENDS Integers, Sequences

Abs(n) == IF n < 0 THEN -n ELSE n
Toward(a, b) == IF a > b THEN -1 ELSE 1
Larger(a, b) == IF a > b THEN a ELSE b
Smaller(a, b) == IF a > b THEN b ELSE a

(* HiresScreen.Line, pixel by pixel: one error for both axes, each of which
   advances when the error lets it. *)
LinePath(x0, y0, x1, y1) ==
  LET dx == Abs(x1 - x0)
      dy == -Abs(y1 - y0)
      Step(p) ==
        LET e2 == 2 * p.err
        IN [x   |-> IF e2 >= dy THEN p.x + Toward(x0, x1) ELSE p.x,
            y   |-> IF e2 <= dx THEN p.y + Toward(y0, y1) ELSE p.y,
            err |-> p.err + (IF e2 >= dy THEN dy ELSE 0) + (IF e2 <= dx THEN dx ELSE 0)]
      path[k \in 0 .. Larger(dx, -dy)] ==
        IF k = 0 THEN [x |-> x0, y |-> y0, err |-> dx + dy] ELSE Step(path[k - 1])
  IN path

Line(x0, y0, x1, y1) ==
  LET path == LinePath(x0, y0, x1, y1) IN {<<path[k].x, path[k].y>> : k \in DOMAIN path}

(* Raster.line: the longer axis advances at every pixel, the other one when
   the error falls below zero. *)
StrokePath(x0, y0, x1, y1) ==
  LET dx == Abs(x1 - x0)
      dy == Abs(y1 - y0)
      long == Larger(dx, dy)
      short == Smaller(dx, dy)
      path[k \in 0 .. long] ==
        IF k = 0 THEN [across |-> 0, err |-> long \div 2]
        ELSE LET err == path[k - 1].err - short
             IN IF err < 0 THEN [across |-> path[k - 1].across + 1, err |-> err + long]
                ELSE [across |-> path[k - 1].across, err |-> err]
  IN [k \in 0 .. long |->
        IF dx >= dy
        THEN [x |-> x0 + k * Toward(x0, x1), y |-> y0 + path[k].across * Toward(y0, y1)]
        ELSE [x |-> x0 + path[k].across * Toward(x0, x1), y |-> y0 + k * Toward(y0, y1)]]

Stroke(x0, y0, x1, y1) ==
  LET path == StrokePath(x0, y0, x1, y1) IN {<<path[k].x, path[k].y>> : k \in DOMAIN path}

(* Box: four segments from corner to corner. *)
Box(x0, y0, x1, y1) ==
  Line(x0, y0, x1, y0) \cup Line(x1, y0, x1, y1) \cup Line(x1, y1, x0, y1) \cup Line(x0, y1, x0, y0)

Frame(x0, y0, x1, y1) ==
  Stroke(x0, y0, x1, y0) \cup Stroke(x1, y0, x1, y1) \cup Stroke(x1, y1, x0, y1)
    \cup Stroke(x0, y1, x0, y0)

(* HiresScreen.FillBox: one horizontal line after another. *)
FillBox(x0, y0, x1, y1) ==
  UNION {Line(x0, y, x1, y) : y \in Smaller(y0, y1) .. Larger(y0, y1)}

(* Raster.fillBox: every pixel between the two corners. *)
Fill(x0, y0, x1, y1) ==
  (Smaller(x0, x1) .. Larger(x0, x1)) \X (Smaller(y0, y1) .. Larger(y0, y1))

(* Circle, by the midpoints of one eighth of it: the two programs do not turn
   inwards from the same error on (1 in Raster.circle, 0 otherwise). *)
Eighth(r, turn) ==
  LET walk[k \in 0 .. r + 1] ==
        IF k = 0 THEN [x |-> r, y |-> 0, err |-> 1 - r]
        ELSE LET p == walk[k - 1]
             IN IF p.err < turn
                THEN [x |-> p.x, y |-> k, err |-> p.err + 2 * k + 1]
                ELSE [x |-> p.x - 1, y |-> k, err |-> p.err + 2 * (k - p.x + 1) + 1]
  IN {<<walk[k].x, walk[k].y>> : k \in {i \in 0 .. r + 1 : walk[i].x >= walk[i].y}}

Mirrored(p) == {<<i * p[1], j * p[2]>> : i, j \in {-1, 1}} \cup {<<i * p[2], j * p[1]>> : i, j \in {-1, 1}}

Ring(cx, cy, points) ==
  {<<cx + q[1], cy + q[2]>> : q \in UNION {Mirrored(p) : p \in points}}

Circle(cx, cy, r) == Ring(cx, cy, Eighth(r, 0))
Circumference(cx, cy, r) == Ring(cx, cy, Eighth(r, 1))

-----------------------------------------------------------------------------
(* What a segment is, to judge the two programs by.                        *)

(* Every pixel of a path is the nearest to the segment on its row, or on its
   column: half a pixel away at most. *)
NearestTo(path, x0, y0, x1, y1) ==
  LET dx == Abs(x1 - x0)
      dy == Abs(y1 - y0)
  IN \A k \in DOMAIN path :
       2 * Abs(Abs(path[k].y - y0) * dx - Abs(path[k].x - x0) * dy) <= Larger(dx, dy)

EndsAt(path, x0, y0, x1, y1) ==
  LET last == CHOOSE k \in DOMAIN path : \A i \in DOMAIN path : i <= k
  IN path[0].x = x0 /\ path[0].y = y0 /\ path[last].x = x1 /\ path[last].y = y1
=============================================================================
