------------------------------- MODULE MCLine -------------------------------
(***************************************************************************)
(* A short file, small screens and boards, for the module Line; and what   *)
(* the tracing of primitives is checked to return.                         *)
(***************************************************************************)
EXTENDS Line, Tracing, TLC

(* Screens of two rows of three cells, which differ in one place, in places
   next to each other, and in a cell that holds the attribute 0 or 7. *)
MCScreens ==
  {[c \in 0..5 |-> s[c + 1]] :
     s \in {<<65, 66, 32, 67, 32, 68>>, <<65, 32, 66, 0, 69, 68>>, <<7, 66, 32, 0, 32, 68>>}}

MCTexts == {<<13, 10, 71>>}

(* Images of two lines of two bytes: runs shorter and longer than MaxRun,
   differences in one place and in several. *)
MCPictures == {[v \in 0..3 |-> p[v + 1]] :
                 p \in {<<64, 64, 64, 64>>, <<65, 65, 64, 66>>, <<65, 64, 64, 127>>, <<64, 127, 127, 127>>}}

Op(op, args) == [op |-> op, args |-> args]

(* Pages with and without a background, in which every primitive is drawn;
   the Box and the Char go beyond the edge. *)
MCPages ==
  {[background |-> NoPicture, draw |-> <<Op(2, <<3>>), Op(16, <<1, 0>>), Op(18, <<11, 1>>), Op(17, <<8, 3>>)>>],
   [background |-> [v \in 0..3 |-> <<65, 65, 64, 66>>[v + 1]],
    draw |-> <<Op(3, <<5>>), Op(19, <<11, 1>>), Op(22, <<9, 0, 65>>), Op(22, <<9, 0, 7>>)>>],
   [background |-> NoPicture, draw |-> <<Op(16, <<3, 1>>), Op(21, <<2>>), Op(20, <<2, 0>>)>>],
   [background |-> [v \in 0..3 |-> <<64, 127, 127, 127>>[v + 1]], draw |-> <<>>]}

MCGlyph == {<<0, 0>>, <<1, 1>>}
MCText == <<3, 72>>

MCPreferred == <<2, 1, 3, 0>>

(* The segments of the server and of the terminal are both as near as can be
   to the ideal one and end where they should, although they differ; the
   rectangles are the same, and the circles are off by half a pixel. *)
R == 0..6

ASSUME SegmentsAreStraight ==
  \A x0, y0, x1, y1 \in R :
    \A segment \in {LinePath(x0, y0, x1, y1), StrokePath(x0, y0, x1, y1)} :
      NearestTo(segment, x0, y0, x1, y1) /\ EndsAt(segment, x0, y0, x1, y1)

ASSUME RectanglesAreTheSame ==
  \A x0, y0, x1, y1 \in 0..3 :
    /\ FillBox(x0, y0, x1, y1) = Fill(x0, y0, x1, y1)
    /\ Box(x0, y0, x1, y1) = Frame(x0, y0, x1, y1)

ASSUME CirclesAreRound ==
  \A r \in 0..30 : \A p \in Circle(0, 0, r) \cup Circumference(0, 0, r) :
    Abs(p[1] * p[1] + p[2] * p[2] - r * r) <= r
=============================================================================
