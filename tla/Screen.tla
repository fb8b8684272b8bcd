-------------------------------- MODULE Screen --------------------------------
(***************************************************************************)
(* The text screen on its two sides: the differential buffer of the server *)
(* (oascii.Screen), which sends only the cells that differ from what it    *)
(* believes to be shown, and the decoder of the terminal, which writes the *)
(* bytes where its cursor is.  The wire between them is a reliable FIFO.   *)
(* The Oric echoes the keys itself, wherever its cursor happens to be.     *)
(***************************************************************************)
EXTENDS Integers, Sequences, SequencesExt

CONSTANTS
  Cols, Rows,
  Pictures,     \* what the grid composes: functions from cells to bytes
  Texts,        \* the text written past the buffer: headers and prompts
  MaxEchoes     \* bound of the model: keys echoed between two full redraws

Cells == 0 .. Cols * Rows - 1
Byte == 0 .. 255
Blank == 32
PlotByte == 31
Return == 13
LineFeed == 10
Backspace == 8

(* The coordinates of a Plot are bytes.  A byte of a cell is sent as it is:
   one that the terminal obeys instead of showing it is in no picture, and a
   text moves the cursor by itself, without Plot. *)
ScreenAssumption ==
  /\ Cols \in 1 .. 256 /\ Rows \in 1 .. 256
  /\ Pictures \subseteq [Cells -> Byte \ {PlotByte, Return, LineFeed, Backspace}]
  /\ Pictures # {}
  /\ Texts \subseteq Seq(Byte \ {PlotByte}) /\ MaxEchoes \in Nat

VARIABLES
  buf,          \* the picture composed last
  shown,        \* what the server believes the terminal shows
  wire,         \* bytes sent and not yet received
  grid,         \* what the terminal shows
  col, row,     \* its cursor
  st,           \* its decoder: "normal", "after1F" or "plotRow"
  plotX,        \* the column of a Plot whose row has not come
  stale,        \* text was written past the buffer since the last full redraw
  echoed        \* keys echoed since the last full redraw was sent
serverVars == <<buf, shown, stale>>
cursorVars == <<col, row>>
vars == <<buf, shown, wire, grid, col, row, st, plotX, stale, echoed>>

TypeOK ==
  /\ buf \in Pictures
  /\ shown \in [Cells -> Byte] /\ grid \in [Cells -> Byte]
  /\ wire \in Seq(Byte)
  /\ col \in 0 .. Cols /\ row \in 0 .. Rows - 1
  /\ st \in {"normal", "after1F", "plotRow"} /\ plotX \in 0 .. Cols - 1
  /\ stale \in BOOLEAN /\ echoed \in 0 .. MaxEchoes

CellAt(x, y) == y * Cols + x
Forgotten == [c \in Cells |-> 0]

(* Plot: the command that moves the cursor. *)
Plot(x, y) == <<PlotByte, x, y>>

(* The longest run of cells of row y, from column x, that b changes in s. *)
RunEnd(b, s, x, y) ==
  CHOOSE e \in x .. Cols :
    /\ \A i \in x .. e - 1 : b[CellAt(i, y)] # s[CellAt(i, y)]
    /\ e = Cols \/ b[CellAt(e, y)] = s[CellAt(e, y)]

StartsRun(b, s, c) ==
  b[c] # s[c] /\ (c % Cols = 0 \/ b[c - 1] = s[c - 1])

Segment(b, s, c) ==
  LET x == c % Cols
      y == c \div Cols
  IN Plot(x, y) \o [i \in 1 .. RunEnd(b, s, x, y) - x |-> b[c + i - 1]]

(* Render: one segment for each run of cells that differ, in reading order. *)
Render(b, s) ==
  FlattenSeq([c \in 1 .. Cols * Rows |->
                IF StartsRun(b, s, c - 1) THEN Segment(b, s, c - 1) ELSE <<>>])

(* The terminal may show anything and have its cursor anywhere; the first
   drawing is on its way.  NewScreen: nothing is known of the screen. *)
Init ==
  /\ buf \in Pictures /\ shown = buf /\ wire = Render(buf, Forgotten)
  /\ grid = [c \in Cells |-> 88] /\ col \in {0, Cols} /\ row = Rows - 1
  /\ st = "normal" /\ plotX = 0 /\ stale = FALSE /\ echoed = 0

-----------------------------------------------------------------------------
(* The server: a grid with no filter pending, then headers and prompts.    *)

(* Keys are typed ahead: a drawing may be sent while another travels. *)
CanSend == Len(wire) <= Cols

(* draw: the picture is composed again, and the differences are sent. *)
Draw(p) ==
  /\ CanSend /\ ~stale
  /\ wire' = wire \o Render(p, shown)
  /\ buf' = p /\ shown' = p
  /\ UNCHANGED <<grid, cursorVars, st, plotX, stale, echoed>>

(* Mutant: the screen is drawn again without Reset. *)
RedrawDifferences(p) ==
  /\ CanSend
  /\ wire' = wire \o Render(p, shown)
  /\ buf' = p /\ shown' = p /\ stale' = FALSE /\ echoed' = 0
  /\ UNCHANGED <<grid, cursorVars, st, plotX>>

(* redrawAll: Reset forgets what is shown, and everything is sent. *)
Redraw(p) ==
  /\ CanSend
  /\ wire' = wire \o Render(p, Forgotten)
  /\ buf' = p /\ shown' = p /\ stale' = FALSE /\ echoed' = 0
  /\ UNCHANGED <<grid, cursorVars, st, plotX>>

(* header, prompt, writeErr: text that the buffer knows nothing of. *)
Write(t) ==
  /\ CanSend
  /\ wire' = wire \o t /\ stale' = TRUE
  /\ UNCHANGED <<buf, shown, grid, cursorVars, st, plotX, echoed>>

-----------------------------------------------------------------------------
(* The terminal.                                                           *)

(* scrollUp: the lines move up, and the last one is blank. *)
Scrolled == [c \in Cells |-> IF c + Cols \in Cells THEN grid[c + Cols] ELSE Blank]

(* putbyte: past the last column, a byte is lost. *)
PutByte(b) ==
  \/ /\ b = Return
     /\ col' = 0 /\ UNCHANGED <<grid, row>>
  \/ /\ b = LineFeed /\ row < Rows - 1
     /\ col' = 0 /\ row' = row + 1 /\ UNCHANGED grid
  \/ /\ b = LineFeed /\ row = Rows - 1
     /\ col' = 0 /\ grid' = Scrolled /\ UNCHANGED row
  \/ /\ b = Backspace /\ col > 0
     /\ col' = col - 1 /\ grid' = [grid EXCEPT ![CellAt(col - 1, row)] = Blank]
     /\ UNCHANGED row
  \/ /\ b \notin {Return, LineFeed, Backspace} /\ col < Cols
     /\ grid' = [grid EXCEPT ![CellAt(col, row)] = b] /\ col' = col + 1
     /\ UNCHANGED row
  \/ /\ \/ b = Backspace /\ col = 0
        \/ b \notin {Return, LineFeed, Backspace} /\ col = Cols
     /\ UNCHANGED <<grid, col, row>>

Least(x, y) == IF x < y THEN x ELSE y

(* set_cursor_xy: coordinates off the screen are brought back to its edge. *)
SetCursor(x, y) == col' = Least(x, Cols - 1) /\ row' = Least(y, Rows - 1)

(* handle_rx: one byte of the line. *)
Receive ==
  /\ wire # <<>> /\ wire' = Tail(wire)
  /\ LET b == Head(wire)
     IN \/ /\ st = "normal" /\ b = PlotByte
           /\ st' = "after1F" /\ UNCHANGED <<grid, cursorVars, plotX>>
        \/ /\ st = "normal" /\ b # PlotByte
           /\ PutByte(b) /\ UNCHANGED <<st, plotX>>
        \/ /\ st = "after1F"
           /\ st' = "plotRow" /\ plotX' = b /\ UNCHANGED <<grid, cursorVars>>
        \/ /\ st = "plotRow"
           /\ SetCursor(plotX, b)
           /\ st' = "normal" /\ UNCHANGED <<grid, plotX>>
  /\ UNCHANGED <<serverVars, echoed>>

(* A key of the Oric is sent and written at the cursor, between two bytes
   of the line as well; the arrows are not echoed. *)
Echo(b) ==
  /\ echoed < MaxEchoes /\ echoed' = echoed + 1
  /\ PutByte(b)
  /\ UNCHANGED <<serverVars, wire, st, plotX>>

Next ==
  \/ \E p \in Pictures : Draw(p)
  \/ \E p \in Pictures : Redraw(p)
  \/ \E t \in Texts : Write(t)
  \/ Receive
  \/ \E b \in {43, Backspace} : Echo(b)

Spec == Init /\ [][Next]_vars

-----------------------------------------------------------------------------
(* What is shown: once the line is quiet, the terminal shows the picture   *)
(* composed last, although only differences were sent, unless a text or an *)
(* echoed key came after the last full redraw.  A cell that holds the      *)
(* attribute 0 is left out: Reset takes it for shown (Screen.Render).      *)
TextShown ==
  wire = <<>> /\ ~stale /\ echoed = 0 =>
    st = "normal" /\ \A c \in Cells : buf[c] # 0 => grid[c] = buf[c]
=============================================================================
