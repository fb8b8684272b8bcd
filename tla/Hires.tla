--------------------------------- MODULE Hires ---------------------------------
(***************************************************************************)
(* The graphics screen on its two sides.  The server sends streams of      *)
(* commands: a page (render.Hires: a background, then primitives) or the   *)
(* images of an animation (oascii.HiresScreen: the first clears the screen *)
(* and the next ones send the bytes that differ).  The terminal executes   *)
(* them byte by byte.  There are two terminals: oterm on a PC and the      *)
(* firmware of the Oric, whose decoders are not the same.                  *)
(***************************************************************************)
EXTENDS Integers, Sequences, SequencesExt, Tracing

CONSTANTS
  Kinds,        \* the terminals considered: "oterm", "oric"
  RowBytes, Lines,      \* 40 and 200 in the code
  Base,         \* 256 in the code: a number of two bytes is sent low byte first
  MaxRun,       \* 255 in the code: the longest run of equal bytes in RLE
  Pictures,     \* the images of the animation: functions from Vram to bytes
  Pages,        \* what a page may hold: a background and primitives
  NoPicture,    \* of a page without a background
  Glyph,        \* the pixels of a character, from its upper left corner
  Text          \* the text page that follows

Pixels == 6
Width == RowBytes * Pixels
Size == RowBytes * Lines
Vram == 0 .. Size - 1
Empty == 64

PlotByte == 31
HiresByte == 252
HiresOffByte == 251
HiEnd == 0
HiOn == 1
HiInk == 2
HiPaper == 3
HiCurset == 16
HiPoint == 17
HiLine == 18
HiBox == 19
HiFillBox == 20
HiCircle == 21
HiChar == 22
HiBlit == 32

VARIABLES
  kind,         \* which terminal is at the other end
  on,           \* what the server displays: "text", "page", "first" or "anim"
  buf,          \* the image composed last (the page drawn, for a page)
  shown,        \* what HiresScreen believes to be shown
  said,         \* the text sent since the last graphics
  blitted,      \* a stream with a HiBlit was sent
  wire,         \* bytes sent and not yet received
  rx            \* the terminal: its decoder, its screen, the text it wrote
vars == <<kind, on, buf, shown, said, blitted, wire, rx>>

Blank == [c \in Vram |-> Empty]

(* New: the decoder of a terminal, its graphics screen cleared. *)
Rest == [st |-> "normal", graphic |-> FALSE, text |-> <<>>,
         vram |-> Blank, penX |-> 0, penY |-> 0, ink |-> 7, color |-> FALSE, paper |-> FALSE,
         op |-> HiEnd, args |-> <<>>,
         header |-> <<>>, dst |-> 0, remain |-> 0, run |-> 0]

TypeOK ==
  /\ kind \in Kinds /\ on \in {"text", "page", "first", "anim"}
  /\ buf \in [Vram -> 0 .. 255] /\ shown \in [Vram -> 0 .. 255]
  /\ said \in Seq(0 .. 255) /\ blitted \in BOOLEAN /\ wire \in Seq(0 .. 255)
  /\ DOMAIN rx = DOMAIN Rest
  /\ rx.st \in {"normal", "after1F", "plotRow", "opcode", "args", "blit"}
  /\ rx.vram \in [Vram -> 0 .. 255]

-----------------------------------------------------------------------------
(* The streams.                                                            *)

(* Mutant: the high byte first. *)
NumberHighFirst(n) == <<n \div Base, n % Base>>

Number(n) == <<n % Base, n \div Base>>

(* The position that follows the run of equal bytes that starts at i. *)
RunEnd(data, i) ==
  CHOOSE e \in i + 1 .. Len(data) + 1 :
    /\ e - i <= MaxRun /\ \A j \in i .. e - 1 : data[j] = data[i]
    /\ e - i = MaxRun \/ e = Len(data) + 1 \/ data[e] # data[i]

(* RLEEncode: pairs of a count and a value. *)
RLEEncode(data) ==
  LET rle[i \in 1 .. Len(data) + 1] ==
        IF i > Len(data) THEN <<>>
        ELSE <<RunEnd(data, i) - i, data[i]>> \o rle[RunEnd(data, i)]
  IN rle[1]

Bytes(picture, from, to) == [i \in 1 .. to - from |-> picture[from + i - 1]]

(* A HiBlit: where the bytes go, how many they are, and their runs. *)
Blit(picture, from, to) ==
  <<HiBlit>> \o Number(from) \o Number(to - from) \o RLEEncode(Bytes(picture, from, to))

StartsStretch(b, s, c) == b[c] # s[c] /\ (c = 0 \/ b[c - 1] = s[c - 1])

StretchEnd(b, s, c) ==
  CHOOSE e \in c + 1 .. Size :
    /\ \A i \in c .. e - 1 : b[i] # s[i]
    /\ e = Size \/ b[e] = s[e]

(* One HiBlit for each stretch of bytes of b that differ from s. *)
Blits(b, s) ==
  FlattenSeq([c \in 1 .. Size |->
                IF StartsStretch(b, s, c - 1) THEN Blit(b, c - 1, StretchEnd(b, s, c - 1))
                ELSE <<>>])

Open == <<PlotByte, HiresByte>>

(* HiresScreen.Render: the first image of an animation clears the screen. *)
Render(b, s, first) ==
  IF ~first /\ b = s THEN <<>>
  ELSE Open \o (IF first THEN <<HiOn>> \o Blits(b, Blank) ELSE Blits(b, s)) \o <<HiEnd>>

(* render.Hires: the background at once, then the primitives in order. *)
PageStream(p) ==
  Open \o <<HiOn>>
    \o (IF p.background = NoPicture THEN <<>> ELSE Blit(p.background, 0, Size))
    \o FlattenSeq([i \in DOMAIN p.draw |-> <<p.draw[i].op>> \o p.draw[i].args])
    \o <<HiEnd>>

-----------------------------------------------------------------------------
(* The primitives, as a terminal executes them.                            *)

OnScreen(p) == p[1] \in 0 .. Width - 1 /\ p[2] \in 0 .. Lines - 1

(* setPixel, for a set of pixels: with an ink or a paper, the first byte of
   a line is an attribute and shows no pixel. *)
Seen(points) == {p \in points : OnScreen(p)}

Kept(r, points) ==
  IF r.color \/ r.paper THEN {p \in Seen(points) : p[1] >= Pixels} ELSE Seen(points)

Inked(r, points) == IF r.color /\ ~r.paper THEN {p[2] : p \in Seen(points)} ELSE {}

(* The bits of the byte c that the points light. *)
Bits(points, c) ==
  {5 - (p[1] % Pixels) : p \in {q \in points : q[2] * RowBytes + q[1] \div Pixels = c}}

(* The byte v with one of its bits set, and with some of them. *)
WithBit(v, lit, weight) == IF lit /\ (v \div weight) % 2 = 0 THEN v + weight ELSE v

WithBits(v, bits) ==
  LET low == WithBit(WithBit(WithBit(v, 0 \in bits, 1), 1 \in bits, 2), 2 \in bits, 4)
  IN WithBit(WithBit(WithBit(low, 3 \in bits, 8), 4 \in bits, 16), 5 \in bits, 32)

Lit(r, points) ==
  [c \in Vram |->
     IF c % RowBytes = 0 /\ c \div RowBytes \in Inked(r, points) THEN r.ink
     ELSE WithBits(r.vram[c], Bits(Kept(r, points), c))]

Drawn(r, points) == [r EXCEPT !.vram = Lit(r, points)]
PenAt(r, x, y) == [r EXCEPT !.penX = x, !.penY = y]

Need(op) ==
  CASE op \in {HiInk, HiPaper, HiCircle} -> 1
    [] op \in HiCurset .. HiFillBox -> 2
    [] op = HiChar -> 3
    [] OTHER -> 0

(* The lengths and the positions of a blit are numbers of two bytes, a count
   is one.  A page draws with primitives and their arguments, and the text
   that follows holds no command. *)
HiresAssumption ==
  /\ Kinds \subseteq {"oterm", "oric"} /\ Kinds # {}
  /\ RowBytes \in Nat \ {0} /\ Lines \in Nat \ {0}
  /\ Base \in 1 .. 256 /\ MaxRun \in 1 .. 255 /\ Size < 256 * Base
  /\ Pictures \subseteq [Vram -> 0 .. 255] /\ NoPicture \notin Pictures
  /\ \A p \in Pages :
       /\ p.background \in Pictures \cup {NoPicture}
       /\ p.draw \in Seq([op : {HiInk, HiPaper} \cup HiCurset .. HiChar, args : Seq(0 .. 255)])
       /\ \A i \in DOMAIN p.draw : Len(p.draw[i].args) = Need(p.draw[i].op)
  /\ Text \in Seq((0 .. 255) \ {PlotByte})

(* exec: the primitive op with its arguments a. *)
Exec(r, op, a) ==
  CASE op = HiOn ->
         [r EXCEPT !.vram = Blank, !.penX = 0, !.penY = 0, !.ink = 7, !.color = FALSE,
                   !.paper = FALSE, !.graphic = TRUE,
                   !.text = IF kind = "oric" THEN <<>> ELSE @]
    [] op = HiInk -> [r EXCEPT !.ink = a[1] % 8, !.color = TRUE]
    [] op = HiPaper ->
         [r EXCEPT !.paper = TRUE,
                   !.vram = [c \in Vram |-> IF c % RowBytes = 0 THEN 16 + (a[1] % 8) ELSE @[c]]]
    [] op = HiCurset -> PenAt(r, a[1], a[2])
    [] op = HiPoint -> PenAt(Drawn(r, {<<a[1], a[2]>>}), a[1], a[2])
    [] op = HiLine -> PenAt(Drawn(r, Stroke(r.penX, r.penY, a[1], a[2])), a[1], a[2])
    [] op = HiBox -> PenAt(Drawn(r, Frame(r.penX, r.penY, a[1], a[2])), a[1], a[2])
    [] op = HiFillBox -> PenAt(Drawn(r, Fill(r.penX, r.penY, a[1], a[2])), a[1], a[2])
    [] op = HiCircle -> Drawn(r, Circumference(r.penX, r.penY, a[1]))
    [] op = HiChar ->
         IF a[3] % 128 < 32 THEN r
         ELSE Drawn(r, {<<a[1] + g[1], a[2] + g[2]>> : g \in Glyph})
    [] OTHER -> r

-----------------------------------------------------------------------------
(* The decoders.                                                           *)

(* blitState.feed and hf_blit: the four bytes of the header. *)
BlitHeader(r, b) ==
  LET h == Append(r.header, b)
      remain == h[3] + Base * h[4]
  IN IF Len(h) < 4 THEN [r EXCEPT !.header = h]
     ELSE [r EXCEPT !.header = h, !.dst = h[1] + Base * h[2], !.remain = remain, !.run = 0,
                    !.st = IF kind = "oterm" /\ remain = 0 THEN "opcode" ELSE "blit"]

(* A count of zero ends a blit on the Oric, and stands for one on oterm. *)
BlitCount(r, b) ==
  CASE kind = "oterm" -> [r EXCEPT !.run = Larger(b, 1)]
    [] kind = "oric" /\ b = 0 -> [r EXCEPT !.st = "opcode"]
    [] OTHER -> [r EXCEPT !.run = b]

(* The value of a run, written as long as the blit has bytes to come.  What
   falls past the picture is left out.  Oterm looks at what remains after the
   run; the Oric before each byte of it, so that the blit goes on after a run
   that ends it exactly. *)
BlitValue(r, b) ==
  LET n == Smaller(r.run, r.remain)
      written == [r EXCEPT !.dst = @ + n, !.remain = @ - n, !.run = @ - n,
                    !.vram = [c \in Vram |-> IF c \in r.dst .. r.dst + n - 1 THEN b ELSE @[c]]]
  IN IF kind = "oterm"
     THEN [written EXCEPT !.run = 0, !.st = IF written.remain = 0 THEN "opcode" ELSE "blit"]
     ELSE [written EXCEPT !.st = IF written.run > 0 THEN "opcode" ELSE "blit"]

Opcode(r, b) ==
  CASE b = HiEnd -> [r EXCEPT !.st = "normal"]
    [] b = HiBlit -> [r EXCEPT !.st = "blit", !.header = <<>>]
    [] Need(b) > 0 -> [r EXCEPT !.st = "args", !.op = b, !.args = <<>>]
    [] OTHER -> Exec(r, b, <<>>)

Argument(r, b) ==
  LET a == Append(r.args, b)
  IN IF Len(a) < Need(r.op) THEN [r EXCEPT !.args = a]
     ELSE [Exec(r, r.op, a) EXCEPT !.st = "opcode", !.args = <<>>]

(* After PlotByte: a stream of commands, the way back to the text, or the
   column of a Plot.  Oterm opens a stream with a new rasteriser. *)
Command(r, b) ==
  CASE b = HiresByte /\ kind = "oterm" -> [Rest EXCEPT !.st = "opcode", !.graphic = TRUE]
    [] b = HiresByte /\ kind = "oric" -> [r EXCEPT !.st = "opcode"]
    [] b = HiresOffByte -> [r EXCEPT !.st = "normal", !.graphic = FALSE, !.text = <<>>]
    [] OTHER -> [r EXCEPT !.st = "plotRow"]

(* feed and handle_rx: one byte of the line. *)
Feed(r, b) ==
  CASE r.st = "normal" /\ b = PlotByte -> [r EXCEPT !.st = "after1F"]
    [] r.st = "normal" /\ b # PlotByte -> [r EXCEPT !.text = Append(@, b)]
    [] r.st = "after1F" -> Command(r, b)
    [] r.st = "plotRow" -> [r EXCEPT !.st = "normal"]
    [] r.st = "opcode" -> Opcode(r, b)
    [] r.st = "args" -> Argument(r, b)
    [] r.st = "blit" /\ Len(r.header) < 4 -> BlitHeader(r, b)
    [] r.st = "blit" /\ Len(r.header) = 4 /\ r.run = 0 -> BlitCount(r, b)
    [] r.st = "blit" /\ Len(r.header) = 4 /\ r.run > 0 -> BlitValue(r, b)

-----------------------------------------------------------------------------
Init ==
  /\ kind \in Kinds /\ on = "text"
  /\ buf = Blank /\ shown = Blank /\ said = <<>> /\ blitted = FALSE
  /\ wire = <<>> /\ rx = Rest

(* Bound of the model: one stream at a time, and the Oric is not followed
   past the first blit and the text after it. *)
CanSend == wire = <<>> /\ (kind = "oric" => ~blitted)

(* The image of a page, by its definition: the primitives over the background. *)
Composed(p) ==
  LET start == IF p.background = NoPicture THEN Rest ELSE [Rest EXCEPT !.vram = p.background]
      after[i \in 0 .. Len(p.draw)] ==
        IF i = 0 THEN start ELSE Exec(after[i - 1], p.draw[i].op, p.draw[i].args)
  IN after[Len(p.draw)].vram

(* A page of the site, after a text or another such page. *)
ShowPage(p) ==
  /\ CanSend /\ on \in {"text", "page"}
  /\ on' = "page" /\ buf' = Composed(p)
  /\ wire' = PageStream(p) /\ blitted' = (blitted \/ p.background # NoPicture)
  /\ UNCHANGED <<kind, shown, said, rx>>

(* The applets hiresanim and maze: the first image, then the others. *)
Animate(p) ==
  /\ CanSend /\ on = "text"
  /\ on' = "first" /\ buf' = p /\ shown' = p
  /\ wire' = Render(p, shown, TRUE) /\ blitted' = (blitted \/ p # Blank)
  /\ UNCHANGED <<kind, said, rx>>

NextImage(p) ==
  /\ CanSend /\ on \in {"first", "anim"}
  /\ on' = "anim" /\ buf' = p /\ shown' = p
  /\ wire' = Render(p, shown, FALSE) /\ blitted' = (blitted \/ p # shown)
  /\ UNCHANGED <<kind, said, rx>>

(* HiresOff, then the text of the next page. *)
Leave ==
  /\ wire = <<>> /\ on # "text"
  /\ on' = "text" /\ said' = Text
  /\ wire' = <<PlotByte, HiresOffByte>> \o Text
  /\ UNCHANGED <<kind, buf, shown, blitted, rx>>

Receive ==
  /\ wire # <<>> /\ wire' = Tail(wire) /\ rx' = Feed(rx, Head(wire))
  /\ UNCHANGED <<kind, on, buf, shown, said, blitted>>

Next ==
  \/ \E p \in Pages : ShowPage(p)
  \/ \E p \in Pictures : Animate(p)
  \/ \E p \in Pictures : NextImage(p)
  \/ Leave
  \/ Receive

Spec == Init /\ [][Next]_vars

-----------------------------------------------------------------------------
(* In step: once the line is quiet the decoder is back to text, the screen
   is in the mode the server believes, and the text after the graphics was
   written as text, not taken for commands; oterm shows the page, or the
   first image of the animation, byte for byte (Raster, render.Hires).  The
   Oric is held to it as long as it has received no blit. *)
ImageInStep ==
  wire = <<>> /\ (kind = "oric" => ~blitted) =>
    /\ rx.st = "normal"
    /\ on = "text" => ~rx.graphic /\ rx.text = said
    /\ on # "text" => rx.graphic
    /\ on \in {"page", "first"} /\ kind = "oterm" => rx.vram = buf

(* A blit ends with its length, and the stream with HiEnd: the decoder is
   back to text when the line is quiet (client/hires.s, hf_blit). *)
StreamsEnd == wire = <<>> => rx.st = "normal"

(* The images of an animation after the first are shown: the differences are
   drawn over what the terminal displays (HiresScreen, ula.Terminal). *)
ImagesShown == wire = <<>> /\ on = "anim" => rx.vram = buf
=============================================================================
