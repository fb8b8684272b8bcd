-------------------------------- MODULE Line --------------------------------
(***************************************************************************)
(* What passes on the line between the server and one terminal: a file by  *)
(* XMODEM, the screens of a grid, graphics, and the games.  They share no  *)
(* state: each behaviour explores one of them, and the others stay as they *)
(* are at first, or at rest.                                               *)
(***************************************************************************)
EXTENDS Xmodem

CONSTANTS
  Parts,                                                  \* what is explored
  TextCols, TextRows, Screens, Texts, MaxEchoes,          \* Screen
  Kinds, RowBytes, ImageLines, Base, MaxRun,              \* Hires
  Images, Pages, NoPicture, Glyph, Text,
  BoardCols, BoardRows, Preferred,                        \* Connect4
  MazeWidth, MazeHeight                                   \* Maze

VARIABLES
  explored,      \* "transfer", "screen", "graphics", "connect4" or "maze"
  buf, shown, wire, grid, col, row, st, plotX, stale, echoed,  \* Screen
  kind, on, image, believed, said, blitted, stream, rx,            \* Hires
  cells, result, last,                                         \* Connect4
  walls, visited, stack, player, mazeOver                      \* Maze

S == INSTANCE Screen WITH Cols <- TextCols, Rows <- TextRows, Pictures <- Screens

G == INSTANCE Hires WITH
       Pictures <- Images, Lines <- ImageLines, buf <- image, shown <- believed, wire <- stream

C == INSTANCE Connect4 WITH Cols <- BoardCols, Rows <- BoardRows

M == INSTANCE Maze WITH W <- MazeWidth, H <- MazeHeight

ASSUME LineAssumption ==
  S!ScreenAssumption /\ G!HiresAssumption /\ C!Connect4Assumption /\ M!MazeAssumption

screenVars == <<buf, shown, wire, grid, col, row, st, plotX, stale, echoed>>
graphicsVars == <<kind, on, image, believed, said, blitted, stream, rx>>
gameVars == <<cells, result, last>>
mazeVars == <<walls, visited, stack, player, mazeOver>>
all == <<explored, vars, screenVars, graphicsVars, gameVars, mazeVars>>

(* No transfer: the line as it is after one. *)
AtRest ==
  /\ mode = "oterm" /\ spc = "done" /\ rpc = "done"
  /\ blk = N + 1 /\ tries = 0 /\ crc = TRUE /\ errs = 0 /\ rcrc = TRUE
  /\ got = [i \in 1..N |-> i] /\ fwd = <<>> /\ back = <<>>
  /\ damage = 0 /\ age = 0 /\ talked = TRUE

LineInit ==
  /\ explored \in Parts
  /\ IF explored = "transfer" THEN Init ELSE AtRest
  /\ S!Init /\ G!Init /\ C!GameInit /\ M!MazeInit
  /\ explored # "screen" => buf = (CHOOSE s \in Screens : TRUE) /\ col = 0
  /\ explored # "graphics" => kind = CHOOSE k \in Kinds : TRUE

In(part, Step) == explored = part /\ Step

OthersStay ==
  /\ UNCHANGED explored
  /\ IF explored = "transfer" THEN TRUE ELSE UNCHANGED vars
  /\ IF explored = "screen" THEN TRUE ELSE UNCHANGED screenVars
  /\ IF explored = "graphics" THEN TRUE ELSE UNCHANGED graphicsVars
  /\ IF explored = "connect4" THEN TRUE ELSE UNCHANGED gameVars
  /\ IF explored = "maze" THEN TRUE ELSE UNCHANGED mazeVars

LineNext ==
  /\ \/ In("transfer", Next) \/ In("screen", S!Next) \/ In("graphics", G!Next)
     \/ In("connect4", C!GameNext) \/ In("maze", M!MazeNext)
  /\ OthersStay

LineSpec == LineInit /\ [][LineNext]_all

(* The fairness of a transfer (Xmodem), of which nothing can be taken while
   the line is at rest. *)
LineFairSpec ==
  /\ LineSpec
  /\ WF_vars(SenderReads) /\ WF_vars(SenderStep("timeout"))
  /\ WF_vars(Begin) /\ WF_vars(ReadItem) /\ WF_vars(ReadNothing)

(* Screens: the terminal shows the picture composed last. *)
TextShown == explored = "screen" => S!TypeOK /\ S!TextShown

(* Graphics: the decoder and the screen of the terminal stay in step. *)
ImageInStep == explored = "graphics" => G!TypeOK /\ G!ImageInStep

(* Connect 4: the rules, and a computer that looks one move ahead. *)
FairGame == explored = "connect4" => C!GameTypeOK /\ C!FairGame

(* The maze is perfect, and the player stays in it. *)
PerfectMaze == explored = "maze" => M!MazeTypeOK /\ M!PerfectMaze

(* Graphics on an Oric: a stream ends with the decoder back to text. *)
StreamsEnd == G!StreamsEnd

(* Graphics on oterm: the images after the first of an animation. *)
ImagesShown == G!ImagesShown
=============================================================================
