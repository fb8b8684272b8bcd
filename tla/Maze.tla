---------------------------------- MODULE Maze ----------------------------------
(***************************************************************************)
(* The maze: its generation by an iterative backtracker                    *)
(* (server/internal/maze), then the player who walks it with the keys      *)
(* (server/internal/bbs/maze.go).  Move looks at the walls of the cell and *)
(* never at the edges of the grid.                                         *)
(***************************************************************************)
EXTENDS Integers, Sequences, FiniteSets

CONSTANTS W, H      \* 15 and 11 in the code

MazeAssumption == W \in Nat \ {0} /\ H \in Nat \ {0}

Grid == (0 .. W - 1) \X (0 .. H - 1)
Sides == {"north", "east", "south", "west"}
Exit == <<W - 1, H - 1>>

Opposite(d) ==
  CASE d = "north" -> "south"
    [] d = "south" -> "north"
    [] d = "east" -> "west"
    [] d = "west" -> "east"

(* The cell on side d of c, which may lie outside the grid. *)
Beyond(c, d) ==
  CASE d = "north" -> <<c[1], c[2] - 1>>
    [] d = "south" -> <<c[1], c[2] + 1>>
    [] d = "east" -> <<c[1] + 1, c[2]>>
    [] d = "west" -> <<c[1] - 1, c[2]>>

VARIABLES
  walls,        \* the sides of each cell that have a wall
  visited,      \* the cells dug so far
  stack,        \* the path of the backtracker; empty: the maze is made
  player,       \* where the player is
  mazeOver      \* "none", "solved" or "left"
mazeVars == <<walls, visited, stack, player, mazeOver>>

MazeTypeOK ==
  /\ walls \in [Grid -> SUBSET Sides]
  /\ visited \in SUBSET Grid /\ stack \in Seq(Grid)
  /\ player \in Grid /\ mazeOver \in {"none", "solved", "left"}

MazeInit ==
  /\ walls = [c \in Grid |-> Sides]
  /\ visited = {<<0, 0>>} /\ stack = << <<0, 0>> >>
  /\ player = <<0, 0>> /\ mazeOver = "none"

-----------------------------------------------------------------------------
(* Generate.                                                               *)

(* unvisitedNeighbors: the sides of c that lead to a cell not yet dug. *)
Undug(c) == {d \in Sides : Beyond(c, d) \in Grid \ visited}

Top == stack[Len(stack)]

(* Mutant: the neighbour keeps its face of the wall. *)
DugOneSide(c, d) == [walls EXCEPT ![c] = @ \ {d}]

(* The wall between c and its neighbour on side d falls on both sides. *)
Dug(c, d) ==
  [walls EXCEPT ![c] = @ \ {d}, ![Beyond(c, d)] = @ \ {Opposite(d)}]

Dig ==
  /\ stack # <<>>
  /\ \E d \in Undug(Top) :
       /\ walls' = Dug(Top, d)
       /\ visited' = visited \cup {Beyond(Top, d)}
       /\ stack' = Append(stack, Beyond(Top, d))
  /\ UNCHANGED <<player, mazeOver>>

(* A dead end: one step back. *)
Back ==
  /\ stack # <<>> /\ Undug(Top) = {}
  /\ stack' = SubSeq(stack, 1, Len(stack) - 1)
  /\ UNCHANGED <<walls, visited, player, mazeOver>>

-----------------------------------------------------------------------------
(* mazeApplet, once the maze is drawn.                                     *)

Playing == stack = <<>> /\ mazeOver = "none"

(* Move: a wall stops the player; at the exit the game is over. *)
Walk(d) ==
  /\ Playing /\ d \notin walls[player]
  /\ player' = Beyond(player, d)
  /\ mazeOver' = IF Beyond(player, d) = Exit THEN "solved" ELSE "none"
  /\ UNCHANGED <<walls, visited, stack>>

GiveUp ==
  /\ Playing /\ mazeOver' = "left"
  /\ UNCHANGED <<walls, visited, stack, player>>

MazeNext == Dig \/ Back \/ (\E d \in Sides : Walk(d)) \/ GiveUp

MazeSpec == MazeInit /\ [][MazeNext]_mazeVars

-----------------------------------------------------------------------------
(* A wall has two faces: the neighbour has it too. *)
WallsShared ==
  \A c \in Grid, d \in Sides :
    Beyond(c, d) \in Grid => (d \in walls[c] <=> Opposite(d) \in walls[Beyond(c, d)])

(* The outer walls stand: nothing else keeps the player in the array. *)
BorderClosed ==
  \A c \in Grid, d \in Sides : Beyond(c, d) \notin Grid => d \in walls[c]

(* Passages, each counted from one of its two cells. *)
Passages == {p \in Grid \X {"east", "south"} : p[2] \notin walls[p[1]]}

(* A set of cells that no passage leaves. *)
Enclosed(cells) == \A c \in cells, d \in Sides : d \notin walls[c] => Beyond(c, d) \in cells

(* Made, the maze is a tree that spans the grid (maze.Generate): every cell
   can be reached from the first, as none but the whole grid is a set that
   contains it and that no passage leaves; and there is one way only, as a
   passage less would divide the grid.  So the exit can. *)
OneWayOut ==
  stack = <<>> =>
    /\ \A cells \in SUBSET Grid : <<0, 0>> \in cells /\ Enclosed(cells) => cells = Grid
    /\ Cardinality(Passages) = W * H - 1

(* The player never leaves the array of cells, although Move does not look
   at its limits. *)
InsideTheMaze == player \in Grid

(* A perfect maze whose player stays in it. *)
PerfectMaze == WallsShared /\ BorderClosed /\ OneWayOut /\ InsideTheMaze
=============================================================================
