-------------------------------- MODULE Connect4 --------------------------------
(***************************************************************************)
(* The game of four in a row against the computer: the rules and the moves *)
(* of the computer (server/internal/connect4), and the applet that plays   *)
(* them key by key (server/internal/bbs/connect4.go).                      *)
(***************************************************************************)
EXTENDS Integers, Sequences, FiniteSets

CONSTANTS
  Cols, Rows,   \* 7 and 6 in the code
  Preferred     \* the columns from the centre outwards

Columns == 0 .. Cols - 1
Places == (0 .. Rows - 1) \X Columns
Tokens == {"player", "computer"}

Connect4Assumption ==
  /\ Cols \in Nat \ {0} /\ Rows \in Nat \ {0}
  /\ Preferred \in [1 .. Cols -> Columns] /\ \A c \in Columns : \E i \in 1 .. Cols : Preferred[i] = c

VARIABLES
  cells,        \* what each place holds; row 0 is the bottom
  result,       \* "none", "won", "lost", "drawn" or "left"
  last          \* the column the computer played last; Cols at the start
gameVars == <<cells, result, last>>

Board == [Places -> Tokens \cup {"empty"}]

GameTypeOK ==
  /\ cells \in Board
  /\ result \in {"none", "won", "lost", "drawn", "left"} /\ last \in 0 .. Cols

-----------------------------------------------------------------------------
(* connect4.Game.                                                          *)

ColumnFull(b, c) == b[<<Rows - 1, c>>] # "empty"
Full(b) == \A c \in Columns : ColumnFull(b, c)

(* Drop: the token falls on the first empty place of the column. *)
Landing(b, c) ==
  CHOOSE r \in 0 .. Rows - 1 :
    b[<<r, c>>] = "empty" /\ \A below \in 0 .. r - 1 : b[<<below, c>>] # "empty"

Drop(b, c, who) == [b EXCEPT ![<<Landing(b, c), c>>] = who]

(* four: four places from p in direction d, all of the same token. *)
Four(b, p, d, who) ==
  \A i \in 0 .. 3 :
    LET q == <<p[1] + d[1] * i, p[2] + d[2] * i>> IN q \in Places /\ b[q] = who

(* Winner, scanned from every place in four directions. *)
Directions == {<<0, 1>>, <<1, 0>>, <<1, 1>>, <<1, -1>>}

Wins(b, who) ==
  \E p \in Places, d \in Directions : b[p] = who /\ Four(b, p, d, who)

WinsWith(b, c, who) == ~ColumnFull(b, c) /\ Wins(Drop(b, c, who), who)

LowestOf(S) == CHOOSE c \in S : \A other \in S : c <= other

(* Mutant: the computer stops the player before it looks for a win. *)
ComputerParriesFirst(b) ==
  LET winning == {c \in Columns : WinsWith(b, c, "computer")}
      parrying == {c \in Columns : WinsWith(b, c, "player")}
      open == {i \in 1 .. Cols : ~ColumnFull(b, Preferred[i])}
  IN CASE parrying # {} -> LowestOf(parrying)
       [] parrying = {} /\ winning # {} -> LowestOf(winning)
       [] OTHER -> Preferred[LowestOf(open)]

(* ComputerMove: win, else stop the player from winning, else the centre. *)
ComputerMove(b) ==
  LET winning == {c \in Columns : WinsWith(b, c, "computer")}
      parrying == {c \in Columns : WinsWith(b, c, "player")}
      open == {i \in 1 .. Cols : ~ColumnFull(b, Preferred[i])}
  IN CASE winning # {} -> LowestOf(winning)
       [] winning = {} /\ parrying # {} -> LowestOf(parrying)
       [] OTHER -> Preferred[LowestOf(open)]

-----------------------------------------------------------------------------
(* connect4Applet: one key of the player and what it leads to.             *)

GameInit ==
  /\ cells = [p \in Places |-> "empty"] /\ result = "none" /\ last = Cols

(* The player's token wins or fills the board, or the computer answers. *)
Play(c) ==
  /\ result = "none" /\ ~ColumnFull(cells, c)
  /\ LET mine == Drop(cells, c, "player")
         answer == ComputerMove(mine)
         both == Drop(mine, answer, "computer")
     IN \/ /\ Wins(mine, "player")
           /\ cells' = mine /\ result' = "won" /\ UNCHANGED last
        \/ /\ ~Wins(mine, "player") /\ Full(mine)
           /\ cells' = mine /\ result' = "drawn" /\ UNCHANGED last
        \/ /\ ~Wins(mine, "player") /\ ~Full(mine)
           /\ cells' = both /\ last' = answer
           /\ result' = CASE Wins(both, "computer") -> "lost"
                          [] ~Wins(both, "computer") /\ Full(both) -> "drawn"
                          [] OTHER -> "none"

(* Q at the player's turn; a key that is no column changes nothing. *)
Quit == result = "none" /\ result' = "left" /\ UNCHANGED <<cells, last>>

GameNext == Quit \/ \E c \in Columns : Play(c)

GameSpec == GameInit /\ [][GameNext]_gameVars

-----------------------------------------------------------------------------
(* The lines of the board, by what they are: four places in a row.         *)
Lines ==
  {L \in {{<<r + dr * i, c + dc * i>> : i \in 0 .. 3} :
            r \in 0 .. Rows - 1, c \in Columns, dr \in {0, 1}, dc \in {-1, 0, 1}} :
     L \subseteq Places /\ Cardinality(L) = 4}

Aligned(b, who) == \E L \in Lines : \A p \in L : b[p] = who
Count(who) == Cardinality({p \in Places : cells[p] = who})

(* The board without the last token of the computer. *)
Before ==
  LET top == CHOOSE r \in 0 .. Rows - 1 :
               cells[<<r, last>>] # "empty" /\ \A a \in r + 1 .. Rows - 1 : cells[<<a, last>>] = "empty"
  IN [cells EXCEPT ![<<top, last>>] = "empty"]

(* No token floats, each plays in turn, the result is the one of the board,
   and a game goes on only while nobody has four in a row and a place is
   left. *)
ByTheRules ==
  /\ \A r \in 1 .. Rows - 1, c \in Columns :
       cells[<<r, c>>] # "empty" => cells[<<r - 1, c>>] # "empty"
  /\ Count("player") - Count("computer") \in {0, 1}
  /\ result = "none" => Count("player") = Count("computer")
  /\ Aligned(cells, "player") <=> result = "won"
  /\ Aligned(cells, "computer") <=> result = "lost"
  /\ result = "drawn" <=> (Full(cells) /\ result \notin {"won", "lost"})

(* The computer looks one move ahead: when the game goes on it could not
   have won, and if the player can win at once, it is over the token the
   computer just played or because there were two threats to stop. *)
OneMoveAhead ==
  result = "none" /\ last # Cols =>
    /\ \A c \in Columns : ~WinsWith(Before, c, "computer")
    /\ \A c \in Columns \ {last} :
         WinsWith(cells, c, "player") => WinsWith(Before, last, "player")

(* A fair game (connect4Applet, Game.Winner, Game.ComputerMove): the board is
   one the rules lead to, the result told is that of the board, and the
   computer has missed neither a win nor a threat it could stop. *)
FairGame == ByTheRules /\ OneMoveAhead
=============================================================================
