------------------------------ MODULE Line_proofs ------------------------------
(***************************************************************************)
(* The screens, the graphics and the two games, whatever their size.       *)
(*                                                                         *)
(* The maze: digging joins one cell more to the ones already dug, so that  *)
(* they are always a tree, and nothing is left undug next to a cell that   *)
(* has been left behind; when none is left to come back to, the tree       *)
(* spans the grid.  Move looks at no limit: it rests on the outer walls,   *)
(* which Generate never touches, and on both faces of a wall falling       *)
(* together.                                                               *)
(*                                                                         *)
(* Four in a row: a token takes the first empty place of its column and    *)
(* gives no line to the other player, so that each turn leaves a board the *)
(* rules allow; and a threat after the answer of the computer was one      *)
(* before, in a column that it would have stopped.                         *)
(*                                                                         *)
(* Screens and graphics: a terminal is a function of a state and a byte,   *)
(* and Fed says where a stream of bytes leads it, one byte after another.  *)
(* The invariant follows the bytes on the way to the state they lead to:   *)
(* receiving the first of them changes nothing to it, and what is sent on  *)
(* a quiet line leads where the server believes.  That is proved of each   *)
(* stream along the loop that writes it: over the cells of a screen, the   *)
(* primitives of a page, the stretches of an image, and the runs of a      *)
(* stretch from the last to the first.                                     *)
(***************************************************************************)
EXTENDS Line, FiniteSetTheorems, SequenceTheorems, WellFoundedInduction, TLAPS

-----------------------------------------------------------------------------
(* The maze. *)

(* The walls hold while the maze is dug, and under the player afterwards. *)
WallsInv == M!MazeTypeOK /\ M!WallsShared /\ M!BorderClosed

(* A cell is the neighbour of its neighbour, on the opposite side. *)
LEMMA ThereAndBack ==
  ASSUME M!MazeAssumption, NEW c \in M!Grid, NEW d \in M!Sides
  PROVE  /\ M!Opposite(d) \in M!Sides /\ M!Opposite(M!Opposite(d)) = d /\ M!Opposite(d) # d
         /\ M!Beyond(M!Beyond(c, d), M!Opposite(d)) = c
         /\ M!Beyond(c, d) # c
         /\ \A e \in M!Sides : M!Beyond(c, d) = M!Beyond(c, e) => d = e
<1>1. PICK x \in 0 .. MazeWidth - 1, y \in 0 .. MazeHeight - 1 : c = <<x, y>>
  BY DEF M!Grid
<1>2. x \in Int /\ y \in Int
  BY DEF M!MazeAssumption
<1>3. QED
  BY <1>1, <1>2 DEF M!Sides, M!Opposite, M!Beyond

LEMMA InitHolds == ASSUME M!MazeAssumption, M!MazeInit PROVE WallsInv
<1>1. <<0, 0>> \in M!Grid
  BY DEF M!MazeAssumption, M!Grid
<1>2. M!MazeTypeOK
  BY <1>1 DEF M!MazeInit, M!MazeTypeOK
<1>3. M!WallsShared
  BY ThereAndBack DEF M!MazeInit, M!WallsShared
<1>4. M!BorderClosed
  BY DEF M!MazeInit, M!BorderClosed
<1>5. QED
  BY <1>2, <1>3, <1>4 DEF WallsInv

LEMMA DigHolds == ASSUME M!MazeAssumption, WallsInv, M!Dig PROVE WallsInv'
<1>1. M!Top \in M!Grid
  BY DEF WallsInv, M!MazeTypeOK, M!Dig, M!Top
<1>2. PICK d \in M!Sides : /\ M!Beyond(M!Top, d) \in M!Grid
                         /\ walls' = M!Dug(M!Top, d)
                         /\ visited' = visited \cup {M!Beyond(M!Top, d)}
                         /\ stack' = Append(stack, M!Beyond(M!Top, d))
                         /\ UNCHANGED <<player, mazeOver>>
  BY DEF M!Dig, M!Undug
<1> DEFINE n == M!Beyond(M!Top, d)
<1>3. n # M!Top /\ M!Opposite(d) \in M!Sides /\ M!Opposite(M!Opposite(d)) = d /\ M!Beyond(n, M!Opposite(d)) = M!Top
  BY <1>1, ThereAndBack
<1>4. /\ walls \in [M!Grid -> SUBSET M!Sides]
      /\ walls'[M!Top] = walls[M!Top] \ {d}
      /\ walls'[n] = walls[n] \ {M!Opposite(d)}
      /\ \A c \in M!Grid : c # M!Top /\ c # n => walls'[c] = walls[c]
  BY <1>1, <1>2, <1>3 DEF WallsInv, M!MazeTypeOK, M!Dug
<1>5. M!MazeTypeOK'
  <2>1. walls' \in [M!Grid -> SUBSET M!Sides]
    BY <1>1, <1>2, <1>4 DEF M!Dug
  <2>2. stack' \in Seq(M!Grid) /\ visited' \in SUBSET M!Grid
    BY <1>2 DEF WallsInv, M!MazeTypeOK
  <2>3. QED
    BY <1>2, <2>1, <2>2 DEF WallsInv, M!MazeTypeOK
<1>6. ASSUME NEW c \in M!Grid, NEW e \in M!Sides
      PROVE  /\ e \in walls'[c] => e \in walls[c]
             /\ e \in walls[c] /\ e \notin walls'[c] =>
                  \/ c = M!Top /\ e = d
                  \/ c = n /\ e = M!Opposite(d)
  BY <1>4
<1>7. M!BorderClosed'
  <2>1. ASSUME NEW c \in M!Grid, NEW e \in M!Sides, M!Beyond(c, e) \notin M!Grid
        PROVE  e \in walls'[c]
    <3>1. e \in walls[c]
      BY <2>1 DEF WallsInv, M!BorderClosed
    <3>2. ~ (c = M!Top /\ e = d) /\ ~ (c = n /\ e = M!Opposite(d))
      BY <1>1, <1>2, <1>3, <2>1
    <3>3. QED
      BY <1>6, <3>1, <3>2
  <2>2. QED
    BY <2>1 DEF M!BorderClosed
<1>8. M!WallsShared'
  <2>1. ASSUME NEW c \in M!Grid, NEW e \in M!Sides, M!Beyond(c, e) \in M!Grid
        PROVE  e \in walls'[c] <=> M!Opposite(e) \in walls'[M!Beyond(c, e)]
    <3>1. e \in walls[c] <=> M!Opposite(e) \in walls[M!Beyond(c, e)]
      BY <2>1 DEF WallsInv, M!WallsShared
    <3>2. /\ M!Opposite(e) \in M!Sides /\ M!Opposite(M!Opposite(e)) = e
          /\ M!Beyond(M!Beyond(c, e), M!Opposite(e)) = c
      BY ThereAndBack
    <3>3. (c = M!Top /\ e = d) <=> (M!Beyond(c, e) = n /\ M!Opposite(e) = M!Opposite(d))
      <4>1. c = M!Top /\ e = d => M!Beyond(c, e) = n /\ M!Opposite(e) = M!Opposite(d)
        OBVIOUS
      <4>2. M!Beyond(c, e) = n /\ M!Opposite(e) = M!Opposite(d) => e = d /\ c = M!Top
        BY <1>3, <3>2
      <4>3. QED
        BY <4>1, <4>2
    <3>4. (c = n /\ e = M!Opposite(d)) <=> (M!Beyond(c, e) = M!Top /\ M!Opposite(e) = d)
      <4>1. c = n /\ e = M!Opposite(d) => M!Beyond(c, e) = M!Top /\ M!Opposite(e) = d
        BY <1>3
      <4>2. M!Beyond(c, e) = M!Top /\ M!Opposite(e) = d => e = M!Opposite(d) /\ c = n
        BY <3>2
      <4>3. QED
        BY <4>1, <4>2
    <3>5. e \in walls'[c] <=>
            e \in walls[c] /\ ~ (c = M!Top /\ e = d) /\ ~ (c = n /\ e = M!Opposite(d))
      BY <1>3, <1>4
    <3>6. M!Opposite(e) \in walls'[M!Beyond(c, e)] <=>
            /\ M!Opposite(e) \in walls[M!Beyond(c, e)]
            /\ ~ (M!Beyond(c, e) = M!Top /\ M!Opposite(e) = d)
            /\ ~ (M!Beyond(c, e) = n /\ M!Opposite(e) = M!Opposite(d))
      BY <1>3, <1>4, <2>1, <3>2
    <3>7. QED
      BY <3>1, <3>3, <3>4, <3>5, <3>6
  <2>2. QED
    BY <2>1 DEF M!WallsShared
<1>9. QED
  BY <1>5, <1>7, <1>8 DEF WallsInv

(* A step of the player goes through a gap, hence not through the border. *)
LEMMA WalkHolds ==
  ASSUME M!MazeAssumption, WallsInv, NEW d \in M!Sides, M!Walk(d)
  PROVE  WallsInv'
<1>1. M!Beyond(player, d) \in M!Grid
  BY DEF WallsInv, M!MazeTypeOK, M!BorderClosed, M!Walk
<1>2. QED
  BY <1>1 DEF WallsInv, M!MazeTypeOK, M!WallsShared, M!BorderClosed, M!Walk

LEMMA StepHolds == ASSUME M!MazeAssumption, WallsInv, [M!MazeNext]_mazeVars PROVE WallsInv'
<1>1. CASE M!Dig
  BY <1>1, DigHolds
<1>2. CASE M!Back
  <2>1. SubSeq(stack, 1, Len(stack) - 1) \in Seq(M!Grid)
    BY DEF WallsInv, M!MazeTypeOK
  <2>2. QED
    BY <1>2, <2>1 DEF M!Back, WallsInv, M!MazeTypeOK, M!WallsShared, M!BorderClosed
<1>3. ASSUME NEW d \in M!Sides, M!Walk(d) PROVE WallsInv'
  BY <1>3, WalkHolds
<1>4. CASE M!GiveUp
  BY <1>4 DEF M!GiveUp, WallsInv, M!MazeTypeOK, M!WallsShared, M!BorderClosed
<1>5. CASE UNCHANGED mazeVars
  BY <1>5 DEF mazeVars, WallsInv, M!MazeTypeOK, M!WallsShared, M!BorderClosed
<1>6. QED
  BY <1>1, <1>2, <1>3, <1>4, <1>5 DEF M!MazeNext

-----------------------------------------------------------------------------
(* That there is one way out. *)

(* The least number of a set: there is one. *)
LEMMA LeastNumber ==
  ASSUME NEW T \in SUBSET Nat, T # {}
  PROVE  \E least \in T : \A other \in T : least <= other
<1>1. \E least \in T : \A other \in T : ~ (<<other, least>> \in OpToRel(<, Nat))
  BY NatLessThanWellFounded, WFMin, Zenon
<1>2. \A x \in Nat, y \in Nat : x < y => <<x, y>> \in OpToRel(<, Nat)
  BY Zenon DEF OpToRel
<1>3. PICK least \in T : \A other \in T : ~ (<<other, least>> \in OpToRel(<, Nat))
  BY <1>1, Zenon
<1>4. \A other \in T : ~ other < least
  BY <1>2, <1>3, Zenon
<1>5. QED
  BY <1>4

(* A set of cells that contains the first, and with a cell those east and
   south of it, is the grid. *)
LEMMA GridIsFilled ==
  ASSUME M!MazeAssumption, NEW dug \in SUBSET M!Grid, <<0, 0>> \in dug,
         \A c \in dug, d \in M!Sides : M!Beyond(c, d) \in M!Grid => M!Beyond(c, d) \in dug
  PROVE  dug = M!Grid
<1> DEFINE xs == 0 .. MazeWidth - 1
           ys == 0 .. MazeHeight - 1
<1>1. MazeWidth \in Nat \ {0} /\ MazeHeight \in Nat \ {0}
  BY DEF M!MazeAssumption
<1>2. ASSUME NEW x \in xs PROVE <<x, 0>> \in dug
  <2> DEFINE T == {a \in xs : <<a, 0>> \notin dug}
  <2> SUFFICES ASSUME T # {} PROVE FALSE
    BY <1>2
  <2>1. T \in SUBSET Nat
    BY <1>1
  <2> HIDE DEF T
  <2>2. PICK least \in T : \A other \in T : least <= other
    BY <2>1, LeastNumber
  <2>3. least \in xs /\ <<least, 0>> \notin dug /\ least # 0
    BY <2>2 DEF T
  <2>4. least - 1 \in xs /\ least - 1 \notin T /\ least - 1 + 1 = least
    BY <1>1, <2>2, <2>3
  <2>5. <<least - 1, 0>> \in dug
    BY <2>4 DEF T
  <2>6. M!Beyond(<<least - 1, 0>>, "east") = <<least, 0>> /\ "east" \in M!Sides
    BY <2>4 DEF M!Beyond, M!Sides
  <2>7. <<least, 0>> \in M!Grid
    BY <1>1, <2>3 DEF M!Grid
  <2>8. <<least, 0>> \in dug
    BY <2>5, <2>6, <2>7
  <2>9. QED
    BY <2>3, <2>8
<1>3. ASSUME NEW x \in xs, NEW y \in ys PROVE <<x, y>> \in dug
  <2> DEFINE T == {b \in ys : <<x, b>> \notin dug}
  <2> SUFFICES ASSUME T # {} PROVE FALSE
    BY <1>3
  <2>1. T \in SUBSET Nat
    BY <1>1
  <2> HIDE DEF T
  <2>2. PICK least \in T : \A other \in T : least <= other
    BY <2>1, LeastNumber
  <2>3. least \in ys /\ <<x, least>> \notin dug /\ least # 0
    BY <1>2, <2>2 DEF T
  <2>4. least - 1 \in ys /\ least - 1 \notin T /\ least - 1 + 1 = least
    BY <1>1, <2>2, <2>3
  <2>5. <<x, least - 1>> \in dug
    BY <2>4 DEF T
  <2>6. M!Beyond(<<x, least - 1>>, "south") = <<x, least>> /\ "south" \in M!Sides
    BY <2>4 DEF M!Beyond, M!Sides
  <2>7. <<x, least>> \in M!Grid
    BY <1>1, <2>3 DEF M!Grid
  <2>8. <<x, least>> \in dug
    BY <2>5, <2>6, <2>7
  <2>9. QED
    BY <2>3, <2>8
<1>4. QED
  BY <1>3 DEF M!Grid

(* The cells dug are joined by passages, one fewer than there are cells; the
   others have all their walls; and a cell left behind has no neighbour that
   is not dug. *)
Joined ==
  \A cave \in SUBSET M!Grid : <<0, 0>> \in cave /\ M!Enclosed(cave) => visited \subseteq cave

OnStack(c) == \E i \in 1..Len(stack) : stack[i] = c

TreeInv ==
  /\ \A c \in M!Grid \ visited : walls[c] = M!Sides
  /\ <<0, 0>> \in visited
  /\ \A i \in 1..Len(stack) : stack[i] \in visited
  /\ \A c \in visited : OnStack(c) \/ M!Undug(c) = {}
  /\ Cardinality(M!Passages) = Cardinality(visited) - 1
  /\ Joined

MazeInv == WallsInv /\ TreeInv

LEMMA MazeSets == \A T : M!Cardinality(T) = Cardinality(T)
BY DEF M!Cardinality, Cardinality

LEMMA GridIsFinite ==
  ASSUME M!MazeAssumption
  PROVE  /\ IsFiniteSet(M!Grid) /\ Cardinality(M!Grid) = MazeWidth * MazeHeight
         /\ IsFiniteSet(M!Passages)
<1>1. MazeWidth \in Nat \ {0} /\ MazeHeight \in Nat \ {0}
  BY DEF M!MazeAssumption
<1>2. /\ IsFiniteSet(0 .. MazeWidth - 1) /\ Cardinality(0 .. MazeWidth - 1) = MazeWidth
      /\ IsFiniteSet(0 .. MazeHeight - 1) /\ Cardinality(0 .. MazeHeight - 1) = MazeHeight
  <2>1. 0 \in Int /\ MazeWidth - 1 \in Int /\ MazeHeight - 1 \in Int
    BY <1>1
  <2>2. QED
    BY <1>1, <2>1, FS_Interval
<1>3. IsFiniteSet(M!Grid) /\ Cardinality(M!Grid) = MazeWidth * MazeHeight
  <2> DEFINE xs == 0 .. MazeWidth - 1
             ys == 0 .. MazeHeight - 1
  <2>1. IsFiniteSet(xs) /\ IsFiniteSet(ys) /\ Cardinality(xs) = MazeWidth /\ Cardinality(ys) = MazeHeight
    BY <1>2
  <2>2. M!Grid = xs \X ys
    BY DEF M!Grid
  <2> HIDE DEF xs, ys
  <2>3. IsFiniteSet(xs \X ys) /\ Cardinality(xs \X ys) = Cardinality(xs) * Cardinality(ys)
    BY <2>1, FS_Product
  <2>4. QED
    BY <2>1, <2>2, <2>3
<1>4. IsFiniteSet({"east", "south"})
  <2>1. IsFiniteSet({"east"}) /\ {"east", "south"} = {"east"} \cup {"south"}
    BY FS_Singleton
  <2>2. QED
    BY <2>1, FS_AddElement
<1>5. IsFiniteSet(M!Grid \X {"east", "south"})
  BY <1>3, <1>4, FS_Product
<1>6. M!Passages \in SUBSET (M!Grid \X {"east", "south"})
  BY DEF M!Passages
<1>7. QED
  BY <1>3, <1>5, <1>6, FS_Subset

LEMMA TreeInit == ASSUME M!MazeAssumption, M!MazeInit PROVE TreeInv
<1>1. /\ walls = [c \in M!Grid |-> M!Sides] /\ visited = {<<0, 0>>} /\ stack = <<<<0, 0>>>>
  BY DEF M!MazeInit
<1>2. 1 \in 1..Len(stack) /\ Len(stack) = 1 /\ stack[1] = <<0, 0>>
  BY <1>1
<1>3. Cardinality(M!Passages) = 0
  <2>1. \A p \in M!Grid \X {"east", "south"} : p[2] \in walls[p[1]]
    BY <1>1 DEF M!Sides
  <2>2. M!Passages = {}
    BY <2>1 DEF M!Passages
  <2>3. QED
    BY <2>2, FS_EmptySet
<1>4. Cardinality(visited) = 1
  BY <1>1, FS_Singleton
<1>5. Joined
  BY <1>1 DEF Joined
<1>6. QED
  BY <1>1, <1>2, <1>3, <1>4, <1>5 DEF TreeInv, OnStack

LEMMA TreeDig ==
  ASSUME M!MazeAssumption, MazeInv, M!Dig
  PROVE  TreeInv'
<1>1. Len(stack) \in Nat /\ Len(stack) # 0 /\ stack \in Seq(M!Grid) /\ M!Top \in visited /\ M!Top \in M!Grid
  BY DEF MazeInv, WallsInv, TreeInv, M!MazeTypeOK, M!Dig, M!Top
<1>2. PICK d \in M!Sides : /\ M!Beyond(M!Top, d) \in M!Grid \ visited
                           /\ walls' = M!Dug(M!Top, d)
                           /\ visited' = visited \cup {M!Beyond(M!Top, d)}
                           /\ stack' = Append(stack, M!Beyond(M!Top, d))
  BY DEF M!Dig, M!Undug
<1> DEFINE t == M!Top
           n == M!Beyond(M!Top, d)
           facing == M!Opposite(d)
<1>3. n # t /\ facing \in M!Sides /\ M!Opposite(facing) = d /\ M!Beyond(n, facing) = t
  BY <1>1, ThereAndBack
<1>4. /\ walls \in [M!Grid -> SUBSET M!Sides]
      /\ walls'[t] = walls[t] \ {d}
      /\ walls'[n] = walls[n] \ {facing}
      /\ \A c \in M!Grid : c # t /\ c # n => walls'[c] = walls[c]
  BY <1>1, <1>2, <1>3 DEF MazeInv, WallsInv, M!MazeTypeOK, M!Dug
<1>5. n \in M!Grid /\ n \notin visited /\ walls[n] = M!Sides /\ d \in walls[t] /\ visited \in SUBSET M!Grid
  <2>1. n \in M!Grid /\ walls[n] = M!Sides
    BY <1>2 DEF MazeInv, TreeInv
  <2>2. d \in walls[t] <=> facing \in walls[n]
    BY <1>1, <2>1 DEF MazeInv, WallsInv, M!WallsShared
  <2>3. QED
    BY <1>2, <1>3, <2>1, <2>2 DEF MazeInv, WallsInv, M!MazeTypeOK
<1>6. /\ Len(stack') = Len(stack) + 1 /\ stack'[Len(stack) + 1] = n
      /\ \A i \in 1..Len(stack) : stack'[i] = stack[i]
  BY <1>1, <1>2, <1>5, AppendProperties
<1> HIDE DEF t, n, facing
<1>7. \A c \in M!Grid \ visited' : walls'[c] = M!Sides
  BY <1>1, <1>2, <1>4 DEF MazeInv, TreeInv, t, n
<1>8. <<0, 0>> \in visited' /\ \A i \in 1..Len(stack') : stack'[i] \in visited'
  <2>1. \A i \in 1..Len(stack) + 1 : i \in 1..Len(stack) \/ i = Len(stack) + 1
    BY <1>1
  <2>2. QED
    BY <1>2, <1>6, <2>1 DEF MazeInv, TreeInv, n
<1>9. ASSUME NEW c \in visited' PROVE OnStack(c)' \/ M!Undug(c)' = {}
  <2>1. CASE c = n
    <3>1. Len(stack) + 1 \in 1..Len(stack')
      BY <1>1, <1>6
    <3>2. QED
      BY <1>6, <2>1, <3>1 DEF OnStack
  <2>2. CASE c \in visited /\ OnStack(c)
    <3>1. PICK i \in 1..Len(stack) : stack[i] = c
      BY <2>2 DEF OnStack
    <3>2. i \in 1..Len(stack') /\ stack'[i] = c
      BY <1>1, <1>6, <3>1
    <3>3. QED
      BY <3>2 DEF OnStack
  <2>3. CASE c \in visited /\ M!Undug(c) = {}
    BY <1>2, <2>3 DEF M!Undug
  <2>4. QED
    BY <1>2, <2>1, <2>2, <2>3 DEF MazeInv, TreeInv, n
<1>10. Cardinality(M!Passages)' = Cardinality(visited') - 1
  <2> DEFINE gap == IF d \in {"east", "south"} THEN <<t, d>> ELSE <<n, facing>>
  <2>1. d \notin {"east", "south"} => facing \in {"east", "south"}
    BY DEF M!Sides, M!Opposite, facing
  <2>2. d \in {"east", "south"} => facing \notin {"east", "south"}
    BY DEF M!Sides, M!Opposite, facing
  <2>3. t \in M!Grid /\ n \in M!Grid /\ n # t
    BY <1>1, <1>3, <1>5 DEF t
  <2>4. gap \in M!Grid \X {"east", "south"} /\ gap \notin M!Passages
    BY <1>3, <1>5, <2>1, <2>3 DEF M!Passages
  <2>5. ASSUME NEW c \in M!Grid, NEW e \in {"east", "south"}
        PROVE  e \notin walls'[c] <=> e \notin walls[c] \/ <<c, e>> = gap
    <3>1. CASE c = t
      BY <1>4, <2>1, <2>2, <2>3, <3>1
    <3>2. CASE c = n
      BY <1>4, <2>1, <2>2, <2>3, <3>2
    <3>3. CASE c # t /\ c # n
      BY <1>4, <3>3
    <3>4. QED
      BY <3>1, <3>2, <3>3
  <2>6. \A p \in M!Grid \X {"east", "south"} : p[2] \notin walls'[p[1]] <=> (p[2] \notin walls[p[1]] \/ p = gap)
    BY <2>5
  <2> HIDE DEF gap
  <2>7. \A p : p \in M!Passages' <=> p \in M!Passages \cup {gap}
    BY <2>4, <2>6 DEF M!Passages
  <2>8. M!Passages' = M!Passages \cup {gap}
    BY <2>7, Zenon
  <2>9. IsFiniteSet(M!Passages) /\ IsFiniteSet(visited)
    BY GridIsFinite, <1>5, FS_Subset
  <2>10. Cardinality(M!Passages \cup {gap}) = Cardinality(M!Passages) + 1
    BY <2>4, <2>9, FS_AddElement
  <2>11. Cardinality(visited \cup {n}) = Cardinality(visited) + 1 /\ Cardinality(visited) \in Nat
    BY <1>5, <2>9, FS_AddElement, FS_CardinalityType
  <2>12. visited' = visited \cup {n}
    BY <1>2 DEF n
  <2>13. Cardinality(M!Passages) = Cardinality(visited) - 1
    BY DEF MazeInv, TreeInv
  <2>14. QED
    BY <2>8, <2>10, <2>11, <2>12, <2>13
<1>11. Joined'
  <2> SUFFICES ASSUME NEW cave \in SUBSET M!Grid, <<0, 0>> \in cave, M!Enclosed(cave)'
               PROVE  visited' \subseteq cave
    BY DEF Joined
  <2>1. \A c \in M!Grid : walls'[c] \subseteq walls[c]
    BY <1>4
  <2>2. M!Enclosed(cave)
    BY <2>1 DEF M!Enclosed
  <2>3. visited \subseteq cave
    BY <2>2 DEF MazeInv, TreeInv, Joined
  <2>4. t \in cave /\ d \notin walls'[t]
    BY <1>1, <1>4, <2>3 DEF t
  <2>5. n \in cave
    BY <2>4 DEF M!Enclosed, t, n
  <2>6. QED
    BY <1>2, <2>3, <2>5 DEF n
<1>12. QED
  BY <1>7, <1>8, <1>9, <1>10, <1>11 DEF TreeInv

LEMMA TreeBack ==
  ASSUME M!MazeAssumption, MazeInv, M!Back
  PROVE  TreeInv'
<1>1. /\ stack \in Seq(M!Grid) /\ Len(stack) \in Nat \ {0} /\ M!Undug(stack[Len(stack)]) = {}
      /\ stack' = SubSeq(stack, 1, Len(stack) - 1) /\ UNCHANGED <<walls, visited>>
  BY DEF MazeInv, WallsInv, M!MazeTypeOK, M!Back, M!Top
<1>2. /\ Len(stack') = Len(stack) - 1
      /\ \A i \in 1..Len(stack) - 1 : stack'[i] = stack[i]
  <2>1. \A i \in 1..Len(stack) - 1 : stack[i] \in M!Grid
    BY <1>1
  <2>2. /\ Len(stack') = IF 1 <= Len(stack) - 1 THEN Len(stack) - 1 - 1 + 1 ELSE 0
        /\ \A i \in 1..Len(stack) - 1 - 1 + 1 : stack'[i] = stack[1 + i - 1]
    BY <1>1, <2>1, SubSeqProperties
  <2>3. PICK m \in Nat \ {0} : m = Len(stack)
    BY <1>1
  <2>4. Len(stack') = m - 1 /\ \A i \in 1..m - 1 : stack'[i] = stack[i]
    BY ONLY <2>2, <2>3
  <2>5. QED
    BY <2>3, <2>4
<1>3. \A i \in 1..Len(stack') : stack'[i] \in visited'
  BY <1>1, <1>2 DEF MazeInv, TreeInv
<1>4. ASSUME NEW c \in visited' PROVE OnStack(c)' \/ M!Undug(c)' = {}
  <2>1. c \in visited /\ M!Undug(c)' = M!Undug(c)
    BY <1>1 DEF M!Undug
  <2>2. CASE OnStack(c)
    <3>1. PICK i \in 1..Len(stack) : stack[i] = c
      BY <2>2 DEF OnStack
    <3>2. CASE i = Len(stack)
      BY <1>1, <2>1, <3>1, <3>2
    <3>3. CASE i # Len(stack)
      <4>1. i \in 1..Len(stack') /\ stack'[i] = c
        BY <1>1, <1>2, <3>1, <3>3
      <4>2. QED
        BY <4>1 DEF OnStack
    <3>4. QED
      BY <3>2, <3>3
  <2>3. QED
    BY <2>1, <2>2 DEF MazeInv, TreeInv
<1>5. Joined' /\ Cardinality(M!Passages)' = Cardinality(visited') - 1
  BY <1>1 DEF MazeInv, TreeInv, Joined, M!Enclosed, M!Passages
<1>6. QED
  BY <1>1, <1>3, <1>4, <1>5 DEF MazeInv, TreeInv

LEMMA TreeStays ==
  ASSUME TreeInv, UNCHANGED <<walls, visited, stack>>
  PROVE  TreeInv'
BY DEF TreeInv, Joined, OnStack, M!Enclosed, M!Passages, M!Undug

LEMMA MazeStep == ASSUME M!MazeAssumption, MazeInv, [M!MazeNext]_mazeVars PROVE MazeInv'
<1>1. WallsInv'
  BY StepHolds DEF MazeInv, mazeVars, M!mazeVars
<1>2. CASE M!Dig
  BY <1>1, <1>2, TreeDig DEF MazeInv
<1>3. CASE M!Back
  BY <1>1, <1>3, TreeBack DEF MazeInv
<1>4. CASE (\E d \in M!Sides : M!Walk(d)) \/ M!GiveUp \/ UNCHANGED mazeVars
  BY <1>1, <1>4, TreeStays DEF MazeInv, M!Walk, M!GiveUp, mazeVars
<1>5. QED
  BY <1>2, <1>3, <1>4 DEF M!MazeNext

(* Once it is made, the maze is dug everywhere: a tree that spans the grid. *)
LEMMA MazeIsPerfect == ASSUME M!MazeAssumption, MazeInv PROVE M!MazeTypeOK /\ M!PerfectMaze
<1>1. M!MazeTypeOK /\ M!WallsShared /\ M!BorderClosed /\ M!InsideTheMaze
  BY DEF MazeInv, WallsInv, M!MazeTypeOK, M!InsideTheMaze
<1>2. ASSUME stack = <<>>
      PROVE  /\ \A cave \in SUBSET M!Grid : <<0, 0>> \in cave /\ M!Enclosed(cave) => cave = M!Grid
             /\ M!Cardinality(M!Passages) = MazeWidth * MazeHeight - 1
  <2>1. \A c \in visited : M!Undug(c) = {}
    BY <1>2 DEF MazeInv, TreeInv, OnStack
  <2>2. \A c \in visited, d \in M!Sides : M!Beyond(c, d) \in M!Grid => M!Beyond(c, d) \in visited
    BY <2>1 DEF M!Undug
  <2>3. visited = M!Grid
    BY <1>1, <2>2, GridIsFilled DEF MazeInv, TreeInv, M!MazeTypeOK
  <2>4. QED
    BY <2>3, GridIsFinite, MazeSets DEF MazeInv, TreeInv, Joined
<1>3. QED
  BY <1>1, <1>2 DEF M!PerfectMaze, M!OneWayOut

-----------------------------------------------------------------------------
(* Four in a row. *)

LEMMA GameSets == \A T : C!Cardinality(T) = Cardinality(T)
BY DEF C!Cardinality, Cardinality

LEMMA BoardSize ==
  ASSUME C!Connect4Assumption
  PROVE  /\ BoardCols \in Nat \ {0} /\ BoardRows \in Nat \ {0}
         /\ IsFiniteSet(C!Places)
         /\ \A p \in C!Places : p = <<p[1], p[2]>> /\ p[1] \in Int /\ p[2] \in Int
<1>1. BoardCols \in Nat \ {0} /\ BoardRows \in Nat \ {0}
  BY DEF C!Connect4Assumption
<1>2. IsFiniteSet(0 .. BoardRows - 1) /\ IsFiniteSet(0 .. BoardCols - 1)
  <2>1. 0 \in Int /\ BoardRows - 1 \in Int /\ BoardCols - 1 \in Int
    BY <1>1
  <2>2. QED
    BY <2>1, FS_Interval
<1>3. IsFiniteSet(C!Places)
  BY <1>2, FS_Product DEF C!Places, C!Columns
<1>4. QED
  BY <1>1, <1>3 DEF C!Places, C!Columns

(* The least of a set of columns, or of ranks of columns: there is one. *)
LEMMA LowestIs ==
  ASSUME NEW T \in SUBSET Nat, T # {}
  PROVE  C!LowestOf(T) \in T
<1>1. \E least \in T : \A other \in T : least <= other
  BY LeastNumber
<1>2. QED
  BY <1>1 DEF C!LowestOf

(* A token falls on the first empty place. *)
LEMMA LandingIs ==
  ASSUME C!Connect4Assumption, NEW b \in C!Board, NEW c \in C!Columns, ~ C!ColumnFull(b, c)
  PROVE  /\ C!Landing(b, c) \in 0 .. BoardRows - 1
         /\ b[<<C!Landing(b, c), c>>] = "empty"
         /\ \A below \in 0 .. C!Landing(b, c) - 1 : b[<<below, c>>] # "empty"
<1> DEFINE T == {r \in 0 .. BoardRows - 1 : b[<<r, c>>] = "empty"}
<1>1. BoardRows \in Nat \ {0}
  BY BoardSize
<1>2. BoardRows - 1 \in T /\ T \in SUBSET Nat
  BY <1>1 DEF C!ColumnFull
<1>3. PICK least \in T : \A other \in T : least <= other
  <2> HIDE DEF T
  <2>1. QED
    BY <1>2, LeastNumber
<1>4. /\ least \in 0 .. BoardRows - 1 /\ b[<<least, c>>] = "empty"
      /\ \A below \in 0 .. least - 1 : b[<<below, c>>] # "empty"
  <2>1. least \in 0 .. BoardRows - 1 /\ b[<<least, c>>] = "empty"
    BY <1>3
  <2>2. ASSUME NEW below \in 0 .. least - 1, b[<<below, c>>] = "empty" PROVE FALSE
    <3>1. below \in 0 .. BoardRows - 1 /\ ~ least <= below
      BY <1>1, <2>1
    <3>2. below \in T
      BY <2>2, <3>1
    <3>3. QED
      BY <1>3, <3>1, <3>2
  <2>3. QED
    BY <2>1, <2>2
<1>5. QED
  BY <1>4 DEF C!Landing

(* No token floats: a place that is taken has none empty below it. *)
Stacked(b) ==
  \A c \in C!Columns : \A r, s \in 0 .. BoardRows - 1 :
    s < r /\ b[<<r, c>>] # "empty" => b[<<s, c>>] # "empty"

TakenBy(b, who) == {p \in C!Places : b[p] = who}

(* A token that falls takes an empty place, and changes nothing else. *)
LEMMA DropIs ==
  ASSUME C!Connect4Assumption, NEW b \in C!Board, NEW c \in C!Columns, ~ C!ColumnFull(b, c),
         NEW who \in C!Tokens
  PROVE  LET q == <<C!Landing(b, c), c>>
             t == C!Drop(b, c, who)
         IN  /\ q \in C!Places /\ b[q] = "empty" /\ t \in C!Board
             /\ t = [b EXCEPT ![q] = who]
             /\ t[q] = who /\ \A p \in C!Places : p # q => t[p] = b[p]
             /\ Stacked(b) => Stacked(t)
<1> DEFINE l == C!Landing(b, c)
           q == <<l, c>>
           t == C!Drop(b, c, who)
<1>1. /\ l \in 0 .. BoardRows - 1 /\ b[q] = "empty"
      /\ \A below \in 0 .. l - 1 : b[<<below, c>>] # "empty"
  BY LandingIs
<1>2. q \in C!Places
  BY <1>1 DEF C!Places
<1>3. t = [b EXCEPT ![q] = who]
  BY DEF C!Drop
<1> HIDE DEF l
<1>4. t \in C!Board /\ t[q] = who /\ \A p \in C!Places : p # q => t[p] = b[p]
  BY <1>2, <1>3 DEF C!Board
<1> HIDE DEF t
<1>5. ASSUME Stacked(b), NEW e \in C!Columns, NEW r \in 0 .. BoardRows - 1, NEW s \in 0 .. BoardRows - 1,
             s < r, t[<<r, e>>] # "empty"
      PROVE  t[<<s, e>>] # "empty"
  <2>1. <<r, e>> \in C!Places /\ <<s, e>> \in C!Places /\ "empty" \notin C!Tokens
    BY DEF C!Places, C!Tokens
  <2>2. CASE <<s, e>> = q
    BY <1>4, <2>1, <2>2
  <2>3. CASE <<s, e>> # q /\ <<r, e>> = q
    <3>1. e = c /\ r = l /\ s \in 0 .. l - 1
      BY <1>1, <1>5, <2>3
    <3>2. QED
      BY <1>1, <1>4, <2>1, <2>3, <3>1
  <2>4. CASE <<s, e>> # q /\ <<r, e>> # q
    BY <1>4, <1>5, <2>1, <2>4 DEF Stacked
  <2>5. QED
    BY <2>2, <2>3, <2>4
<1>6. Stacked(b) => Stacked(t)
  BY <1>5 DEF Stacked
<1>7. QED
  BY <1>1, <1>2, <1>3, <1>4, <1>6 DEF l, t

(* And the player it belongs to has one token more. *)
LEMMA DropCounts ==
  ASSUME C!Connect4Assumption, NEW b \in C!Board, NEW c \in C!Columns, ~ C!ColumnFull(b, c),
         NEW who \in C!Tokens
  PROVE  /\ Cardinality(TakenBy(b, who)) \in Nat
         /\ Cardinality(TakenBy(C!Drop(b, c, who), who)) = Cardinality(TakenBy(b, who)) + 1
         /\ \A other \in C!Tokens \ {who} : TakenBy(C!Drop(b, c, who), other) = TakenBy(b, other)
<1> DEFINE q == <<C!Landing(b, c), c>>
           t == C!Drop(b, c, who)
<1>1. /\ q \in C!Places /\ b[q] = "empty" /\ t[q] = who /\ \A p \in C!Places : p # q => t[p] = b[p]
  BY DropIs
<1>2. "empty" \notin C!Tokens
  BY DEF C!Tokens
<1> HIDE DEF q, t
<1>3. TakenBy(b, who) \in SUBSET C!Places
  BY DEF TakenBy
<1>4. IsFiniteSet(TakenBy(b, who)) /\ Cardinality(TakenBy(b, who)) \in Nat
  BY <1>3, BoardSize, FS_Subset, FS_CardinalityType
<1>5. q \notin TakenBy(b, who)
  BY <1>1, <1>2 DEF TakenBy
<1>6. TakenBy(t, who) = TakenBy(b, who) \cup {q}
  BY <1>1 DEF TakenBy
<1>7. Cardinality(TakenBy(b, who) \cup {q}) = Cardinality(TakenBy(b, who)) + 1
  BY <1>4, <1>5, FS_AddElement
<1>8. ASSUME NEW other \in C!Tokens \ {who} PROVE TakenBy(t, other) = TakenBy(b, other)
  BY <1>1, <1>2 DEF TakenBy
<1>9. QED
  BY <1>4, <1>6, <1>7, <1>8 DEF t

(* A token gives no line to the other player. *)
LEMMA OthersToken ==
  ASSUME NEW b \in C!Board, NEW q \in C!Places, NEW who, NEW other, who # other,
         C!Wins([b EXCEPT ![q] = who], other)
  PROVE  C!Wins(b, other)
<1> DEFINE t == [b EXCEPT ![q] = who]
<1>1. \A p \in C!Places : t[p] = other => b[p] = other
  BY DEF C!Board
<1> HIDE DEF t
<1>2. PICK p \in C!Places, d \in C!Directions : t[p] = other /\ C!Four(t, p, d, other)
  BY DEF C!Wins, t
<1>3. C!Four(b, p, d, other)
  BY <1>1, <1>2 DEF C!Four
<1>4. QED
  BY <1>1, <1>2, <1>3 DEF C!Wins

(* The four places from <<r, c>> on, a step of <<dr, dc>> apart. *)
LineOf(r, c, dr, dc) == {<<r + dr * i, c + dc * i>> : i \in 0 .. 3}

LEMMA LineIs ==
  ASSUME NEW r \in Int, NEW c \in Int, NEW dr \in {0, 1}, NEW dc \in {-1, 0, 1}
  PROVE  /\ LineOf(r, c, dr, dc) =
              {<<r, c>>, <<r + dr, c + dc>>, <<r + dr + dr, c + dc + dc>>,
               <<r + dr + dr + dr, c + dc + dc + dc>>}
         /\ Cardinality(LineOf(r, c, dr, dc)) = 4 <=> dr # 0 \/ dc # 0
<1> DEFINE s0 == <<r, c>>
           s1 == <<r + dr, c + dc>>
           s2 == <<r + dr + dr, c + dc + dc>>
           s3 == <<r + dr + dr + dr, c + dc + dc + dc>>
<1>1. /\ <<r + dr * 0, c + dc * 0>> = s0 /\ <<r + dr * 1, c + dc * 1>> = s1
      /\ <<r + dr * 2, c + dc * 2>> = s2 /\ <<r + dr * 3, c + dc * 3>> = s3
  <2>1. dr \in Int /\ dc \in Int
    OBVIOUS
  <2>2. QED
    BY <2>1
<1>2. 0 .. 3 = {0, 1, 2, 3}
  OBVIOUS
<1>3. LineOf(r, c, dr, dc) = {s0, s1, s2, s3}
  <2> HIDE DEF s0, s1, s2, s3
  <2>1. QED
    BY <1>1, <1>2, Zenon DEF LineOf
<1>4. ASSUME dr # 0 \/ dc # 0 PROVE Cardinality({s0, s1, s2, s3}) = 4
  <2>1. /\ s1 # s0 /\ s2 # s0 /\ s2 # s1 /\ s3 # s0 /\ s3 # s1 /\ s3 # s2
    BY <1>4
  <2> HIDE DEF s0, s1, s2, s3
  <2>2. IsFiniteSet({s0}) /\ Cardinality({s0}) = 1
    BY FS_Singleton
  <2>3. IsFiniteSet({s0} \cup {s1}) /\ Cardinality({s0} \cup {s1}) = 2
    BY <2>1, <2>2, FS_AddElement
  <2>4. IsFiniteSet({s0} \cup {s1} \cup {s2}) /\ Cardinality({s0} \cup {s1} \cup {s2}) = 3
    BY <2>1, <2>3, FS_AddElement
  <2>5. Cardinality({s0} \cup {s1} \cup {s2} \cup {s3}) = 4
    <3>1. s3 \notin {s0} \cup {s1} \cup {s2}
      BY <2>1
    <3>2. Cardinality({s0} \cup {s1} \cup {s2} \cup {s3}) = 3 + 1
      BY ONLY <2>4, <3>1, FS_AddElement
    <3>3. QED
      BY <3>2
  <2>6. {s0, s1, s2, s3} = {s0} \cup {s1} \cup {s2} \cup {s3}
    BY Zenon
  <2>7. QED
    BY <2>5, <2>6, Zenon
<1>5. ASSUME dr = 0, dc = 0 PROVE Cardinality({s0, s1, s2, s3}) = 1
  <2>1. s1 = s0 /\ s2 = s0 /\ s3 = s0
    BY <1>5
  <2> HIDE DEF s0, s1, s2, s3
  <2>2. {s0, s1, s2, s3} = {s0}
    BY <2>1
  <2>3. Cardinality({s0}) = 1
    BY FS_Singleton
  <2>4. QED
    BY <2>2, <2>3, Zenon
<1> HIDE DEF s0, s1, s2, s3
<1>6. QED
  BY <1>3, <1>4, <1>5 DEF s0, s1, s2, s3

(* Winner scans every line: it looks from one end of each, in the four
   directions that a line may have from there. *)
LEMMA WinsIs ==
  ASSUME C!Connect4Assumption, NEW b, NEW who
  PROVE  C!Wins(b, who) <=> C!Aligned(b, who)
<1>1. \A p \in C!Places : p = <<p[1], p[2]>> /\ p[1] \in 0 .. BoardRows - 1 /\ p[2] \in C!Columns
                          /\ p[1] \in Int /\ p[2] \in Int
  BY BoardSize DEF C!Places
<1>2. ASSUME C!Wins(b, who) PROVE C!Aligned(b, who)
  <2>1. PICK p \in C!Places, d \in C!Directions : C!Four(b, p, d, who)
    BY <1>2 DEF C!Wins
  <2>2. d[1] \in {0, 1} /\ d[2] \in {-1, 0, 1} /\ (d[1] # 0 \/ d[2] # 0)
    BY DEF C!Directions
  <2> DEFINE l == LineOf(p[1], p[2], d[1], d[2])
  <2>3. Cardinality(l) = 4
    BY <1>1, <2>2, LineIs
  <2>4. \A q \in l : q \in C!Places /\ b[q] = who
    BY <2>1 DEF C!Four, LineOf
  <2>5. l \in C!Lines
    <3>1. l \subseteq C!Places
      BY <2>4
    <3>2. l = {<<p[1] + d[1] * i, p[2] + d[2] * i>> : i \in 0 .. 3}
      BY DEF LineOf
    <3> HIDE DEF l
    <3>3. QED
      BY <1>1, <2>2, <2>3, <3>1, <3>2, GameSets DEF C!Lines
  <2>6. QED
    BY <2>4, <2>5 DEF C!Aligned
<1>3. ASSUME C!Aligned(b, who) PROVE C!Wins(b, who)
  <2>1. PICK l \in C!Lines : \A q \in l : b[q] = who
    BY <1>3 DEF C!Aligned
  <2>2. PICK r \in 0 .. BoardRows - 1, c \in C!Columns, dr \in {0, 1}, dc \in {-1, 0, 1} :
          l = LineOf(r, c, dr, dc)
    BY DEF C!Lines, LineOf
  <2>3. l \subseteq C!Places /\ Cardinality(l) = 4
    BY GameSets DEF C!Lines
  <2>4. r \in Int /\ c \in Int
    BY BoardSize DEF C!Columns
  <2>5. dr # 0 \/ dc # 0
    BY <2>2, <2>3, <2>4, LineIs
  <2>6. l = {<<r, c>>, <<r + dr, c + dc>>, <<r + dr + dr, c + dc + dc>>,
             <<r + dr + dr + dr, c + dc + dc + dc>>}
    <3>1. LineOf(r, c, dr, dc) =
            {<<r, c>>, <<r + dr, c + dc>>, <<r + dr + dr, c + dc + dc>>,
             <<r + dr + dr + dr, c + dc + dc + dc>>}
      <4>1. dr \in {0, 1} /\ dc \in {-1, 0, 1}
        BY <2>2
      <4>2. QED
        BY ONLY <2>4, <4>1, LineIs, SMTT(30)
    <3>2. QED
      BY <2>2, <3>1, Zenon
  <2>7. CASE dr = 0 /\ dc = -1
    <3> DEFINE p == <<r, c - 3>>
               d == <<0, 1>>
    <3>1. <<r, c - 3>> \in l /\ <<r, c - 2>> \in l /\ <<r, c - 1>> \in l /\ <<r, c>> \in l
      BY <2>4, <2>6, <2>7
    <3>2. \A i \in 0 .. 3 : <<p[1] + d[1] * i, p[2] + d[2] * i>> \in l
      <4>1. /\ <<p[1] + d[1] * 0, p[2] + d[2] * 0>> = <<r, c - 3>>
            /\ <<p[1] + d[1] * 1, p[2] + d[2] * 1>> = <<r, c - 2>>
            /\ <<p[1] + d[1] * 2, p[2] + d[2] * 2>> = <<r, c - 1>>
            /\ <<p[1] + d[1] * 3, p[2] + d[2] * 3>> = <<r, c>>
        BY <2>4
      <4>2. 0 .. 3 = {0, 1, 2, 3}
        OBVIOUS
      <4> HIDE DEF p, d
      <4>3. QED
        BY <3>1, <4>1, <4>2, Zenon
    <3>3. C!Four(b, p, d, who)
      BY <2>1, <2>3, <3>2 DEF C!Four
    <3>4. p \in C!Places /\ b[p] = who /\ d \in C!Directions
      BY <2>1, <2>3, <3>1 DEF C!Directions
    <3>5. QED
      BY <3>3, <3>4 DEF C!Wins
  <2>8. CASE ~ (dr = 0 /\ dc = -1)
    <3> DEFINE p == <<r, c>>
               d == <<dr, dc>>
    <3>1. d \in C!Directions
      BY <2>5, <2>8 DEF C!Directions
    <3>2. \A i \in 0 .. 3 : <<p[1] + d[1] * i, p[2] + d[2] * i>> \in l
      BY <2>2 DEF LineOf
    <3>3. C!Four(b, p, d, who)
      BY <2>1, <2>3, <3>2 DEF C!Four
    <3>4. p \in C!Places /\ b[p] = who
      BY <2>1, <2>3, <2>6
    <3>5. QED
      BY <3>1, <3>3, <3>4 DEF C!Wins
  <2>9. QED
    BY <2>7, <2>8
<1>4. QED
  BY <1>2, <1>3

-----------------------------------------------------------------------------
(* What the computer plays on a board that is not full: a column with a     *)
(* place left, that wins if one does, else that stops a threat if one is.   *)
Winning(b) == {c \in C!Columns : C!WinsWith(b, c, "computer")}
Parrying(b) == {c \in C!Columns : C!WinsWith(b, c, "player")}

LEMMA ComputerAnswers ==
  ASSUME C!Connect4Assumption, NEW b, ~ C!Full(b)
  PROVE  LET c == C!ComputerMove(b)
         IN  /\ c \in C!Columns /\ ~ C!ColumnFull(b, c)
             /\ Winning(b) # {} => C!WinsWith(b, c, "computer")
             /\ Winning(b) = {} /\ Parrying(b) # {} => C!WinsWith(b, c, "player")
<1> DEFINE open == {i \in 1 .. BoardCols : ~ C!ColumnFull(b, Preferred[i])}
           move == C!ComputerMove(b)
<1>1. move = CASE Winning(b) # {} -> C!LowestOf(Winning(b))
               [] Winning(b) = {} /\ Parrying(b) # {} -> C!LowestOf(Parrying(b))
               [] OTHER -> Preferred[C!LowestOf(open)]
  BY DEF C!ComputerMove, Winning, Parrying
<1> HIDE DEF move
<1>2. Winning(b) \in SUBSET Nat /\ Parrying(b) \in SUBSET Nat
  BY DEF Winning, Parrying, C!Columns
<1>3. CASE Winning(b) # {}
  <2>1. move \in Winning(b)
    BY <1>1, <1>2, <1>3, LowestIs
  <2>2. QED
    BY <1>3, <2>1 DEF Winning, C!WinsWith, move
<1>4. CASE Winning(b) = {} /\ Parrying(b) # {}
  <2>1. move \in Parrying(b)
    BY <1>1, <1>2, <1>4, LowestIs
  <2>2. QED
    BY <1>4, <2>1 DEF Parrying, C!WinsWith, move
<1>5. CASE Winning(b) = {} /\ Parrying(b) = {}
  <2>1. PICK c \in C!Columns : ~ C!ColumnFull(b, c)
    BY DEF C!Full
  <2>2. PICK i \in 1 .. BoardCols : Preferred[i] = c
    BY DEF C!Connect4Assumption
  <2>3. i \in open
    BY <2>1, <2>2
  <2>4. open \in SUBSET Nat
    BY BoardSize
  <2>5. C!LowestOf(open) \in open
    <3> HIDE DEF open
    <3>1. QED
      BY <2>3, <2>4, LowestIs
  <2>6. PICK least \in 1 .. BoardCols : least = C!LowestOf(open) /\ ~ C!ColumnFull(b, Preferred[least])
    BY <2>5
  <2>7. move = Preferred[least]
    BY <1>1, <1>5, <2>6
  <2>8. Preferred[least] \in C!Columns
    BY DEF C!Connect4Assumption
  <2>9. QED
    BY <1>5, <2>6, <2>7, <2>8 DEF move
<1>6. QED
  BY <1>3, <1>4, <1>5

(* The board without the token on the top of the last column. *)
LEMMA TakenBack ==
  ASSUME C!Connect4Assumption, NEW b \in C!Board, Stacked(b), NEW c \in C!Columns,
         ~ C!ColumnFull(b, c), NEW t, t = C!Drop(b, c, "computer"),
         NEW top, top = CHOOSE r \in 0 .. BoardRows - 1 :
           t[<<r, c>>] # "empty" /\ \A a \in r + 1 .. BoardRows - 1 : t[<<a, c>>] = "empty"
  PROVE  [t EXCEPT ![<<top, c>>] = "empty"] = b
<1>1. PICK l \in 0 .. BoardRows - 1 : l = C!Landing(b, c) /\ b[<<l, c>>] = "empty"
  BY LandingIs
<1>2. /\ <<l, c>> \in C!Places /\ t \in C!Board /\ t = [b EXCEPT ![<<l, c>>] = "computer"]
      /\ t[<<l, c>>] = "computer" /\ \A p \in C!Places : p # <<l, c>> => t[p] = b[p]
  BY <1>1, DropIs DEF C!Tokens
<1>3. ASSUME NEW r \in 0 .. BoardRows - 1
      PROVE  (/\ t[<<r, c>>] # "empty" /\ \A a \in r + 1 .. BoardRows - 1 : t[<<a, c>>] = "empty")
             <=> r = l
  <2>1. BoardRows \in Nat \ {0}
    BY BoardSize
  <2>2. ASSUME NEW a \in l + 1 .. BoardRows - 1 PROVE t[<<a, c>>] = "empty"
    <3>1. a \in 0 .. BoardRows - 1 /\ l < a /\ <<a, c>> \in C!Places /\ <<a, c>> # <<l, c>>
      BY <2>1 DEF C!Places
    <3>2. b[<<a, c>>] = "empty"
      BY <1>1, <3>1 DEF Stacked
    <3>3. QED
      BY <1>2, <3>1, <3>2
  <2>3. CASE r = l
    BY <1>2, <2>2, <2>3
  <2>4. CASE r < l
    BY <1>2, <2>1, <2>4
  <2>5. CASE l < r
    BY <2>1, <2>2, <2>5
  <2>6. QED
    BY <2>1, <2>3, <2>4, <2>5
<1>4. top = l
  BY <1>3
<1>5. QED
  BY <1>1, <1>2, <1>4 DEF C!Board

(* After an answer that does not win: the computer could not have won, and  *)
(* what the player can win with but in that column, it could before.        *)
LEMMA NothingMissed ==
  ASSUME C!Connect4Assumption, NEW b \in C!Board, ~ C!Full(b), NEW c, c = C!ComputerMove(b),
         NEW t, t = C!Drop(b, c, "computer"), ~ C!Wins(t, "computer")
  PROVE  /\ \A e \in C!Columns : ~ C!WinsWith(b, e, "computer")
         /\ \A e \in C!Columns \ {c} : C!WinsWith(t, e, "player") => C!WinsWith(b, c, "player")
<1>1. /\ c \in C!Columns /\ ~ C!ColumnFull(b, c)
      /\ Winning(b) # {} => C!WinsWith(b, c, "computer")
      /\ Winning(b) = {} /\ Parrying(b) # {} => C!WinsWith(b, c, "player")
  BY ComputerAnswers
<1>2. Winning(b) = {}
  BY <1>1 DEF C!WinsWith
<1>3. ASSUME NEW e \in C!Columns \ {c}, C!WinsWith(t, e, "player"), ~ C!WinsWith(b, c, "player")
      PROVE  FALSE
  <2>1. Parrying(b) = {}
    BY <1>1, <1>2, <1>3
  <2>2. PICK q \in C!Places : /\ q[2] = c /\ t = [b EXCEPT ![q] = "computer"] /\ t \in C!Board
                              /\ \A p \in C!Places : p # q => t[p] = b[p]
    <3> DEFINE q == <<C!Landing(b, c), c>>
    <3>1. q \in C!Places /\ t \in C!Board /\ t = [b EXCEPT ![q] = "computer"]
          /\ \A p \in C!Places : p # q => t[p] = b[p]
      BY <1>1, DropIs DEF C!Tokens
    <3>2. q[2] = c
      OBVIOUS
    <3> HIDE DEF q
    <3>3. QED
      BY <3>1, <3>2, Zenon
  <2>3. ASSUME NEW r \in 0 .. BoardRows - 1 PROVE t[<<r, e>>] = b[<<r, e>>]
    BY <1>3, <2>2 DEF C!Places
  <2>4. BoardRows \in Nat \ {0}
    BY BoardSize
  <2>5. ~ C!ColumnFull(b, e) /\ ~ C!ColumnFull(t, e)
    BY <1>3, <2>3, <2>4 DEF C!WinsWith, C!ColumnFull
  <2>6. C!Landing(t, e) = C!Landing(b, e)
    <3>1. \A r \in 0 .. BoardRows - 1 :
            (t[<<r, e>>] = "empty" /\ \A below \in 0 .. r - 1 : t[<<below, e>>] # "empty")
            <=> (b[<<r, e>>] = "empty" /\ \A below \in 0 .. r - 1 : b[<<below, e>>] # "empty")
      <4>1. ASSUME NEW r \in 0 .. BoardRows - 1, NEW below \in 0 .. r - 1
            PROVE  below \in 0 .. BoardRows - 1
        BY <2>4
      <4>2. QED
        BY <2>3, <4>1, Zenon
    <3>2. QED
      BY <3>1, Zenon DEF C!Landing
  <2>7. PICK s \in C!Places : s = <<C!Landing(b, e), e>> /\ s # q
    <3>1. <<C!Landing(b, e), e>> \in C!Places
      BY <2>5, DropIs DEF C!Tokens
    <3>2. <<C!Landing(b, e), e>>[2] = e
      OBVIOUS
    <3>3. QED
      BY <1>3, <2>2, <3>1, <3>2
  <2>8. C!Drop(t, e, "player") = [[b EXCEPT ![s] = "player"] EXCEPT ![q] = "computer"]
    <3>1. C!Drop(t, e, "player") = [t EXCEPT ![s] = "player"]
      BY <2>6, <2>7 DEF C!Drop
    <3>2. QED
      BY <2>2, <2>7, <3>1 DEF C!Board
  <2>9. C!Drop(b, e, "player") = [b EXCEPT ![s] = "player"]
    BY <2>7 DEF C!Drop
  <2>10. [b EXCEPT ![s] = "player"] \in C!Board
    BY DEF C!Board, C!Tokens
  <2>11. C!Wins([[b EXCEPT ![s] = "player"] EXCEPT ![q] = "computer"], "player")
    BY <1>3, <2>8 DEF C!WinsWith
  <2>12. C!Wins([b EXCEPT ![s] = "player"], "player")
    BY <2>10, <2>11, OthersToken
  <2>13. e \in Parrying(b)
    BY <1>3, <2>5, <2>9, <2>12 DEF Parrying, C!WinsWith
  <2>14. QED
    BY <2>1, <2>13
<1>4. QED
  BY <1>2, <1>3 DEF Winning

-----------------------------------------------------------------------------
(* The rules, of a board and a result. *)
Rules(b, res) ==
  /\ Stacked(b)
  /\ Cardinality(TakenBy(b, "player")) - Cardinality(TakenBy(b, "computer")) \in {0, 1}
  /\ res = "none" => Cardinality(TakenBy(b, "player")) = Cardinality(TakenBy(b, "computer"))
  /\ C!Aligned(b, "player") <=> res = "won"
  /\ C!Aligned(b, "computer") <=> res = "lost"
  /\ res = "drawn" <=> C!Full(b) /\ res \notin {"won", "lost"}

LEMMA RulesSuffice ==
  ASSUME C!Connect4Assumption, Rules(cells, result)
  PROVE  C!ByTheRules
<1>1. \A r \in 1 .. BoardRows - 1, c \in C!Columns :
        cells[<<r, c>>] # "empty" => cells[<<r - 1, c>>] # "empty"
  <2>1. ASSUME NEW r \in 1 .. BoardRows - 1 PROVE r - 1 < r /\ r - 1 \in 0 .. BoardRows - 1 /\ r \in 0 .. BoardRows - 1
    BY BoardSize
  <2>2. QED
    BY <2>1 DEF Rules, Stacked
<1>2. C!Count("player") = Cardinality(TakenBy(cells, "player"))
      /\ C!Count("computer") = Cardinality(TakenBy(cells, "computer"))
  BY GameSets DEF C!Count, TakenBy
<1>3. QED
  BY <1>1, <1>2 DEF Rules, C!ByTheRules

(* A game keeps the rules, and the promise of the computer: an invariant    *)
(* of every step, as it stands.                                             *)
GameInv == C!GameTypeOK /\ Rules(cells, result) /\ C!OneMoveAhead

LEMMA GameStarts ==
  ASSUME C!Connect4Assumption, C!GameInit
  PROVE  GameInv
<1>1. BoardCols \in Nat \ {0} /\ BoardRows \in Nat \ {0}
  BY BoardSize
<1>2. \A p \in C!Places : cells[p] = "empty"
  BY DEF C!GameInit
<1>3. C!GameTypeOK
  BY <1>1 DEF C!GameInit, C!GameTypeOK, C!Board
<1>4. Stacked(cells)
  BY <1>2 DEF Stacked, C!Places
<1>5. ASSUME NEW who \in C!Tokens PROVE TakenBy(cells, who) = {} /\ ~ C!Aligned(cells, who)
  <2>1. who # "empty"
    BY DEF C!Tokens
  <2>2. ~ C!Wins(cells, who)
    BY <1>2, <2>1 DEF C!Wins
  <2>3. QED
    BY <1>2, <2>1, <2>2, WinsIs DEF TakenBy
<1>6. ~ C!Full(cells)
  <2>1. 0 \in C!Columns /\ <<BoardRows - 1, 0>> \in C!Places
    BY <1>1 DEF C!Places, C!Columns
  <2>2. QED
    BY <1>2, <2>1 DEF C!Full, C!ColumnFull
<1>7. Cardinality({}) = 0
  BY FS_EmptySet
<1>8. result = "none" /\ last = BoardCols
  BY DEF C!GameInit
<1>9. QED
  BY <1>3, <1>4, <1>5, <1>6, <1>7, <1>8 DEF GameInv, Rules, C!OneMoveAhead, C!Tokens

(* A token of who, on a board where nobody has won. *)
LEMMA TokenPlayed ==
  ASSUME C!Connect4Assumption, NEW b \in C!Board, Stacked(b), NEW c \in C!Columns,
         ~ C!ColumnFull(b, c), NEW who \in C!Tokens, NEW other \in C!Tokens, other # who,
         ~ C!Aligned(b, other), NEW t, t = C!Drop(b, c, who)
  PROVE  /\ t \in C!Board /\ Stacked(t)
         /\ Cardinality(TakenBy(b, who)) \in Nat /\ Cardinality(TakenBy(b, other)) \in Nat
         /\ Cardinality(TakenBy(t, who)) = Cardinality(TakenBy(b, who)) + 1
         /\ Cardinality(TakenBy(t, other)) = Cardinality(TakenBy(b, other))
         /\ ~ C!Aligned(t, other)
<1>1. PICK q \in C!Places : t = [b EXCEPT ![q] = who] /\ t \in C!Board /\ Stacked(t)
  <2> DEFINE q == <<C!Landing(b, c), c>>
  <2>1. q \in C!Places /\ t = [b EXCEPT ![q] = who] /\ t \in C!Board /\ Stacked(t)
    BY DropIs
  <2> HIDE DEF q
  <2>2. QED
    BY <2>1, Zenon
<1>2. /\ Cardinality(TakenBy(b, who)) \in Nat
      /\ Cardinality(TakenBy(t, who)) = Cardinality(TakenBy(b, who)) + 1
      /\ TakenBy(t, other) = TakenBy(b, other)
  BY DropCounts
<1>3. Cardinality(TakenBy(b, other)) \in Nat
  <2>1. TakenBy(b, other) \in SUBSET C!Places
    BY DEF TakenBy
  <2>2. QED
    BY <2>1, BoardSize, FS_Subset, FS_CardinalityType
<1>4. ~ C!Wins(b, other)
  BY WinsIs
<1>5. ~ C!Wins(t, other)
  BY <1>1, <1>4, OthersToken
<1>6. ~ C!Aligned(t, other)
  BY <1>5, WinsIs
<1>7. QED
  BY <1>1, <1>2, <1>3, <1>6

LEMMA PlayHolds ==
  ASSUME C!Connect4Assumption, GameInv, NEW c \in C!Columns, C!Play(c)
  PROVE  C!GameTypeOK' /\ Rules(cells', result') /\ C!OneMoveAhead'
<1>1. /\ cells \in C!Board /\ result = "none" /\ ~ C!ColumnFull(cells, c) /\ Stacked(cells)
      /\ last \in 0 .. BoardCols
  BY DEF GameInv, C!GameTypeOK, Rules, C!Play
<1>2. ~ C!Aligned(cells, "player") /\ ~ C!Aligned(cells, "computer")
      /\ Cardinality(TakenBy(cells, "player")) = Cardinality(TakenBy(cells, "computer"))
  BY <1>1 DEF GameInv, Rules
<1> DEFINE n == Cardinality(TakenBy(cells, "computer"))
<1>3. PICK mine : mine = C!Drop(cells, c, "player")
  OBVIOUS
<1>4. PICK answer : answer = C!ComputerMove(mine)
  OBVIOUS
<1>5. PICK both : both = C!Drop(mine, answer, "computer")
  OBVIOUS
<1>6. "player" \in C!Tokens /\ "computer" \in C!Tokens /\ "player" # "computer"
  BY DEF C!Tokens
<1>7. /\ mine \in C!Board /\ Stacked(mine) /\ n \in Nat
      /\ Cardinality(TakenBy(mine, "player")) = n + 1
      /\ Cardinality(TakenBy(mine, "computer")) = n
      /\ ~ C!Aligned(mine, "computer")
  BY <1>1, <1>2, <1>3, <1>6, TokenPlayed
<1> HIDE DEF n
<1>8. \/ /\ C!Wins(mine, "player") /\ cells' = mine /\ result' = "won" /\ UNCHANGED last
      \/ /\ ~ C!Wins(mine, "player") /\ C!Full(mine)
         /\ cells' = mine /\ result' = "drawn" /\ UNCHANGED last
      \/ /\ ~ C!Wins(mine, "player") /\ ~ C!Full(mine) /\ cells' = both /\ last' = answer
         /\ result' = CASE C!Wins(both, "computer") -> "lost"
                        [] ~ C!Wins(both, "computer") /\ C!Full(both) -> "drawn"
                        [] OTHER -> "none"
  BY <1>3, <1>4, <1>5 DEF C!Play
<1>9. CASE /\ C!Wins(mine, "player") /\ cells' = mine /\ result' = "won" /\ UNCHANGED last
  <2>1. C!Aligned(mine, "player")
    BY <1>9, WinsIs
  <2>2. C!GameTypeOK' /\ C!OneMoveAhead'
    BY <1>1, <1>7, <1>9 DEF C!GameTypeOK, C!OneMoveAhead
  <2>3. Rules(mine, "won")
    BY <1>7, <2>1 DEF Rules
  <2>4. QED
    BY <1>9, <2>2, <2>3
<1>10. CASE /\ ~ C!Wins(mine, "player") /\ C!Full(mine)
            /\ cells' = mine /\ result' = "drawn" /\ UNCHANGED last
  <2>1. ~ C!Aligned(mine, "player")
    BY <1>10, WinsIs
  <2>2. C!GameTypeOK' /\ C!OneMoveAhead'
    BY <1>1, <1>7, <1>10 DEF C!GameTypeOK, C!OneMoveAhead
  <2>3. Rules(mine, "drawn")
    BY <1>7, <1>10, <2>1 DEF Rules
  <2>4. QED
    BY <1>10, <2>2, <2>3
<1>11. CASE /\ ~ C!Wins(mine, "player") /\ ~ C!Full(mine) /\ cells' = both /\ last' = answer
            /\ result' = CASE C!Wins(both, "computer") -> "lost"
                           [] ~ C!Wins(both, "computer") /\ C!Full(both) -> "drawn"
                           [] OTHER -> "none"
  <2>1. ~ C!Aligned(mine, "player")
    BY <1>11, WinsIs
  <2>2. answer \in C!Columns /\ ~ C!ColumnFull(mine, answer)
    BY <1>4, <1>11, ComputerAnswers
  <2>3. /\ both \in C!Board /\ Stacked(both)
        /\ Cardinality(TakenBy(both, "computer")) = n + 1
        /\ Cardinality(TakenBy(both, "player")) = n + 1
        /\ ~ C!Aligned(both, "player")
    BY <1>5, <1>6, <1>7, <2>1, <2>2, TokenPlayed
  <2>4. /\ result' \in {"lost", "drawn", "none"}
        /\ result' = "lost" <=> C!Aligned(both, "computer")
        /\ result' = "drawn" <=> C!Full(both) /\ result' # "lost"
    BY <1>11, WinsIs
  <2>5. Rules(both, result')
    BY <1>7, <2>3, <2>4 DEF Rules
  <2>6. C!GameTypeOK'
    BY <1>11, <2>2, <2>3, <2>4, BoardSize DEF C!GameTypeOK, C!Columns
  <2>7. ASSUME result' = "none" PROVE C!OneMoveAhead'
    <3>1. ~ C!Wins(both, "computer")
      BY <2>4, <2>7, WinsIs
    <3>2. /\ \A e \in C!Columns : ~ C!WinsWith(mine, e, "computer")
          /\ \A e \in C!Columns \ {answer} :
               C!WinsWith(both, e, "player") => C!WinsWith(mine, answer, "player")
      BY <1>4, <1>5, <1>7, <1>11, <3>1, NothingMissed
    <3>3. C!Before' = mine
      <4>1. PICK top : top = CHOOSE r \in 0 .. BoardRows - 1 :
              both[<<r, answer>>] # "empty"
              /\ \A a \in r + 1 .. BoardRows - 1 : both[<<a, answer>>] = "empty"
        OBVIOUS
      <4>2. [both EXCEPT ![<<top, answer>>] = "empty"] = mine
        BY <1>5, <1>7, <2>2, <4>1, TakenBack
      <4>3. C!Before' = [both EXCEPT ![<<top, answer>>] = "empty"]
        BY <1>11, <4>1, Zenon DEF C!Before
      <4>4. QED
        BY <4>2, <4>3
    <3>4. QED
      BY <1>11, <3>2, <3>3 DEF C!OneMoveAhead
  <2>8. ASSUME result' # "none" PROVE C!OneMoveAhead'
    BY <2>8 DEF C!OneMoveAhead
  <2>9. QED
    BY <1>11, <2>5, <2>6, <2>7, <2>8
<1>12. QED
  BY <1>8, <1>9, <1>10, <1>11

LEMMA GameStep ==
  ASSUME C!Connect4Assumption, GameInv, [C!GameNext]_gameVars
  PROVE  GameInv'
<1>1. ASSUME C!Quit PROVE GameInv'
  <2>1. /\ C!GameTypeOK' /\ C!OneMoveAhead'
        /\ result = "none" /\ result' = "left" /\ cells' = cells
    BY <1>1 DEF C!Quit, GameInv, C!GameTypeOK, C!OneMoveAhead
  <2>2. Rules(cells, "left")
    BY <2>1 DEF GameInv, Rules
  <2>3. QED
    BY <2>1, <2>2 DEF GameInv
<1>2. ASSUME NEW c \in C!Columns, C!Play(c) PROVE GameInv'
  BY <1>2, PlayHolds DEF GameInv
<1>3. ASSUME UNCHANGED gameVars PROVE GameInv'
  <2>1. cells' = cells /\ result' = result /\ last' = last
    BY <1>3 DEF gameVars
  <2>2. C!GameTypeOK' /\ C!OneMoveAhead'
    BY <2>1 DEF GameInv, C!GameTypeOK, C!OneMoveAhead, C!Before
  <2>3. QED
    BY <2>1, <2>2 DEF GameInv
<1>4. QED
  BY <1>1, <1>2, <1>3 DEF C!GameNext

LEMMA GameIsFair ==
  ASSUME C!Connect4Assumption, GameInv
  PROVE  C!GameTypeOK /\ C!FairGame
BY RulesSuffice DEF GameInv, C!FairGame

-----------------------------------------------------------------------------
(* What a decoder does with the bytes on the line. *)

(* Induction from 0 to n, for a set. *)
LEMMA UpTo ==
  ASSUME NEW n \in Nat, NEW T, 0 \in T, \A i \in 1 .. n : i - 1 \in T => i \in T
  PROVE  \A i \in 0 .. n : i \in T
<1> DEFINE U == {i \in 0 .. n : i \notin T}
<1> SUFFICES ASSUME U # {} PROVE FALSE
  OBVIOUS
<1>1. U \in SUBSET Nat
  OBVIOUS
<1>2. PICK least \in U : \A other \in U : least <= other
  <2> HIDE DEF U
  <2>1. QED
    BY <1>1, LeastNumber
<1>3. least \in 1 .. n /\ least \notin T
  BY <1>2
<1>4. least - 1 \in 0 .. n /\ ~ least <= least - 1
  BY <1>3
<1>5. least - 1 \in T
  BY <1>2, <1>4
<1>6. QED
  BY <1>3, <1>5

(* F takes a state and a byte to a state: the bytes w lead from r to t. *)
Fed(F, R, r, w, t) ==
  \E run \in [0 .. Len(w) -> R] :
    /\ run[0] = r /\ run[Len(w)] = t
    /\ \A i \in 1 .. Len(w) : run[i] = F[<<run[i - 1], w[i]>>]

LEMMA FedNone == ASSUME NEW F, NEW R, NEW r \in R PROVE Fed(F, R, r, <<>>, r)
<1> DEFINE run == [i \in 0 .. 0 |-> r]
<1>1. run \in [0 .. Len(<<>>) -> R] /\ run[0] = r /\ run[Len(<<>>)] = r
  OBVIOUS
<1>2. \A i \in 1 .. Len(<<>>) : run[i] = F[<<run[i - 1], <<>>[i]>>]
  OBVIOUS
<1> HIDE DEF run
<1>3. QED
  BY <1>1, <1>2 DEF Fed

LEMMA FedQuiet == ASSUME NEW F, NEW R, NEW r, NEW t, Fed(F, R, r, <<>>, t) PROVE t = r /\ r \in R
BY DEF Fed

LEMMA FedOne ==
  ASSUME NEW R, NEW B, NEW F \in [R \X B -> R], NEW r \in R, NEW b \in B
  PROVE  Fed(F, R, r, <<b>>, F[<<r, b>>]) /\ F[<<r, b>>] \in R
<1> DEFINE run == [i \in 0 .. 1 |-> IF i = 0 THEN r ELSE F[<<r, b>>]]
<1>1. F[<<r, b>>] \in R
  OBVIOUS
<1>2. Len(<<b>>) = 1 /\ <<b>>[1] = b
  OBVIOUS
<1>3. run \in [0 .. 1 -> R] /\ run[0] = r /\ run[1] = F[<<r, b>>]
  BY <1>1
<1>4. \A i \in 1 .. 1 : run[i] = F[<<run[i - 1], <<b>>[i]>>]
  BY <1>2, <1>3
<1> HIDE DEF run
<1>5. QED
  BY <1>1, <1>2, <1>3, <1>4 DEF Fed

LEMMA FedJoin ==
  ASSUME NEW R, NEW B, NEW F, NEW u \in Seq(B), NEW w \in Seq(B),
         NEW r, NEW s, NEW t, Fed(F, R, r, u, s), Fed(F, R, s, w, t)
  PROVE  Fed(F, R, r, u \o w, t)
<1>1. PICK m \in Nat : m = Len(u)
  OBVIOUS
<1>2. PICK n \in Nat : n = Len(w)
  OBVIOUS
<1>3. Len(u \o w) = m + n /\ \A i \in 1 .. m + n : (u \o w)[i] = IF i <= m THEN u[i] ELSE w[i - m]
  BY <1>1, <1>2
<1>4. PICK x \in [0 .. m -> R] :
        x[0] = r /\ x[m] = s /\ \A i \in 1 .. m : x[i] = F[<<x[i - 1], u[i]>>]
  BY <1>1 DEF Fed
<1>5. PICK y \in [0 .. n -> R] :
        y[0] = s /\ y[n] = t /\ \A i \in 1 .. n : y[i] = F[<<y[i - 1], w[i]>>]
  BY <1>2 DEF Fed
<1> DEFINE run == [i \in 0 .. m + n |-> IF i <= m THEN x[i] ELSE y[i - m]]
<1>6. run \in [0 .. m + n -> R] /\ run[0] = r
  BY <1>4, <1>5
<1>7. run[m + n] = t
  <2>1. CASE n = 0
    BY <1>4, <1>5, <2>1
  <2>2. CASE n # 0
    BY <1>5, <2>2
  <2>3. QED
    BY <2>1, <2>2
<1>8. ASSUME NEW i \in 1 .. m + n PROVE run[i] = F[<<run[i - 1], (u \o w)[i]>>]
  <2>1. CASE i <= m
    <3>1. i \in 1 .. m /\ run[i] = x[i] /\ run[i - 1] = x[i - 1] /\ (u \o w)[i] = u[i]
      BY <1>3, <2>1
    <3>2. QED
      BY <1>4, <3>1
  <2>2. CASE i > m
    <3>1. PICK j \in 1 .. n : j = i - m /\ j - 1 = (i - 1) - m /\ j - 1 \in 0 .. n
      <4>1. i - m \in 1 .. n /\ (i - m) - 1 = (i - 1) - m /\ (i - m) - 1 \in 0 .. n
        BY <2>2
      <4>2. QED
        BY <4>1
    <3>2. run[i] = y[j]
      BY <2>2, <3>1
    <3>3. run[i - 1] = y[j - 1]
      <4>1. CASE i - 1 = m
        <5>1. j - 1 = 0 /\ run[i - 1] = x[m]
          BY <3>1, <4>1
        <5>2. QED
          BY <1>4, <1>5, <5>1
      <4>2. CASE i - 1 # m
        <5>1. ~ i - 1 <= m /\ i - 1 \in 0 .. m + n
          BY <2>2, <4>2
        <5>2. QED
          BY <3>1, <5>1
      <4>3. QED
        BY <4>1, <4>2
    <3>4. (u \o w)[i] = w[j]
      BY <1>3, <2>2, <3>1
    <3>5. QED
      BY <1>5, <3>1, <3>2, <3>3, <3>4
  <2>3. i \in Int /\ m \in Int
    OBVIOUS
  <2>4. i <= m \/ i > m
    BY <2>3
  <2>5. QED
    BY <2>1, <2>2, <2>4
<1> HIDE DEF run
<1>9. PICK v : v = u \o w
  OBVIOUS
<1>10. PICK z \in [0 .. m + n -> R] : z = run
  BY <1>6
<1>11. Len(v) = m + n /\ z[0] = r /\ z[Len(v)] = t /\ z \in [0 .. Len(v) -> R]
  BY <1>3, <1>6, <1>7, <1>9, <1>10
<1>12. \A i \in 1 .. Len(v) : z[i] = F[<<z[i - 1], v[i]>>]
  <2>1. ASSUME NEW i \in 1 .. m + n PROVE z[i] = F[<<z[i - 1], v[i]>>]
    BY <1>8, <1>9, <1>10
  <2>2. QED
    BY <1>11, <2>1
<1>13. Fed(F, R, r, v, t)
  BY <1>11, <1>12, Zenon DEF Fed
<1>14. QED
  BY <1>9, <1>13

LEMMA FedTail ==
  ASSUME NEW R, NEW B, NEW F, NEW w \in Seq(B), w # <<>>, NEW r, NEW t, Fed(F, R, r, w, t)
  PROVE  Fed(F, R, F[<<r, Head(w)>>], Tail(w), t) /\ F[<<r, Head(w)>>] \in R
<1>1. PICK n \in Nat \ {0} : n = Len(w)
  BY EmptySeq
<1>2. PICK x \in [0 .. n -> R] :
        x[0] = r /\ x[n] = t /\ \A i \in 1 .. n : x[i] = F[<<x[i - 1], w[i]>>]
  BY <1>1 DEF Fed
<1>3. Head(w) = w[1] /\ Len(Tail(w)) = n - 1 /\ \A i \in 1 .. n - 1 : Tail(w)[i] = w[i + 1]
  BY <1>1, HeadTailProperties
<1> DEFINE run == [i \in 0 .. n - 1 |-> x[i + 1]]
<1>4. x[1] = F[<<r, Head(w)>>]
  BY <1>2, <1>3
<1>5. run \in [0 .. n - 1 -> R] /\ run[0] = x[1] /\ run[n - 1] = t /\ x[1] \in R
  BY <1>2
<1>6. ASSUME NEW i \in 1 .. n - 1 PROVE run[i] = F[<<run[i - 1], Tail(w)[i]>>]
  <2>1. i + 1 \in 1 .. n /\ run[i] = x[i + 1] /\ run[i - 1] = x[i] /\ Tail(w)[i] = w[i + 1]
    BY <1>3
  <2>2. x[i + 1] = F[<<x[(i + 1) - 1], w[i + 1]>>] /\ (i + 1) - 1 = i
    BY <1>2, <2>1
  <2>3. QED
    BY <2>1, <2>2
<1> HIDE DEF run
<1>7. PICK v : v = Tail(w)
  OBVIOUS
<1>8. PICK z \in [0 .. n - 1 -> R] : z = run
  BY <1>5
<1>9. Len(v) = n - 1 /\ z[0] = x[1] /\ z[Len(v)] = t /\ z \in [0 .. Len(v) -> R]
  BY <1>3, <1>5, <1>7, <1>8
<1>10. \A i \in 1 .. Len(v) : z[i] = F[<<z[i - 1], v[i]>>]
  <2>1. ASSUME NEW i \in 1 .. n - 1 PROVE z[i] = F[<<z[i - 1], v[i]>>]
    BY <1>6, <1>7, <1>8
  <2>2. QED
    BY <1>9, <2>1
<1>11. Fed(F, R, x[1], v, t)
  BY <1>9, <1>10, Zenon DEF Fed
<1>12. QED
  BY <1>4, <1>5, <1>7, <1>11
(* A trace over the first m bytes of w, which stays in the sets J. *)
Follows(x, F, R, J, r, w, m) ==
  /\ x \in [0 .. m -> R] /\ x[0] = r
  /\ \A i \in 1 .. m : x[i] = F[<<x[i - 1], w[i]>>]
  /\ \A i \in 0 .. m : x[i] \in J[i]

LEMMA FollowsOneMore ==
  ASSUME NEW R, NEW B, NEW F \in [R \X B -> R], NEW w \in Seq(B), NEW r,
         NEW J \in [0 .. Len(w) -> SUBSET R],
         \A i \in 1 .. Len(w) : \A q \in J[i - 1] : F[<<q, w[i]>>] \in J[i],
         NEW m \in 1 .. Len(w), NEW x, Follows(x, F, R, J, r, w, m - 1)
  PROVE  \E y : Follows(y, F, R, J, r, w, m)
<1> DEFINE y == [i \in 0 .. m |-> IF i < m THEN x[i] ELSE F[<<x[m - 1], w[m]>>]]
<1>1. x \in [0 .. m - 1 -> R] /\ x[0] = r /\ \A i \in 0 .. m - 1 : x[i] \in J[i]
  BY DEF Follows
<1>2. \A i \in 1 .. m - 1 : x[i] = F[<<x[i - 1], w[i]>>]
  BY DEF Follows
<1>3. m \in 1 .. Len(w) /\ m - 1 \in 0 .. m - 1 /\ m \in Nat /\ m - 1 < m /\ m \in 0 .. Len(w) /\ 0 < m
  OBVIOUS
<1>4. x[m - 1] \in J[m - 1]
  BY <1>1, <1>3
<1>5. F[<<x[m - 1], w[m]>>] \in J[m] /\ J[m] \in SUBSET R
  BY <1>3, <1>4
<1>6. y[m] = F[<<x[m - 1], w[m]>>] /\ \A i \in 0 .. m - 1 : y[i] = x[i]
  BY <1>3
<1>7. y \in [0 .. m -> R]
  <2>1. ASSUME NEW i \in 0 .. m PROVE (IF i < m THEN x[i] ELSE F[<<x[m - 1], w[m]>>]) \in R
    <3>1. CASE i < m
      <4>1. i \in 0 .. m - 1
        BY <1>3, <3>1
      <4>2. QED
        BY <1>1, <3>1, <4>1
    <3>2. CASE ~ i < m
      BY <1>5, <3>2
    <3>3. QED
      BY <3>1, <3>2
  <2>2. QED
    BY <2>1
<1> HIDE DEF y
<1>8. y[0] = r
  BY <1>1, <1>3, <1>6
<1>9. ASSUME NEW i \in 1 .. m PROVE y[i] = F[<<y[i - 1], w[i]>>]
  <2>1. CASE i = m
    <3>1. y[i - 1] = x[m - 1]
      BY <1>3, <1>6, <2>1
    <3>2. QED
      BY <1>6, <2>1, <3>1
  <2>2. CASE i # m
    <3>1. i \in 1 .. m - 1 /\ i \in 0 .. m - 1 /\ i - 1 \in 0 .. m - 1
      BY <1>3, <2>2
    <3>2. y[i] = x[i] /\ y[i - 1] = x[i - 1]
      BY <1>6, <3>1
    <3>3. QED
      BY <1>2, <3>1, <3>2
  <2>3. QED
    BY <2>1, <2>2
<1>10. ASSUME NEW i \in 0 .. m PROVE y[i] \in J[i]
  <2>1. CASE i = m
    BY <1>5, <1>6, <2>1
  <2>2. CASE i # m
    <3>1. i \in 0 .. m - 1
      BY <1>3, <2>2
    <3>2. y[i] = x[i] /\ x[i] \in J[i]
      BY <1>1, <1>6, <3>1
    <3>3. QED
      BY <3>2
  <2>3. QED
    BY <2>1, <2>2
<1>11. Follows(y, F, R, J, r, w, m)
  BY <1>7, <1>8, <1>9, <1>10 DEF Follows
<1>12. QED
  BY <1>11

(* When each byte of w leads from a set of states to the next one. *)
LEMMA FedEach ==
  ASSUME NEW R, NEW B, NEW F \in [R \X B -> R], NEW w \in Seq(B), NEW r,
         NEW J \in [0 .. Len(w) -> SUBSET R], r \in J[0],
         \A i \in 1 .. Len(w) : \A q \in J[i - 1] : F[<<q, w[i]>>] \in J[i]
  PROVE  \E t \in J[Len(w)] : Fed(F, R, r, w, t)
<1>1. PICK n \in Nat : n = Len(w)
  OBVIOUS
<1> DEFINE T == {m \in 0 .. n : \E x : Follows(x, F, R, J, r, w, m)}
<1>2. 0 \in T
  <2> DEFINE x == [i \in 0 .. 0 |-> r]
  <2>1. J[0] \in SUBSET R
    BY <1>1
  <2>2. r \in R
    BY <2>1
  <2>3. \A i \in 0 .. 0 : i = 0
    OBVIOUS
  <2>4. x \in [0 .. 0 -> R] /\ x[0] = r /\ (\A i \in 0 .. 0 : x[i] \in J[i]) /\ (\A i \in 1 .. 0 : FALSE)
    BY <2>2, <2>3
  <2> HIDE DEF x
  <2>5. Follows(x, F, R, J, r, w, 0)
    BY <2>4, Zenon DEF Follows
  <2>6. 0 \in 0 .. n
    OBVIOUS
  <2>7. QED
    BY <2>5, <2>6, Zenon
<1>3. ASSUME NEW m \in 1 .. n, m - 1 \in T PROVE m \in T
  <2>1. PICK x : Follows(x, F, R, J, r, w, m - 1)
    BY <1>3, Zenon
  <2>2. m \in 1 .. Len(w)
    BY <1>1
  <2>3. \E y : Follows(y, F, R, J, r, w, m)
    BY <2>1, <2>2, FollowsOneMore, Zenon
  <2>4. m \in 0 .. n
    OBVIOUS
  <2>5. QED
    BY <2>3, <2>4, Zenon
<1>4. n \in T
  <2>1. \A m \in 1 .. n : m - 1 \in T => m \in T
    BY <1>3, Zenon
  <2> HIDE DEF T
  <2>2. \A m \in 0 .. n : m \in T
    BY <1>2, <2>1, UpTo, Zenon
  <2>3. n \in 0 .. n
    OBVIOUS
  <2>4. QED
    BY <2>2, <2>3
<1>5. PICK x : Follows(x, F, R, J, r, w, n)
  BY <1>4, Zenon
<1>6. x[n] \in J[n]
  <2>1. n \in 0 .. n
    OBVIOUS
  <2>2. QED
    BY <1>5, <2>1 DEF Follows
<1>7. Fed(F, R, r, w, x[n])
  BY <1>1, <1>5 DEF Fed, Follows
<1>8. QED
  BY <1>1, <1>6, <1>7

-----------------------------------------------------------------------------
(* Sequences put end to end: what FlattenSeq returns. *)
IsFlat(seqs, w, B) ==
  \E fl \in [0 .. Len(seqs) -> Seq(B)] :
    /\ fl[0] = <<>> /\ w = fl[Len(seqs)]
    /\ \A i \in 1 .. Len(seqs) : fl[i] = fl[i - 1] \o seqs[i]

UpToPart(f, seqs, i) == IF i = 1 THEN seqs[i] ELSE f[i - 1] \o seqs[i]
Joins(f, seqs, m) == f = [i \in 1 .. m |-> UpToPart(f, seqs, i)]

LEMMA JoinsEach ==
  ASSUME NEW f, NEW seqs, NEW m, Joins(f, seqs, m), NEW i \in 1 .. m
  PROVE  f[i] = UpToPart(f, seqs, i)
<1>1. f[i] = [k \in 1 .. m |-> UpToPart(f, seqs, k)][i]
  BY Zenon DEF Joins
<1>2. QED
  BY <1>1

LEMMA JoinsOneMore ==
  ASSUME NEW f, NEW seqs, NEW m \in Nat \ {0}, Joins(f, seqs, m)
  PROVE  \E g : Joins(g, seqs, m + 1)
<1> DEFINE g == [i \in 1 .. m + 1 |-> IF i <= m THEN f[i] ELSE f[m] \o seqs[m + 1]]
<1>1. m \in 1 .. m + 1 /\ m + 1 \in 1 .. m + 1 /\ m <= m /\ ~ m + 1 <= m
  OBVIOUS
<1>2. g[m] = f[m] /\ g[m + 1] = f[m] \o seqs[m + 1]
  BY <1>1
<1>3. \A i \in 1 .. m : g[i] = f[i]
  OBVIOUS
<1>4. g = [i \in 1 .. m + 1 |-> g[i]]
  OBVIOUS
<1> HIDE DEF g
<1>5. ASSUME NEW i \in 1 .. m + 1 PROVE g[i] = UpToPart(g, seqs, i)
  <2>1. CASE i <= m
    <3>1. i \in 1 .. m
      BY <2>1
    <3>2. f[i] = IF i = 1 THEN seqs[i] ELSE f[i - 1] \o seqs[i]
      <4>1. f[i] = UpToPart(f, seqs, i)
        BY <3>1, JoinsEach
      <4>2. QED
        BY <4>1 DEF UpToPart
    <3>3. CASE i = 1
      BY <1>3, <3>1, <3>2, <3>3 DEF UpToPart
    <3>4. CASE i # 1
      <4>1. i - 1 \in 1 .. m
        BY <3>1, <3>4
      <4>2. g[i - 1] = f[i - 1] /\ g[i] = f[i]
        BY <1>3, <3>1, <4>1
      <4>3. QED
        BY <3>2, <3>4, <4>2 DEF UpToPart
    <3>5. QED
      BY <3>3, <3>4
  <2>2. CASE ~ i <= m
    <3>1. i = m + 1 /\ i # 1 /\ i - 1 = m
      BY <2>2
    <3>2. QED
      BY <1>2, <3>1 DEF UpToPart
  <2>3. QED
    BY <2>1, <2>2
<1>6. g = [i \in 1 .. m + 1 |-> UpToPart(g, seqs, i)]
  BY <1>4, <1>5, Zenon
<1>7. Joins(g, seqs, m + 1)
  BY <1>6, Zenon DEF Joins
<1>8. QED
  BY <1>7

(* The recursive definition has a solution. *)
LEMMA Concatenated ==
  ASSUME NEW seqs, NEW n \in Nat \ {0}
  PROVE  \E f : Joins(f, seqs, n)
<1> DEFINE T == {m \in 0 .. n : m = 0 \/ \E f : Joins(f, seqs, m)}
<1>1. 0 \in T
  OBVIOUS
<1>2. ASSUME NEW m \in 1 .. n, m - 1 \in T PROVE m \in T
  <2>1. CASE m = 1
    <3> DEFINE f == [i \in 1 .. 1 |-> seqs[1]]
    <3>1. \A i \in 1 .. 1 : i = 1
      OBVIOUS
    <3>2. f = [i \in 1 .. 1 |-> UpToPart(f, seqs, i)]
      BY <3>1 DEF UpToPart
    <3> HIDE DEF f
    <3>3. Joins(f, seqs, 1)
      BY <3>2, Zenon DEF Joins
    <3>4. 1 \in 0 .. n
      OBVIOUS
    <3>5. QED
      BY <2>1, <3>3, <3>4, Zenon
  <2>2. CASE m # 1
    <3>1. m - 1 \in Nat \ {0} /\ (m - 1) + 1 = m /\ m - 1 # 0 /\ m \in 0 .. n
      BY <2>2
    <3>2. PICK f : Joins(f, seqs, m - 1)
      BY <1>2, <3>1, Zenon
    <3>3. \E g : Joins(g, seqs, (m - 1) + 1)
      BY <3>1, <3>2, JoinsOneMore, Zenon
    <3>4. \E g : Joins(g, seqs, m)
      BY <3>1, <3>3, Zenon
    <3>5. QED
      BY <3>1, <3>4, Zenon
  <2>3. QED
    BY <2>1, <2>2
<1>3. \A m \in 1 .. n : m - 1 \in T => m \in T
  BY <1>2, Zenon
<1>4. \A m \in 0 .. n : m \in T
  <2> HIDE DEF T
  <2>1. n \in Nat
    OBVIOUS
  <2>2. QED
    BY <1>1, <1>3, <2>1, UpTo, Zenon
<1>5. n \in 0 .. n /\ n # 0
  OBVIOUS
<1>6. n \in T
  BY <1>4, <1>5, Zenon
<1>7. QED
  BY <1>5, <1>6, Zenon

LEMMA SolutionIsFlat ==
  ASSUME NEW B, NEW seqs \in Seq(Seq(B)), Len(seqs) # 0, NEW f, Joins(f, seqs, Len(seqs))
  PROVE  IsFlat(seqs, f[Len(seqs)], B)
<1>1. PICK n \in Nat \ {0} : n = Len(seqs)
  OBVIOUS
<1>2. \A i \in 1 .. n : f[i] = IF i = 1 THEN seqs[i] ELSE f[i - 1] \o seqs[i]
  <2>1. \A i \in 1 .. n : f[i] = UpToPart(f, seqs, i)
    BY <1>1, JoinsEach
  <2>2. QED
    BY <2>1 DEF UpToPart
<1>3. \A i \in 1 .. n : seqs[i] \in Seq(B)
  BY <1>1
<1> DEFINE T == {i \in 0 .. n : i = 0 \/ f[i] \in Seq(B)}
<1>4. ASSUME NEW i \in 1 .. n, i - 1 \in T PROVE i \in T
  <2>1. CASE i = 1
    <3>1. f[i] = seqs[i]
      BY <1>2, <2>1
    <3>2. f[i] \in Seq(B)
      BY <1>3, <3>1
    <3>3. QED
      BY <3>2
  <2>2. CASE i # 1
    <3>1. f[i - 1] \in Seq(B)
      BY <1>4, <2>2
    <3>2. f[i] = f[i - 1] \o seqs[i] /\ seqs[i] \in Seq(B)
      BY <1>2, <1>3, <2>2
    <3>3. f[i] \in Seq(B)
      BY <3>1, <3>2, ConcatProperties
    <3>4. QED
      BY <3>3
  <2>3. QED
    BY <2>1, <2>2
<1>5. 0 \in T
  OBVIOUS
<1>6. \A i \in 0 .. n : i \in T
  <2>1. \A i \in 1 .. n : i - 1 \in T => i \in T
    BY <1>4, Zenon
  <2>2. n \in Nat
    OBVIOUS
  <2> HIDE DEF T
  <2>3. QED
    BY <1>5, <2>1, <2>2, UpTo, Zenon
<1>7. ASSUME NEW i \in 1 .. n PROVE f[i] \in Seq(B)
  <2>1. i \in 0 .. n /\ i # 0
    OBVIOUS
  <2>2. i \in T
    BY <1>6, <2>1, Zenon
  <2>3. QED
    BY <2>1, <2>2
<1> DEFINE fl == [i \in 0 .. n |-> IF i = 0 THEN <<>> ELSE f[i]]
<1>8. fl \in [0 .. n -> Seq(B)]
  <2>1. ASSUME NEW i \in 0 .. n PROVE (IF i = 0 THEN <<>> ELSE f[i]) \in Seq(B)
    <3>1. i = 0 \/ i \in 1 .. n
      OBVIOUS
    <3>2. <<>> \in Seq(B)
      OBVIOUS
    <3>3. QED
      BY <1>7, <3>1, <3>2
  <2>2. QED
    BY <2>1
<1>9. fl[0] = <<>> /\ \A i \in 1 .. n : fl[i] = f[i]
  OBVIOUS
<1> HIDE DEF fl
<1>10. ASSUME NEW i \in 1 .. n PROVE fl[i] = fl[i - 1] \o seqs[i]
  <2>1. CASE i = 1
    <3>1. fl[i] = seqs[1] /\ fl[i - 1] = <<>>
      BY <1>2, <1>9, <2>1
    <3>2. <<>> \o seqs[1] = seqs[1]
      BY <1>3, ConcatEmptySeq
    <3>3. QED
      BY <2>1, <3>1, <3>2
  <2>2. CASE i # 1
    <3>1. i - 1 \in 1 .. n
      BY <2>2
    <3>2. fl[i] = f[i] /\ fl[i - 1] = f[i - 1]
      BY <1>9, <3>1
    <3>3. QED
      BY <1>2, <2>2, <3>2
  <2>3. QED
    BY <2>1, <2>2
<1>11. fl[n] = f[n]
  BY <1>9
<1>12. QED
  BY <1>1, <1>8, <1>9, <1>10, <1>11 DEF IsFlat

LEMMA NothingIsFlat == ASSUME NEW B PROVE IsFlat(<<>>, <<>>, B)
<1> DEFINE fl == [i \in 0 .. 0 |-> <<>>]
<1>1. fl \in [0 .. Len(<<>>) -> Seq(B)] /\ fl[0] = <<>> /\ fl[Len(<<>>)] = <<>>
  OBVIOUS
<1>2. \A i \in 1 .. Len(<<>>) : FALSE
  OBVIOUS
<1> HIDE DEF fl
<1>3. QED
  BY <1>1, <1>2, Zenon DEF IsFlat

LEMMA ScreenFlat ==
  ASSUME NEW B, NEW seqs \in Seq(Seq(B)) PROVE IsFlat(seqs, S!FlattenSeq(seqs), B)
<1>1. CASE Len(seqs) = 0
  <2>1. seqs = <<>> /\ S!FlattenSeq(seqs) = seqs
    BY <1>1, EmptySeq DEF S!FlattenSeq
  <2>2. QED
    BY <2>1, NothingIsFlat
<1>2. CASE Len(seqs) # 0
  <2> DEFINE f == CHOOSE f : Joins(f, seqs, Len(seqs))
  <2>1. S!FlattenSeq(seqs) = f[Len(seqs)]
    BY <1>2 DEF S!FlattenSeq, Joins, UpToPart
  <2>2. Joins(f, seqs, Len(seqs))
    <3>1. Len(seqs) \in Nat \ {0}
      BY <1>2
    <3>2. QED
      BY <3>1, Concatenated, Zenon
  <2> HIDE DEF f
  <2>3. IsFlat(seqs, f[Len(seqs)], B)
    BY <1>2, <2>2, SolutionIsFlat
  <2>4. QED
    BY <2>1, <2>3
<1>3. QED
  BY <1>1, <1>2

(* When each part leads from a set of states to the next one. *)
LEMMA FedParade ==
  ASSUME NEW R, NEW B, NEW F, NEW seqs \in Seq(Seq(B)), NEW w, IsFlat(seqs, w, B), NEW r,
         NEW J \in [0 .. Len(seqs) -> SUBSET R], r \in J[0],
         \A i \in 1 .. Len(seqs) : \A q \in J[i - 1] : \E t \in J[i] : Fed(F, R, q, seqs[i], t)
  PROVE  w \in Seq(B) /\ \E t \in J[Len(seqs)] : Fed(F, R, r, w, t)
<1>1. PICK n \in Nat : n = Len(seqs)
  OBVIOUS
<1>2. PICK fl \in [0 .. n -> Seq(B)] :
        fl[0] = <<>> /\ w = fl[n] /\ \A i \in 1 .. n : fl[i] = fl[i - 1] \o seqs[i]
  BY <1>1 DEF IsFlat
<1> DEFINE T == {m \in 0 .. n : \E t \in J[m] : Fed(F, R, r, fl[m], t)}
<1>3. 0 \in T
  <2>1. J[0] \in SUBSET R
    BY <1>1
  <2>2. r \in R
    BY <2>1
  <2>3. Fed(F, R, r, fl[0], r)
    BY <1>2, <2>2, FedNone
  <2>4. 0 \in 0 .. n
    OBVIOUS
  <2>5. QED
    BY <2>3, <2>4, Zenon
<1>4. ASSUME NEW m \in 1 .. n, m - 1 \in T PROVE m \in T
  <2>1. PICK q \in J[m - 1] : Fed(F, R, r, fl[m - 1], q)
    BY <1>4, Zenon
  <2>2. m \in 1 .. Len(seqs) /\ m \in 0 .. n /\ m - 1 \in 0 .. n
    BY <1>1
  <2>3. PICK t \in J[m] : Fed(F, R, q, seqs[m], t)
    <3>1. \A p \in J[m - 1] : \E t \in J[m] : Fed(F, R, p, seqs[m], t)
      BY <2>2
    <3>2. QED
      BY <2>1, <3>1
  <2>4. fl[m - 1] \in Seq(B) /\ seqs[m] \in Seq(B)
    <3>1. \A i \in 1 .. Len(seqs) : seqs[i] \in Seq(B)
      OBVIOUS
    <3>2. fl[m - 1] \in Seq(B)
      BY <1>2, <2>2
    <3>3. QED
      BY <2>2, <3>1, <3>2
  <2>5. Fed(F, R, r, fl[m - 1] \o seqs[m], t)
    BY <2>1, <2>3, <2>4, FedJoin
  <2>6. fl[m] = fl[m - 1] \o seqs[m]
    BY <1>2
  <2>7. Fed(F, R, r, fl[m], t)
    BY <2>5, <2>6, Zenon
  <2>8. QED
    BY <2>2, <2>3, <2>7, Zenon
<1>5. \A m \in 0 .. n : m \in T
  <2>1. \A m \in 1 .. n : m - 1 \in T => m \in T
    BY <1>4, Zenon
  <2>2. n \in Nat
    OBVIOUS
  <2> HIDE DEF T
  <2>3. QED
    BY <1>3, <2>1, <2>2, UpTo, Zenon
<1>6. n \in 0 .. n
  OBVIOUS
<1>7. n \in T
  BY <1>5, <1>6, Zenon
<1>8. \E t \in J[n] : Fed(F, R, r, w, t)
  BY <1>2, <1>7, Zenon
<1>9. w \in Seq(B)
  BY <1>2, <1>6
<1>10. QED
  BY <1>1, <1>8, <1>9

LEMMA TwoBytes == ASSUME NEW B, NEW a \in B, NEW b \in B PROVE <<a>> \o <<b>> = <<a, b>>
<1>1. <<a>> \in Seq(B) /\ <<b>> \in Seq(B) /\ <<a, b>> \in Seq(B) /\ Len(<<a>>) = 1 /\ Len(<<b>>) = 1
      /\ Len(<<a, b>>) = 2
  OBVIOUS
<1>2. <<a>> \o <<b>> \in Seq(B) /\ Len(<<a>> \o <<b>>) = 2
  BY <1>1, ConcatProperties
<1>3. \A i \in 1 .. 2 : (<<a>> \o <<b>>)[i] = IF i <= 1 THEN <<a>>[i] ELSE <<b>>[i - 1]
  BY <1>1, ConcatProperties
<1>4. ASSUME NEW i \in 1 .. 2 PROVE (<<a>> \o <<b>>)[i] = <<a, b>>[i]
  <2>1. CASE i = 1
    BY <1>3, <2>1
  <2>2. CASE i = 2
    BY <1>3, <2>2
  <2>3. QED
    BY <2>1, <2>2
<1>5. QED
  BY <1>1, <1>2, <1>4, SeqEqual

LEMMA ThreeBytes ==
  ASSUME NEW B, NEW a \in B, NEW b \in B, NEW c \in B
  PROVE  (<<a>> \o <<b>>) \o <<c>> = <<a, b, c>>
<1>1. <<a, b>> \in Seq(B) /\ <<c>> \in Seq(B) /\ <<a, b, c>> \in Seq(B) /\ Len(<<a, b>>) = 2
      /\ Len(<<c>>) = 1 /\ Len(<<a, b, c>>) = 3
  OBVIOUS
<1>2. <<a, b>> \o <<c>> \in Seq(B) /\ Len(<<a, b>> \o <<c>>) = 3
  BY <1>1, ConcatProperties
<1>3. \A i \in 1 .. 3 : (<<a, b>> \o <<c>>)[i] = IF i <= 2 THEN <<a, b>>[i] ELSE <<c>>[i - 2]
  BY <1>1, ConcatProperties
<1>4. ASSUME NEW i \in 1 .. 3 PROVE (<<a, b>> \o <<c>>)[i] = <<a, b, c>>[i]
  <2>1. CASE i = 1
    BY <1>3, <2>1
  <2>2. CASE i = 2
    BY <1>3, <2>2
  <2>3. CASE i = 3
    BY <1>3, <2>3
  <2>4. QED
    BY <2>1, <2>2, <2>3
<1>5. <<a, b>> \o <<c>> = <<a, b, c>>
  BY <1>1, <1>2, <1>4, SeqEqual
<1>6. QED
  BY <1>5, TwoBytes

-----------------------------------------------------------------------------
(* The text screen. *)

LEMMA TimesMore == ASSUME NEW m \in Nat, NEW n \in Nat, NEW k \in Nat, m <= n PROVE m * k <= n * k
<1>1. PICK d \in Nat : n = m + d
  <2>1. n - m \in Nat /\ n = m + (n - m)
    OBVIOUS
  <2>2. QED
    BY <2>1
<1>2. n * k = m * k + d * k
  BY <1>1
<1>3. d * k \in Nat /\ m * k \in Nat
  OBVIOUS
<1>4. QED
  BY <1>2, <1>3

(* A quotient and a remainder are the only ones. *)
LEMMA OnlyParts ==
  ASSUME NEW n \in Nat \ {0}, NEW y \in Nat, NEW x \in 0 .. n - 1
  PROVE  (y * n + x) % n = x /\ (y * n + x) \div n = y
<1>1. PICK c \in Nat : c = y * n + x
  OBVIOUS
<1>2. PICK q \in Nat : q = c \div n
  OBVIOUS
<1>3. PICK r \in 0 .. n - 1 : r = c % n
  OBVIOUS
<1>4. c = q * n + r
  BY <1>2, <1>3
<1>5. q * n \in Nat /\ y * n \in Nat
  OBVIOUS
<1>6. ~ q + 1 <= y
  <2>1. SUFFICES ASSUME q + 1 <= y PROVE FALSE
    OBVIOUS
  <2>2. (q + 1) * n <= y * n
    BY <2>1, TimesMore
  <2>3. (q + 1) * n = q * n + n
    OBVIOUS
  <2>4. QED
    BY <1>1, <1>4, <1>5, <2>2, <2>3
<1>7. ~ y + 1 <= q
  <2>1. SUFFICES ASSUME y + 1 <= q PROVE FALSE
    OBVIOUS
  <2>2. (y + 1) * n <= q * n
    BY <2>1, TimesMore
  <2>3. (y + 1) * n = y * n + n
    OBVIOUS
  <2>4. QED
    BY <1>1, <1>4, <1>5, <2>2, <2>3
<1>8. q = y
  BY <1>6, <1>7
<1>9. r = x
  BY <1>1, <1>4, <1>5, <1>8
<1>10. QED
  BY <1>1, <1>2, <1>3, <1>8, <1>9

LEMMA CellOnScreen ==
  ASSUME S!ScreenAssumption, NEW x \in 0 .. TextCols - 1, NEW y \in 0 .. TextRows - 1
  PROVE  S!CellAt(x, y) \in S!Cells
<1>1. TextCols \in Nat \ {0} /\ TextRows \in Nat \ {0}
  BY DEF S!ScreenAssumption
<1>2. (y + 1) * TextCols <= TextRows * TextCols
  BY <1>1, TimesMore
<1>3. (y + 1) * TextCols = y * TextCols + TextCols /\ y * TextCols \in Nat
      /\ TextRows * TextCols = TextCols * TextRows /\ TextCols * TextRows \in Nat
  BY <1>1
<1>4. QED
  BY <1>1, <1>2, <1>3 DEF S!Cells, S!CellAt

LEMMA CellParts ==
  ASSUME S!ScreenAssumption, NEW c \in S!Cells
  PROVE  c % TextCols \in 0 .. TextCols - 1 /\ c \div TextCols \in 0 .. TextRows - 1
         /\ c = S!CellAt(c % TextCols, c \div TextCols)
<1>1. TextCols \in Nat \ {0} /\ TextRows \in Nat \ {0} /\ c \in Nat /\ c < TextCols * TextRows
  BY DEF S!ScreenAssumption, S!Cells
<1>2. PICK q \in Nat : q = c \div TextCols
  BY <1>1
<1>3. PICK r \in 0 .. TextCols - 1 : r = c % TextCols
  BY <1>1
<1>4. c = q * TextCols + r
  BY <1>1, <1>2, <1>3
<1>5. ~ TextRows <= q
  <2>1. SUFFICES ASSUME TextRows <= q PROVE FALSE
    OBVIOUS
  <2>2. TextRows * TextCols <= q * TextCols
    BY <1>1, <2>1, TimesMore
  <2>3. TextRows * TextCols = TextCols * TextRows /\ TextCols * TextRows \in Nat /\ q * TextCols \in Nat
    BY <1>1
  <2>4. QED
    BY <1>1, <1>4, <2>2, <2>3
<1>6. QED
  BY <1>1, <1>2, <1>3, <1>4, <1>5 DEF S!CellAt

(* The run of cells that differ from column x of row y: where it ends. *)
LEMMA RunEnds ==
  ASSUME S!ScreenAssumption, NEW b, NEW s, NEW y, NEW x \in 0 .. TextCols - 1
  PROVE  /\ S!RunEnd(b, s, x, y) \in x .. TextCols
         /\ \A i \in x .. S!RunEnd(b, s, x, y) - 1 : b[S!CellAt(i, y)] # s[S!CellAt(i, y)]
         /\ \/ S!RunEnd(b, s, x, y) = TextCols
            \/ b[S!CellAt(S!RunEnd(b, s, x, y), y)] = s[S!CellAt(S!RunEnd(b, s, x, y), y)]
<1>1. TextCols \in Nat
  BY DEF S!ScreenAssumption
<1> DEFINE T == {e \in x .. TextCols : e = TextCols \/ b[S!CellAt(e, y)] = s[S!CellAt(e, y)]}
<1>2. T \in SUBSET Nat /\ TextCols \in T
  BY <1>1
<1>3. PICK e \in T : \A other \in T : e <= other
  <2> HIDE DEF T
  <2>1. T # {}
    BY <1>2
  <2>2. QED
    BY <1>2, <2>1, LeastNumber
<1>4. e \in x .. TextCols /\ (e = TextCols \/ b[S!CellAt(e, y)] = s[S!CellAt(e, y)])
  BY <1>3
<1>5. ASSUME NEW i \in x .. e - 1 PROVE b[S!CellAt(i, y)] # s[S!CellAt(i, y)]
  <2>1. i \in x .. TextCols /\ ~ e <= i
    BY <1>1, <1>4
  <2>2. i \notin T
    BY <1>3, <2>1
  <2>3. QED
    BY <2>1, <2>2
<1>6. QED
  BY <1>4, <1>5 DEF S!RunEnd

(* The terminal as a function of the byte it receives.  It is "lost" after
   the Plot of a column that is off the screen: the server sends none. *)
Terminal ==
  [grid : [S!Cells -> S!Byte], col : 0 .. TextCols, row : 0 .. TextRows - 1,
   st : {"normal", "after1F", "plotRow", "lost"}, plotX : 0 .. TextCols - 1]

Plain == S!Byte \ {S!PlotByte, S!Return, S!LineFeed, S!Backspace}

Scroll(g) == [c \in S!Cells |-> IF c + TextCols \in S!Cells THEN g[c + TextCols] ELSE S!Blank]

Put(q, b) ==
  IF b = S!Return THEN [q EXCEPT !.col = 0]
  ELSE IF b = S!LineFeed /\ q.row < TextRows - 1 THEN [q EXCEPT !.col = 0, !.row = q.row + 1]
  ELSE IF b = S!LineFeed THEN [q EXCEPT !.col = 0, !.grid = Scroll(q.grid)]
  ELSE IF b = S!Backspace /\ q.col > 0
       THEN [q EXCEPT !.col = q.col - 1,
                      !.grid = [q.grid EXCEPT ![S!CellAt(q.col - 1, q.row)] = S!Blank]]
  ELSE IF b # S!Backspace /\ q.col < TextCols
       THEN [q EXCEPT !.col = q.col + 1, !.grid = [q.grid EXCEPT ![S!CellAt(q.col, q.row)] = b]]
  ELSE q

Decode(q, b) ==
  IF q.st = "normal" /\ b = S!PlotByte THEN [q EXCEPT !.st = "after1F"]
  ELSE IF q.st = "normal" THEN Put(q, b)
  ELSE IF q.st = "after1F" /\ b < TextCols THEN [q EXCEPT !.st = "plotRow", !.plotX = b]
  ELSE IF q.st = "plotRow"
       THEN [q EXCEPT !.st = "normal", !.col = S!Least(q.plotX, TextCols - 1),
                      !.row = S!Least(b, TextRows - 1)]
  ELSE [q EXCEPT !.st = "lost"]

Dec == [qb \in Terminal \X S!Byte |-> Decode(qb[1], qb[2])]

LEMMA PutTyped ==
  ASSUME S!ScreenAssumption, NEW q \in Terminal, NEW b \in S!Byte
  PROVE  Put(q, b) \in Terminal /\ Put(q, b).st = q.st /\ Put(q, b).plotX = q.plotX
<1>1. TextCols \in Nat /\ TextRows \in Nat
  BY DEF S!ScreenAssumption
<1>2. q.grid \in [S!Cells -> S!Byte] /\ q.col \in 0 .. TextCols /\ q.row \in 0 .. TextRows - 1
  BY DEF Terminal
<1>3. S!Blank \in S!Byte
  BY DEF S!Blank, S!Byte
<1>4. Scroll(q.grid) \in [S!Cells -> S!Byte]
  BY <1>2, <1>3 DEF Scroll
<1>5. \A k, v : v \in S!Byte => [q.grid EXCEPT ![k] = v] \in [S!Cells -> S!Byte]
  BY <1>2
<1>6. CASE b = S!Return
  BY <1>1, <1>2, <1>6 DEF Put, Terminal
<1>7. CASE b # S!Return /\ b = S!LineFeed /\ q.row < TextRows - 1
  <2>1. q.row + 1 \in 0 .. TextRows - 1
    BY <1>1, <1>2, <1>7
  <2>2. Put(q, b) = [q EXCEPT !.col = 0, !.row = q.row + 1]
    BY <1>7 DEF Put
  <2>3. 0 \in 0 .. TextCols
    BY <1>1
  <2>4. QED
    BY <2>1, <2>2, <2>3 DEF Terminal
<1>8. CASE b # S!Return /\ b = S!LineFeed /\ ~ q.row < TextRows - 1
  <2>1. Put(q, b) = [q EXCEPT !.col = 0, !.grid = Scroll(q.grid)]
    BY <1>8 DEF Put
  <2>2. 0 \in 0 .. TextCols
    BY <1>1
  <2>3. QED
    BY <1>4, <2>1, <2>2 DEF Terminal
<1>9. CASE b # S!Return /\ b # S!LineFeed /\ b = S!Backspace /\ q.col > 0
  <2>1. q.col - 1 \in 0 .. TextCols
    BY <1>1, <1>2, <1>9
  <2>2. [q.grid EXCEPT ![S!CellAt(q.col - 1, q.row)] = S!Blank] \in [S!Cells -> S!Byte]
    BY <1>3, <1>5
  <2>3. QED
    BY <1>1, <1>9, <2>1, <2>2 DEF Put, Terminal
<1>10. CASE b # S!Return /\ b # S!LineFeed /\ b # S!Backspace /\ q.col < TextCols
  <2>1. q.col + 1 \in 0 .. TextCols
    BY <1>1, <1>2, <1>10
  <2>2. [q.grid EXCEPT ![S!CellAt(q.col, q.row)] = b] \in [S!Cells -> S!Byte]
    BY <1>5
  <2>3. QED
    BY <1>1, <1>10, <2>1, <2>2 DEF Put, Terminal
<1>11. CASE b # S!Return /\ b # S!LineFeed /\ ~ (b = S!Backspace /\ q.col > 0)
            /\ ~ (b # S!Backspace /\ q.col < TextCols)
  BY <1>11 DEF Put
<1>12. QED
  BY <1>6, <1>7, <1>8, <1>9, <1>10, <1>11

LEMMA DecodeTyped ==
  ASSUME S!ScreenAssumption, NEW q \in Terminal, NEW b \in S!Byte
  PROVE  Decode(q, b) \in Terminal
<1>1. TextCols \in 1 .. 256 /\ TextRows \in 1 .. 256
  BY DEF S!ScreenAssumption
<1>2. CASE q.st = "normal" /\ b = S!PlotByte
  BY <1>2 DEF Decode, Terminal
<1>3. CASE q.st = "normal" /\ b # S!PlotByte
  BY <1>3, PutTyped DEF Decode
<1>4. CASE q.st = "after1F" /\ b < TextCols
  <2>1. b \in 0 .. TextCols - 1
    BY <1>1, <1>4 DEF S!Byte
  <2>2. QED
    BY <1>4, <2>1 DEF Decode, Terminal
<1>5. CASE q.st = "plotRow"
  <2>1. q.plotX \in 0 .. TextCols - 1 /\ b \in Nat
    BY DEF Terminal, S!Byte
  <2>2. S!Least(q.plotX, TextCols - 1) \in 0 .. TextCols /\ S!Least(b, TextRows - 1) \in 0 .. TextRows - 1
    BY <1>1, <2>1 DEF S!Least
  <2>3. QED
    BY <1>5, <2>2 DEF Decode, Terminal
<1>6. CASE q.st # "normal" /\ q.st # "plotRow" /\ ~ (q.st = "after1F" /\ b < TextCols)
  BY <1>6 DEF Decode, Terminal
<1>7. QED
  BY <1>2, <1>3, <1>4, <1>5, <1>6

LEMMA DecTyped ==
  ASSUME S!ScreenAssumption
  PROVE  Dec \in [Terminal \X S!Byte -> Terminal]
         /\ \A q \in Terminal, b \in S!Byte : Dec[<<q, b>>] = Decode(q, b)
<1>1. \A qb \in Terminal \X S!Byte : Decode(qb[1], qb[2]) \in Terminal
  BY DecodeTyped
<1>2. Dec \in [Terminal \X S!Byte -> Terminal]
  BY <1>1 DEF Dec
<1>3. ASSUME NEW q \in Terminal, NEW b \in S!Byte PROVE Dec[<<q, b>>] = Decode(q, b)
  <2>1. <<q, b>> \in Terminal \X S!Byte
    OBVIOUS
  <2>2. QED
    BY <2>1 DEF Dec
<1>4. QED
  BY <1>2, <1>3

(* A terminal that is lost stays so. *)
LEMMA LostForGood ==
  ASSUME S!ScreenAssumption, NEW w \in Seq(S!Byte), NEW q, NEW t,
         Fed(Dec, Terminal, q, w, t), q.st = "lost"
  PROVE  t.st = "lost"
<1>1. PICK n \in Nat : n = Len(w)
  OBVIOUS
<1>2. PICK x \in [0 .. n -> Terminal] :
        x[0] = q /\ x[n] = t /\ \A i \in 1 .. n : x[i] = Dec[<<x[i - 1], w[i]>>]
  BY <1>1 DEF Fed
<1> DEFINE T == {i \in 0 .. n : x[i].st = "lost"}
<1>3. 0 \in T
  BY <1>2
<1>4. ASSUME NEW i \in 1 .. n, i - 1 \in T PROVE i \in T
  <2>1. i - 1 \in 0 .. n /\ x[i - 1].st = "lost"
    BY <1>4
  <2>2. x[i - 1] \in Terminal /\ w[i] \in S!Byte
    BY <1>1, <1>2, <2>1
  <2>3. x[i] = Decode(x[i - 1], w[i])
    BY <1>2, <2>2, DecTyped
  <2>4. x[i].st = "lost"
    BY <2>1, <2>2, <2>3 DEF Decode, Terminal
  <2>5. QED
    BY <2>4
<1>5. \A i \in 1 .. n : i - 1 \in T => i \in T
  BY <1>4, Zenon
<1>6. \A i \in 0 .. n : i \in T
  <2> HIDE DEF T
  <2>1. n \in Nat
    OBVIOUS
  <2>2. QED
    BY <1>3, <1>5, <2>1, UpTo, Zenon
<1>7. QED
  BY <1>2, <1>6

LEMMA PlotLeads ==
  ASSUME S!ScreenAssumption, NEW q \in Terminal, q.st = "normal",
         NEW x \in 0 .. TextCols - 1, NEW y \in 0 .. TextRows - 1
  PROVE  /\ S!Plot(x, y) \in Seq(S!Byte)
         /\ \E u \in Terminal : /\ Fed(Dec, Terminal, q, S!Plot(x, y), u)
                                /\ u.st = "normal" /\ u.grid = q.grid /\ u.col = x /\ u.row = y
<1>1. TextCols \in 1 .. 256 /\ TextRows \in 1 .. 256
  BY DEF S!ScreenAssumption
<1>2. x \in S!Byte /\ y \in S!Byte /\ S!PlotByte \in S!Byte
  BY <1>1 DEF S!Byte, S!PlotByte
<1>3. Dec \in [Terminal \X S!Byte -> Terminal]
  BY DecTyped
<1>4. PICK q1 \in Terminal : q1 = [q EXCEPT !.st = "after1F"]
  BY DEF Terminal
<1>5. Dec[<<q, S!PlotByte>>] = q1
  BY <1>2, <1>4, DecTyped DEF Decode
<1>6. PICK q2 \in Terminal : q2 = [q1 EXCEPT !.st = "plotRow", !.plotX = x]
  BY DEF Terminal
<1>7. Dec[<<q1, x>>] = q2
  <2>1. q1.st = "after1F" /\ x < TextCols
    BY <1>1, <1>4 DEF Terminal
  <2>2. QED
    BY <1>2, <1>6, <2>1, DecTyped DEF Decode
<1>8. PICK q3 \in Terminal : q3 = [q2 EXCEPT !.st = "normal", !.col = x, !.row = y]
  <2>1. x \in 0 .. TextCols
    BY <1>1
  <2>2. QED
    BY <2>1 DEF Terminal
<1>9. Dec[<<q2, y>>] = q3
  <2>1. q2.st = "plotRow" /\ q2.plotX = x
    BY <1>6 DEF Terminal
  <2>2. S!Least(x, TextCols - 1) = x /\ S!Least(y, TextRows - 1) = y
    BY <1>1 DEF S!Least
  <2>3. Decode(q2, y) = [q2 EXCEPT !.st = "normal", !.col = x, !.row = y]
    BY <2>1, <2>2 DEF Decode
  <2>4. QED
    BY <1>2, <1>8, <2>3, DecTyped
<1>10. Fed(Dec, Terminal, q, <<S!PlotByte>>, q1) /\ Fed(Dec, Terminal, q1, <<x>>, q2)
       /\ Fed(Dec, Terminal, q2, <<y>>, q3)
  <2>1. Fed(Dec, Terminal, q, <<S!PlotByte>>, Dec[<<q, S!PlotByte>>])
    BY <1>2, <1>3, FedOne
  <2>2. Fed(Dec, Terminal, q1, <<x>>, Dec[<<q1, x>>])
    BY <1>2, <1>3, FedOne
  <2>3. Fed(Dec, Terminal, q2, <<y>>, Dec[<<q2, y>>])
    BY <1>2, <1>3, FedOne
  <2>4. QED
    BY <1>5, <1>7, <1>9, <2>1, <2>2, <2>3
<1>11. Fed(Dec, Terminal, q, <<S!PlotByte>> \o <<x>>, q2)
  <2>1. <<S!PlotByte>> \in Seq(S!Byte) /\ <<x>> \in Seq(S!Byte)
    BY <1>2
  <2>2. QED
    BY <1>10, <2>1, FedJoin
<1>12. Fed(Dec, Terminal, q, (<<S!PlotByte>> \o <<x>>) \o <<y>>, q3)
  <2>1. <<S!PlotByte>> \o <<x>> \in Seq(S!Byte) /\ <<y>> \in Seq(S!Byte)
    BY <1>2
  <2>2. QED
    BY <1>10, <1>11, <2>1, FedJoin
<1>13. (<<S!PlotByte>> \o <<x>>) \o <<y>> = S!Plot(x, y)
  BY <1>2, ThreeBytes DEF S!Plot
<1>14. q3.st = "normal" /\ q3.grid = q.grid /\ q3.col = x /\ q3.row = y
  BY <1>4, <1>6, <1>8 DEF Terminal
<1>15. S!Plot(x, y) \in Seq(S!Byte)
  BY <1>2 DEF S!Plot
<1>16. Fed(Dec, Terminal, q, S!Plot(x, y), q3)
  BY <1>12, <1>13
<1>17. QED
  BY <1>14, <1>15, <1>16

(* The grid g with the bytes w from the cell c. *)
Written(g, c, w, n) == [k \in S!Cells |-> IF k \in c .. c + n - 1 THEN w[k - c + 1] ELSE g[k]]

LEMMA PlainLeads ==
  ASSUME S!ScreenAssumption, NEW q \in Terminal, q.st = "normal",
         NEW w \in Seq(Plain), q.col + Len(w) <= TextCols
  PROVE  \E u \in Terminal : /\ Fed(Dec, Terminal, q, w, u) /\ u.st = "normal"
                             /\ u.grid = Written(q.grid, S!CellAt(q.col, q.row), w, Len(w))
<1>1. TextCols \in Nat /\ TextRows \in Nat
  BY DEF S!ScreenAssumption
<1>2. PICK x \in 0 .. TextCols : x = q.col
  BY DEF Terminal
<1>3. PICK y \in 0 .. TextRows - 1 : y = q.row
  BY DEF Terminal
<1>4. PICK n \in Nat : n = Len(w)
  OBVIOUS
<1>5. x + n <= TextCols
  BY <1>2, <1>4
<1>6. PICK c \in Nat : c = S!CellAt(x, y)
  <2>1. y * TextCols \in Nat
    BY <1>1
  <2>2. QED
    BY <1>1, <2>1 DEF S!CellAt
<1>7. q.grid \in [S!Cells -> S!Byte]
  BY DEF Terminal
<1> DEFINE J == [i \in 0 .. n |-> {p \in Terminal : /\ p.st = "normal" /\ p.col = x + i /\ p.row = y
                                                   /\ p.grid = Written(q.grid, c, w, i)}]
<1>8. J \in [0 .. n -> SUBSET Terminal]
  OBVIOUS
<1>9. q \in J[0]
  <2>1. Written(q.grid, c, w, 0) = q.grid
    BY <1>7 DEF Written
  <2>2. QED
    BY <1>2, <1>3, <2>1
<1>10. ASSUME NEW i \in 1 .. n, NEW p \in J[i - 1] PROVE Dec[<<p, w[i]>>] \in J[i]
  <2>1. i - 1 \in 0 .. n /\ i \in 0 .. n
    OBVIOUS
  <2>2. p \in Terminal /\ p.st = "normal" /\ p.col = x + (i - 1) /\ p.row = y
        /\ p.grid = Written(q.grid, c, w, i - 1)
    BY <1>10, <2>1
  <2>3. w[i] \in Plain /\ w[i] \in S!Byte
    BY <1>4 DEF Plain
  <2>4. p.col < TextCols
    BY <1>1, <1>5, <2>2
  <2>5. Put(p, w[i]) = [p EXCEPT !.col = p.col + 1,
                                 !.grid = [p.grid EXCEPT ![S!CellAt(p.col, p.row)] = w[i]]]
    BY <2>3, <2>4 DEF Put, Plain
  <2>6. Dec[<<p, w[i]>>] = Put(p, w[i])
    BY <2>2, <2>3, DecTyped DEF Decode, Plain
  <2>7. Put(p, w[i]) \in Terminal /\ Put(p, w[i]).st = "normal"
    BY <2>2, <2>3, PutTyped
  <2>8. Put(p, w[i]).col = x + i /\ Put(p, w[i]).row = y
        /\ Put(p, w[i]).grid = [p.grid EXCEPT ![S!CellAt(p.col, p.row)] = w[i]]
    BY <2>2, <2>5 DEF Terminal
  <2>9. S!CellAt(p.col, p.row) = c + (i - 1)
    <3>1. y * TextCols \in Nat
      BY <1>1
    <3>2. QED
      BY <1>1, <1>6, <2>2, <3>1 DEF S!CellAt
  <2>10. [Written(q.grid, c, w, i - 1) EXCEPT ![c + (i - 1)] = w[i]] = Written(q.grid, c, w, i)
    <3>1. ASSUME NEW k \in S!Cells
          PROVE  [Written(q.grid, c, w, i - 1) EXCEPT ![c + (i - 1)] = w[i]][k] = Written(q.grid, c, w, i)[k]
      <4>1. k \in Int
        BY DEF S!Cells
      <4>2. CASE k = c + (i - 1)
        <5>1. k \in c .. c + i - 1 /\ k - c + 1 = i
          BY <4>1, <4>2
        <5>2. QED
          BY <4>2, <5>1 DEF Written
      <4>3. CASE k # c + (i - 1)
        <5>1. k \in c .. c + i - 1 <=> k \in c .. c + (i - 1) - 1
          BY <4>1, <4>3
        <5>2. QED
          BY <4>3, <5>1 DEF Written
      <4>4. QED
        BY <4>2, <4>3
    <3>2. QED
      BY <3>1 DEF Written
  <2>11. Put(p, w[i]).grid = Written(q.grid, c, w, i)
    BY <2>2, <2>8, <2>9, <2>10
  <2>12. QED
    BY <2>1, <2>6, <2>7, <2>8, <2>11
<1>11. w \in Seq(S!Byte)
  BY DEF Plain
<1>12. Dec \in [Terminal \X S!Byte -> Terminal]
  BY DecTyped
<1>13. \E u \in J[n] : Fed(Dec, Terminal, q, w, u)
  <2>1. \A i \in 1 .. n : \A p \in J[i - 1] : Dec[<<p, w[i]>>] \in J[i]
    BY <1>10
  <2> HIDE DEF J
  <2>2. QED
    BY <1>4, <1>8, <1>9, <1>11, <1>12, <2>1, FedEach
<1>14. PICK u \in J[n] : Fed(Dec, Terminal, q, w, u)
  BY <1>13
<1>15. u \in Terminal /\ u.st = "normal" /\ u.grid = Written(q.grid, c, w, n)
  BY <1>14
<1>16. QED
  BY <1>2, <1>3, <1>4, <1>6, <1>14, <1>15

RunLength(b, s, c) == S!RunEnd(b, s, c % TextCols, c \div TextCols) - (c % TextCols)
RunCells(b, s, c) == c .. c + RunLength(b, s, c) - 1

(* The run that starts at a cell: its cells differ, and it does not leave the line. *)
LEMMA RunOfCell ==
  ASSUME S!ScreenAssumption, NEW b, NEW s, NEW c \in S!Cells
  PROVE  /\ RunLength(b, s, c) \in Nat /\ (c % TextCols) + RunLength(b, s, c) <= TextCols
         /\ \A k \in RunCells(b, s, c) : k \in S!Cells /\ b[k] # s[k]
         /\ (c % TextCols) + RunLength(b, s, c) = TextCols
            \/ b[c + RunLength(b, s, c)] = s[c + RunLength(b, s, c)]
<1>1. TextCols \in Nat \ {0} /\ TextRows \in Nat \ {0}
  BY DEF S!ScreenAssumption
<1>2. PICK x \in 0 .. TextCols - 1 : x = c % TextCols
  BY CellParts
<1>3. PICK y \in 0 .. TextRows - 1 : y = c \div TextCols
  BY CellParts
<1>4. PICK base \in Nat : base = y * TextCols
  BY <1>1
<1>5. c = base + x /\ \A i : S!CellAt(i, y) = base + i
  BY <1>2, <1>3, <1>4, CellParts DEF S!CellAt
<1>6. PICK e \in x .. TextCols :
        /\ e = S!RunEnd(b, s, x, y)
        /\ \A i \in x .. e - 1 : b[S!CellAt(i, y)] # s[S!CellAt(i, y)]
        /\ e = TextCols \/ b[S!CellAt(e, y)] = s[S!CellAt(e, y)]
  BY <1>2, RunEnds
<1>7. RunLength(b, s, c) = e - x
  BY <1>2, <1>3, <1>6 DEF RunLength
<1>8. e - x \in Nat /\ x + (e - x) = e /\ e <= TextCols
  BY <1>1, <1>6
<1>9. ASSUME NEW k \in c .. c + (e - x) - 1 PROVE k \in S!Cells /\ b[k] # s[k]
  <2>1. k - base \in x .. e - 1 /\ k - base \in 0 .. TextCols - 1 /\ k = base + (k - base)
    BY <1>1, <1>5, <1>6
  <2>2. S!CellAt(k - base, y) = k
    BY <1>5, <2>1
  <2>3. QED
    BY <1>6, <2>1, <2>2, CellOnScreen
<1>10. S!CellAt(e, y) = c + (e - x)
  BY <1>1, <1>5, <1>6
<1>11. QED
  BY <1>2, <1>6, <1>7, <1>8, <1>9, <1>10 DEF RunCells

SegmentShown(b, s, c, q) ==
  \E u \in Terminal :
    /\ Fed(Dec, Terminal, q, S!Segment(b, s, c), u) /\ u.st = "normal"
    /\ u.grid = [k \in S!Cells |-> IF k \in RunCells(b, s, c) THEN b[k] ELSE q.grid[k]]

LEMMA SegmentLeads ==
  ASSUME S!ScreenAssumption, NEW b \in [S!Cells -> Plain], NEW s, NEW c \in S!Cells,
         NEW q \in Terminal, q.st = "normal"
  PROVE  /\ S!Segment(b, s, c) \in Seq(S!Byte)
         /\ SegmentShown(b, s, c, q)
<1>1. PICK x \in 0 .. TextCols - 1 : x = c % TextCols
  BY CellParts
<1>2. PICK y \in 0 .. TextRows - 1 : y = c \div TextCols
  BY CellParts
<1>3. c = S!CellAt(x, y)
  BY <1>1, <1>2, CellParts
<1>4. PICK n \in Nat : n = RunLength(b, s, c)
  BY RunOfCell
<1>5. x + n <= TextCols
  BY <1>1, <1>4, RunOfCell
<1>6. \A k \in c .. c + n - 1 : k \in S!Cells
  BY <1>4, RunOfCell DEF RunCells
<1>7. PICK w : w = [i \in 1 .. n |-> b[c + i - 1]]
  OBVIOUS
<1>8. c \in Nat
  BY DEF S!Cells
<1>9. w \in Seq(Plain) /\ Len(w) = n
  <2>1. ASSUME NEW i \in 1 .. n PROVE b[c + i - 1] \in Plain
    <3>1. c + i - 1 \in c .. c + n - 1
      BY <1>8
    <3>2. QED
      BY <1>6, <3>1
  <2>2. QED
    BY <1>7, <2>1
<1>10. S!Segment(b, s, c) = S!Plot(x, y) \o w
  BY <1>1, <1>2, <1>4, <1>7 DEF S!Segment, RunLength
<1>11. PICK p \in Terminal : /\ Fed(Dec, Terminal, q, S!Plot(x, y), p)
                             /\ p.st = "normal" /\ p.grid = q.grid /\ p.col = x /\ p.row = y
  BY PlotLeads
<1>12. PICK u \in Terminal : /\ Fed(Dec, Terminal, p, w, u) /\ u.st = "normal"
                             /\ u.grid = Written(p.grid, S!CellAt(p.col, p.row), w, Len(w))
  <2>1. p.col + Len(w) <= TextCols
    BY <1>5, <1>9, <1>11
  <2>2. QED
    BY <1>9, <1>11, <2>1, PlainLeads
<1>13. w \in Seq(S!Byte) /\ S!Plot(x, y) \in Seq(S!Byte)
  <2>1. w \in Seq(S!Byte)
    BY <1>9 DEF Plain
  <2>2. QED
    BY <2>1, PlotLeads
<1>14. Fed(Dec, Terminal, q, S!Plot(x, y) \o w, u)
  BY <1>11, <1>12, <1>13, FedJoin
<1>15. u.grid = [k \in S!Cells |-> IF k \in RunCells(b, s, c) THEN b[k] ELSE q.grid[k]]
  <2>1. u.grid = Written(q.grid, c, w, n)
    BY <1>3, <1>9, <1>11, <1>12
  <2>2. ASSUME NEW k \in S!Cells, k \in c .. c + n - 1 PROVE w[k - c + 1] = b[k]
    <3>1. k - c + 1 \in 1 .. n /\ c + (k - c + 1) - 1 = k
      BY <1>8, <2>2
    <3>2. QED
      BY <1>7, <3>1
  <2>3. QED
    BY <1>4, <2>1, <2>2 DEF Written, RunCells
<1>16. S!Plot(x, y) \o w \in Seq(S!Byte)
  BY <1>13, ConcatProperties
<1>17. QED
  BY <1>10, <1>12, <1>14, <1>15, <1>16 DEF SegmentShown

(* A cell that differs lies in the run of a cell that starts one. *)
LEMMA InSomeRun ==
  ASSUME S!ScreenAssumption, NEW b, NEW s, NEW c \in S!Cells, b[c] # s[c]
  PROVE  \E e \in S!Cells : S!StartsRun(b, s, e) /\ c \in RunCells(b, s, e)
<1>1. TextCols \in Nat \ {0} /\ TextRows \in Nat \ {0} /\ c \in Nat
  BY DEF S!ScreenAssumption, S!Cells
<1>2. PICK x \in 0 .. TextCols - 1 : x = c % TextCols
  BY CellParts
<1>3. PICK y \in 0 .. TextRows - 1 : y = c \div TextCols
  BY CellParts
<1>4. PICK base \in Nat : base = y * TextCols
  BY <1>1
<1>5. c = base + x /\ \A i : S!CellAt(i, y) = base + i
  BY <1>2, <1>3, <1>4, CellParts DEF S!CellAt
<1> DEFINE T == {d \in 0 .. x : d = x \/ b[c - d - 1] = s[c - d - 1]}
<1>6. T \in SUBSET Nat /\ x \in T
  OBVIOUS
<1>7. PICK d \in T : \A other \in T : d <= other
  <2> HIDE DEF T
  <2>1. T # {}
    BY <1>6
  <2>2. QED
    BY <1>6, <2>1, LeastNumber
<1>8. d \in 0 .. x /\ (d = x \/ b[c - d - 1] = s[c - d - 1])
  BY <1>7
<1>9. ASSUME NEW i \in 0 .. d PROVE b[c - i] # s[c - i]
  <2>1. CASE i = 0
    <3>1. c - i = c
      BY <1>1, <2>1
    <3>2. QED
      BY <3>1
  <2>2. CASE i # 0
    <3>1. i - 1 \in 0 .. x /\ ~ d <= i - 1 /\ c - (i - 1) - 1 = c - i
      BY <1>1, <1>8, <2>2
    <3>2. i - 1 \notin T
      BY <1>7, <3>1
    <3>3. QED
      BY <3>1, <3>2
  <2>3. QED
    BY <2>1, <2>2
<1>10. PICK e \in Nat : e = c - d
  BY <1>1, <1>5, <1>8
<1>11. e = base + (x - d) /\ x - d \in 0 .. TextCols - 1
  BY <1>1, <1>5, <1>8, <1>10
<1>12. e % TextCols = x - d /\ e \div TextCols = y
  <2>1. y \in Nat
    OBVIOUS
  <2>2. (y * TextCols + (x - d)) % TextCols = x - d /\ (y * TextCols + (x - d)) \div TextCols = y
    BY <1>1, <1>11, <2>1, OnlyParts
  <2>3. QED
    BY <1>4, <1>11, <2>2
<1>13. e \in S!Cells
  BY <1>5, <1>11, CellOnScreen
<1>14. b[e] # s[e]
  <2>1. d \in 0 .. d
    BY <1>8
  <2>2. QED
    BY <1>9, <1>10, <2>1
<1>15. S!StartsRun(b, s, e)
  <2>1. CASE d = x
    BY <1>12, <1>14, <2>1 DEF S!StartsRun
  <2>2. CASE b[c - d - 1] = s[c - d - 1]
    BY <1>10, <1>14, <2>2 DEF S!StartsRun
  <2>3. QED
    BY <1>8, <2>1, <2>2
<1>16. PICK n \in Nat : n = RunLength(b, s, e)
  BY <1>13, RunOfCell
<1>17. (x - d) + n = TextCols \/ b[e + n] = s[e + n]
  BY <1>12, <1>13, <1>16, RunOfCell
<1>18. n > d
  <2>1. SUFFICES ASSUME n <= d PROVE FALSE
    BY <1>16, <1>8
  <2>2. d - n \in 0 .. d /\ c - (d - n) = e + n
    BY <1>1, <1>8, <1>10, <2>1
  <2>3. b[e + n] # s[e + n]
    BY <1>9, <2>2
  <2>4. (x - d) + n # TextCols
    BY <1>1, <1>8, <2>1
  <2>5. QED
    BY <1>17, <2>3, <2>4
<1>19. c \in e .. e + n - 1
  BY <1>1, <1>8, <1>10, <1>18
<1>20. QED
  BY <1>13, <1>15, <1>16, <1>19 DEF RunCells

(* The bytes that Render sends leave every cell that differed as in b, and
   the others as they were. *)
RenderShown(b, s, q) ==
  \E u \in Terminal :
    /\ Fed(Dec, Terminal, q, S!Render(b, s), u) /\ u.st = "normal"
    /\ u.grid = [k \in S!Cells |-> IF b[k] # s[k] THEN b[k] ELSE q.grid[k]]

LEMMA RenderLeads ==
  ASSUME S!ScreenAssumption, NEW b \in [S!Cells -> Plain], NEW s,
         NEW q \in Terminal, q.st = "normal"
  PROVE  S!Render(b, s) \in Seq(S!Byte) /\ RenderShown(b, s, q)
<1>1. TextCols \in Nat /\ TextRows \in Nat
  BY DEF S!ScreenAssumption
<1>2. PICK n \in Nat : n = TextCols * TextRows
  BY <1>1
<1>3. S!Cells = 0 .. n - 1
  BY <1>2 DEF S!Cells
<1> DEFINE part(c) == IF S!StartsRun(b, s, c - 1) THEN S!Segment(b, s, c - 1) ELSE <<>>
           seqs == [c \in 1 .. n |-> part(c)]
           painted(i) == {k \in S!Cells : \E e \in 0 .. i - 1 : S!StartsRun(b, s, e) /\ k \in RunCells(b, s, e)}
           picture(i) == [k \in S!Cells |-> IF k \in painted(i) THEN b[k] ELSE q.grid[k]]
           J == [i \in 0 .. n |-> {p \in Terminal : p.st = "normal" /\ p.grid = picture(i)}]
<1>4. ASSUME NEW c \in 1 .. n PROVE part(c) \in Seq(S!Byte)
  <2>1. c - 1 \in S!Cells
    BY <1>3
  <2>2. CASE S!StartsRun(b, s, c - 1)
    <3>1. S!Segment(b, s, c - 1) \in Seq(S!Byte)
      BY <2>1, SegmentLeads
    <3>2. QED
      BY <2>2, <3>1
  <2>3. CASE ~ S!StartsRun(b, s, c - 1)
    BY <2>3
  <2>4. QED
    BY <2>2, <2>3
<1>5. seqs \in Seq(Seq(S!Byte)) /\ Len(seqs) = n
  <2> HIDE DEF part
  <2>1. QED
    BY <1>4
<1>6. S!Render(b, s) = S!FlattenSeq(seqs)
  BY <1>2 DEF S!Render
<1>7. IsFlat(seqs, S!Render(b, s), S!Byte)
  <2> HIDE DEF seqs
  <2>1. QED
    BY <1>5, <1>6, ScreenFlat
<1>8. J \in [0 .. n -> SUBSET Terminal]
  OBVIOUS
<1>9. q \in J[0]
  <2>1. painted(0) = {}
    OBVIOUS
  <2>2. q.grid \in [S!Cells -> S!Byte]
    BY DEF Terminal
  <2>3. picture(0) = q.grid
    BY <2>1, <2>2
  <2> HIDE DEF picture
  <2>4. QED
    BY <2>3
<1>10. ASSUME NEW i \in 1 .. n, NEW p \in J[i - 1]
       PROVE  \E t \in J[i] : Fed(Dec, Terminal, p, seqs[i], t)
  <2>1. i - 1 \in 0 .. n /\ i \in 0 .. n /\ i - 1 \in S!Cells
    BY <1>3
  <2>2. p \in Terminal /\ p.st = "normal" /\ p.grid = picture(i - 1)
    <3> HIDE DEF picture
    <3>1. QED
      BY <1>10, <2>1
  <2>3. \A e : e \in 0 .. i - 1 <=> e \in 0 .. (i - 1) - 1 \/ e = i - 1
    OBVIOUS
  <2>4. CASE S!StartsRun(b, s, i - 1)
    <3>1. PICK t \in Terminal :
            /\ Fed(Dec, Terminal, p, S!Segment(b, s, i - 1), t) /\ t.st = "normal"
            /\ t.grid = [k \in S!Cells |-> IF k \in RunCells(b, s, i - 1) THEN b[k] ELSE p.grid[k]]
      <4>1. SegmentShown(b, s, i - 1, p)
        BY <2>1, <2>2, SegmentLeads
      <4>2. QED
        BY <4>1 DEF SegmentShown
    <3>2. seqs[i] = S!Segment(b, s, i - 1)
      BY <2>4
    <3>3. \A k \in S!Cells : k \in painted(i) <=> k \in painted(i - 1) \/ k \in RunCells(b, s, i - 1)
      BY <2>3, <2>4, Zenon
    <3>4. t.grid = picture(i)
      <4> HIDE DEF painted
      <4>1. QED
        BY <2>2, <3>1, <3>3
    <3>5. t \in J[i]
      <4> HIDE DEF picture
      <4>1. QED
        BY <2>1, <3>1, <3>4
    <3> HIDE DEF J
    <3>6. QED
      BY <3>1, <3>2, <3>5
  <2>5. CASE ~ S!StartsRun(b, s, i - 1)
    <3>1. seqs[i] = <<>>
      BY <2>5
    <3>2. \A k \in S!Cells : k \in painted(i) <=> k \in painted(i - 1)
      BY <2>3, <2>5, Zenon
    <3>3. picture(i - 1) = picture(i)
      <4> HIDE DEF painted
      <4>1. QED
        BY <3>2
    <3>4. p \in J[i]
      <4> HIDE DEF picture
      <4>1. QED
        BY <2>1, <2>2, <3>3
    <3>5. Fed(Dec, Terminal, p, <<>>, p)
      BY <2>2, FedNone
    <3> HIDE DEF J
    <3>6. QED
      BY <3>1, <3>4, <3>5
  <2>6. QED
    BY <2>4, <2>5
<1>11. S!Render(b, s) \in Seq(S!Byte) /\ \E t \in J[n] : Fed(Dec, Terminal, q, S!Render(b, s), t)
  <2>1. \A i \in 1 .. n : \A p \in J[i - 1] : \E t \in J[i] : Fed(Dec, Terminal, p, seqs[i], t)
    BY <1>10, Zenon
  <2> HIDE DEF J, seqs
  <2>2. QED
    BY <1>5, <1>7, <1>8, <1>9, <2>1, FedParade
<1>12. PICK u \in J[n] : Fed(Dec, Terminal, q, S!Render(b, s), u)
  BY <1>11, Zenon
<1>13. u \in Terminal /\ u.st = "normal" /\ u.grid = picture(n)
  <2> HIDE DEF picture
  <2>1. n \in 0 .. n
    OBVIOUS
  <2>2. QED
    BY <1>12, <2>1
<1>14. ASSUME NEW k \in S!Cells PROVE k \in painted(n) <=> b[k] # s[k]
  <2>1. ASSUME k \in painted(n) PROVE b[k] # s[k]
    <3>1. PICK e \in 0 .. n - 1 : k \in RunCells(b, s, e)
      BY <2>1, Zenon
    <3>2. QED
      BY <1>3, <3>1, RunOfCell
  <2>2. ASSUME b[k] # s[k] PROVE k \in painted(n)
    BY <1>3, <2>2, InSomeRun, Zenon
  <2>3. QED
    BY <2>1, <2>2
<1>15. u.grid = [k \in S!Cells |-> IF b[k] # s[k] THEN b[k] ELSE q.grid[k]]
  <2> HIDE DEF painted
  <2>1. QED
    BY <1>13, <1>14
<1>16. QED
  BY <1>11, <1>12, <1>13, <1>15 DEF RenderShown

-----------------------------------------------------------------------------
(* The screen while bytes are on their way. *)

Now == [grid |-> grid, col |-> col, row |-> row, st |-> st, plotX |-> plotX]
Later == [grid |-> grid', col |-> col', row |-> row', st |-> st', plotX |-> plotX']

(* What the bytes on their way will leave: the decoder at rest, and what the
   server believes to be shown, unless text or echoes came past it. *)
WillShow(q, w, believes, b) ==
  \E t \in Terminal :
    /\ Fed(Dec, Terminal, q, w, t) /\ t.st = "normal"
    /\ believes => \A c \in S!Cells : b[c] # 0 => t.grid[c] = b[c]

Believes == ~stale /\ echoed = 0

OnTheWay ==
  /\ S!TypeOK /\ Now \in Terminal /\ shown = buf
  /\ WillShow(Now, wire, Believes, buf)

LEMMA PicturesPlain ==
  ASSUME S!ScreenAssumption, NEW p \in Screens
  PROVE  p \in [S!Cells -> Plain] /\ p \in [S!Cells -> S!Byte]
<1>1. p \in [S!Cells -> Plain]
  BY DEF S!ScreenAssumption, Plain
<1>2. QED
  BY <1>1 DEF Plain

LEMMA TypedNow == ASSUME S!TypeOK PROVE Now \in Terminal
BY DEF S!TypeOK, Now, Terminal

LEMMA TypedLater ==
  ASSUME Later \in Terminal, Later.st # "lost", buf' \in Screens, shown' \in [S!Cells -> S!Byte],
         wire' \in Seq(S!Byte), stale' \in BOOLEAN, echoed' \in 0 .. MaxEchoes
  PROVE  S!TypeOK' /\ Now' = Later
<1>1. Now' = Later
  BY DEF Now, Later
<1>2. /\ grid' \in [S!Cells -> S!Byte] /\ col' \in 0 .. TextCols /\ row' \in 0 .. TextRows - 1
      /\ st' \in {"normal", "after1F", "plotRow"} /\ plotX' \in 0 .. TextCols - 1
  BY DEF Later, Terminal
<1>3. QED
  BY <1>1, <1>2 DEF S!TypeOK

LEMMA ScreenStarts == ASSUME S!ScreenAssumption, S!Init PROVE OnTheWay
<1>1. TextCols \in 1 .. 256 /\ TextRows \in 1 .. 256
  BY DEF S!ScreenAssumption
<1>2. buf \in [S!Cells -> Plain] /\ buf \in [S!Cells -> S!Byte]
  BY PicturesPlain DEF S!Init
<1>3. Now \in Terminal /\ Now.st = "normal"
  <2>1. grid \in [S!Cells -> S!Byte]
    BY DEF S!Init, S!Byte
  <2>2. col \in 0 .. TextCols /\ row \in 0 .. TextRows - 1 /\ plotX \in 0 .. TextCols - 1 /\ st = "normal"
    BY <1>1 DEF S!Init
  <2>3. QED
    BY <2>1, <2>2 DEF Now, Terminal
<1>4. S!Render(buf, S!Forgotten) \in Seq(S!Byte) /\ RenderShown(buf, S!Forgotten, Now)
  BY <1>2, <1>3, RenderLeads
<1>5. PICK u \in Terminal :
        /\ Fed(Dec, Terminal, Now, S!Render(buf, S!Forgotten), u) /\ u.st = "normal"
        /\ u.grid = [k \in S!Cells |-> IF buf[k] # S!Forgotten[k] THEN buf[k] ELSE Now.grid[k]]
  BY <1>4 DEF RenderShown
<1>6. \A c \in S!Cells : buf[c] # 0 => u.grid[c] = buf[c]
  BY <1>5 DEF S!Forgotten
<1>7. wire = S!Render(buf, S!Forgotten)
  BY DEF S!Init
<1>8. Fed(Dec, Terminal, Now, wire, u)
  BY <1>5, <1>7
<1>9. WillShow(Now, wire, Believes, buf)
  BY <1>5, <1>6, <1>8 DEF WillShow
<1>10. S!TypeOK
  <2>1. grid \in [S!Cells -> S!Byte] /\ col \in 0 .. TextCols /\ row \in 0 .. TextRows - 1
        /\ plotX \in 0 .. TextCols - 1
    BY <1>3 DEF Now, Terminal
  <2>2. MaxEchoes \in Nat
    BY DEF S!ScreenAssumption
  <2>3. wire \in Seq(S!Byte)
    BY <1>4, <1>7
  <2>4. buf \in Screens /\ shown = buf /\ st = "normal" /\ stale = FALSE /\ echoed = 0
    BY DEF S!Init
  <2>5. echoed \in 0 .. MaxEchoes /\ st \in {"normal", "after1F", "plotRow"}
    BY <2>2, <2>4
  <2>6. QED
    BY <1>2, <2>1, <2>3, <2>4, <2>5 DEF S!TypeOK
<1>11. QED
  BY <1>3, <1>9, <1>10 DEF OnTheWay, S!Init

(* A picture sent over what the server believes, or over nothing known. *)
LEMMA SendShows ==
  ASSUME S!ScreenAssumption, OnTheWay, NEW p \in Screens, NEW s, NEW believes,
         \/ s = S!Forgotten
         \/ s = buf /\ (believes => Believes)
  PROVE  wire \o S!Render(p, s) \in Seq(S!Byte) /\ WillShow(Now, wire \o S!Render(p, s), believes, p)
<1>1. PICK t \in Terminal : /\ Fed(Dec, Terminal, Now, wire, t) /\ t.st = "normal"
                            /\ Believes => \A c \in S!Cells : buf[c] # 0 => t.grid[c] = buf[c]
  BY DEF OnTheWay, WillShow
<1>2. p \in [S!Cells -> Plain]
  BY PicturesPlain
<1>3. S!Render(p, s) \in Seq(S!Byte) /\ RenderShown(p, s, t)
  BY <1>1, <1>2, RenderLeads
<1>4. PICK u \in Terminal :
        /\ Fed(Dec, Terminal, t, S!Render(p, s), u) /\ u.st = "normal"
        /\ u.grid = [k \in S!Cells |-> IF p[k] # s[k] THEN p[k] ELSE t.grid[k]]
  BY <1>3 DEF RenderShown
<1>5. wire \in Seq(S!Byte)
  BY DEF OnTheWay, S!TypeOK
<1>6. Fed(Dec, Terminal, Now, wire \o S!Render(p, s), u)
  BY <1>1, <1>3, <1>4, <1>5, FedJoin
<1>7. ASSUME believes, NEW c \in S!Cells, p[c] # 0 PROVE u.grid[c] = p[c]
  <2>1. CASE s = S!Forgotten
    BY <1>4, <1>7, <2>1 DEF S!Forgotten
  <2>2. CASE s = buf /\ (believes => Believes)
    BY <1>1, <1>4, <1>7, <2>2
  <2>3. QED
    BY <2>1, <2>2
<1>8. wire \o S!Render(p, s) \in Seq(S!Byte)
  BY <1>3, <1>5, ConcatProperties
<1>9. believes => \A c \in S!Cells : p[c] # 0 => u.grid[c] = p[c]
  BY <1>7
<1>10. WillShow(Now, wire \o S!Render(p, s), believes, p)
  BY <1>4, <1>6, <1>9, Zenon DEF WillShow
<1>11. QED
  BY <1>8, <1>10

LEMMA SendHolds ==
  ASSUME S!ScreenAssumption, OnTheWay, NEW p \in Screens, S!Draw(p) \/ S!Redraw(p)
  PROVE  OnTheWay'
<1>1. PICK believes \in BOOLEAN : believes = Believes'
  BY DEF Believes
<1>2. Later = Now /\ buf' = p /\ shown' = p /\ stale' \in BOOLEAN /\ echoed' \in 0 .. MaxEchoes
  <2>1. 0 \in 0 .. MaxEchoes
    BY DEF S!ScreenAssumption
  <2>2. QED
    BY <2>1 DEF S!Draw, S!Redraw, S!cursorVars, OnTheWay, S!TypeOK, Now, Later
<1>3. wire' \in Seq(S!Byte) /\ WillShow(Now, wire', believes, p)
  <2>1. CASE S!Draw(p)
    <3>1. wire' = wire \o S!Render(p, buf) /\ (Believes' <=> Believes)
      BY <2>1 DEF OnTheWay, S!Draw, Believes
    <3>2. /\ wire \o S!Render(p, buf) \in Seq(S!Byte)
          /\ WillShow(Now, wire \o S!Render(p, buf), believes, p)
      BY <1>1, <3>1, SendShows
    <3>3. QED
      BY <3>1, <3>2
  <2>2. CASE S!Redraw(p)
    <3>1. wire' = wire \o S!Render(p, S!Forgotten)
      BY <2>2 DEF S!Redraw
    <3>2. /\ wire \o S!Render(p, S!Forgotten) \in Seq(S!Byte)
          /\ WillShow(Now, wire \o S!Render(p, S!Forgotten), believes, p)
      BY SendShows
    <3>3. QED
      BY <3>1, <3>2
  <2>3. QED
    BY <2>1, <2>2
<1>4. Now \in Terminal /\ Now.st # "lost"
  BY DEF OnTheWay, S!TypeOK, Now
<1>5. p \in [S!Cells -> S!Byte]
  BY PicturesPlain
<1>6. S!TypeOK' /\ Now' = Later
  BY <1>2, <1>3, <1>4, <1>5, TypedLater
<1>7. QED
  BY <1>1, <1>2, <1>3, <1>4, <1>6 DEF OnTheWay

(* A text without Plot leaves the decoder at rest. *)
LEMMA WriteHolds ==
  ASSUME S!ScreenAssumption, OnTheWay, NEW w \in Texts, S!Write(w)
  PROVE  OnTheWay'
<1>1. PICK t \in Terminal : Fed(Dec, Terminal, Now, wire, t) /\ t.st = "normal"
  BY DEF OnTheWay, WillShow
<1>2. w \in Seq(S!Byte) /\ \A i \in 1 .. Len(w) : w[i] \in S!Byte /\ w[i] # S!PlotByte
  BY DEF S!ScreenAssumption
<1> DEFINE J == [i \in 0 .. Len(w) |-> {q \in Terminal : q.st = "normal"}]
<1>3. J \in [0 .. Len(w) -> SUBSET Terminal]
  OBVIOUS
<1>4. t \in J[0]
  BY <1>1, <1>2
<1>5. ASSUME NEW i \in 1 .. Len(w), NEW q \in J[i - 1] PROVE Dec[<<q, w[i]>>] \in J[i]
  <2>1. i \in 0 .. Len(w) /\ i - 1 \in 0 .. Len(w)
    BY <1>2
  <2>2. q \in Terminal /\ q.st = "normal"
    BY <1>5, <2>1
  <2>3. Dec[<<q, w[i]>>] = Put(q, w[i])
    BY <1>2, <2>2, DecTyped DEF Decode
  <2>4. Put(q, w[i]) \in Terminal /\ Put(q, w[i]).st = "normal"
    BY <1>2, <2>2, PutTyped
  <2>5. QED
    BY <2>1, <2>3, <2>4
<1>6. PICK u \in J[Len(w)] : Fed(Dec, Terminal, t, w, u)
  <2>1. \A i \in 1 .. Len(w) : \A q \in J[i - 1] : Dec[<<q, w[i]>>] \in J[i]
    BY <1>5
  <2>2. Dec \in [Terminal \X S!Byte -> Terminal]
    BY DecTyped
  <2> HIDE DEF J
  <2>3. QED
    BY <1>2, <1>3, <1>4, <2>1, <2>2, FedEach
<1>7. u \in Terminal /\ u.st = "normal"
  BY <1>2, <1>6
<1>8. wire \in Seq(S!Byte)
  BY DEF OnTheWay, S!TypeOK
<1>9. Fed(Dec, Terminal, Now, wire \o w, u)
  BY <1>1, <1>2, <1>6, <1>8, FedJoin
<1>10. wire' = wire \o w /\ stale' = TRUE /\ buf' = buf /\ shown' = shown /\ echoed' = echoed
       /\ Later = Now
  BY DEF S!Write, S!cursorVars, Now, Later
<1>11. wire' \in Seq(S!Byte)
  BY <1>2, <1>8, <1>10, ConcatProperties
<1>12. WillShow(Now, wire', Believes', buf)
  BY <1>7, <1>9, <1>10 DEF WillShow, Believes
<1>13. Now \in Terminal /\ Now.st # "lost"
  BY DEF OnTheWay, S!TypeOK, Now
<1>14. S!TypeOK' /\ Now' = Later
  <2>1. buf' \in Screens /\ shown' \in [S!Cells -> S!Byte] /\ stale' \in BOOLEAN /\ echoed' \in 0 .. MaxEchoes
    BY <1>10 DEF OnTheWay, S!TypeOK
  <2>2. QED
    BY <1>10, <1>11, <1>13, <2>1, TypedLater
<1>15. QED
  BY <1>10, <1>12, <1>13, <1>14 DEF OnTheWay

LEMMA PutByteIs ==
  ASSUME S!ScreenAssumption, S!TypeOK, NEW b \in S!Byte, S!PutByte(b), st' = st, plotX' = plotX
  PROVE  Later = Put(Now, b)
<1>1. /\ Now.grid = grid /\ Now.col = col /\ Now.row = row /\ Now.st = st /\ Now.plotX = plotX
  BY DEF Now
<1>2. S!Scrolled = Scroll(grid)
  BY DEF S!Scrolled, Scroll
<1>3. TextCols \in Nat /\ TextRows \in Nat /\ col \in 0 .. TextCols /\ row \in 0 .. TextRows - 1
  BY DEF S!ScreenAssumption, S!TypeOK
<1>4. S!Return = 13 /\ S!LineFeed = 10 /\ S!Backspace = 8
  BY DEF S!Return, S!LineFeed, S!Backspace
<1>5. CASE b = S!Return /\ col' = 0 /\ UNCHANGED <<grid, row>>
  BY <1>5 DEF Put, Now, Later
<1>6. CASE b = S!LineFeed /\ row < TextRows - 1 /\ col' = 0 /\ row' = row + 1 /\ UNCHANGED grid
  <2>1. Put(Now, b) = [Now EXCEPT !.col = 0, !.row = row + 1]
    BY <1>1, <1>4, <1>6 DEF Put
  <2>2. QED
    BY <1>6, <2>1 DEF Now, Later
<1>7. CASE b = S!LineFeed /\ row = TextRows - 1 /\ col' = 0 /\ grid' = S!Scrolled /\ UNCHANGED row
  <2>1. ~ row < TextRows - 1 /\ b # S!Return
    BY <1>3, <1>4, <1>7
  <2>2. Put(Now, b) = [Now EXCEPT !.col = 0, !.grid = Scroll(grid)]
    BY <1>1, <1>7, <2>1 DEF Put
  <2>3. QED
    BY <1>2, <1>7, <2>2 DEF Now, Later
<1>8. CASE /\ b = S!Backspace /\ col > 0
           /\ col' = col - 1 /\ grid' = [grid EXCEPT ![S!CellAt(col - 1, row)] = S!Blank]
           /\ UNCHANGED row
  <2>1. b # S!Return /\ b # S!LineFeed
    BY <1>4, <1>8
  <2>2. Put(Now, b) = [Now EXCEPT !.col = col - 1,
                                  !.grid = [grid EXCEPT ![S!CellAt(col - 1, row)] = S!Blank]]
    BY <1>1, <1>8, <2>1 DEF Put
  <2>3. QED
    BY <1>8, <2>2 DEF Now, Later
<1>9. CASE /\ b \notin {S!Return, S!LineFeed, S!Backspace} /\ col < TextCols
           /\ grid' = [grid EXCEPT ![S!CellAt(col, row)] = b] /\ col' = col + 1
           /\ UNCHANGED row
  BY <1>1, <1>9 DEF Put, Now, Later
<1>10. CASE /\ \/ b = S!Backspace /\ col = 0
               \/ b \notin {S!Return, S!LineFeed, S!Backspace} /\ col = TextCols
            /\ UNCHANGED <<grid, col, row>>
  <2>1. Later = Now
    BY <1>10 DEF Now, Later
  <2>2. Put(Now, b) = Now
    BY <1>1, <1>3, <1>4, <1>10 DEF Put
  <2>3. QED
    BY <2>1, <2>2
<1>11. QED
  BY <1>5, <1>6, <1>7, <1>8, <1>9, <1>10 DEF S!PutByte

(* What comes next depends on the decoder alone. *)
LEMMA SameDecoding ==
  ASSUME S!ScreenAssumption, NEW w \in Seq(S!Byte), NEW q, NEW t, Fed(Dec, Terminal, q, w, t),
         NEW p \in Terminal, p.st = q.st, p.plotX = q.plotX
  PROVE  \E u \in Terminal : Fed(Dec, Terminal, p, w, u) /\ u.st = t.st
<1>1. PICK n \in Nat : n = Len(w)
  OBVIOUS
<1>2. PICK x \in [0 .. n -> Terminal] :
        x[0] = q /\ x[n] = t /\ \A i \in 1 .. n : x[i] = Dec[<<x[i - 1], w[i]>>]
  BY <1>1 DEF Fed
<1> DEFINE J == [i \in 0 .. n |-> {r \in Terminal : r.st = x[i].st /\ r.plotX = x[i].plotX}]
<1>3. J \in [0 .. n -> SUBSET Terminal] /\ p \in J[0]
  BY <1>2
<1>4. ASSUME NEW i \in 1 .. n, NEW r \in J[i - 1] PROVE Dec[<<r, w[i]>>] \in J[i]
  <2>1. i \in 0 .. n /\ i - 1 \in 0 .. n /\ w[i] \in S!Byte
    BY <1>1
  <2>2. PICK y \in Terminal : y = x[i - 1]
    BY <1>2, <2>1
  <2>3. r \in Terminal /\ r.st = y.st /\ r.plotX = y.plotX
    BY <1>4, <2>1, <2>2
  <2>4. x[i] = Decode(y, w[i]) /\ Dec[<<r, w[i]>>] = Decode(r, w[i])
    BY <1>2, <2>1, <2>2, <2>3, DecTyped
  <2>5. Decode(r, w[i]) \in Terminal
    BY <2>1, <2>3, DecodeTyped
  <2>6. Decode(r, w[i]).st = Decode(y, w[i]).st /\ Decode(r, w[i]).plotX = Decode(y, w[i]).plotX
    <3>1. CASE y.st = "normal" /\ w[i] # S!PlotByte
      BY <2>1, <2>2, <2>3, <3>1, PutTyped DEF Decode
    <3>2. CASE y.st = "normal" /\ w[i] = S!PlotByte
      BY <2>3, <3>2 DEF Decode, Terminal
    <3>3. CASE y.st = "after1F" /\ w[i] < TextCols
      BY <2>3, <3>3 DEF Decode, Terminal
    <3>4. CASE y.st = "plotRow"
      BY <2>3, <3>4 DEF Decode, Terminal
    <3>5. CASE y.st # "normal" /\ y.st # "plotRow" /\ ~ (y.st = "after1F" /\ w[i] < TextCols)
      <4>1. Decode(r, w[i]) = [r EXCEPT !.st = "lost"] /\ Decode(y, w[i]) = [y EXCEPT !.st = "lost"]
        BY <2>3, <3>5 DEF Decode
      <4>2. QED
        BY <2>3, <4>1 DEF Terminal
    <3>6. QED
      BY <3>1, <3>2, <3>3, <3>4, <3>5
  <2>7. QED
    BY <2>1, <2>4, <2>5, <2>6
<1>5. \E u \in J[n] : Fed(Dec, Terminal, p, w, u)
  <2>1. \A i \in 1 .. n : \A r \in J[i - 1] : Dec[<<r, w[i]>>] \in J[i]
    BY <1>4
  <2>2. Dec \in [Terminal \X S!Byte -> Terminal]
    BY DecTyped
  <2> HIDE DEF J
  <2>3. QED
    BY <1>1, <1>3, <2>1, <2>2, FedEach
<1>6. PICK u \in J[n] : Fed(Dec, Terminal, p, w, u)
  BY <1>5
<1>7. u \in Terminal /\ u.st = t.st
  BY <1>2, <1>6
<1>8. QED
  BY <1>6, <1>7

LEMMA EchoHolds ==
  ASSUME S!ScreenAssumption, OnTheWay, NEW b \in {43, S!Backspace}, S!Echo(b)
  PROVE  OnTheWay'
<1>1. b \in S!Byte
  BY DEF S!Backspace, S!Byte
<1>2. /\ S!PutByte(b) /\ st' = st /\ plotX' = plotX /\ wire' = wire
      /\ buf' = buf /\ shown' = shown /\ stale' = stale /\ echoed < MaxEchoes /\ echoed' = echoed + 1
  BY DEF S!Echo, S!serverVars
<1>3. Later = Put(Now, b)
  BY <1>1, <1>2, PutByteIs DEF OnTheWay
<1>4. Now \in Terminal /\ Now.st = st /\ st # "lost"
  BY DEF OnTheWay, S!TypeOK, Now
<1>5. Later \in Terminal /\ Later.st = Now.st /\ Later.plotX = Now.plotX
  BY <1>1, <1>3, <1>4, PutTyped
<1>6. S!TypeOK' /\ Now' = Later
  <2>1. echoed \in Nat /\ MaxEchoes \in Nat
    BY DEF OnTheWay, S!TypeOK, S!ScreenAssumption
  <2>2. buf' \in Screens /\ shown' \in [S!Cells -> S!Byte] /\ stale' \in BOOLEAN
        /\ echoed' \in 0 .. MaxEchoes /\ wire' \in Seq(S!Byte)
    BY <1>2, <2>1 DEF OnTheWay, S!TypeOK
  <2>3. QED
    BY <1>4, <1>5, <2>2, TypedLater
<1>7. PICK t \in Terminal : Fed(Dec, Terminal, Now, wire, t) /\ t.st = "normal"
  BY DEF OnTheWay, WillShow
<1>8. wire \in Seq(S!Byte)
  BY DEF OnTheWay, S!TypeOK
<1>9. PICK u \in Terminal : Fed(Dec, Terminal, Later, wire, u) /\ u.st = "normal"
  BY <1>5, <1>7, <1>8, SameDecoding
<1>10. ~ Believes'
  <2>1. echoed \in Nat
    BY DEF OnTheWay, S!TypeOK
  <2>2. QED
    BY <1>2, <2>1 DEF Believes
<1>11. WillShow(Later, wire', Believes', buf')
  BY <1>2, <1>9, <1>10 DEF WillShow
<1>12. QED
  BY <1>2, <1>5, <1>6, <1>11 DEF OnTheWay

LEMMA ReceiveHolds ==
  ASSUME S!ScreenAssumption, OnTheWay, S!Receive
  PROVE  OnTheWay'
<1>1. wire \in Seq(S!Byte) /\ wire # <<>> /\ wire' = Tail(wire)
  BY DEF OnTheWay, S!TypeOK, S!Receive
<1>2. PICK b \in S!Byte : b = Head(wire)
  BY <1>1, HeadTailProperties
<1>3. wire' \in Seq(S!Byte)
  BY <1>1, HeadTailProperties
<1>4. PICK t \in Terminal : /\ Fed(Dec, Terminal, Now, wire, t) /\ t.st = "normal"
                            /\ Believes => \A c \in S!Cells : buf[c] # 0 => t.grid[c] = buf[c]
  BY DEF OnTheWay, WillShow
<1>5. Now \in Terminal /\ Now.st = st /\ Now.plotX = plotX
  BY DEF OnTheWay, Now
<1>6. PICK u \in Terminal : u = Decode(Now, b)
  BY <1>5, DecodeTyped
<1>7. Fed(Dec, Terminal, u, wire', t)
  <2>1. Dec[<<Now, Head(wire)>>] = u
    BY <1>2, <1>5, <1>6, DecTyped
  <2>2. Fed(Dec, Terminal, Dec[<<Now, Head(wire)>>], Tail(wire), t)
    BY <1>1, <1>4, FedTail
  <2>3. QED
    BY <1>1, <2>1, <2>2
<1>8. u.st # "lost"
  BY <1>3, <1>4, <1>7, LostForGood
<1>9. Later = u
  <2>1. st \in {"normal", "after1F", "plotRow"}
    BY DEF OnTheWay, S!TypeOK
  <2>2. CASE st = "normal" /\ b = S!PlotByte
    <3>1. st' = "after1F" /\ UNCHANGED <<grid, col, row, plotX>>
      BY <1>2, <2>2 DEF S!Receive, S!cursorVars
    <3>2. QED
      BY <1>5, <1>6, <2>2, <3>1 DEF Decode, Now, Later
  <2>3. CASE st = "normal" /\ b # S!PlotByte
    <3>1. S!PutByte(b) /\ st' = st /\ plotX' = plotX
      BY <1>2, <2>3 DEF S!Receive
    <3>2. Later = Put(Now, b)
      BY <3>1, PutByteIs DEF OnTheWay
    <3>3. QED
      BY <1>5, <1>6, <2>3, <3>2 DEF Decode
  <2>4. CASE st = "after1F"
    <3>1. st' = "plotRow" /\ plotX' = b /\ UNCHANGED <<grid, col, row>>
      BY <1>2, <2>4 DEF S!Receive, S!cursorVars
    <3>2. b < TextCols
      <4>1. SUFFICES ASSUME ~ b < TextCols PROVE FALSE
        OBVIOUS
      <4>2. u = [Now EXCEPT !.st = "lost"]
        BY <1>5, <1>6, <2>4, <4>1 DEF Decode
      <4>3. QED
        BY <1>5, <1>8, <4>2 DEF Terminal
    <3>3. QED
      BY <1>5, <1>6, <2>4, <3>1, <3>2 DEF Decode, Now, Later
  <2>5. CASE st = "plotRow"
    <3>1. st' = "normal" /\ UNCHANGED <<grid, plotX>> /\ S!SetCursor(plotX, b)
      BY <1>2, <2>5 DEF S!Receive
    <3>2. QED
      BY <1>5, <1>6, <2>5, <3>1 DEF Decode, Now, Later, S!SetCursor
  <2>6. QED
    BY <2>1, <2>2, <2>3, <2>4, <2>5
<1>10. UNCHANGED <<buf, shown, stale, echoed>>
  BY DEF S!Receive, S!serverVars
<1>11. S!TypeOK' /\ Now' = Later
  <2>1. buf' \in Screens /\ shown' \in [S!Cells -> S!Byte] /\ stale' \in BOOLEAN
        /\ echoed' \in 0 .. MaxEchoes
    BY <1>10 DEF OnTheWay, S!TypeOK
  <2>2. QED
    BY <1>3, <1>8, <1>9, <2>1, TypedLater
<1>12. WillShow(u, wire', Believes', buf')
  BY <1>4, <1>7, <1>10 DEF WillShow, Believes
<1>13. QED
  BY <1>9, <1>10, <1>11, <1>12 DEF OnTheWay

LEMMA ScreenStep ==
  ASSUME S!ScreenAssumption, OnTheWay, [S!Next]_screenVars
  PROVE  OnTheWay'
<1>1. CASE UNCHANGED screenVars
  BY <1>1 DEF screenVars, OnTheWay, S!TypeOK, Now, WillShow, Believes
<1>2. QED
  BY <1>1, SendHolds, WriteHolds, EchoHolds, ReceiveHolds DEF S!Next

LEMMA ScreenIsShown ==
  ASSUME S!ScreenAssumption, OnTheWay
  PROVE  S!TypeOK /\ S!TextShown
<1>1. ASSUME wire = <<>>, ~ stale, echoed = 0
      PROVE  st = "normal" /\ \A c \in S!Cells : buf[c] # 0 => grid[c] = buf[c]
  <2>1. PICK t \in Terminal : /\ Fed(Dec, Terminal, Now, wire, t) /\ t.st = "normal"
                              /\ \A c \in S!Cells : buf[c] # 0 => t.grid[c] = buf[c]
    BY <1>1 DEF OnTheWay, WillShow, Believes
  <2>2. t = Now
    BY <1>1, <2>1, FedQuiet
  <2>3. QED
    BY <2>1, <2>2 DEF Now
<1>2. QED
  BY <1>1 DEF S!TextShown, OnTheWay

-----------------------------------------------------------------------------
(* The graphics screen. *)

Octet == 0 .. 255

Header == {h \in Seq(Octet) : Len(h) <= 4}

Receiver ==
  [st : {"normal", "after1F", "plotRow", "opcode", "args", "blit"},
   graphic : BOOLEAN, text : Seq(Octet), vram : [G!Vram -> Octet],
   penX : Octet, penY : Octet, ink : 0 .. 7, color : BOOLEAN, paper : BOOLEAN,
   op : Octet, args : Seq(Octet),
   header : Header, dst : Nat, remain : Nat, run : Nat]

LEMMA WithBitTyped ==
  ASSUME NEW v \in 0 .. 255, NEW lit
  PROVE  /\ G!WithBit(v, lit, 1) \in 0 .. 255 /\ G!WithBit(v, lit, 2) \in 0 .. 255
         /\ G!WithBit(v, lit, 4) \in 0 .. 255 /\ G!WithBit(v, lit, 8) \in 0 .. 255
         /\ G!WithBit(v, lit, 16) \in 0 .. 255 /\ G!WithBit(v, lit, 32) \in 0 .. 255
BY DEF G!WithBit

LEMMA WithBitsTyped ==
  ASSUME NEW v \in 0 .. 255, NEW bits
  PROVE  G!WithBits(v, bits) \in 0 .. 255
<1>1. PICK v1 \in 0 .. 255 : v1 = G!WithBit(v, 0 \in bits, 1)
  BY WithBitTyped
<1>2. PICK v2 \in 0 .. 255 : v2 = G!WithBit(v1, 1 \in bits, 2)
  BY WithBitTyped
<1>3. PICK v3 \in 0 .. 255 : v3 = G!WithBit(v2, 2 \in bits, 4)
  BY WithBitTyped
<1>4. PICK v4 \in 0 .. 255 : v4 = G!WithBit(v3, 3 \in bits, 8)
  BY WithBitTyped
<1>5. PICK v5 \in 0 .. 255 : v5 = G!WithBit(v4, 4 \in bits, 16)
  BY WithBitTyped
<1>6. G!WithBit(v5, 5 \in bits, 32) \in 0 .. 255
  BY WithBitTyped
<1>7. QED
  BY <1>1, <1>2, <1>3, <1>4, <1>5, <1>6 DEF G!WithBits

LEMMA LitTyped ==
  ASSUME G!HiresAssumption, NEW r \in Receiver, NEW points
  PROVE  G!Lit(r, points) \in [G!Vram -> Octet]
<1>1. r.ink \in Octet /\ \A c \in G!Vram : r.vram[c] \in 0 .. 255
  BY DEF Receiver, Octet
<1>2. ASSUME NEW c \in G!Vram
      PROVE  (IF c % RowBytes = 0 /\ c \div RowBytes \in G!Inked(r, points) THEN r.ink
              ELSE G!WithBits(r.vram[c], G!Bits(G!Kept(r, points), c))) \in Octet
  BY <1>1, WithBitsTyped DEF Octet
<1>3. QED
  BY <1>2 DEF G!Lit

LEMMA DrawnTyped ==
  ASSUME G!HiresAssumption, NEW r \in Receiver, NEW points
  PROVE  G!Drawn(r, points) \in Receiver
BY LitTyped DEF G!Drawn, Receiver

LEMMA PenTyped ==
  ASSUME NEW r \in Receiver, NEW x \in Octet, NEW y \in Octet
  PROVE  G!PenAt(r, x, y) \in Receiver
BY DEF G!PenAt, Receiver

LEMMA BlankTyped ==
  ASSUME G!HiresAssumption
  PROVE  G!Blank \in [G!Vram -> Octet] /\ G!Rest \in Receiver
<1>1. G!Blank \in [G!Vram -> Octet]
  BY DEF G!Blank, G!Empty, Octet
<1>2. <<>> \in Seq(Octet) /\ <<>> \in Header
  BY DEF Header
<1>3. 0 \in Octet /\ 7 \in 0 .. 7 /\ 0 \in Nat
  BY DEF Octet
<1>4. QED
  BY <1>1, <1>2, <1>3 DEF G!Rest, G!HiEnd, Receiver

LEMMA NeedIs ==
  ASSUME NEW op \in Octet
  PROVE  /\ op \in {2, 3, 21} => G!Need(op) = 1
         /\ op \in 16 .. 20 => G!Need(op) = 2
         /\ op = 22 => G!Need(op) = 3
         /\ ~ (op \in {2, 3, 21, 22} \/ op \in 16 .. 20) => G!Need(op) = 0
BY DEF G!Need, G!HiInk, G!HiPaper, G!HiCircle, G!HiCurset, G!HiFillBox, G!HiChar, Octet

LEMMA NeedRange == ASSUME NEW op \in Octet PROVE G!Need(op) \in 0 .. 3
<1>1. CASE op \in {2, 3, 21}
  BY <1>1, NeedIs
<1>2. CASE op \in 16 .. 20
  BY <1>2, NeedIs
<1>3. CASE op = 22
  BY <1>3, NeedIs
<1>4. CASE ~ (op \in {2, 3, 21, 22} \/ op \in 16 .. 20)
  BY <1>4, NeedIs
<1>5. QED
  BY <1>1, <1>2, <1>3, <1>4

(* Exec, primitive by primitive. *)
LEMMA ExecOn ==
  ASSUME NEW r, NEW a
  PROVE  G!Exec(r, 1, a) =
           [r EXCEPT !.vram = G!Blank, !.penX = 0, !.penY = 0, !.ink = 7, !.color = FALSE,
                     !.paper = FALSE, !.graphic = TRUE,
                     !.text = IF kind = "oric" THEN <<>> ELSE r.text]
BY DEF G!Exec, G!HiOn, G!HiInk, G!HiPaper, G!HiCurset, G!HiPoint, G!HiLine, G!HiBox, G!HiFillBox, G!HiCircle, G!HiChar

LEMMA ExecInk ==
  ASSUME NEW r, NEW a
  PROVE  G!Exec(r, 2, a) = [r EXCEPT !.ink = a[1] % 8, !.color = TRUE]
BY DEF G!Exec, G!HiOn, G!HiInk, G!HiPaper, G!HiCurset, G!HiPoint, G!HiLine, G!HiBox, G!HiFillBox, G!HiCircle, G!HiChar

Papered(r, v) ==
  [r EXCEPT !.paper = TRUE, !.vram = [c \in G!Vram |-> IF c % RowBytes = 0 THEN v ELSE r.vram[c]]]

LEMMA ExecPaper ==
  ASSUME NEW r, NEW a
  PROVE  G!Exec(r, 3, a) = Papered(r, 16 + (a[1] % 8))
BY DEF Papered, G!Exec, G!HiOn, G!HiInk, G!HiPaper, G!HiCurset, G!HiPoint, G!HiLine, G!HiBox, G!HiFillBox, G!HiCircle, G!HiChar

(* The points that a primitive lights on its way to a new position. *)
WayPoints(op, x, y, a) ==
  IF op = 16 THEN {}
  ELSE IF op = 17 THEN {<<a[1], a[2]>>}
  ELSE IF op = 18 THEN G!Stroke(x, y, a[1], a[2])
  ELSE IF op = 19 THEN G!Frame(x, y, a[1], a[2])
  ELSE G!Fill(x, y, a[1], a[2])

LEMMA ExecWay ==
  ASSUME NEW r, NEW op \in 17 .. 20, NEW a
  PROVE  G!Exec(r, op, a) = G!PenAt(G!Drawn(r, WayPoints(op, r.penX, r.penY, a)), a[1], a[2])
<1> USE DEF G!HiOn, G!HiInk, G!HiPaper, G!HiCurset, G!HiPoint, G!HiLine, G!HiBox, G!HiFillBox, G!HiCircle, G!HiChar
<1>1. CASE op = 17
  BY <1>1 DEF G!Exec, WayPoints
<1>2. CASE op = 18
  BY <1>2 DEF G!Exec, WayPoints
<1>3. CASE op = 19
  BY <1>3 DEF G!Exec, WayPoints
<1>4. CASE op = 20
  BY <1>4 DEF G!Exec, WayPoints
<1>5. QED
  BY <1>1, <1>2, <1>3, <1>4

LEMMA ExecCurset == ASSUME NEW r, NEW a PROVE G!Exec(r, 16, a) = G!PenAt(r, a[1], a[2])
BY DEF G!Exec, G!HiOn, G!HiInk, G!HiPaper, G!HiCurset, G!HiPoint, G!HiLine, G!HiBox, G!HiFillBox, G!HiCircle, G!HiChar

LEMMA ExecCircle ==
  ASSUME NEW r, NEW a
  PROVE  G!Exec(r, 21, a) = G!Drawn(r, G!Circumference(r.penX, r.penY, a[1]))
BY DEF G!Exec, G!HiOn, G!HiInk, G!HiPaper, G!HiCurset, G!HiPoint, G!HiLine, G!HiBox, G!HiFillBox, G!HiCircle, G!HiChar

CharPoints(a) == {<<a[1] + g[1], a[2] + g[2]>> : g \in Glyph}

LEMMA ExecChar ==
  ASSUME NEW r, NEW a
  PROVE  G!Exec(r, 22, a) = IF a[3] % 128 < 32 THEN r ELSE G!Drawn(r, CharPoints(a))
BY DEF CharPoints, G!Exec, G!HiOn, G!HiInk, G!HiPaper, G!HiCurset, G!HiPoint, G!HiLine, G!HiBox, G!HiFillBox, G!HiCircle, G!HiChar

LEMMA ExecElse ==
  ASSUME NEW r, NEW op \in Octet, op \notin {1, 2, 3, 16, 17, 18, 19, 20, 21, 22}, NEW a
  PROVE  G!Exec(r, op, a) = r
BY DEF G!Exec, G!HiOn, G!HiInk, G!HiPaper, G!HiCurset, G!HiPoint, G!HiLine, G!HiBox, G!HiFillBox, G!HiCircle, G!HiChar

LEMMA ExecTyped ==
  ASSUME G!HiresAssumption, NEW r \in Receiver, NEW op \in Octet, NEW a \in Seq(Octet),
         Len(a) >= G!Need(op)
  PROVE  G!Exec(r, op, a) \in Receiver
<1>1. op \in {2, 3, 21} => a[1] \in Octet
  BY NeedIs
<1>2. op \in 16 .. 20 => a[1] \in Octet /\ a[2] \in Octet
  BY NeedIs
<1>3. CASE op = 1
  <2>1. G!Blank \in [G!Vram -> Octet] /\ <<>> \in Seq(Octet)
    BY BlankTyped
  <2>0. 0 \in Octet /\ 7 \in 0 .. 7
    BY DEF Octet
  <2>2. PICK text \in Seq(Octet) : text = IF kind = "oric" THEN <<>> ELSE r.text
    BY <2>1 DEF Receiver
  <2>3. PICK r1 \in Receiver : r1 = [r EXCEPT !.vram = G!Blank, !.penX = 0, !.penY = 0, !.ink = 7]
    BY <2>1, <2>0 DEF Receiver
  <2>4. PICK r2 \in Receiver :
          r2 = [r1 EXCEPT !.color = FALSE, !.paper = FALSE, !.graphic = TRUE, !.text = text]
    BY <2>2 DEF Receiver
  <2>5. r2 = [r EXCEPT !.vram = G!Blank, !.penX = 0, !.penY = 0, !.ink = 7, !.color = FALSE,
                       !.paper = FALSE, !.graphic = TRUE, !.text = text]
    BY <2>3, <2>4 DEF Receiver
  <2>6. QED
    BY <1>3, <2>2, <2>5, ExecOn
<1>4. CASE op = 2
  <2>1. a[1] % 8 \in 0 .. 7
    <3>1. a[1] \in Octet
      BY <1>1, <1>4
    <3>2. PICK n \in 0 .. 255 : n = a[1]
      BY <3>1 DEF Octet
    <3>3. n % 8 \in 0 .. 7
      OBVIOUS
    <3>4. QED
      BY <3>2, <3>3
  <2>2. [r EXCEPT !.ink = a[1] % 8, !.color = TRUE] \in Receiver
    BY <2>1 DEF Receiver
  <2>3. QED
    BY <1>4, <2>2, ExecInk
<1>5. CASE op = 3
  <2>1. PICK v \in Octet : v = 16 + (a[1] % 8)
    <3>1. a[1] \in Octet
      BY <1>1, <1>5
    <3>2. PICK n \in 0 .. 255 : n = a[1]
      BY <3>1 DEF Octet
    <3>3. 16 + (n % 8) \in Octet
      BY DEF Octet
    <3>4. QED
      BY <3>2, <3>3
  <2>2. [c \in G!Vram |-> IF c % RowBytes = 0 THEN v ELSE r.vram[c]] \in [G!Vram -> Octet]
    BY DEF Receiver
  <2>3. Papered(r, v) \in Receiver
    BY <2>2 DEF Papered, Receiver
  <2>4. QED
    BY <1>5, <2>1, <2>3, ExecPaper
<1>6. CASE op \in 16 .. 20
  <2>1. op = 16 \/ op \in 17 .. 20
    BY <1>6
  <2>2. \A points : G!PenAt(G!Drawn(r, points), a[1], a[2]) \in Receiver
    BY <1>2, <1>6, DrawnTyped, PenTyped
  <2>3. G!PenAt(r, a[1], a[2]) \in Receiver
    BY <1>2, <1>6, PenTyped
  <2>4. op = 16 => G!Exec(r, op, a) = G!PenAt(r, a[1], a[2])
    BY ExecCurset
  <2>5. op \in 17 .. 20 =>
          G!Exec(r, op, a) = G!PenAt(G!Drawn(r, WayPoints(op, r.penX, r.penY, a)), a[1], a[2])
    BY ExecWay
  <2>6. QED
    BY <2>1, <2>2, <2>3, <2>4, <2>5
<1>7. CASE op = 21
  <2>1. G!Exec(r, op, a) = G!Drawn(r, G!Circumference(r.penX, r.penY, a[1]))
    BY <1>7, ExecCircle
  <2>2. QED
    BY <2>1, DrawnTyped
<1>8. CASE op = 22
  <2>1. G!Exec(r, op, a) = IF a[3] % 128 < 32 THEN r ELSE G!Drawn(r, CharPoints(a))
    BY <1>8, ExecChar
  <2>2. G!Drawn(r, CharPoints(a)) \in Receiver
    BY DrawnTyped
  <2>3. QED
    BY <2>1, <2>2
<1>9. CASE op \notin {1, 2, 3, 16, 17, 18, 19, 20, 21, 22}
  BY <1>9, ExecElse
<1>10. QED
  BY <1>3, <1>4, <1>5, <1>6, <1>7, <1>8, <1>9

(* The two terminals, byte by byte. *)
LEMMA FeedNormal ==
  ASSUME NEW r \in Receiver, NEW b \in Octet, r.st = "normal"
  PROVE  G!Feed(r, b) = IF b = 31 THEN [r EXCEPT !.st = "after1F"]
                        ELSE [r EXCEPT !.text = Append(r.text, b)]
BY DEF G!Feed, G!PlotByte

LEMMA FeedOther ==
  ASSUME NEW r \in Receiver, NEW b \in Octet
  PROVE  /\ r.st = "after1F" => G!Feed(r, b) = G!Command(r, b)
         /\ r.st = "plotRow" => G!Feed(r, b) = [r EXCEPT !.st = "normal"]
         /\ r.st = "opcode" => G!Feed(r, b) = G!Opcode(r, b)
         /\ r.st = "args" => G!Feed(r, b) = G!Argument(r, b)
<1>1. CASE r.st = "after1F"
  BY <1>1 DEF G!Feed
<1>2. CASE r.st = "plotRow"
  BY <1>2 DEF G!Feed
<1>3. CASE r.st = "opcode"
  BY <1>3 DEF G!Feed
<1>4. CASE r.st = "args"
  BY <1>4 DEF G!Feed
<1>5. QED
  BY <1>1, <1>2, <1>3, <1>4

LEMMA HeaderLength ==
  ASSUME NEW r \in Receiver
  PROVE  r.header \in Seq(Octet) /\ Len(r.header) \in 0 .. 4
<1>1. PICK h \in Seq(Octet) : h = r.header /\ Len(h) <= 4
  BY DEF Receiver, Header
<1>2. PICK n \in Nat : n = Len(h)
  BY <1>1, LenProperties
<1>0. n <= 4
  BY <1>1, <1>2
<1>3. Len(h) \in 0 .. 4
  BY <1>0, <1>2
<1>4. QED
  BY <1>1, <1>3

LEMMA FeedBlit ==
  ASSUME NEW r \in Receiver, NEW b \in Octet, r.st = "blit"
  PROVE  /\ Len(r.header) < 4 => G!Feed(r, b) = G!BlitHeader(r, b)
         /\ Len(r.header) = 4 /\ r.run = 0 => G!Feed(r, b) = G!BlitCount(r, b)
         /\ Len(r.header) = 4 /\ r.run # 0 => G!Feed(r, b) = G!BlitValue(r, b)
<1>1. PICK run \in Nat : run = r.run
  BY DEF Receiver
<1>2. PICK n \in 0 .. 4 : n = Len(r.header)
  BY HeaderLength
<1>3. run > 0 <=> run # 0
  OBVIOUS
<1>4. CASE n < 4
  <2>1. n # 4
    BY <1>4
  <2>2. QED
    BY <1>2, <1>4, <2>1 DEF G!Feed
<1>5. CASE n = 4 /\ run = 0
  <2>1. ~ n < 4
    BY <1>5
  <2>2. QED
    BY <1>1, <1>2, <1>5, <2>1 DEF G!Feed
<1>6. CASE n = 4 /\ run # 0
  <2>1. ~ n < 4
    BY <1>6
  <2>2. QED
    BY <1>1, <1>2, <1>3, <1>6, <2>1 DEF G!Feed
<1>7. QED
  BY <1>1, <1>2, <1>4, <1>5, <1>6

LEMMA CommandTyped ==
  ASSUME G!HiresAssumption, NEW r \in Receiver, NEW b \in Octet
  PROVE  G!Command(r, b) \in Receiver
<1>1. [G!Rest EXCEPT !.st = "opcode", !.graphic = TRUE] \in Receiver
  BY BlankTyped DEF Receiver
<1>2. [r EXCEPT !.st = "opcode"] \in Receiver
  BY DEF Receiver
<1>3. [r EXCEPT !.st = "normal", !.graphic = FALSE, !.text = <<>>] \in Receiver
  BY EmptySeq DEF Receiver
<1>4. [r EXCEPT !.st = "plotRow"] \in Receiver
  BY DEF Receiver
<1>5. QED
  BY <1>1, <1>2, <1>3, <1>4 DEF G!Command

LEMMA OpcodeEnd == ASSUME NEW r PROVE G!Opcode(r, 0) = [r EXCEPT !.st = "normal"]
<1>1. G!Need(0) = 0
  BY NeedIs DEF Octet
<1>2. QED
  BY <1>1 DEF G!Opcode, G!HiEnd, G!HiBlit

LEMMA OpcodeBlit == ASSUME NEW r PROVE G!Opcode(r, 32) = [r EXCEPT !.st = "blit", !.header = <<>>]
<1>1. G!Need(32) = 0
  BY NeedIs DEF Octet
<1>2. QED
  BY <1>1 DEF G!Opcode, G!HiEnd, G!HiBlit

LEMMA OpcodeElse ==
  ASSUME NEW r, NEW b \in Octet, b # 0, b # 32
  PROVE  G!Opcode(r, b) = IF G!Need(b) > 0 THEN [r EXCEPT !.st = "args", !.op = b, !.args = <<>>]
                          ELSE G!Exec(r, b, <<>>)
BY DEF G!Opcode, G!HiEnd, G!HiBlit

LEMMA OpcodeTyped ==
  ASSUME G!HiresAssumption, NEW r \in Receiver, NEW b \in Octet
  PROVE  G!Opcode(r, b) \in Receiver
<1>1. <<>> \in Seq(Octet) /\ <<>> \in Header /\ Len(<<>>) = 0
  BY DEF Header
<1>2. CASE b = 0
  <2>1. [r EXCEPT !.st = "normal"] \in Receiver
    BY DEF Receiver
  <2>2. QED
    BY <1>2, <2>1, OpcodeEnd
<1>3. CASE b = 32
  <2>1. [r EXCEPT !.st = "blit", !.header = <<>>] \in Receiver
    BY <1>1 DEF Receiver
  <2>2. QED
    BY <1>3, <2>1, OpcodeBlit
<1>4. CASE b # 0 /\ b # 32
  <2>1. [r EXCEPT !.st = "args", !.op = b, !.args = <<>>] \in Receiver
    BY <1>1 DEF Receiver
  <2>2. ~ G!Need(b) > 0 => G!Exec(r, b, <<>>) \in Receiver
    <3>1. ~ G!Need(b) > 0 => Len(<<>>) >= G!Need(b)
      BY <1>1, NeedRange
    <3>2. QED
      BY <1>1, <3>1, ExecTyped
  <2>3. QED
    BY <1>4, <2>1, <2>2, OpcodeElse
<1>5. QED
  BY <1>2, <1>3, <1>4

LEMMA ArgumentTyped ==
  ASSUME G!HiresAssumption, NEW r \in Receiver, NEW b \in Octet
  PROVE  G!Argument(r, b) \in Receiver
<1>1. r.args \in Seq(Octet) /\ r.op \in Octet
  BY DEF Receiver
<1>2. PICK a \in Seq(Octet) : a = Append(r.args, b)
  <2>1. Append(r.args, b) \in Seq(Octet)
    BY <1>1, AppendProperties
  <2>2. QED
    BY <2>1
<1>3. CASE Len(a) < G!Need(r.op)
  <2>1. G!Argument(r, b) = [r EXCEPT !.args = a]
    BY <1>2, <1>3 DEF G!Argument
  <2>2. QED
    BY <2>1 DEF Receiver
<1>4. CASE ~ Len(a) < G!Need(r.op)
  <2>1. G!Need(r.op) \in 0 .. 3 /\ Len(a) \in Nat
    BY <1>1, <1>2, NeedRange
  <2>2. Len(a) >= G!Need(r.op)
    BY <1>4, <2>1
  <2>3. PICK u \in Receiver : u = G!Exec(r, r.op, a)
    BY <1>1, <2>2, ExecTyped
  <2>4. G!Argument(r, b) = [u EXCEPT !.st = "opcode", !.args = <<>>]
    BY <1>2, <1>4, <2>3 DEF G!Argument
  <2>5. <<>> \in Seq(Octet)
    OBVIOUS
  <2>6. QED
    BY <2>4, <2>5 DEF Receiver
<1>5. QED
  BY <1>3, <1>4

(* A byte of a blit: of its header, a count, or a value. *)
BlitBegun(r, h, from, n) ==
  [r EXCEPT !.header = h, !.dst = from, !.remain = n, !.run = 0,
            !.st = IF kind = "oterm" /\ n = 0 THEN "opcode" ELSE "blit"]

LEMMA BlitHeaderIs ==
  ASSUME NEW r \in Receiver, NEW b \in Octet, NEW h, h = Append(r.header, b)
  PROVE  G!BlitHeader(r, b) = IF Len(h) < 4 THEN [r EXCEPT !.header = h]
                              ELSE BlitBegun(r, h, h[1] + Base * h[2], h[3] + Base * h[4])
BY DEF G!BlitHeader, BlitBegun

LEMMA BlitHeaderTyped ==
  ASSUME G!HiresAssumption, NEW r \in Receiver, NEW b \in Octet, Len(r.header) < 4
  PROVE  G!BlitHeader(r, b) \in Receiver
<1>1. PICK h \in Seq(Octet) : h = Append(r.header, b)
  <2>1. Append(r.header, b) \in Seq(Octet)
    BY HeaderLength, AppendProperties
  <2>2. QED
    BY <2>1
<1>2. Len(h) = Len(r.header) + 1
  BY <1>1, HeaderLength, AppendProperties
<1>3. PICK n \in 1 .. 4 : n = Len(h)
  <2>1. PICK m \in 0 .. 4 : m = Len(r.header)
    BY HeaderLength
  <2>2. m + 1 \in 1 .. 4
    BY <2>1, <1>2
  <2>3. QED
    BY <1>2, <2>1, <2>2
<1>4. h \in Header
  <2>1. h \in Seq(Octet) /\ n <= 4 /\ n = Len(h)
    BY <1>1, <1>3
  <2>2. QED
    BY <2>1 DEF Header
<1>5. CASE Len(h) < 4
  <2>1. G!BlitHeader(r, b) = [r EXCEPT !.header = h]
    BY <1>1, <1>5, BlitHeaderIs
  <2>2. QED
    BY <1>4, <2>1 DEF Receiver
<1>6. CASE ~ Len(h) < 4
  <2>1. Len(h) = 4
    <3>1. ~ n < 4
      BY <1>3, <1>6
    <3>2. n = 4
      BY <3>1
    <3>3. QED
      BY <1>3, <3>2
  <2>2. h[1] \in Octet /\ h[2] \in Octet /\ h[3] \in Octet /\ h[4] \in Octet
    BY <1>1, <2>1
  <2>3. Base \in Nat
    BY DEF G!HiresAssumption
  <2>4. \A x \in Octet, y \in Octet : x + Base * y \in Nat
    BY <2>3 DEF Octet
  <2>5. PICK from \in Nat : from = h[1] + Base * h[2]
    BY <2>2, <2>4
  <2>6. PICK size \in Nat : size = h[3] + Base * h[4]
    BY <2>2, <2>4
  <2>7. G!BlitHeader(r, b) = BlitBegun(r, h, from, size)
    BY <1>1, <1>6, <2>5, <2>6, BlitHeaderIs
  <2>8. PICK st1 \in {"opcode", "blit"} : st1 = IF kind = "oterm" /\ size = 0 THEN "opcode" ELSE "blit"
    OBVIOUS
  <2>9. [r EXCEPT !.header = h, !.dst = from, !.remain = size, !.run = 0, !.st = st1] \in Receiver
    BY <1>4, <2>8 DEF Receiver
  <2>10. QED
    BY <2>7, <2>8, <2>9 DEF BlitBegun
<1>7. QED
  BY <1>5, <1>6

LEMMA BlitCountTyped ==
  ASSUME NEW r \in Receiver, NEW b \in Octet
  PROVE  G!BlitCount(r, b) \in Receiver
<1>1. PICK n \in Nat : n = b
  BY DEF Octet
<1>2. PICK m \in Nat : m = G!Larger(b, 1)
  BY <1>1 DEF G!Larger
<1>3. [r EXCEPT !.run = m] \in Receiver /\ [r EXCEPT !.run = n] \in Receiver
  BY DEF Receiver
<1>4. [r EXCEPT !.st = "opcode"] \in Receiver
  BY DEF Receiver
<1>5. QED
  BY <1>1, <1>2, <1>3, <1>4 DEF G!BlitCount

(* The byte b, n times from the position d on. *)
Run(v, d, n, b) == [c \in G!Vram |-> IF c \in d .. d + n - 1 THEN b ELSE v[c]]

LEMMA BlitValueIs ==
  ASSUME NEW r \in Receiver, NEW b, NEW n \in Nat, n = G!Smaller(r.run, r.remain)
  PROVE  G!BlitValue(r, b) =
           IF kind = "oterm"
           THEN [r EXCEPT !.dst = r.dst + n, !.remain = r.remain - n, !.run = 0,
                          !.vram = Run(r.vram, r.dst, n, b),
                          !.st = IF r.remain - n = 0 THEN "opcode" ELSE "blit"]
           ELSE [r EXCEPT !.dst = r.dst + n, !.remain = r.remain - n, !.run = r.run - n,
                          !.vram = Run(r.vram, r.dst, n, b),
                          !.st = IF r.run - n > 0 THEN "opcode" ELSE "blit"]
<1>1. PICK w : w = [r EXCEPT !.dst = r.dst + n, !.remain = r.remain - n, !.run = r.run - n,
                             !.vram = Run(r.vram, r.dst, n, b)]
  OBVIOUS
<1>2. w.remain = r.remain - n /\ w.run = r.run - n
  BY <1>1 DEF Receiver
<1>3. G!BlitValue(r, b) =
        IF kind = "oterm"
        THEN [w EXCEPT !.run = 0, !.st = IF w.remain = 0 THEN "opcode" ELSE "blit"]
        ELSE [w EXCEPT !.st = IF w.run > 0 THEN "opcode" ELSE "blit"]
  BY <1>1 DEF G!BlitValue, Run
<1>4. ASSUME NEW x
      PROVE  [w EXCEPT !.run = 0, !.st = x] =
               [r EXCEPT !.dst = r.dst + n, !.remain = r.remain - n, !.run = 0,
                         !.vram = Run(r.vram, r.dst, n, b), !.st = x]
  BY <1>1 DEF Receiver
<1>5. ASSUME NEW x
      PROVE  [w EXCEPT !.st = x] =
               [r EXCEPT !.dst = r.dst + n, !.remain = r.remain - n, !.run = r.run - n,
                         !.vram = Run(r.vram, r.dst, n, b), !.st = x]
  BY <1>1 DEF Receiver
<1>6. QED
  BY <1>2, <1>3, <1>4, <1>5

LEMMA WrittenTyped ==
  ASSUME NEW r \in Receiver, NEW d \in Nat, NEW m \in Nat, NEW u \in Nat,
         NEW v \in [G!Vram -> Octet], NEW s \in {"opcode", "blit"}
  PROVE  [r EXCEPT !.dst = d, !.remain = m, !.run = u, !.vram = v, !.st = s] \in Receiver
<1>1. PICK w \in Receiver : w = [r EXCEPT !.dst = d, !.remain = m, !.run = u]
  <2>1. [r EXCEPT !.dst = d, !.remain = m, !.run = u] \in Receiver
    BY DEF Receiver
  <2>2. QED
    BY <2>1
<1>2. [w EXCEPT !.vram = v, !.st = s] \in Receiver
  BY DEF Receiver
<1>3. [w EXCEPT !.vram = v, !.st = s] =
        [r EXCEPT !.dst = d, !.remain = m, !.run = u, !.vram = v, !.st = s]
  BY <1>1 DEF Receiver
<1>4. QED
  BY <1>2, <1>3

LEMMA BlitValueTyped ==
  ASSUME G!HiresAssumption, NEW r \in Receiver, NEW b \in Octet
  PROVE  G!BlitValue(r, b) \in Receiver
<1>1. PICK run \in Nat, remain \in Nat, dst \in Nat : run = r.run /\ remain = r.remain /\ dst = r.dst
  BY DEF Receiver
<1>2. PICK n \in Nat : n = G!Smaller(run, remain) /\ n <= run /\ n <= remain
  BY DEF G!Smaller
<1>3. PICK d1 \in Nat, r1 \in Nat, u1 \in Nat : d1 = dst + n /\ r1 = remain - n /\ u1 = run - n
  BY <1>2
<1>4. PICK v \in [G!Vram -> Octet] : v = Run(r.vram, r.dst, n, b)
  <2>1. Run(r.vram, r.dst, n, b) \in [G!Vram -> Octet]
    BY DEF Run, Receiver
  <2>2. QED
    BY <2>1
<1>5. PICK s1 \in {"opcode", "blit"} : s1 = IF r1 = 0 THEN "opcode" ELSE "blit"
  OBVIOUS
<1>6. PICK s2 \in {"opcode", "blit"} : s2 = IF u1 > 0 THEN "opcode" ELSE "blit"
  OBVIOUS
<1>7. [r EXCEPT !.dst = d1, !.remain = r1, !.run = 0, !.vram = v, !.st = s1] \in Receiver
  <2>1. PICK z \in Nat : z = 0
    OBVIOUS
  <2>2. [r EXCEPT !.dst = d1, !.remain = r1, !.run = z, !.vram = v, !.st = s1] \in Receiver
    BY <1>3, <1>4, <1>5, WrittenTyped
  <2>3. QED
    BY <2>1, <2>2
<1>8. [r EXCEPT !.dst = d1, !.remain = r1, !.run = u1, !.vram = v, !.st = s2] \in Receiver
  BY <1>3, <1>4, <1>6, WrittenTyped
<1>9. n = G!Smaller(r.run, r.remain)
  BY <1>1, <1>2
<1>10. r.dst + n = d1 /\ r.remain - n = r1 /\ r.run - n = u1
  BY <1>1, <1>3
<1>11. G!BlitValue(r, b) =
         IF kind = "oterm"
         THEN [r EXCEPT !.dst = r.dst + n, !.remain = r.remain - n, !.run = 0,
                        !.vram = Run(r.vram, r.dst, n, b),
                        !.st = IF r.remain - n = 0 THEN "opcode" ELSE "blit"]
         ELSE [r EXCEPT !.dst = r.dst + n, !.remain = r.remain - n, !.run = r.run - n,
                        !.vram = Run(r.vram, r.dst, n, b),
                        !.st = IF r.run - n > 0 THEN "opcode" ELSE "blit"]
  BY <1>2, <1>9, BlitValueIs
<1>12. G!BlitValue(r, b) = IF kind = "oterm"
         THEN [r EXCEPT !.dst = d1, !.remain = r1, !.run = 0, !.vram = v, !.st = s1]
         ELSE [r EXCEPT !.dst = d1, !.remain = r1, !.run = u1, !.vram = v, !.st = s2]
  BY <1>4, <1>5, <1>6, <1>10, <1>11
<1>13. QED
  BY <1>7, <1>8, <1>12

LEMMA FeedTyped ==
  ASSUME G!HiresAssumption, NEW r \in Receiver, NEW b \in Octet
  PROVE  G!Feed(r, b) \in Receiver
<1>1. r.st \in {"normal", "after1F", "plotRow", "opcode", "args", "blit"}
  BY DEF Receiver
<1>2. CASE r.st = "normal"
  <2>1. Append(r.text, b) \in Seq(Octet)
    BY AppendProperties DEF Receiver
  <2>2. [r EXCEPT !.text = Append(r.text, b)] \in Receiver
    BY <2>1 DEF Receiver
  <2>3. [r EXCEPT !.st = "after1F"] \in Receiver
    BY DEF Receiver
  <2>4. QED
    BY <1>2, <2>2, <2>3, FeedNormal
<1>3. CASE r.st = "after1F"
  BY <1>3, FeedOther, CommandTyped
<1>4. CASE r.st = "plotRow"
  <2>1. [r EXCEPT !.st = "normal"] \in Receiver
    BY DEF Receiver
  <2>2. QED
    BY <1>4, <2>1, FeedOther
<1>5. CASE r.st = "opcode"
  BY <1>5, FeedOther, OpcodeTyped
<1>6. CASE r.st = "args"
  BY <1>6, FeedOther, ArgumentTyped
<1>7. CASE r.st = "blit"
  <2>1. Len(r.header) < 4 \/ Len(r.header) = 4
    <3>1. PICK n \in 0 .. 4 : n = Len(r.header)
      BY HeaderLength
    <3>2. n < 4 \/ n = 4
      OBVIOUS
    <3>3. QED
      BY <3>1, <3>2
  <2>2. QED
    BY <1>7, <2>1, FeedBlit, BlitHeaderTyped, BlitCountTyped, BlitValueTyped
<1>8. QED
  BY <1>1, <1>2, <1>3, <1>4, <1>5, <1>6, <1>7

Feeder == [rb \in Receiver \X Octet |-> G!Feed(rb[1], rb[2])]

LEMMA FeederTyped ==
  ASSUME G!HiresAssumption
  PROVE  /\ Feeder \in [Receiver \X Octet -> Receiver]
         /\ \A r \in Receiver, b \in Octet : Feeder[<<r, b>>] = G!Feed(r, b)
BY FeedTyped DEF Feeder

(* What a byte does depends on the terminal alone. *)
LEMMA SameExec == ASSUME kind' = kind, NEW r, NEW op, NEW a PROVE G!Exec(r, op, a)' = G!Exec(r, op, a)
BY DEF G!Exec, G!PenAt, G!Drawn, G!Lit, G!Inked, G!Kept, G!Seen, G!OnScreen, G!Blank

LEMMA SameRest == G!Rest' = G!Rest
BY DEF G!Rest, G!Blank

LEMMA SameOpcode == ASSUME kind' = kind, NEW r, NEW b PROVE G!Opcode(r, b)' = G!Opcode(r, b)
BY SameExec DEF G!Opcode

LEMMA SameFeed == ASSUME kind' = kind, NEW r, NEW b PROVE G!Feed(r, b)' = G!Feed(r, b)
<1>1. G!Opcode(r, b)' = G!Opcode(r, b)
  BY SameOpcode
<1>2. G!Argument(r, b)' = G!Argument(r, b)
  <2>1. G!Exec(r, r.op, Append(r.args, b))' = G!Exec(r, r.op, Append(r.args, b))
    BY SameExec
  <2>2. QED
    BY <2>1 DEF G!Argument
<1>3. G!Command(r, b)' = G!Command(r, b)
  BY SameRest DEF G!Command
<1>4. G!BlitHeader(r, b)' = G!BlitHeader(r, b)
  BY DEF G!BlitHeader
<1>5. G!BlitCount(r, b)' = G!BlitCount(r, b)
  BY DEF G!BlitCount
<1>6. G!BlitValue(r, b)' = G!BlitValue(r, b)
  BY DEF G!BlitValue
<1>7. QED
  BY <1>1, <1>2, <1>3, <1>4, <1>5, <1>6 DEF G!Feed

LEMMA SameFeeder == ASSUME G!HiresAssumption, kind' = kind PROVE Feeder' = Feeder
<1>1. ASSUME NEW rb \in Receiver \X Octet PROVE G!Feed(rb[1], rb[2])' = G!Feed(rb[1], rb[2])
  BY SameFeed
<1>2. QED
  BY <1>1 DEF Feeder

(* The run of equal bytes that starts at i. *)
LEMMA RunEndIs ==
  ASSUME G!HiresAssumption, NEW data \in Seq(Octet), NEW i \in 1 .. Len(data)
  PROVE  /\ G!RunEnd(data, i) \in i + 1 .. Len(data) + 1
         /\ G!RunEnd(data, i) - i \in 1 .. 255
         /\ \A j \in i .. G!RunEnd(data, i) - 1 : data[j] = data[i]
<1>1. PICK n \in Nat : n = Len(data)
  OBVIOUS
<1>2. MaxRun \in 1 .. 255
  BY DEF G!HiresAssumption
<1>3. i \in 1 .. n /\ i \in Nat
  BY <1>1
<1> DEFINE T == {e \in i + 1 .. n + 1 : e - i = MaxRun \/ e = n + 1 \/ data[e] # data[i]}
<1>4. T \in SUBSET Nat /\ n + 1 \in T
  BY <1>3
<1>5. PICK e \in T : \A other \in T : e <= other
  <2> HIDE DEF T
  <2>1. T # {}
    BY <1>4
  <2>2. QED
    BY <1>4, <2>1, LeastNumber
<1>6. e \in i + 1 .. n + 1 /\ (e - i = MaxRun \/ e = n + 1 \/ data[e] # data[i])
  BY <1>5
<1>7. e - i <= MaxRun
  <2>1. SUFFICES ASSUME ~ e - i <= MaxRun PROVE FALSE
    OBVIOUS
  <2>2. i + MaxRun \in i + 1 .. n + 1 /\ (i + MaxRun) - i = MaxRun /\ ~ e <= i + MaxRun
    BY <1>2, <1>3, <1>6, <2>1
  <2>3. i + MaxRun \in T
    BY <2>2
  <2>4. QED
    BY <1>5, <2>2, <2>3
<1>8. ASSUME NEW j \in i .. e - 1 PROVE data[j] = data[i]
  <2>1. CASE j = i
    BY <2>1
  <2>2. CASE j # i
    <3>1. j \in i + 1 .. n + 1 /\ ~ e <= j
      BY <1>3, <1>6, <2>2
    <3>2. j \notin T
      BY <1>5, <3>1
    <3>3. QED
      BY <3>1, <3>2
  <2>3. QED
    BY <2>1, <2>2
<1>9. \E u \in i + 1 .. Len(data) + 1 :
        /\ u - i <= MaxRun /\ \A j \in i .. u - 1 : data[j] = data[i]
        /\ u - i = MaxRun \/ u = Len(data) + 1 \/ data[u] # data[i]
  BY <1>1, <1>6, <1>7, <1>8
<1>10. PICK u \in i + 1 .. n + 1 :
         u = G!RunEnd(data, i) /\ u - i <= MaxRun /\ \A j \in i .. u - 1 : data[j] = data[i]
  BY <1>1, <1>9 DEF G!RunEnd
<1>11. u - i \in 1 .. 255
  <2>1. u \in i + 1 .. n + 1 /\ u - i <= MaxRun
    BY <1>10
  <2>2. u \in Nat /\ u - i >= 1
    BY <1>3, <2>1
  <2>3. QED
    BY <1>2, <1>3, <2>1, <2>2
<1>12. QED
  BY <1>1, <1>10, <1>11

(* The encoding, from its last byte back to its first. *)
RleFrom(f, data, i) ==
  IF i > Len(data) THEN <<>>
  ELSE <<G!RunEnd(data, i) - i, data[i]>> \o f[G!RunEnd(data, i)]

Encodes(f, data, k) == f = [i \in k .. Len(data) + 1 |-> RleFrom(f, data, i)]

LEMMA EncodesEach ==
  ASSUME NEW f, NEW data, NEW k, Encodes(f, data, k), NEW i \in k .. Len(data) + 1
  PROVE  f[i] = RleFrom(f, data, i)
BY DEF Encodes

LEMMA EncodesOneMore ==
  ASSUME G!HiresAssumption, NEW data \in Seq(Octet), NEW k \in 1 .. Len(data),
         NEW f, Encodes(f, data, k + 1)
  PROVE  \E g : Encodes(g, data, k)
<1>1. PICK n \in Nat : n = Len(data)
  OBVIOUS
<1>2. k \in 1 .. n
  BY <1>1
<1> DEFINE g == [i \in k .. n + 1 |-> IF i = k THEN RleFrom(f, data, k) ELSE f[i]]
<1>3. ASSUME NEW i \in k .. n + 1 PROVE RleFrom(g, data, i) = RleFrom(f, data, i)
  <2>1. CASE i > n
    BY <1>1, <2>1 DEF RleFrom
  <2>2. CASE ~ i > n
    <3>1. i \in 1 .. n
      BY <1>2, <2>2
    <3>2. PICK e \in i + 1 .. n + 1 : e = G!RunEnd(data, i)
      BY <1>1, <3>1, RunEndIs
    <3>3. e \in k .. n + 1 /\ e # k
      BY <1>2, <3>1
    <3>4. g[e] = f[e]
      BY <3>3
    <3> HIDE DEF g
    <3>5. QED
      BY <3>2, <3>4 DEF RleFrom
  <2>3. QED
    BY <2>1, <2>2
<1>4. ASSUME NEW i \in k .. n + 1 PROVE g[i] = RleFrom(f, data, i)
  <2>1. CASE i = k
    BY <2>1
  <2>2. CASE i # k
    <3>1. i \in k + 1 .. Len(data) + 1
      BY <1>1, <1>2, <2>2
    <3>2. f[i] = RleFrom(f, data, i)
      BY <3>1, EncodesEach
    <3>3. QED
      BY <2>2, <3>2
  <2>3. QED
    BY <2>1, <2>2
<1>5. DOMAIN g = k .. n + 1 /\ g = [i \in k .. n + 1 |-> g[i]]
  OBVIOUS
<1> HIDE DEF g
<1>6. \A i \in k .. n + 1 : g[i] = RleFrom(g, data, i)
  BY <1>3, <1>4
<1>7. g = [i \in k .. n + 1 |-> RleFrom(g, data, i)]
  BY <1>5, <1>6
<1>8. Encodes(g, data, k)
  BY <1>1, <1>7 DEF Encodes
<1>9. QED
  BY <1>8

LEMMA Encoded ==
  ASSUME G!HiresAssumption, NEW data \in Seq(Octet)
  PROVE  \E f : Encodes(f, data, 1)
<1>1. PICK n \in Nat : n = Len(data)
  OBVIOUS
<1> DEFINE T == {m \in 0 .. n : \E f : Encodes(f, data, (n + 1) - m)}
<1>2. 0 \in T
  <2> DEFINE f == [i \in n + 1 .. n + 1 |-> <<>>]
  <2>1. \A i \in n + 1 .. n + 1 : RleFrom(f, data, i) = <<>>
    BY <1>1 DEF RleFrom
  <2>2. f = [i \in n + 1 .. n + 1 |-> RleFrom(f, data, i)]
    BY <2>1
  <2> HIDE DEF f
  <2>3. Encodes(f, data, n + 1)
    BY <1>1, <2>2 DEF Encodes
  <2>4. (n + 1) - 0 = n + 1 /\ 0 \in 0 .. n
    OBVIOUS
  <2>5. QED
    BY <2>3, <2>4, Zenon
<1>3. ASSUME NEW m \in 1 .. n, m - 1 \in T PROVE m \in T
  <2>0. (n + 1) - m \in 1 .. n
    OBVIOUS
  <2>1. PICK k \in 1 .. Len(data) : k = (n + 1) - m
    BY <1>1, <2>0
  <2>2. (n + 1) - (m - 1) = k + 1 /\ m \in 0 .. n
    BY <2>1
  <2>3. PICK f : Encodes(f, data, (n + 1) - (m - 1))
    BY <1>3, Zenon
  <2>4. Encodes(f, data, k + 1)
    BY <2>2, <2>3, Zenon
  <2>5. \E g : Encodes(g, data, k)
    BY <2>1, <2>4, EncodesOneMore
  <2>6. QED
    BY <2>1, <2>2, <2>5, Zenon
<1>4. \A m \in 0 .. n : m \in T
  <2>1. \A m \in 1 .. n : m - 1 \in T => m \in T
    BY <1>3, Zenon
  <2>2. n \in Nat
    OBVIOUS
  <2> HIDE DEF T
  <2>3. QED
    BY <1>2, <2>1, <2>2, UpTo, Zenon
<1>5. n \in 0 .. n /\ (n + 1) - n = 1
  OBVIOUS
<1>6. n \in T
  BY <1>4, <1>5, Zenon
<1>7. QED
  BY <1>5, <1>6, Zenon

(* Induction from n + 1 down to 1, for a set. *)
LEMMA DownTo ==
  ASSUME NEW n \in Nat, NEW T, n + 1 \in T,
         \A i \in 1 .. n : (\A e \in i + 1 .. n + 1 : e \in T) => i \in T
  PROVE  \A i \in 1 .. n + 1 : i \in T
<1> DEFINE U == {k \in 0 .. n : (n + 1) - k \notin T}
<1>1. SUFFICES U = {}
  <2>1. ASSUME NEW i \in 1 .. n + 1, i \notin T PROVE U # {}
    <3>1. (n + 1) - i \in 0 .. n /\ (n + 1) - ((n + 1) - i) = i
      OBVIOUS
    <3>2. (n + 1) - i \in U
      BY <2>1, <3>1
    <3>3. QED
      BY <3>2
  <2>2. QED
    BY <2>1
<1>2. SUFFICES ASSUME U # {} PROVE FALSE
  OBVIOUS
<1>3. U \in SUBSET Nat
  OBVIOUS
<1>4. PICK k \in U : \A other \in U : k <= other
  <2> HIDE DEF U
  <2>1. QED
    BY <1>2, <1>3, LeastNumber
<1>5. k \in 0 .. n /\ (n + 1) - k \notin T
  BY <1>4
<1>6. k # 0
  <2>1. (n + 1) - 0 = n + 1
    OBVIOUS
  <2>2. QED
    BY <1>5, <2>1
<1>7. PICK i \in 1 .. n : i = (n + 1) - k
  BY <1>5, <1>6
<1>8. ASSUME NEW e \in i + 1 .. n + 1 PROVE e \in T
  <2>1. (n + 1) - e \in 0 .. n /\ ~ k <= (n + 1) - e /\ (n + 1) - ((n + 1) - e) = e
    BY <1>5, <1>7
  <2>2. (n + 1) - e \notin U
    BY <1>4, <2>1
  <2>3. QED
    BY <2>1, <2>2
<1>9. QED
  BY <1>5, <1>7, <1>8

LEMMA PairTyped ==
  ASSUME NEW a \in Octet, NEW b \in Octet, NEW w \in Seq(Octet)
  PROVE  <<a, b>> \in Seq(Octet) /\ <<a, b>> \o w \in Seq(Octet)
<1>1. <<a, b>> \in Seq(Octet)
  OBVIOUS
<1>2. QED
  BY <1>1, ConcatProperties

(* One pair of the encoding. *)
IsPair(f, data, i, n) ==
  /\ i + n \in i + 1 .. Len(data) + 1 /\ \A j \in i .. i + n - 1 : data[j] = data[i]
  /\ f[i] = <<n, data[i]>> \o f[i + n]

LEMMA PairIs ==
  ASSUME G!HiresAssumption, NEW data \in Seq(Octet), NEW f, Encodes(f, data, 1),
         NEW i \in 1 .. Len(data)
  PROVE  \E n \in 1 .. 255 : IsPair(f, data, i, n)
<1>1. PICK m \in Nat : m = Len(data)
  OBVIOUS
<1>2. PICK e \in i + 1 .. m + 1 : e = G!RunEnd(data, i)
  BY <1>1, RunEndIs
<1>3. PICK n \in 1 .. 255 : n = e - i
  BY <1>2, RunEndIs
<1>4. i \in Nat /\ ~ i > m /\ i \in 1 .. m + 1
  BY <1>1
<1>5. i + n = e
  BY <1>2, <1>3, <1>4
<1>6. \A j \in i .. e - 1 : data[j] = data[i]
  BY <1>2, RunEndIs
<1>7. f[i] = RleFrom(f, data, i)
  BY <1>1, <1>4, EncodesEach
<1>8. f[i] = <<n, data[i]>> \o f[e]
  BY <1>1, <1>2, <1>3, <1>4, <1>7 DEF RleFrom
<1>9. i + n \in i + 1 .. Len(data) + 1 /\ i + n - 1 = e - 1
  BY <1>1, <1>2, <1>5
<1>10. IsPair(f, data, i, n)
  BY <1>5, <1>6, <1>8, <1>9 DEF IsPair
<1>11. QED
  BY <1>3, <1>10

LEMMA LastPair ==
  ASSUME NEW data \in Seq(Octet), NEW f, Encodes(f, data, 1)
  PROVE  f[Len(data) + 1] = <<>>
<1>1. PICK n \in Nat : n = Len(data)
  OBVIOUS
<1>2. n + 1 \in 1 .. n + 1 /\ n + 1 > n
  OBVIOUS
<1>3. f[n + 1] = RleFrom(f, data, n + 1)
  BY <1>1, <1>2, EncodesEach
<1>4. QED
  BY <1>1, <1>2, <1>3 DEF RleFrom

LEMMA EncodingTyped ==
  ASSUME G!HiresAssumption, NEW data \in Seq(Octet), NEW f, Encodes(f, data, 1)
  PROVE  \A i \in 1 .. Len(data) + 1 : f[i] \in Seq(Octet)
<1>1. PICK m \in Nat : m = Len(data)
  OBVIOUS
<1> DEFINE T == {i \in 1 .. m + 1 : f[i] \in Seq(Octet)}
<1>2. m + 1 \in T
  <2>1. f[m + 1] = <<>> /\ m + 1 \in 1 .. m + 1
    BY <1>1, LastPair
  <2>2. <<>> \in Seq(Octet)
    OBVIOUS
  <2>3. QED
    BY <2>1, <2>2
<1>3. ASSUME NEW i \in 1 .. m, \A e \in i + 1 .. m + 1 : e \in T PROVE i \in T
  <2>1. PICK n \in 1 .. 255 :
          i + n \in i + 1 .. m + 1 /\ f[i] = <<n, data[i]>> \o f[i + n]
    <3>1. PICK n \in 1 .. 255 : IsPair(f, data, i, n)
      BY <1>1, PairIs
    <3>2. QED
      BY <1>1, <3>1 DEF IsPair
  <2>2. n \in Octet /\ data[i] \in Octet
    BY <1>1 DEF Octet
  <2>3. f[i + n] \in Seq(Octet)
    BY <1>3, <2>1
  <2>4. f[i] \in Seq(Octet)
    BY <2>1, <2>2, <2>3, PairTyped
  <2>5. i \in 1 .. m + 1
    OBVIOUS
  <2>6. QED
    BY <2>4, <2>5
<1>4. \A i \in 1 .. m + 1 : i \in T
  <2> HIDE DEF T
  <2>1. \A i \in 1 .. m : (\A e \in i + 1 .. m + 1 : e \in T) => i \in T
    BY <1>3
  <2>2. QED
    BY <1>1, <1>2, <2>1, DownTo
<1>5. QED
  BY <1>1, <1>4

RleOf(data) == CHOOSE f : Encodes(f, data, 1)

LEMMA EncodingIs ==
  ASSUME G!HiresAssumption, NEW data \in Seq(Octet)
  PROVE  Encodes(RleOf(data), data, 1) /\ G!RLEEncode(data) = RleOf(data)[1]
<1>1. Encodes(RleOf(data), data, 1)
  BY Encoded, Zenon DEF RleOf
<1>2. G!RLEEncode(data) = RleOf(data)[1]
  BY DEF G!RLEEncode, RleOf, Encodes, RleFrom
<1>3. QED
  BY <1>1, <1>2

(* When each run leads from a state to the one after it. *)
RunsLead(F, R, data, K) ==
  \A i \in 1 .. Len(data), n \in 1 .. 255 :
    i + n \in i + 1 .. Len(data) + 1 /\ (\A j \in i .. i + n - 1 : data[j] = data[i])
      => Fed(F, R, K[i], <<n, data[i]>>, K[i + n])

LEMMA EncodingLeads ==
  ASSUME G!HiresAssumption, NEW data \in Seq(Octet), NEW F, NEW R,
         NEW K \in [1 .. Len(data) + 1 -> R], RunsLead(F, R, data, K)
  PROVE  Fed(F, R, K[1], G!RLEEncode(data), K[Len(data) + 1])
<1>1. PICK m \in Nat : m = Len(data)
  OBVIOUS
<1>2. PICK f : f = RleOf(data)
  OBVIOUS
<1>3. Encodes(f, data, 1) /\ G!RLEEncode(data) = f[1]
  BY <1>2, EncodingIs
<1> DEFINE T == {i \in 1 .. m + 1 : Fed(F, R, K[i], f[i], K[m + 1])}
<1>4. m + 1 \in T
  <2>1. f[m + 1] = <<>> /\ m + 1 \in 1 .. m + 1
    BY <1>1, <1>3, LastPair
  <2>2. K[m + 1] \in R
    BY <1>1, <2>1
  <2>3. Fed(F, R, K[m + 1], <<>>, K[m + 1])
    BY <2>2, FedNone
  <2>4. QED
    BY <2>1, <2>3, Zenon
<1>5. ASSUME NEW i \in 1 .. m, \A e \in i + 1 .. m + 1 : e \in T PROVE i \in T
  <2>1. PICK n \in 1 .. 255 :
          /\ i + n \in i + 1 .. m + 1 /\ \A j \in i .. i + n - 1 : data[j] = data[i]
          /\ f[i] = <<n, data[i]>> \o f[i + n]
    <3>1. PICK n \in 1 .. 255 : IsPair(f, data, i, n)
      BY <1>1, <1>3, PairIs
    <3>2. QED
      BY <1>1, <3>1 DEF IsPair
  <2>2. Fed(F, R, K[i], <<n, data[i]>>, K[i + n])
    BY <1>1, <2>1 DEF RunsLead
  <2>3. Fed(F, R, K[i + n], f[i + n], K[m + 1])
    BY <1>5, <2>1, Zenon
  <2>4. f[i + n] \in Seq(Octet) /\ <<n, data[i]>> \in Seq(Octet)
    <3>1. i + n \in 1 .. m + 1
      BY <2>1
    <3>2. n \in Octet /\ data[i] \in Octet
      BY <1>1 DEF Octet
    <3>3. f[i + n] \in Seq(Octet)
      BY <1>1, <1>3, <3>1, EncodingTyped
    <3>4. QED
      BY <3>2, <3>3, PairTyped
  <2>5. Fed(F, R, K[i], <<n, data[i]>> \o f[i + n], K[m + 1])
    BY <2>2, <2>3, <2>4, FedJoin
  <2>6. Fed(F, R, K[i], f[i], K[m + 1]) /\ i \in 1 .. m + 1
    BY <2>1, <2>5
  <2>7. QED
    BY <2>6
<1>6. \A i \in 1 .. m + 1 : i \in T
  <2> HIDE DEF T
  <2>1. \A i \in 1 .. m : (\A e \in i + 1 .. m + 1 : e \in T) => i \in T
    BY <1>5
  <2>2. QED
    BY <1>1, <1>4, <2>1, DownTo
<1>7. 1 \in 1 .. m + 1
  BY <1>1
<1>8. Fed(F, R, K[1], f[1], K[m + 1])
  BY <1>6, <1>7, Zenon
<1>9. QED
  BY <1>1, <1>3, <1>8

LEMMA RLETyped ==
  ASSUME G!HiresAssumption, NEW data \in Seq(Octet)
  PROVE  G!RLEEncode(data) \in Seq(Octet)
<1>1. 1 \in 1 .. Len(data) + 1
  OBVIOUS
<1>2. QED
  BY <1>1, EncodingIs, EncodingTyped

(* The bytes of the picture. *)
LEMMA SizeIs == ASSUME G!HiresAssumption PROVE G!Size \in Nat /\ G!Vram = 0 .. G!Size - 1
<1>1. RowBytes \in Nat /\ ImageLines \in Nat
  BY DEF G!HiresAssumption
<1>2. RowBytes * ImageLines \in Nat
  BY <1>1
<1>3. QED
  BY <1>2 DEF G!Size, G!Vram

(* A number is sent on two bytes, and put together again. *)
LEMMA NumberParts ==
  ASSUME G!HiresAssumption, NEW n \in 0 .. G!Size
  PROVE  n % Base \in Octet /\ n \div Base \in Octet /\ (n % Base) + Base * (n \div Base) = n
<1>1. Base \in 1 .. 256 /\ G!Size \in Nat /\ G!Size < 256 * Base /\ Base \in Nat \ {0}
  <2>1. G!Size \in Nat
    BY SizeIs
  <2>2. Base \in 1 .. 256 /\ G!Size < 256 * Base
    BY DEF G!HiresAssumption
  <2>3. QED
    BY <2>1, <2>2
<1>2. n \in Nat /\ n < 256 * Base
  BY <1>1
<1>3. PICK q \in Nat : q = n \div Base
  BY <1>1, <1>2
<1>4. PICK r \in 0 .. Base - 1 : r = n % Base
  BY <1>1, <1>2
<1>5. n = q * Base + r
  BY <1>1, <1>2, <1>3, <1>4
<1>6. ~ 256 <= q
  <2>1. SUFFICES ASSUME 256 <= q PROVE FALSE
    OBVIOUS
  <2>2. 256 * Base <= q * Base
    BY <1>1, <2>1, TimesMore
  <2>3. q * Base \in Nat
    BY <1>1
  <2>4. QED
    BY <1>1, <1>2, <1>5, <2>2, <2>3
<1>7. Base * q = q * Base /\ q * Base \in Nat
  BY <1>1
<1>8. r + Base * q = n
  BY <1>1, <1>5, <1>7
<1>9. r \in Octet /\ q \in Octet
  BY <1>1, <1>6 DEF Octet
<1>10. QED
  BY <1>3, <1>4, <1>8, <1>9

LEMMA NumberTyped ==
  ASSUME G!HiresAssumption, NEW n \in 0 .. G!Size
  PROVE  G!Number(n) \in Seq(Octet)
BY NumberParts DEF G!Number

LEMMA FedTwo ==
  ASSUME NEW R, NEW B, NEW F \in [R \X B -> R], NEW r \in R, NEW a \in B, NEW b \in B
  PROVE  Fed(F, R, r, <<a, b>>, F[<<F[<<r, a>>], b>>])
<1>1. PICK s \in R : s = F[<<r, a>>]
  OBVIOUS
<1>2. Fed(F, R, r, <<a>>, s) /\ Fed(F, R, s, <<b>>, F[<<s, b>>])
  BY <1>1, FedOne
<1>3. <<a>> \in Seq(B) /\ <<b>> \in Seq(B)
  OBVIOUS
<1>4. Fed(F, R, r, <<a>> \o <<b>>, F[<<s, b>>])
  BY <1>2, <1>3, FedJoin
<1>5. QED
  BY <1>1, <1>4, TwoBytes

(* A blit of the cells from .. to - 1 of p, those before k written. *)
Progress(v, p, from, k) == [c \in G!Vram |-> IF c \in from .. k - 1 THEN p[c] ELSE v[c]]

Painted(r, h, p, from, k, to) ==
  [r EXCEPT !.st = IF k = to THEN "opcode" ELSE "blit", !.header = h, !.dst = k,
            !.remain = to - k, !.run = 0, !.vram = Progress(r.vram, p, from, k)]

LEMMA PaintedTyped ==
  ASSUME NEW r \in Receiver, NEW h \in Header, NEW p \in [G!Vram -> Octet],
         NEW from \in Nat, NEW to \in Nat, NEW k \in from .. to
  PROVE  Painted(r, h, p, from, k, to) \in Receiver
<1>1. PICK v \in [G!Vram -> Octet] : v = Progress(r.vram, p, from, k)
  BY DEF Progress, Receiver
<1>2. PICK s \in {"opcode", "blit"} : s = IF k = to THEN "opcode" ELSE "blit"
  OBVIOUS
<1>3. PICK n \in Nat : n = to - k
  OBVIOUS
<1>4. k \in Nat /\ 0 \in Nat
  OBVIOUS
<1>5. [r EXCEPT !.st = s, !.header = h, !.dst = k, !.remain = n, !.run = 0, !.vram = v] \in Receiver
  BY <1>1, <1>2, <1>3, <1>4 DEF Receiver
<1>6. QED
  BY <1>1, <1>2, <1>3, <1>5 DEF Painted

(* The header of a blit. *)
Begun(r, h) == [r EXCEPT !.st = "blit", !.header = h]

LEMMA BegunFed ==
  ASSUME G!HiresAssumption, NEW r \in Receiver, NEW b \in Octet, NEW h \in Seq(Octet),
         Len(h) \in 0 .. 2
  PROVE  Begun(r, h) \in Receiver /\ Feeder[<<Begun(r, h), b>>] = Begun(r, Append(h, b))
<1>1. PICK n \in 0 .. 2 : n = Len(h)
  OBVIOUS
<1>2. h \in Header
  <2>1. n <= 4
    OBVIOUS
  <2>2. QED
    BY <1>1, <2>1 DEF Header
<1>3. PICK q \in Receiver : q = Begun(r, h)
  <2>1. Begun(r, h) \in Receiver
    BY <1>2 DEF Begun, Receiver
  <2>2. QED
    BY <2>1
<1>4. q.st = "blit" /\ q.header = h
  BY <1>3 DEF Begun, Receiver
<1>5. Feeder[<<q, b>>] = G!BlitHeader(q, b)
  <2>1. n < 4
    OBVIOUS
  <2>2. G!Feed(q, b) = G!BlitHeader(q, b)
    BY <1>1, <1>4, <2>1, FeedBlit
  <2>3. QED
    BY <2>2, FeederTyped
<1>6. PICK g : g = Append(h, b)
  OBVIOUS
<1>7. Len(g) = n + 1 /\ n + 1 < 4
  BY <1>1, <1>6, AppendProperties
<1>8. G!BlitHeader(q, b) = [q EXCEPT !.header = g]
  BY <1>4, <1>6, <1>7, BlitHeaderIs
<1>9. [q EXCEPT !.header = g] = Begun(r, g)
  BY <1>3 DEF Begun, Receiver
<1>10. QED
  BY <1>3, <1>5, <1>6, <1>8, <1>9

LEMMA LastOfHeader ==
  ASSUME G!HiresAssumption, kind = "oterm", NEW r \in Receiver, NEW p \in [G!Vram -> Octet],
         NEW from \in Nat, NEW to \in Nat, from < to,
         NEW a1 \in Octet, NEW a2 \in Octet, NEW a3 \in Octet, NEW a4 \in Octet,
         a1 + Base * a2 = from, a3 + Base * a4 = to - from
  PROVE  Feeder[<<Begun(r, <<a1, a2, a3>>), a4>>] = Painted(r, <<a1, a2, a3, a4>>, p, from, from, to)
<1>1. <<a1, a2, a3>> \in Header
  <2>1. <<a1, a2, a3>> \in Seq(Octet) /\ Len(<<a1, a2, a3>>) <= 4
    OBVIOUS
  <2>2. QED
    BY <2>1 DEF Header
<1>2. PICK q \in Receiver : q = Begun(r, <<a1, a2, a3>>)
  <2>1. Begun(r, <<a1, a2, a3>>) \in Receiver
    BY <1>1 DEF Begun, Receiver
  <2>2. QED
    BY <2>1
<1>3. q.st = "blit" /\ q.header = <<a1, a2, a3>>
  BY <1>2 DEF Begun, Receiver
<1>4. Feeder[<<q, a4>>] = G!BlitHeader(q, a4)
  <2>1. Len(q.header) < 4
    BY <1>3
  <2>2. G!Feed(q, a4) = G!BlitHeader(q, a4)
    BY <1>3, <2>1, FeedBlit
  <2>3. QED
    BY <2>2, FeederTyped
<1>5. PICK h : h = <<a1, a2, a3, a4>>
  OBVIOUS
<1>6. h = Append(q.header, a4) /\ Len(h) = 4 /\ h[1] = a1 /\ h[2] = a2 /\ h[3] = a3 /\ h[4] = a4
  BY <1>3, <1>5
<1>7. PICK n \in Nat \ {0} : n = to - from
  OBVIOUS
<1>8. G!BlitHeader(q, a4) = BlitBegun(q, h, from, n)
  <2>1. G!BlitHeader(q, a4) = IF Len(h) < 4 THEN [q EXCEPT !.header = h]
                              ELSE BlitBegun(q, h, h[1] + Base * h[2], h[3] + Base * h[4])
    BY <1>6, BlitHeaderIs
  <2>2. ~ Len(h) < 4
    BY <1>6
  <2>3. QED
    BY <1>6, <1>7, <2>1, <2>2
<1>9. BlitBegun(q, h, from, n)
        = [q EXCEPT !.header = h, !.dst = from, !.remain = n, !.run = 0, !.st = "blit"]
  BY <1>7 DEF BlitBegun
<1>10. Progress(r.vram, p, from, from) = r.vram
  <2>1. ASSUME NEW c \in G!Vram PROVE c \notin from .. from - 1
    OBVIOUS
  <2>2. QED
    BY <2>1 DEF Progress, Receiver
<1>11. Painted(r, h, p, from, from, to)
         = [r EXCEPT !.st = "blit", !.header = h, !.dst = from, !.remain = n, !.run = 0,
                     !.vram = r.vram]
  <2>1. from # to
    OBVIOUS
  <2>2. QED
    BY <1>7, <1>10, <2>1 DEF Painted
<1>12. [q EXCEPT !.header = h, !.dst = from, !.remain = n, !.run = 0, !.st = "blit"]
         = [r EXCEPT !.st = "blit", !.header = h, !.dst = from, !.remain = n, !.run = 0,
                     !.vram = r.vram]
  BY <1>2 DEF Begun, Receiver
<1>13. QED
  BY <1>2, <1>4, <1>5, <1>8, <1>9, <1>11, <1>12

LEMMA ShortSequences ==
  ASSUME NEW a \in Octet, NEW b \in Octet, NEW c \in Octet
  PROVE  /\ <<a>> \in Seq(Octet) /\ Len(<<a>>) \in 0 .. 2 /\ Append(<<a>>, b) = <<a, b>>
         /\ <<a, b>> \in Seq(Octet) /\ Len(<<a, b>>) \in 0 .. 2
         /\ Append(<<a, b>>, c) = <<a, b, c>>
<1>1. <<a>> \in Seq(Octet) /\ <<a, b>> \in Seq(Octet)
  OBVIOUS
<1>2. Len(<<a>>) \in 0 .. 2 /\ Len(<<a, b>>) \in 0 .. 2
  OBVIOUS
<1>3. <<a>> \o <<b>> = <<a, b>>
  BY TwoBytes, Zenon
<1>4. (<<a>> \o <<b>>) \o <<c>> = <<a, b, c>>
  BY ThreeBytes, Zenon
<1>5. Append(<<a>>, b) = <<a>> \o <<b>> /\ Append(<<a, b>>, c) = <<a, b>> \o <<c>>
  BY <1>1, AppendIsConcat
<1>6. <<a, b>> \o <<c>> = <<a, b, c>>
  BY <1>3, <1>4, Zenon
<1>7. Append(<<a>>, b) = <<a, b>> /\ Append(<<a, b>>, c) = <<a, b, c>>
  BY <1>3, <1>5, <1>6, Zenon
<1>8. QED
  BY <1>1, <1>2, <1>7, Zenon

LEMMA BlitStarts ==
  ASSUME G!HiresAssumption, kind = "oterm", NEW q \in Receiver, q.st = "opcode",
         NEW p \in [G!Vram -> Octet], NEW from \in 0 .. G!Size, NEW to \in 0 .. G!Size, from < to
  PROVE  \E h \in Header :
           /\ Len(h) = 4
           /\ Fed(Feeder, Receiver, q, <<32>> \o G!Number(from) \o G!Number(to - from),
                  Painted(q, h, p, from, from, to))
<1>1. G!Size \in Nat
  BY SizeIs
<1>2. from \in Nat /\ to \in Nat /\ to - from \in 0 .. G!Size
  BY <1>1
<1>3. PICK a1 \in Octet, a2 \in Octet : a1 = from % Base /\ a2 = from \div Base /\ a1 + Base * a2 = from
  BY NumberParts
<1>4. PICK a3 \in Octet, a4 \in Octet :
        a3 = (to - from) % Base /\ a4 = (to - from) \div Base /\ a3 + Base * a4 = to - from
  BY <1>2, NumberParts
<1>5. G!Number(from) = <<a1, a2>> /\ G!Number(to - from) = <<a3, a4>>
  BY <1>3, <1>4 DEF G!Number
<1>7. Feeder \in [Receiver \X Octet -> Receiver]
  BY FeederTyped
<1>8. 32 \in Octet
  BY DEF Octet
<1>9. Feeder[<<q, 32>>] = Begun(q, <<>>)
  <2>1. G!Feed(q, 32) = G!Opcode(q, 32)
    BY <1>8, FeedOther
  <2>2. QED
    BY <1>8, <2>1, FeederTyped, OpcodeBlit DEF Begun
<1>10. Begun(q, <<>>) \in Receiver /\ Feeder[<<Begun(q, <<>>), a1>>] = Begun(q, <<a1>>)
  <2>1. Len(<<>>) \in 0 .. 2 /\ Append(<<>>, a1) = <<a1>> /\ <<>> \in Seq(Octet)
    OBVIOUS
  <2>2. QED
    BY <2>1, BegunFed
<1>11. Begun(q, <<a1>>) \in Receiver /\ Feeder[<<Begun(q, <<a1>>), a2>>] = Begun(q, <<a1, a2>>)
  <2>1. Len(<<a1>>) \in 0 .. 2 /\ Append(<<a1>>, a2) = <<a1, a2>> /\ <<a1>> \in Seq(Octet)
    BY <1>3, ShortSequences, Zenon
  <2>2. QED
    BY <2>1, BegunFed
<1>12. Begun(q, <<a1, a2>>) \in Receiver
       /\ Feeder[<<Begun(q, <<a1, a2>>), a3>>] = Begun(q, <<a1, a2, a3>>)
  <2>1. Len(<<a1, a2>>) \in 0 .. 2 /\ Append(<<a1, a2>>, a3) = <<a1, a2, a3>> /\ <<a1, a2>> \in Seq(Octet)
    <3>1. a1 \in Octet /\ a2 \in Octet /\ a3 \in Octet
      BY <1>3, <1>4
    <3>2. QED
      BY <3>1, ShortSequences, Zenon
  <2>2. QED
    BY <2>1, BegunFed
<1>13. PICK h : h = <<a1, a2, a3, a4>>
  OBVIOUS
<1>14. Feeder[<<Begun(q, <<a1, a2, a3>>), a4>>] = Painted(q, h, p, from, from, to)
  BY <1>2, <1>3, <1>4, <1>13, LastOfHeader
<1>15. Fed(Feeder, Receiver, q, <<32>>, Begun(q, <<>>))
  BY <1>7, <1>8, <1>9, FedOne
<1>16. Fed(Feeder, Receiver, Begun(q, <<>>), <<a1, a2>>, Begun(q, <<a1, a2>>))
  <2>1. Fed(Feeder, Receiver, Begun(q, <<>>), <<a1, a2>>, Feeder[<<Feeder[<<Begun(q, <<>>), a1>>], a2>>])
    BY <1>7, <1>10, FedTwo
  <2>2. QED
    BY <1>10, <1>11, <2>1
<1>17. Fed(Feeder, Receiver, Begun(q, <<a1, a2>>), <<a3, a4>>, Painted(q, h, p, from, from, to))
  <2>1. Fed(Feeder, Receiver, Begun(q, <<a1, a2>>), <<a3, a4>>,
            Feeder[<<Feeder[<<Begun(q, <<a1, a2>>), a3>>], a4>>])
    BY <1>7, <1>12, FedTwo
  <2>2. QED
    BY <1>12, <1>14, <2>1
<1>18. <<32>> \in Seq(Octet) /\ <<a1, a2>> \in Seq(Octet) /\ <<a3, a4>> \in Seq(Octet)
  BY <1>3, <1>4, <1>8
<1>19. Fed(Feeder, Receiver, q, <<32>> \o <<a1, a2>>, Begun(q, <<a1, a2>>))
  BY <1>15, <1>16, <1>18, FedJoin
<1>20. <<32>> \o <<a1, a2>> \in Seq(Octet)
  BY <1>18, ConcatProperties
<1>21. Fed(Feeder, Receiver, q, <<32>> \o <<a1, a2>> \o <<a3, a4>>, Painted(q, h, p, from, from, to))
  BY <1>17, <1>18, <1>19, <1>20, FedJoin
<1>22. h \in Header /\ Len(h) = 4
  <2>1. h \in Seq(Octet) /\ Len(h) = 4 /\ Len(h) <= 4
    BY <1>3, <1>4, <1>13
  <2>2. QED
    BY <2>1 DEF Header
<1>23. QED
  BY <1>5, <1>21, <1>22

RunWritten(r, n, b) ==
  [r EXCEPT !.dst = r.dst + n, !.remain = r.remain - n, !.run = 0,
            !.vram = Run(r.vram, r.dst, n, b),
            !.st = IF r.remain - n = 0 THEN "opcode" ELSE "blit"]

LEMMA OtermWrites ==
  ASSUME kind = "oterm", NEW r \in Receiver, NEW b, NEW n \in Nat, r.run = n, n <= r.remain
  PROVE  G!BlitValue(r, b) = RunWritten(r, n, b)
<1>1. PICK remain \in Nat : remain = r.remain
  BY DEF Receiver
<1>2. n = G!Smaller(r.run, r.remain)
  <2>1. ~ n > remain
    BY <1>1
  <2>2. QED
    BY <1>1, <2>1 DEF G!Smaller
<1>3. QED
  BY <1>2, BlitValueIs DEF RunWritten

(* A run of equal bytes, in the middle of a blit. *)
LEMMA PairPaints ==
  ASSUME G!HiresAssumption, kind = "oterm", NEW r \in Receiver, NEW h \in Header, Len(h) = 4,
         NEW p \in [G!Vram -> Octet], NEW from \in Nat, NEW to \in 0 .. G!Size,
         NEW k \in from .. to, NEW n \in 1 .. 255, k + n <= to,
         \A c \in k .. k + n - 1 : p[c] = p[k]
  PROVE  Fed(Feeder, Receiver, Painted(r, h, p, from, k, to), <<n, p[k]>>,
             Painted(r, h, p, from, k + n, to))
<1>1. G!Size \in Nat /\ G!Vram = 0 .. G!Size - 1 /\ to \in Nat /\ k \in Nat /\ k < to
  <2>1. G!Size \in Nat
    BY SizeIs
  <2>2. to \in Nat /\ k \in Nat
    BY <2>1
  <2>3. k < to
    BY <2>2
  <2>4. QED
    BY <2>1, <2>2, <2>3 DEF G!Vram
<1>2. k \in G!Vram /\ p[k] \in Octet /\ n \in Octet
  BY <1>1 DEF Octet
<1>3. PICK q \in Receiver : q = Painted(r, h, p, from, k, to)
  BY <1>1, PaintedTyped
<1>4. q.st = "blit" /\ q.header = h /\ q.dst = k /\ q.remain = to - k /\ q.run = 0
      /\ q.vram = Progress(r.vram, p, from, k)
  BY <1>1, <1>3 DEF Painted, Receiver
<1>5. PICK v \in [G!Vram -> Octet] : v = Progress(r.vram, p, from, k)
  BY DEF Progress, Receiver
<1>6. PICK q1 \in Receiver : q1 = [q EXCEPT !.run = n]
  <2>1. n \in Nat
    OBVIOUS
  <2>2. [q EXCEPT !.run = n] \in Receiver
    BY <2>1 DEF Receiver
  <2>3. QED
    BY <2>2
<1>7. Feeder[<<q, n>>] = q1
  <2>1. G!Feed(q, n) = G!BlitCount(q, n)
    BY <1>2, <1>4, FeedBlit
  <2>2. G!Larger(n, 1) = n
    BY DEF G!Larger
  <2>3. G!BlitCount(q, n) = [q EXCEPT !.run = n]
    BY <2>2 DEF G!BlitCount
  <2>4. QED
    BY <1>2, <1>6, <2>1, <2>3, FeederTyped
<1>8. q1.st = "blit" /\ q1.header = h /\ q1.dst = k /\ q1.remain = to - k /\ q1.run = n
      /\ q1.vram = v
  BY <1>4, <1>5, <1>6 DEF Receiver
<1>9. Feeder[<<q1, p[k]>>] = G!BlitValue(q1, p[k])
  <2>1. q1.run # 0
    BY <1>8
  <2>2. G!Feed(q1, p[k]) = G!BlitValue(q1, p[k])
    BY <1>2, <1>8, <2>1, FeedBlit
  <2>3. QED
    BY <1>2, <2>2, FeederTyped
<1>11. G!BlitValue(q1, p[k]) = RunWritten(q1, n, p[k])
  <2>1. n \in Nat /\ n <= to - k
    BY <1>1
  <2>2. q1.run = n /\ n <= q1.remain
    BY <1>8, <2>1
  <2>3. q1 \in Receiver
    BY <1>6
  <2>4. QED
    BY <2>1, <2>2, <2>3, OtermWrites
<1>12. Run(v, k, n, p[k]) = Progress(r.vram, p, from, k + n)
  <2>1. ASSUME NEW c \in G!Vram
        PROVE  (IF c \in k .. k + n - 1 THEN p[k] ELSE v[c])
                 = IF c \in from .. (k + n) - 1 THEN p[c] ELSE r.vram[c]
    <3>1. v[c] = IF c \in from .. k - 1 THEN p[c] ELSE r.vram[c]
      BY <1>5 DEF Progress
    <3>2. CASE c \in k .. k + n - 1
      <4>1. c \in from .. (k + n) - 1
        BY <1>1, <3>2
      <4>2. QED
        BY <3>2, <4>1
    <3>3. CASE c \notin k .. k + n - 1
      <4>1. c \in from .. (k + n) - 1 <=> c \in from .. k - 1
        BY <1>1, <3>3
      <4>2. QED
        BY <3>1, <3>3, <4>1
    <3>4. QED
      BY <3>2, <3>3
  <2>2. QED
    BY <2>1 DEF Run, Progress
<1>13. PICK s \in {"opcode", "blit"} : s = IF k + n = to THEN "opcode" ELSE "blit"
  OBVIOUS
<1>14. q1.remain - n = to - (k + n) /\ (q1.remain - n = 0 <=> k + n = to) /\ q1.dst + n = k + n
  BY <1>1, <1>8
<1>15. G!BlitValue(q1, p[k]) =
         [q1 EXCEPT !.dst = k + n, !.remain = to - (k + n), !.run = 0,
                    !.vram = Progress(r.vram, p, from, k + n), !.st = s]
  BY <1>8, <1>11, <1>12, <1>13, <1>14 DEF RunWritten
<1>16. Painted(r, h, p, from, k + n, to) =
         [r EXCEPT !.st = s, !.header = h, !.dst = k + n, !.remain = to - (k + n), !.run = 0,
                   !.vram = Progress(r.vram, p, from, k + n)]
  BY <1>13 DEF Painted
<1>17. [q1 EXCEPT !.dst = k + n, !.remain = to - (k + n), !.run = 0,
                  !.vram = Progress(r.vram, p, from, k + n), !.st = s]
         = [r EXCEPT !.st = s, !.header = h, !.dst = k + n, !.remain = to - (k + n), !.run = 0,
                     !.vram = Progress(r.vram, p, from, k + n)]
  BY <1>3, <1>6 DEF Painted, Receiver
<1>18. Feeder[<<Feeder[<<q, n>>], p[k]>>] = Painted(r, h, p, from, k + n, to)
  BY <1>7, <1>9, <1>15, <1>16, <1>17
<1>19. Fed(Feeder, Receiver, q, <<n, p[k]>>, Feeder[<<Feeder[<<q, n>>], p[k]>>])
  BY <1>2, FeederTyped, FedTwo
<1>20. QED
  BY <1>3, <1>18, <1>19

LEMMA BytesTyped ==
  ASSUME NEW p \in [G!Vram -> Octet], NEW from \in 0 .. G!Size, NEW to \in 0 .. G!Size, from <= to,
         G!Size \in Nat
  PROVE  /\ G!Bytes(p, from, to) \in Seq(Octet) /\ Len(G!Bytes(p, from, to)) = to - from
         /\ \A i \in 1 .. to - from : G!Bytes(p, from, to)[i] = p[from + i - 1]
<1>1. PICK n \in Nat : n = to - from
  OBVIOUS
<1>2. ASSUME NEW i \in 1 .. n PROVE p[from + i - 1] \in Octet
  <2>1. from + i - 1 \in G!Vram
    BY <1>1 DEF G!Vram
  <2>2. QED
    BY <2>1
<1>3. G!Bytes(p, from, to) = [i \in 1 .. n |-> p[from + i - 1]]
  BY <1>1 DEF G!Bytes
<1>4. QED
  BY <1>1, <1>2, <1>3

LEMMA BlitTyped ==
  ASSUME G!HiresAssumption, NEW p \in [G!Vram -> Octet],
         NEW from \in 0 .. G!Size, NEW to \in 0 .. G!Size, from <= to
  PROVE  G!Blit(p, from, to) \in Seq(Octet)
<1>1. G!RLEEncode(G!Bytes(p, from, to)) \in Seq(Octet)
  <2>1. G!Bytes(p, from, to) \in Seq(Octet)
    BY SizeIs, BytesTyped
  <2>2. QED
    BY <2>1, RLETyped
<1>2. to - from \in 0 .. G!Size
  BY SizeIs
<1>3. G!Number(from) \in Seq(Octet) /\ G!Number(to - from) \in Seq(Octet)
  BY <1>2, NumberTyped
<1>4. 32 \in Octet
  BY DEF Octet
<1>5. <<32>> \in Seq(Octet)
  BY <1>4
<1>6. <<32>> \o G!Number(from) \in Seq(Octet)
  BY <1>3, <1>5, ConcatProperties
<1>7. <<32>> \o G!Number(from) \o G!Number(to - from) \in Seq(Octet)
  BY <1>3, <1>6, ConcatProperties
<1>8. QED
  BY <1>1, <1>7, ConcatProperties DEF G!Blit, G!HiBlit

(* What a primitive or a blit changes is the picture: the rest stays. *)
SamePen(q, t) ==
  /\ t.graphic = q.graphic /\ t.penX = q.penX /\ t.penY = q.penY
  /\ t.ink = q.ink /\ t.color = q.color /\ t.paper = q.paper

BlitShown(p, from, to, q) ==
  \E t \in Receiver :
    /\ Fed(Feeder, Receiver, q, G!Blit(p, from, to), t)
    /\ t.st = "opcode" /\ SamePen(q, t) /\ t.vram = Progress(q.vram, p, from, to)

LEMMA BlitLeads ==
  ASSUME G!HiresAssumption, kind = "oterm", NEW q \in Receiver, q.st = "opcode",
         NEW p \in [G!Vram -> Octet], NEW from \in 0 .. G!Size, NEW to \in 0 .. G!Size, from < to
  PROVE  BlitShown(p, from, to, q)
<1>1. G!Size \in Nat /\ from \in Nat /\ to \in Nat /\ from <= to
  BY SizeIs
<1>2. PICK h \in Header :
        /\ Len(h) = 4
        /\ Fed(Feeder, Receiver, q, <<32>> \o G!Number(from) \o G!Number(to - from),
               Painted(q, h, p, from, from, to))
  BY BlitStarts
<1>3. PICK n \in Nat \ {0} : n = to - from
  BY <1>1
<1>4. PICK data \in Seq(Octet) :
        /\ data = G!Bytes(p, from, to) /\ Len(data) = n
        /\ \A i \in 1 .. n : data[i] = p[from + i - 1]
  BY <1>1, <1>3, BytesTyped
<1> DEFINE K == [i \in 1 .. n + 1 |-> Painted(q, h, p, from, from + i - 1, to)]
<1>5. K \in [1 .. n + 1 -> Receiver]
  <2>1. ASSUME NEW i \in 1 .. n + 1 PROVE Painted(q, h, p, from, from + i - 1, to) \in Receiver
    <3>1. from + i - 1 \in from .. to
      BY <1>1, <1>3
    <3>2. QED
      BY <1>1, <1>2, <3>1, PaintedTyped
  <2>2. QED
    BY <2>1
<1>6. ASSUME NEW i \in 1 .. n, NEW m \in 1 .. 255, i + m \in i + 1 .. n + 1,
             \A j \in i .. i + m - 1 : data[j] = data[i]
      PROVE  Fed(Feeder, Receiver, K[i], <<m, data[i]>>, K[i + m])
  <2>1. PICK k \in from .. to : k = from + i - 1
    BY <1>1, <1>3
  <2>2. k + m <= to /\ k + m = from + (i + m) - 1
    BY <1>1, <1>3, <1>6, <2>1
  <2>3. data[i] = p[k]
    BY <1>4, <2>1
  <2>4. ASSUME NEW c \in k .. k + m - 1 PROVE p[c] = p[k]
    <3>1. (c - from) + 1 \in i .. i + m - 1 /\ (c - from) + 1 \in 1 .. n
          /\ from + ((c - from) + 1) - 1 = c
      BY <1>1, <1>3, <1>6, <2>1, <2>2
    <3>2. data[(c - from) + 1] = data[i]
      BY <1>6, <3>1
    <3>3. data[(c - from) + 1] = p[c]
      BY <1>4, <3>1
    <3>4. QED
      BY <2>3, <3>2, <3>3
  <2>5. Fed(Feeder, Receiver, Painted(q, h, p, from, k, to), <<m, p[k]>>,
            Painted(q, h, p, from, k + m, to))
    BY <1>1, <1>2, <2>2, <2>4, PairPaints
  <2>6. K[i] = Painted(q, h, p, from, k, to) /\ K[i + m] = Painted(q, h, p, from, k + m, to)
    <3>1. i \in 1 .. n + 1 /\ i + m \in 1 .. n + 1
      BY <1>6
    <3>2. QED
      BY <2>1, <2>2, <3>1
  <2>7. QED
    BY <2>3, <2>5, <2>6
<1>7. RunsLead(Feeder, Receiver, data, K)
  <2> HIDE DEF K
  <2>1. QED
    BY <1>4, <1>6 DEF RunsLead
<1>8. Fed(Feeder, Receiver, K[1], G!RLEEncode(data), K[n + 1])
  <2> HIDE DEF K
  <2>1. QED
    BY <1>4, <1>5, <1>7, EncodingLeads
<1>9. K[1] = Painted(q, h, p, from, from, to) /\ K[n + 1] = Painted(q, h, p, from, to, to)
  <2>1. 1 \in 1 .. n + 1 /\ n + 1 \in 1 .. n + 1 /\ from + 1 - 1 = from /\ from + (n + 1) - 1 = to
    BY <1>1, <1>3
  <2>2. QED
    BY <2>1
<1> HIDE DEF K
<1>10. PICK t \in Receiver : t = Painted(q, h, p, from, to, to)
  <2>1. to \in from .. to
    BY <1>1
  <2>2. QED
    BY <1>1, <1>2, <2>1, PaintedTyped
<1>11. Fed(Feeder, Receiver, Painted(q, h, p, from, from, to), G!RLEEncode(data), t)
  BY <1>8, <1>9, <1>10
<1>12. PICK u \in Seq(Octet) : u = <<32>> \o G!Number(from) \o G!Number(to - from)
  <2>1. to - from \in 0 .. G!Size
    BY <1>1
  <2>2. G!Number(from) \in Seq(Octet) /\ G!Number(to - from) \in Seq(Octet)
    BY <2>1, NumberTyped
  <2>3. 32 \in Octet
    BY DEF Octet
  <2>4. <<32>> \in Seq(Octet)
    BY <2>3
  <2>5. <<32>> \o G!Number(from) \in Seq(Octet)
    BY <2>2, <2>4, ConcatProperties
  <2>6. QED
    BY <2>2, <2>5, ConcatProperties
<1>13. G!RLEEncode(data) \in Seq(Octet)
  BY <1>4, RLETyped
<1>14. Fed(Feeder, Receiver, q, u \o G!RLEEncode(data), t)
  BY <1>2, <1>11, <1>12, <1>13, FedJoin
<1>15. G!Blit(p, from, to) = u \o G!RLEEncode(data)
  BY <1>4, <1>12 DEF G!Blit, G!HiBlit
<1>16. t.st = "opcode" /\ SamePen(q, t) /\ t.vram = Progress(q.vram, p, from, to)
  BY <1>10 DEF Painted, SamePen, Receiver
<1>17. QED
  BY <1>14, <1>15, <1>16 DEF BlitShown

(* A stretch of bytes that differ. *)
LEMMA StretchEndIs ==
  ASSUME G!HiresAssumption, NEW b, NEW s, NEW c \in G!Vram, b[c] # s[c]
  PROVE  /\ G!StretchEnd(b, s, c) \in c + 1 .. G!Size
         /\ \A i \in c .. G!StretchEnd(b, s, c) - 1 : b[i] # s[i]
         /\ \/ G!StretchEnd(b, s, c) = G!Size
            \/ b[G!StretchEnd(b, s, c)] = s[G!StretchEnd(b, s, c)]
<1>1. PICK n \in Nat : n = G!Size
  BY SizeIs
<1>2. c \in 0 .. n - 1
  BY <1>1, SizeIs
<1> DEFINE T == {e \in c + 1 .. n : e = n \/ b[e] = s[e]}
<1>3. T \in SUBSET Nat /\ n \in T
  BY <1>2
<1>4. PICK e \in T : \A other \in T : e <= other
  <2> HIDE DEF T
  <2>1. T # {}
    BY <1>3
  <2>2. QED
    BY <1>3, <2>1, LeastNumber
<1>5. e \in c + 1 .. n /\ (e = n \/ b[e] = s[e])
  BY <1>4
<1>6. ASSUME NEW i \in c .. e - 1 PROVE b[i] # s[i]
  <2>1. CASE i = c
    BY <2>1
  <2>2. CASE i # c
    <3>1. i \in c + 1 .. n /\ ~ e <= i
      BY <1>2, <1>5, <2>2
    <3>2. i \notin T
      BY <1>4, <3>1
    <3>3. QED
      BY <3>1, <3>2
  <2>3. QED
    BY <2>1, <2>2
<1>7. \E u \in c + 1 .. G!Size :
        (\A i \in c .. u - 1 : b[i] # s[i]) /\ (u = G!Size \/ b[u] = s[u])
  BY <1>1, <1>5, <1>6
<1>8. QED
  BY <1>7 DEF G!StretchEnd

StretchCells(b, s, c) == c .. G!StretchEnd(b, s, c) - 1

(* A byte that differs lies in the stretch of a byte that starts one. *)
LEMMA InSomeStretch ==
  ASSUME G!HiresAssumption, NEW b, NEW s, NEW c \in G!Vram, b[c] # s[c]
  PROVE  \E e \in G!Vram : G!StartsStretch(b, s, e) /\ c \in StretchCells(b, s, e)
<1>1. PICK n \in Nat : n = G!Size
  BY SizeIs
<1>2. c \in 0 .. n - 1 /\ G!Vram = 0 .. n - 1
  BY <1>1, SizeIs
<1> DEFINE T == {d \in 0 .. c : d = c \/ b[c - d - 1] = s[c - d - 1]}
<1>3. T \in SUBSET Nat /\ c \in T
  BY <1>2
<1>4. PICK d \in T : \A other \in T : d <= other
  <2> HIDE DEF T
  <2>1. T # {}
    BY <1>3
  <2>2. QED
    BY <1>3, <2>1, LeastNumber
<1>5. d \in 0 .. c /\ (d = c \/ b[c - d - 1] = s[c - d - 1])
  BY <1>4
<1>6. ASSUME NEW i \in 0 .. d PROVE b[c - i] # s[c - i]
  <2>1. CASE i = 0
    <3>1. c - i = c
      BY <1>2, <2>1
    <3>2. QED
      BY <3>1
  <2>2. CASE i # 0
    <3>1. i - 1 \in 0 .. c /\ ~ d <= i - 1 /\ c - (i - 1) - 1 = c - i
      BY <1>2, <1>5, <2>2
    <3>2. i - 1 \notin T
      BY <1>4, <3>1
    <3>3. QED
      BY <3>1, <3>2
  <2>3. QED
    BY <2>1, <2>2
<1>7. PICK e \in G!Vram : e = c - d
  BY <1>2, <1>5
<1>8. b[e] # s[e]
  <2>1. d \in 0 .. d
    BY <1>5
  <2>2. QED
    BY <1>6, <1>7, <2>1
<1>9. G!StartsStretch(b, s, e)
  <2>1. CASE d = c
    <3>1. e = 0
      BY <1>2, <1>7, <2>1
    <3>2. QED
      BY <1>8, <3>1 DEF G!StartsStretch
  <2>2. CASE b[c - d - 1] = s[c - d - 1]
    BY <1>7, <1>8, <2>2 DEF G!StartsStretch
  <2>3. QED
    BY <1>5, <2>1, <2>2
<1>10. PICK u \in e + 1 .. n : u = G!StretchEnd(b, s, e) /\ (u = n \/ b[u] = s[u])
  BY <1>1, <1>8, StretchEndIs
<1>11. c < u
  <2>1. SUFFICES ASSUME u <= c PROVE FALSE
    BY <1>2, <1>7, <1>10
  <2>2. c - u \in 0 .. d /\ c - (c - u) = u /\ u # n
    BY <1>2, <1>5, <1>7, <1>10, <2>1
  <2>3. b[u] # s[u]
    BY <1>6, <2>2
  <2>4. QED
    BY <1>10, <2>2, <2>3
<1>12. c \in StretchCells(b, s, e)
  BY <1>2, <1>5, <1>7, <1>10, <1>11 DEF StretchCells
<1>13. QED
  BY <1>9, <1>12

LEMMA GraphicsFlat ==
  ASSUME NEW B, NEW seqs \in Seq(Seq(B)) PROVE IsFlat(seqs, G!FlattenSeq(seqs), B)
<1>1. CASE Len(seqs) = 0
  <2>1. seqs = <<>> /\ G!FlattenSeq(seqs) = seqs
    BY <1>1, EmptySeq DEF G!FlattenSeq
  <2>2. QED
    BY <2>1, NothingIsFlat
<1>2. CASE Len(seqs) # 0
  <2> DEFINE f == CHOOSE f : Joins(f, seqs, Len(seqs))
  <2>1. G!FlattenSeq(seqs) = f[Len(seqs)]
    BY <1>2 DEF G!FlattenSeq, Joins, UpToPart
  <2>2. Joins(f, seqs, Len(seqs))
    <3>1. Len(seqs) \in Nat \ {0}
      BY <1>2
    <3>2. QED
      BY <3>1, Concatenated, Zenon
  <2> HIDE DEF f
  <2>3. IsFlat(seqs, f[Len(seqs)], B)
    BY <1>2, <2>2, SolutionIsFlat
  <2>4. QED
    BY <2>1, <2>3
<1>3. QED
  BY <1>1, <1>2

LEMMA FlatTyped ==
  ASSUME NEW B, NEW seqs \in Seq(Seq(B)), NEW w, IsFlat(seqs, w, B) PROVE w \in Seq(B)
<1>1. PICK n \in Nat : n = Len(seqs)
  OBVIOUS
<1>2. PICK fl \in [0 .. n -> Seq(B)] : w = fl[n]
  BY <1>1 DEF IsFlat
<1>3. QED
  BY <1>2

(* The blits of the stretches: each byte that differed is that of b, and the
   others are as they were or as in b. *)
StretchPart(b, s, c) ==
  IF G!StartsStretch(b, s, c) THEN G!Blit(b, c, G!StretchEnd(b, s, c)) ELSE <<>>

LEMMA StretchPartIs ==
  ASSUME G!HiresAssumption, NEW b \in [G!Vram -> Octet], NEW s, NEW c \in G!Vram
  PROVE  /\ StretchPart(b, s, c) \in Seq(Octet)
         /\ G!StartsStretch(b, s, c) => G!StretchEnd(b, s, c) \in c + 1 .. G!Size
<1>1. G!Size \in Nat /\ c \in 0 .. G!Size /\ c \in Nat
  BY SizeIs
<1>2. CASE G!StartsStretch(b, s, c)
  <2>1. b[c] # s[c]
    BY <1>2 DEF G!StartsStretch
  <2>2. PICK e \in c + 1 .. G!Size : e = G!StretchEnd(b, s, c)
    BY <2>1, StretchEndIs
  <2>3. e \in 0 .. G!Size /\ c <= e
    BY <1>1, <2>2
  <2>4. G!Blit(b, c, e) \in Seq(Octet)
    BY <1>1, <2>3, BlitTyped
  <2>5. QED
    BY <1>2, <2>2, <2>4 DEF StretchPart
<1>3. CASE ~ G!StartsStretch(b, s, c)
  <2>1. <<>> \in Seq(Octet)
    OBVIOUS
  <2>2. QED
    BY <1>3, <2>1 DEF StretchPart
<1>4. QED
  BY <1>2, <1>3

Stretches(b, s) == [c \in 1 .. G!Size |-> StretchPart(b, s, c - 1)]

LEMMA BlitsTyped ==
  ASSUME G!HiresAssumption, NEW b \in [G!Vram -> Octet], NEW s
  PROVE  /\ Stretches(b, s) \in Seq(Seq(Octet)) /\ Len(Stretches(b, s)) = G!Size
         /\ IsFlat(Stretches(b, s), G!Blits(b, s), Octet)
         /\ G!Blits(b, s) \in Seq(Octet)
<1>1. PICK n \in Nat : n = G!Size
  BY SizeIs
<1>2. ASSUME NEW c \in 1 .. n PROVE StretchPart(b, s, c - 1) \in Seq(Octet)
  <2>1. c - 1 \in G!Vram
    BY <1>1, SizeIs
  <2>2. QED
    BY <2>1, StretchPartIs
<1>3. Stretches(b, s) \in Seq(Seq(Octet)) /\ Len(Stretches(b, s)) = n
  BY <1>1, <1>2 DEF Stretches
<1>4. G!Blits(b, s) = G!FlattenSeq(Stretches(b, s))
  BY DEF G!Blits, Stretches, StretchPart
<1>5. IsFlat(Stretches(b, s), G!Blits(b, s), Octet)
  BY <1>3, <1>4, GraphicsFlat
<1>6. QED
  BY <1>1, <1>3, <1>5, FlatTyped

BlitsShown(b, s, q) ==
  \E t \in Receiver :
    /\ Fed(Feeder, Receiver, q, G!Blits(b, s), t) /\ t.st = "opcode" /\ t.graphic = q.graphic
    /\ \A k \in G!Vram : /\ b[k] # s[k] => t.vram[k] = b[k]
                         /\ t.vram[k] = b[k] \/ t.vram[k] = q.vram[k]

(* The terminals in the middle of it: the stretches before i are written. *)
Sent(b, s, i) ==
  {k \in G!Vram : \E e \in 0 .. i - 1 : G!StartsStretch(b, s, e) /\ k \in StretchCells(b, s, e)}

Showing(b, s, q, i) ==
  {p \in Receiver : /\ p.st = "opcode" /\ p.graphic = q.graphic
                    /\ \A k \in G!Vram : /\ k \in Sent(b, s, i) => p.vram[k] = b[k]
                                         /\ p.vram[k] = b[k] \/ p.vram[k] = q.vram[k]}

LEMMA StretchLeads ==
  ASSUME G!HiresAssumption, NEW b \in [G!Vram -> Octet], NEW s, kind = "oterm" \/ b = s,
         NEW q \in Receiver, NEW i \in 1 .. G!Size, NEW p \in Showing(b, s, q, i - 1)
  PROVE  \E t \in Showing(b, s, q, i) : Fed(Feeder, Receiver, p, StretchPart(b, s, i - 1), t)
<1>1. G!Size \in Nat /\ G!Vram = 0 .. G!Size - 1
  BY SizeIs
<1>2. i - 1 \in G!Vram /\ i - 1 \in 0 .. G!Size /\ i - 1 \in Nat
  BY <1>1
<1>3. p \in Receiver /\ p.st = "opcode" /\ p.graphic = q.graphic
  BY DEF Showing
<1>4. \A k \in G!Vram : /\ k \in Sent(b, s, i - 1) => p.vram[k] = b[k]
                        /\ p.vram[k] = b[k] \/ p.vram[k] = q.vram[k]
  BY DEF Showing
<1>5. \A e : e \in 0 .. i - 1 <=> e \in 0 .. (i - 1) - 1 \/ e = i - 1
  OBVIOUS
<1>6. CASE G!StartsStretch(b, s, i - 1)
  <2>1. PICK to \in (i - 1) + 1 .. G!Size : to = G!StretchEnd(b, s, i - 1)
    BY <1>2, <1>6, StretchPartIs
  <2>2. to \in 0 .. G!Size /\ i - 1 < to
    BY <1>1, <1>2, <2>1
  <2>3. PICK t \in Receiver :
          /\ Fed(Feeder, Receiver, p, G!Blit(b, i - 1, to), t)
          /\ t.st = "opcode" /\ SamePen(p, t) /\ t.vram = Progress(p.vram, b, i - 1, to)
    <3>1. kind = "oterm"
      BY <1>6 DEF G!StartsStretch
    <3>2. BlitShown(b, i - 1, to, p)
      BY <1>2, <1>3, <2>2, <3>1, BlitLeads
    <3>3. QED
      BY <3>2 DEF BlitShown
  <2>4. \A k \in G!Vram : k \in Sent(b, s, i) =>
          k \in Sent(b, s, i - 1) \/ k \in StretchCells(b, s, i - 1)
    BY <1>5, Zenon DEF Sent
  <2>5. StretchCells(b, s, i - 1) = (i - 1) .. to - 1
    BY <2>1 DEF StretchCells
  <2>6. \A k \in G!Vram : t.vram[k] = IF k \in (i - 1) .. to - 1 THEN b[k] ELSE p.vram[k]
    BY <2>3 DEF Progress
  <2>7. \A k \in G!Vram : /\ k \in Sent(b, s, i) => t.vram[k] = b[k]
                          /\ t.vram[k] = b[k] \/ t.vram[k] = q.vram[k]
    BY <1>4, <2>4, <2>5, <2>6
  <2>8. t.graphic = q.graphic
    BY <1>3, <2>3 DEF SamePen
  <2>9. t \in Showing(b, s, q, i)
    BY <2>3, <2>7, <2>8 DEF Showing
  <2>10. StretchPart(b, s, i - 1) = G!Blit(b, i - 1, to)
    BY <1>6, <2>1 DEF StretchPart
  <2>11. QED
    BY <2>3, <2>9, <2>10
<1>7. CASE ~ G!StartsStretch(b, s, i - 1)
  <2>1. \A k \in G!Vram : k \in Sent(b, s, i) => k \in Sent(b, s, i - 1)
    BY <1>5, <1>7, Zenon DEF Sent
  <2>2. p \in Showing(b, s, q, i)
    BY <1>3, <1>4, <2>1 DEF Showing
  <2>3. Fed(Feeder, Receiver, p, <<>>, p)
    BY <1>3, FedNone
  <2>4. StretchPart(b, s, i - 1) = <<>>
    BY <1>7 DEF StretchPart
  <2>5. QED
    BY <2>2, <2>3, <2>4
<1>8. QED
  BY <1>6, <1>7

LEMMA BlitsLead ==
  ASSUME G!HiresAssumption, NEW b \in [G!Vram -> Octet], NEW s, kind = "oterm" \/ b = s,
         NEW q \in Receiver, q.st = "opcode"
  PROVE  BlitsShown(b, s, q)
<1>1. PICK n \in Nat : n = G!Size /\ G!Vram = 0 .. n - 1
  BY SizeIs
<1> DEFINE J == [i \in 0 .. n |-> Showing(b, s, q, i)]
<1>2. J \in [0 .. n -> SUBSET Receiver]
  BY DEF Showing
<1>3. PICK parts \in Seq(Seq(Octet)) : parts = Stretches(b, s) /\ Len(parts) = n
  BY <1>1, BlitsTyped
<1>4. IsFlat(parts, G!Blits(b, s), Octet)
  BY <1>3, BlitsTyped
<1>5. q \in J[0]
  <2>1. Sent(b, s, 0) = {}
    BY DEF Sent
  <2>2. q \in Showing(b, s, q, 0)
    BY <2>1 DEF Showing
  <2>3. QED
    BY <2>2
<1>6. ASSUME NEW i \in 1 .. n, NEW p \in J[i - 1]
      PROVE  \E t \in J[i] : Fed(Feeder, Receiver, p, parts[i], t)
  <2>1. i - 1 \in 0 .. n /\ i \in 0 .. n
    OBVIOUS
  <2>2. p \in Showing(b, s, q, i - 1)
    BY <1>6, <2>1
  <2>3. \E t \in Showing(b, s, q, i) : Fed(Feeder, Receiver, p, StretchPart(b, s, i - 1), t)
    BY <1>1, <2>2, StretchLeads
  <2>4. parts[i] = StretchPart(b, s, i - 1)
    BY <1>1, <1>3 DEF Stretches
  <2>5. QED
    BY <2>1, <2>3, <2>4
<1>7. \E t \in J[n] : Fed(Feeder, Receiver, q, G!Blits(b, s), t)
  <2>1. \A i \in 1 .. n : \A p \in J[i - 1] : \E t \in J[i] : Fed(Feeder, Receiver, p, parts[i], t)
    BY <1>6, Zenon
  <2> HIDE DEF J
  <2>2. QED
    BY <1>2, <1>3, <1>4, <1>5, <2>1, FedParade
<1>8. PICK t \in Showing(b, s, q, n) : Fed(Feeder, Receiver, q, G!Blits(b, s), t)
  <2>1. n \in 0 .. n
    OBVIOUS
  <2>2. QED
    BY <1>7, <2>1
<1>9. t \in Receiver /\ t.st = "opcode" /\ t.graphic = q.graphic
  BY <1>8 DEF Showing
<1>10. \A k \in G!Vram : /\ k \in Sent(b, s, n) => t.vram[k] = b[k]
                         /\ t.vram[k] = b[k] \/ t.vram[k] = q.vram[k]
  BY <1>8 DEF Showing
<1>11. ASSUME NEW k \in G!Vram, b[k] # s[k] PROVE k \in Sent(b, s, n)
  <2>1. PICK e \in G!Vram : G!StartsStretch(b, s, e) /\ k \in StretchCells(b, s, e)
    BY <1>11, InSomeStretch
  <2>2. e \in 0 .. n - 1
    BY <1>1
  <2>3. QED
    BY <2>1, <2>2 DEF Sent
<1>12. QED
  BY <1>8, <1>9, <1>10, <1>11 DEF BlitsShown

-----------------------------------------------------------------------------
(* The primitives of a page. *)

(* What a primitive depends on, and changes. *)
SamePicture(q, r) ==
  /\ q.vram = r.vram /\ q.penX = r.penX /\ q.penY = r.penY
  /\ q.ink = r.ink /\ q.color = r.color /\ q.paper = r.paper

DrawOps == {2, 3} \cup 16 .. 22

LEMMA DrawnSame ==
  ASSUME NEW q \in Receiver, NEW r \in Receiver, SamePicture(q, r), NEW points
  PROVE  SamePicture(G!Drawn(q, points), G!Drawn(r, points))
         /\ G!Drawn(q, points).graphic = q.graphic
<1>1. G!Lit(q, points) = G!Lit(r, points)
  BY DEF SamePicture, G!Lit, G!Inked, G!Kept
<1>2. QED
  BY <1>1 DEF SamePicture, G!Drawn, Receiver

LEMMA PenSame ==
  ASSUME NEW q \in Receiver, NEW r \in Receiver, SamePicture(q, r), NEW x, NEW y
  PROVE  SamePicture(G!PenAt(q, x, y), G!PenAt(r, x, y)) /\ G!PenAt(q, x, y).graphic = q.graphic
BY DEF SamePicture, G!PenAt, Receiver

LEMMA PaperSame ==
  ASSUME NEW q \in Receiver, NEW r \in Receiver, SamePicture(q, r), NEW v
  PROVE  SamePicture(Papered(q, v), Papered(r, v)) /\ Papered(q, v).graphic = q.graphic
<1>1. [c \in G!Vram |-> IF c % RowBytes = 0 THEN v ELSE q.vram[c]]
        = [c \in G!Vram |-> IF c % RowBytes = 0 THEN v ELSE r.vram[c]]
  BY DEF SamePicture
<1>2. QED
  BY <1>1 DEF SamePicture, Papered, Receiver

LEMMA ExecSame ==
  ASSUME G!HiresAssumption, NEW q \in Receiver, NEW r \in Receiver, SamePicture(q, r),
         NEW op \in DrawOps, NEW a
  PROVE  SamePicture(G!Exec(q, op, a), G!Exec(r, op, a)) /\ G!Exec(q, op, a).graphic = q.graphic
<1>1. CASE op = 2
  <2>1. G!Exec(q, op, a) = [q EXCEPT !.ink = a[1] % 8, !.color = TRUE]
        /\ G!Exec(r, op, a) = [r EXCEPT !.ink = a[1] % 8, !.color = TRUE]
    BY <1>1, ExecInk
  <2>2. QED
    BY <2>1 DEF SamePicture, Receiver
<1>2. CASE op = 3
  BY <1>2, ExecPaper, PaperSame
<1>3. CASE op = 16
  BY <1>3, ExecCurset, PenSame
<1>4. CASE op \in 17 .. 20
  <2>1. PICK points : points = WayPoints(op, q.penX, q.penY, a)
                      /\ points = WayPoints(op, r.penX, r.penY, a)
    BY DEF SamePicture
  <2>2. G!Exec(q, op, a) = G!PenAt(G!Drawn(q, points), a[1], a[2])
        /\ G!Exec(r, op, a) = G!PenAt(G!Drawn(r, points), a[1], a[2])
    BY <1>4, <2>1, ExecWay
  <2>3. PICK q1 \in Receiver : q1 = G!Drawn(q, points)
    BY DrawnTyped
  <2>4. PICK r1 \in Receiver : r1 = G!Drawn(r, points)
    BY DrawnTyped
  <2>5. SamePicture(q1, r1) /\ q1.graphic = q.graphic
    BY <2>3, <2>4, DrawnSame
  <2>6. SamePicture(G!PenAt(q1, a[1], a[2]), G!PenAt(r1, a[1], a[2]))
        /\ G!PenAt(q1, a[1], a[2]).graphic = q1.graphic
    BY <2>3, <2>4, <2>5, PenSame
  <2>7. QED
    BY <2>2, <2>3, <2>4, <2>5, <2>6
<1>5. CASE op = 21
  <2>1. PICK points : points = G!Circumference(q.penX, q.penY, a[1])
                      /\ points = G!Circumference(r.penX, r.penY, a[1])
    BY DEF SamePicture
  <2>2. G!Exec(q, op, a) = G!Drawn(q, points) /\ G!Exec(r, op, a) = G!Drawn(r, points)
    BY <1>5, <2>1, ExecCircle
  <2>3. QED
    BY <2>2, DrawnSame
<1>6. CASE op = 22
  <2>1. CASE a[3] % 128 < 32
    <3>1. G!Exec(q, op, a) = q /\ G!Exec(r, op, a) = r
      BY <1>6, <2>1, ExecChar
    <3>2. QED
      BY <3>1
  <2>2. CASE ~ a[3] % 128 < 32
    <3>1. G!Exec(q, op, a) = G!Drawn(q, CharPoints(a)) /\ G!Exec(r, op, a) = G!Drawn(r, CharPoints(a))
      BY <1>6, <2>2, ExecChar
    <3>2. QED
      BY <3>1, DrawnSame
  <2>3. QED
    BY <2>1, <2>2
<1>7. op = 2 \/ op = 3 \/ op = 16 \/ op \in 17 .. 20 \/ op = 21 \/ op = 22
  BY DEF DrawOps
<1>8. QED
  BY <1>1, <1>2, <1>3, <1>4, <1>5, <1>6, <1>7

(* The bytes of a primitive: it is executed with its last argument. *)
PrimitiveShown(op, a, q, r) ==
  \E t \in Receiver :
    /\ Fed(Feeder, Receiver, q, <<op>> \o a, t)
    /\ t.st = "opcode" /\ t.graphic = q.graphic /\ SamePicture(t, G!Exec(r, op, a))

Waiting(op, a, q, r, i) ==
  {p \in Receiver : /\ p.st = "args" /\ p.op = op /\ p.graphic = q.graphic /\ SamePicture(p, r)
                    /\ Len(p.args) = i /\ \A j \in 1 .. i : p.args[j] = a[j]}

Drew(op, a, q, r) ==
  {p \in Receiver : p.st = "opcode" /\ p.graphic = q.graphic /\ SamePicture(p, G!Exec(r, op, a))}

LEMMA ArgumentLeads ==
  ASSUME G!HiresAssumption, NEW q \in Receiver, NEW r \in Receiver, NEW op \in DrawOps,
         NEW a \in Seq(Octet), Len(a) = G!Need(op), NEW i \in 1 .. Len(a),
         NEW p \in Waiting(op, a, q, r, i - 1)
  PROVE  IF i < Len(a) THEN Feeder[<<p, a[i]>>] \in Waiting(op, a, q, r, i)
         ELSE Feeder[<<p, a[i]>>] \in Drew(op, a, q, r)
<1>1. op \in Octet
  BY DEF DrawOps, Octet
<1>2. PICK n \in Nat : n = Len(a)
  OBVIOUS
<1>3. p \in Receiver /\ p.st = "args" /\ p.op = op /\ p.graphic = q.graphic /\ SamePicture(p, r)
  BY DEF Waiting
<1>4. PICK g \in Seq(Octet) : g = p.args /\ Len(g) = i - 1 /\ \A j \in 1 .. i - 1 : g[j] = a[j]
  <2>1. p.args \in Seq(Octet)
    BY <1>3 DEF Receiver
  <2>2. QED
    BY <2>1 DEF Waiting
<1>5. PICK b \in Octet : b = a[i]
  OBVIOUS
<1>6. PICK h \in Seq(Octet) : h = Append(g, b)
  <2>1. Append(g, b) \in Seq(Octet)
    BY <1>4, <1>5, AppendProperties
  <2>2. QED
    BY <2>1
<1>7. Len(h) = i /\ \A j \in 1 .. i : h[j] = a[j]
  <2>1. Len(h) = (i - 1) + 1 /\ h[(i - 1) + 1] = b /\ \A j \in 1 .. i - 1 : h[j] = g[j]
    BY <1>4, <1>5, <1>6, AppendProperties
  <2>2. Len(h) = i /\ h[i] = a[i]
    BY <1>5, <2>1
  <2>3. ASSUME NEW j \in 1 .. i PROVE h[j] = a[j]
    <3>1. j = i \/ j \in 1 .. i - 1
      OBVIOUS
    <3>2. QED
      BY <1>4, <2>1, <2>2, <3>1
  <2>4. QED
    BY <2>2, <2>3
<1>8. Feeder[<<p, b>>] = G!Argument(p, b)
  BY <1>3, <1>5, FeedOther, FeederTyped
<1>9. CASE i < n
  <2>1. Len(h) < G!Need(p.op)
    BY <1>2, <1>3, <1>7, <1>9
  <2>2. G!Argument(p, b) = [p EXCEPT !.args = h]
    BY <1>4, <1>6, <2>1 DEF G!Argument
  <2>3. PICK u \in Receiver : u = [p EXCEPT !.args = h]
    <3>1. [p EXCEPT !.args = h] \in Receiver
      BY <1>3, <1>6 DEF Receiver
    <3>2. QED
      BY <3>1
  <2>4. u.st = "args" /\ u.op = op /\ u.graphic = q.graphic /\ u.args = h /\ SamePicture(u, r)
    BY <1>3, <2>3 DEF Receiver, SamePicture
  <2>5. u \in Waiting(op, a, q, r, i)
    BY <1>7, <2>4 DEF Waiting
  <2>6. QED
    BY <1>2, <1>5, <1>8, <1>9, <2>2, <2>3, <2>5
<1>10. CASE ~ i < n
  <2>1. i = n
    BY <1>2, <1>10
  <2>2. h = a
    <3>1. Len(h) = Len(a) /\ \A j \in 1 .. Len(h) : h[j] = a[j]
      BY <1>2, <1>7, <2>1
    <3>2. QED
      BY <1>6, <3>1, SeqEqual
  <2>3. ~ Len(h) < G!Need(p.op)
    BY <1>2, <1>3, <1>7, <1>10
  <2>4. PICK e \in Receiver : e = G!Exec(p, op, a)
    <3>1. PICK m \in 0 .. 3 : m = G!Need(op)
      BY <1>1, NeedRange
    <3>2. Len(a) >= G!Need(op)
      BY <3>1
    <3>3. G!Exec(p, op, a) \in Receiver
      BY <1>1, <1>3, <3>2, ExecTyped
    <3>4. QED
      BY <3>3
  <2>5. G!Argument(p, b) = [e EXCEPT !.st = "opcode", !.args = <<>>]
    BY <1>3, <1>4, <1>6, <2>2, <2>3, <2>4 DEF G!Argument
  <2>6. PICK u \in Receiver : u = [e EXCEPT !.st = "opcode", !.args = <<>>]
    <3>1. <<>> \in Seq(Octet)
      OBVIOUS
    <3>2. [e EXCEPT !.st = "opcode", !.args = <<>>] \in Receiver
      BY <2>4, <3>1 DEF Receiver
    <3>3. QED
      BY <3>2
  <2>7. SamePicture(e, G!Exec(r, op, a)) /\ e.graphic = q.graphic
    BY <1>3, <2>4, ExecSame
  <2>8. u.st = "opcode" /\ u.graphic = q.graphic /\ SamePicture(u, G!Exec(r, op, a))
    BY <2>4, <2>6, <2>7 DEF Receiver, SamePicture
  <2>9. u \in Drew(op, a, q, r)
    BY <2>6, <2>8 DEF Drew
  <2>10. QED
    BY <1>2, <1>5, <1>8, <1>10, <2>5, <2>6, <2>9
<1>11. QED
  BY <1>9, <1>10

LEMMA PrimitiveLeads ==
  ASSUME G!HiresAssumption, NEW q \in Receiver, q.st = "opcode", NEW r \in Receiver,
         SamePicture(q, r), NEW op \in DrawOps, NEW a \in Seq(Octet), Len(a) = G!Need(op)
  PROVE  PrimitiveShown(op, a, q, r)
<1>1. op \in Octet /\ op # 0 /\ op # 32
  BY DEF DrawOps, Octet
<1>2. PICK n \in 1 .. 3 : n = Len(a)
  <2>1. op \in {2, 3, 21} \/ op \in 16 .. 20 \/ op = 22
    BY DEF DrawOps
  <2>2. G!Need(op) \in 1 .. 3
    BY <1>1, <2>1, NeedIs
  <2>3. QED
    BY <2>2
<1>3. PICK q0 \in Receiver : q0 = [q EXCEPT !.st = "args", !.op = op, !.args = <<>>]
  <2>1. <<>> \in Seq(Octet)
    OBVIOUS
  <2>2. [q EXCEPT !.st = "args", !.op = op, !.args = <<>>] \in Receiver
    BY <1>1, <2>1 DEF Receiver
  <2>3. QED
    BY <2>2
<1>4. Feeder[<<q, op>>] = q0
  <2>1. n > 0
    OBVIOUS
  <2>2. G!Need(op) > 0
    BY <1>2, <2>1
  <2>3. G!Opcode(q, op) = [q EXCEPT !.st = "args", !.op = op, !.args = <<>>]
    BY <1>1, <2>2, OpcodeElse
  <2>4. QED
    BY <1>1, <1>3, <2>3, FeedOther, FeederTyped
<1>5. Fed(Feeder, Receiver, q, <<op>>, q0)
  BY <1>1, <1>4, FeederTyped, FedOne
<1>6. q0 \in Waiting(op, a, q, r, 0)
  <2>1. q0.st = "args" /\ q0.op = op /\ q0.graphic = q.graphic /\ q0.args = <<>> /\ SamePicture(q0, r)
    BY <1>3 DEF Receiver, SamePicture
  <2>2. Len(q0.args) = 0 /\ \A j \in 1 .. 0 : q0.args[j] = a[j]
    BY <2>1
  <2>3. QED
    BY <2>1, <2>2 DEF Waiting
<1> DEFINE stage(i) == IF i < n THEN Waiting(op, a, q, r, i) ELSE Drew(op, a, q, r)
           J == [i \in 0 .. n |-> stage(i)]
<1>7. J \in [0 .. n -> SUBSET Receiver]
  BY DEF Waiting, Drew
<1>8. q0 \in J[0]
  <2>1. 0 \in 0 .. n /\ 0 < n
    OBVIOUS
  <2>2. QED
    BY <1>6, <2>1
<1>9. ASSUME NEW i \in 1 .. n, NEW p \in J[i - 1] PROVE Feeder[<<p, a[i]>>] \in J[i]
  <2>1. i - 1 \in 0 .. n /\ i - 1 < n /\ i \in 0 .. n
    OBVIOUS
  <2>2. p \in Waiting(op, a, q, r, i - 1)
    BY <1>9, <2>1
  <2>3. IF i < n THEN Feeder[<<p, a[i]>>] \in Waiting(op, a, q, r, i)
        ELSE Feeder[<<p, a[i]>>] \in Drew(op, a, q, r)
    BY <1>2, <2>2, ArgumentLeads
  <2>4. QED
    BY <2>1, <2>3
<1>10. \E t \in J[n] : Fed(Feeder, Receiver, q0, a, t)
  <2>1. \A i \in 1 .. Len(a) : \A p \in J[i - 1] : Feeder[<<p, a[i]>>] \in J[i]
    BY <1>2, <1>9, Zenon
  <2>2. Feeder \in [Receiver \X Octet -> Receiver]
    BY FeederTyped
  <2> HIDE DEF J
  <2>3. QED
    BY <1>2, <1>7, <1>8, <2>1, <2>2, FedEach
<1>11. PICK t \in Drew(op, a, q, r) : Fed(Feeder, Receiver, q0, a, t)
  <2>1. n \in 0 .. n /\ ~ n < n
    OBVIOUS
  <2>2. QED
    BY <1>10, <2>1
<1>12. <<op>> \in Seq(Octet)
  BY <1>1
<1>13. Fed(Feeder, Receiver, q, <<op>> \o a, t)
  BY <1>5, <1>11, <1>12, FedJoin
<1>14. t \in Receiver /\ t.st = "opcode" /\ t.graphic = q.graphic /\ SamePicture(t, G!Exec(r, op, a))
  BY <1>11 DEF Drew
<1>15. QED
  BY <1>13, <1>14 DEF PrimitiveShown

(* The image of a page, one primitive after the other. *)
Primitive == [op : DrawOps, args : Seq(Octet)]

Start(p) == IF p.background = NoPicture THEN G!Rest ELSE [G!Rest EXCEPT !.vram = p.background]

UpToDraw(p, f, i) ==
  IF i = 0 THEN Start(p) ELSE G!Exec(f[i - 1], p.draw[i].op, p.draw[i].args)

Draws(p, f) == f = [i \in 0 .. Len(p.draw) |-> UpToDraw(p, f, i)]

AfterDraws(p) == CHOOSE f : Draws(p, f)

PageIs(p) ==
  /\ p.background = NoPicture \/ p.background \in [G!Vram -> Octet]
  /\ p.draw \in Seq(Primitive) /\ \A i \in DOMAIN p.draw : Len(p.draw[i].args) = G!Need(p.draw[i].op)

LEMMA PagesAre == ASSUME G!HiresAssumption, NEW p \in Pages PROVE PageIs(p)
<1>1. {G!HiInk, G!HiPaper} \cup G!HiCurset .. G!HiChar = DrawOps
  BY DEF G!HiInk, G!HiPaper, G!HiCurset, G!HiChar, DrawOps
<1>2. [op : {G!HiInk, G!HiPaper} \cup G!HiCurset .. G!HiChar, args : Seq(0 .. 255)] = Primitive
  BY <1>1 DEF Primitive, Octet
<1>3. p.draw \in Seq(Primitive) /\ \A i \in DOMAIN p.draw : Len(p.draw[i].args) = G!Need(p.draw[i].op)
  BY <1>2 DEF G!HiresAssumption
<1>4. p.background \in Images \cup {NoPicture} /\ Images \subseteq [G!Vram -> Octet]
  BY DEF G!HiresAssumption, Octet
<1>5. QED
  BY <1>3, <1>4 DEF PageIs

LEMMA StartTyped == ASSUME G!HiresAssumption, NEW p, PageIs(p) PROVE Start(p) \in Receiver
<1>1. CASE p.background = NoPicture
  BY <1>1, BlankTyped DEF Start
<1>2. CASE p.background # NoPicture
  <2>1. p.background \in [G!Vram -> Octet]
    BY <1>2 DEF PageIs
  <2>2. [G!Rest EXCEPT !.vram = p.background] \in Receiver
    BY <2>1, BlankTyped DEF Receiver
  <2>3. QED
    BY <1>2, <2>2 DEF Start
<1>3. QED
  BY <1>1, <1>2

(* The arguments a primitive of a page has. *)
LEMMA PrimitiveIs ==
  ASSUME G!HiresAssumption, NEW p, PageIs(p), NEW i \in 1 .. Len(p.draw)
  PROVE  /\ p.draw[i].op \in DrawOps /\ p.draw[i].op \in Octet /\ p.draw[i].args \in Seq(Octet)
         /\ Len(p.draw[i].args) = G!Need(p.draw[i].op)
         /\ Len(p.draw[i].args) >= G!Need(p.draw[i].op)
<1>1. PICK d \in Primitive : d = p.draw[i]
  <2>1. p.draw[i] \in Primitive
    BY DEF PageIs
  <2>2. QED
    BY <2>1
<1>2. d.op \in DrawOps /\ d.args \in Seq(Octet)
  BY DEF Primitive
<1>3. d.op \in Octet
  BY <1>2 DEF DrawOps, Octet
<1>4. Len(d.args) = G!Need(d.op)
  BY <1>1 DEF PageIs
<1>5. G!Need(d.op) \in 0 .. 3
  BY <1>3, NeedRange
<1>6. QED
  BY <1>1, <1>2, <1>3, <1>4, <1>5

DrawStep == [rd \in Receiver \X Primitive |-> G!Exec(rd[1], rd[2].op, rd[2].args)]

LEMMA DrawsOnce ==
  ASSUME G!HiresAssumption, NEW p, PageIs(p)
  PROVE  \E f : Draws(p, f) /\ f \in [0 .. Len(p.draw) -> Receiver]
<1>1. PICK w \in Seq(Primitive) : w = p.draw
  BY DEF PageIs
<1>2. PICK n \in Nat : n = Len(w)
  OBVIOUS
<1> DEFINE T == {m \in 0 .. n : \E x \in [0 .. m -> Receiver] :
                   x[0] = Start(p) /\ \A i \in 1 .. m : x[i] = G!Exec(x[i - 1], w[i].op, w[i].args)}
<1>3. 0 \in T
  <2> DEFINE x == [i \in 0 .. 0 |-> Start(p)]
  <2>1. x \in [0 .. 0 -> Receiver] /\ x[0] = Start(p)
        /\ \A i \in 1 .. 0 : x[i] = G!Exec(x[i - 1], w[i].op, w[i].args)
    BY StartTyped
  <2>2. 0 \in 0 .. n
    OBVIOUS
  <2> HIDE DEF x
  <2>3. QED
    BY <2>1, <2>2, Zenon
<1>4. ASSUME NEW m \in 1 .. n, m - 1 \in T PROVE m \in T
  <2>1. PICK x \in [0 .. m - 1 -> Receiver] :
          x[0] = Start(p) /\ \A i \in 1 .. m - 1 : x[i] = G!Exec(x[i - 1], w[i].op, w[i].args)
    BY <1>4, Zenon
  <2>2. PICK last1 \in Receiver : last1 = x[m - 1]
    <3>1. m - 1 \in 0 .. m - 1
      OBVIOUS
    <3>2. QED
      BY <2>1, <3>1
  <2>3. PICK e \in Receiver : e = G!Exec(last1, w[m].op, w[m].args)
    <3>1. m \in 1 .. Len(p.draw)
      BY <1>1, <1>2
    <3>2. w[m].op \in Octet /\ w[m].args \in Seq(Octet) /\ Len(w[m].args) >= G!Need(w[m].op)
      BY <1>1, <3>1, PrimitiveIs
    <3>3. G!Exec(last1, w[m].op, w[m].args) \in Receiver
      BY <2>2, <3>2, ExecTyped
    <3>4. QED
      BY <3>3
  <2> DEFINE y == [i \in 0 .. m |-> IF i < m THEN x[i] ELSE e]
  <2>4. y \in [0 .. m -> Receiver]
    <3>1. ASSUME NEW i \in 0 .. m PROVE (IF i < m THEN x[i] ELSE e) \in Receiver
      <4>1. CASE i < m
        <5>1. i \in 0 .. m - 1
          BY <4>1
        <5>2. QED
          BY <2>1, <4>1, <5>1
      <4>2. CASE ~ i < m
        BY <2>3, <4>2
      <4>3. QED
        BY <4>1, <4>2
    <3>2. QED
      BY <3>1
  <2>5. y[m] = e /\ y[0] = Start(p) /\ \A i \in 0 .. m - 1 : y[i] = x[i]
    <3>1. m \in 0 .. m /\ 0 \in 0 .. m /\ ~ m < m /\ 0 < m
      OBVIOUS
    <3>2. \A i \in 0 .. m - 1 : i \in 0 .. m /\ i < m
      OBVIOUS
    <3>3. QED
      BY <2>1, <3>1, <3>2
  <2> HIDE DEF y
  <2>6. ASSUME NEW i \in 1 .. m PROVE y[i] = G!Exec(y[i - 1], w[i].op, w[i].args)
    <3>1. CASE i = m
      <4>1. y[i - 1] = x[m - 1]
        BY <2>5, <3>1
      <4>2. QED
        BY <2>2, <2>3, <2>5, <3>1, <4>1
    <3>2. CASE i # m
      <4>1. i \in 1 .. m - 1 /\ i \in 0 .. m - 1 /\ i - 1 \in 0 .. m - 1
        BY <3>2
      <4>2. y[i] = x[i] /\ y[i - 1] = x[i - 1]
        BY <2>5, <4>1
      <4>3. QED
        BY <2>1, <4>1, <4>2
    <3>3. QED
      BY <3>1, <3>2
  <2>7. m \in 0 .. n
    OBVIOUS
  <2>8. QED
    BY <2>4, <2>5, <2>6, <2>7, Zenon
<1>5. n \in T
  <2>1. \A m \in 1 .. n : m - 1 \in T => m \in T
    BY <1>4, Zenon
  <2>2. n \in Nat
    OBVIOUS
  <2> HIDE DEF T
  <2>3. \A m \in 0 .. n : m \in T
    BY <1>3, <2>1, <2>2, UpTo, Zenon
  <2>4. n \in 0 .. n
    OBVIOUS
  <2>5. QED
    BY <2>3, <2>4
<1>6. PICK f \in [0 .. n -> Receiver] :
        f[0] = Start(p) /\ \A i \in 1 .. n : f[i] = G!Exec(f[i - 1], w[i].op, w[i].args)
  BY <1>5, Zenon
<1>7. ASSUME NEW i \in 0 .. n PROVE f[i] = UpToDraw(p, f, i)
  <2>1. CASE i = 0
    BY <1>6, <2>1 DEF UpToDraw
  <2>2. CASE i # 0
    <3>1. i \in 1 .. n
      BY <2>2
    <3>2. QED
      BY <1>1, <1>6, <2>2, <3>1 DEF UpToDraw
  <2>3. QED
    BY <2>1, <2>2
<1>8. f = [i \in 0 .. n |-> UpToDraw(p, f, i)]
  BY <1>7
<1>9. QED
  BY <1>1, <1>2, <1>8 DEF Draws

LEMMA DrawsEach ==
  ASSUME NEW p, NEW f, Draws(p, f), NEW i \in 0 .. Len(p.draw) PROVE f[i] = UpToDraw(p, f, i)
BY DEF Draws

(* The pictures of a page as it is drawn. *)
LEMMA AfterDrawsIs ==
  ASSUME G!HiresAssumption, NEW p, PageIs(p)
  PROVE  /\ AfterDraws(p) \in [0 .. Len(p.draw) -> Receiver]
         /\ AfterDraws(p)[0] = Start(p)
         /\ \A i \in 1 .. Len(p.draw) :
              AfterDraws(p)[i] = G!Exec(AfterDraws(p)[i - 1], p.draw[i].op, p.draw[i].args)
         /\ G!Composed(p) = AfterDraws(p)[Len(p.draw)].vram
<1>1. PICK n \in Nat : n = Len(p.draw)
  BY DEF PageIs
<1>2. PICK f : f = AfterDraws(p)
  OBVIOUS
<1>3. Draws(p, f)
  <2>1. \E g : Draws(p, g)
    BY DrawsOnce
  <2>2. QED
    BY <1>2, <2>1, Zenon DEF AfterDraws
<1>4. \A i \in 0 .. n : f[i] = UpToDraw(p, f, i)
  BY <1>1, <1>3, DrawsEach
<1>5. f[0] = Start(p)
  BY <1>4 DEF UpToDraw
<1>6. \A i \in 1 .. n : f[i] = G!Exec(f[i - 1], p.draw[i].op, p.draw[i].args)
  <2>1. ASSUME NEW i \in 1 .. n PROVE f[i] = G!Exec(f[i - 1], p.draw[i].op, p.draw[i].args)
    <3>1. i \in 0 .. n /\ i # 0
      OBVIOUS
    <3>2. QED
      BY <1>4, <3>1 DEF UpToDraw
  <2>2. QED
    BY <2>1
<1> DEFINE T == {i \in 0 .. n : f[i] \in Receiver}
<1>7. 0 \in T
  BY <1>5, StartTyped
<1>8. ASSUME NEW i \in 1 .. n, i - 1 \in T PROVE i \in T
  <2>1. f[i - 1] \in Receiver /\ i \in 0 .. n
    BY <1>8
  <2>2. p.draw[i].op \in Octet /\ p.draw[i].args \in Seq(Octet)
        /\ Len(p.draw[i].args) >= G!Need(p.draw[i].op)
    BY <1>1, PrimitiveIs
  <2>3. G!Exec(f[i - 1], p.draw[i].op, p.draw[i].args) \in Receiver
    BY <2>1, <2>2, ExecTyped
  <2>4. QED
    BY <1>6, <2>1, <2>3
<1>9. \A i \in 0 .. n : i \in T
  <2>1. \A i \in 1 .. n : i - 1 \in T => i \in T
    BY <1>8, Zenon
  <2> HIDE DEF T
  <2>2. n \in Nat
    OBVIOUS
  <2>3. QED
    BY <1>7, <2>1, <2>2, UpTo, Zenon
<1>10. f \in [0 .. n -> Receiver]
  <2>1. \A i \in 0 .. n : f[i] \in Receiver
    BY <1>9
  <2>2. f = [i \in 0 .. n |-> UpToDraw(p, f, i)]
    BY <1>1, <1>3 DEF Draws
  <2>3. DOMAIN f = 0 .. n
    BY <2>2
  <2>4. f = [i \in 0 .. n |-> f[i]]
    BY <2>2, <2>3
  <2>5. QED
    BY <2>1, <2>4
<1>11. G!Composed(p) = f[n].vram
  BY <1>1, <1>2 DEF G!Composed, AfterDraws, Draws, UpToDraw, Start
<1>12. QED
  BY <1>1, <1>2, <1>5, <1>6, <1>10, <1>11

DrawPart(p, i) == <<p.draw[i].op>> \o p.draw[i].args
DrawParts(p) == [i \in 1 .. Len(p.draw) |-> DrawPart(p, i)]
DrawBytes(p) == G!FlattenSeq(DrawParts(p))

LEMMA DrawPartsTyped ==
  ASSUME G!HiresAssumption, NEW p, PageIs(p)
  PROVE  /\ DrawParts(p) \in Seq(Seq(Octet)) /\ Len(DrawParts(p)) = Len(p.draw)
         /\ IsFlat(DrawParts(p), DrawBytes(p), Octet) /\ DrawBytes(p) \in Seq(Octet)
<1>1. PICK n \in Nat : n = Len(p.draw)
  BY DEF PageIs
<1>2. ASSUME NEW i \in 1 .. n PROVE DrawPart(p, i) \in Seq(Octet)
  <2>1. PICK op \in Octet, a \in Seq(Octet) : op = p.draw[i].op /\ a = p.draw[i].args
    BY <1>1, PrimitiveIs
  <2>2. <<op>> \in Seq(Octet)
    BY <2>1
  <2>3. <<op>> \o a \in Seq(Octet)
    BY <2>1, <2>2, ConcatProperties
  <2>4. QED
    BY <2>1, <2>3 DEF DrawPart
<1>3. DrawParts(p) \in Seq(Seq(Octet)) /\ Len(DrawParts(p)) = n
  BY <1>1, <1>2 DEF DrawParts
<1>4. IsFlat(DrawParts(p), DrawBytes(p), Octet)
  BY <1>3, GraphicsFlat DEF DrawBytes
<1>5. QED
  BY <1>1, <1>3, <1>4, FlatTyped

DrawsShown(p, q) ==
  \E t \in Receiver :
    /\ Fed(Feeder, Receiver, q, DrawBytes(p), t)
    /\ t.st = "opcode" /\ t.graphic = q.graphic /\ t.vram = G!Composed(p)

LEMMA DrawsLead ==
  ASSUME G!HiresAssumption, NEW p, PageIs(p), NEW q \in Receiver, q.st = "opcode",
         SamePicture(q, Start(p))
  PROVE  DrawsShown(p, q)
<1>1. PICK n \in Nat : n = Len(p.draw)
  BY DEF PageIs
<1>2. PICK f \in [0 .. n -> Receiver] :
        /\ f[0] = Start(p) /\ G!Composed(p) = f[n].vram
        /\ \A i \in 1 .. n : f[i] = G!Exec(f[i - 1], p.draw[i].op, p.draw[i].args)
  BY <1>1, AfterDrawsIs
<1> DEFINE stage(i) == {t \in Receiver : t.st = "opcode" /\ t.graphic = q.graphic /\ SamePicture(t, f[i])}
           J == [i \in 0 .. n |-> stage(i)]
<1>3. J \in [0 .. n -> SUBSET Receiver]
  OBVIOUS
<1>4. q \in J[0]
  BY <1>2
<1>5. PICK parts \in Seq(Seq(Octet)) : parts = DrawParts(p) /\ Len(parts) = n
  BY <1>1, DrawPartsTyped
<1>6. IsFlat(parts, DrawBytes(p), Octet)
  BY <1>5, DrawPartsTyped
<1>7. ASSUME NEW i \in 1 .. n, NEW u \in J[i - 1]
      PROVE  \E t \in J[i] : Fed(Feeder, Receiver, u, parts[i], t)
  <2>1. i - 1 \in 0 .. n /\ i \in 0 .. n
    OBVIOUS
  <2>2. u \in Receiver /\ u.st = "opcode" /\ u.graphic = q.graphic /\ SamePicture(u, f[i - 1])
    BY <1>7, <2>1
  <2>3. PICK r \in Receiver : r = f[i - 1]
    BY <1>2, <2>1
  <2>4. PICK op \in DrawOps, a \in Seq(Octet) :
          op = p.draw[i].op /\ a = p.draw[i].args /\ Len(a) = G!Need(op)
    BY <1>1, PrimitiveIs
  <2>5. PICK t \in Receiver : /\ Fed(Feeder, Receiver, u, <<op>> \o a, t)
                              /\ t.st = "opcode" /\ t.graphic = u.graphic
                              /\ SamePicture(t, G!Exec(r, op, a))
    <3>1. PrimitiveShown(op, a, u, r)
      BY <2>2, <2>3, <2>4, PrimitiveLeads
    <3>2. QED
      BY <3>1 DEF PrimitiveShown
  <2>6. f[i] = G!Exec(r, op, a)
    BY <1>2, <2>3, <2>4
  <2>7. t \in stage(i)
    BY <2>2, <2>5, <2>6
  <2>8. parts[i] = <<op>> \o a
    BY <1>1, <1>5, <2>4 DEF DrawParts, DrawPart
  <2>9. J[i] = stage(i)
    BY <2>1
  <2> HIDE DEF J, stage
  <2>10. QED
    BY <2>5, <2>7, <2>8, <2>9, Zenon
<1>8. \E t \in J[n] : Fed(Feeder, Receiver, q, DrawBytes(p), t)
  <2>1. \A i \in 1 .. n : \A u \in J[i - 1] : \E t \in J[i] : Fed(Feeder, Receiver, u, parts[i], t)
    BY <1>7, Zenon
  <2> HIDE DEF J
  <2>2. QED
    BY <1>3, <1>4, <1>5, <1>6, <2>1, FedParade
<1>9. PICK t \in stage(n) : Fed(Feeder, Receiver, q, DrawBytes(p), t)
  <2>1. n \in 0 .. n
    OBVIOUS
  <2>2. J[n] = stage(n)
    BY <2>1
  <2> HIDE DEF J, stage
  <2>3. QED
    BY <1>8, <2>2
<1>10. t \in Receiver /\ t.st = "opcode" /\ t.graphic = q.graphic /\ SamePicture(t, f[n])
  BY <1>9
<1>11. t.vram = G!Composed(p)
  BY <1>2, <1>10 DEF SamePicture
<1> HIDE DEF J, stage
<1>12. QED
  BY <1>9, <1>10, <1>11 DEF DrawsShown

-----------------------------------------------------------------------------
(* The streams. *)

LEMMA FeederTwo ==
  ASSUME G!HiresAssumption, NEW r \in Receiver, NEW a \in Octet, NEW b \in Octet
  PROVE  Fed(Feeder, Receiver, r, <<a, b>>, Feeder[<<Feeder[<<r, a>>], b>>])
<1>1. Feeder \in [Receiver \X Octet -> Receiver]
  BY FeederTyped
<1>2. QED
  BY <1>1, FedTwo

Opens(r) ==
  \E t \in Receiver : /\ Fed(Feeder, Receiver, r, <<31, 252>>, t) /\ t.st = "opcode"
                      /\ kind = "oterm" => t.graphic

LEMMA OpenLeads ==
  ASSUME G!HiresAssumption, kind \in {"oterm", "oric"}, NEW r \in Receiver, r.st = "normal"
  PROVE  Opens(r)
<1>1. 31 \in Octet /\ 252 \in Octet
  BY DEF Octet
<1>2. PICK r1 \in Receiver : r1 = [r EXCEPT !.st = "after1F"]
  <2>1. [r EXCEPT !.st = "after1F"] \in Receiver
    BY DEF Receiver
  <2>2. QED
    BY <2>1
<1>3. Feeder[<<r, 31>>] = r1
  BY <1>1, <1>2, FeedNormal, FeederTyped
<1>4. PICK t \in Receiver : t = G!Command(r1, 252)
  BY <1>1, <1>2, CommandTyped
<1>5. Feeder[<<r1, 252>>] = t
  <2>1. r1.st = "after1F"
    BY <1>2 DEF Receiver
  <2>2. G!Feed(r1, 252) = G!Command(r1, 252)
    <3>1. PICK b \in Octet : b = 252
      BY <1>1
    <3>2. G!Feed(r1, b) = G!Command(r1, b)
      BY <1>2, <2>1, FeedOther
    <3>3. QED
      BY <3>1, <3>2
  <2>3. QED
    BY <1>1, <1>2, <1>4, <2>2, FeederTyped
<1>6. t.st = "opcode" /\ (kind = "oterm" => t.graphic)
  <2>1. CASE kind = "oterm"
    <3>1. t = [G!Rest EXCEPT !.st = "opcode", !.graphic = TRUE]
      BY <1>4, <2>1 DEF G!Command, G!HiresByte, G!HiresOffByte
    <3>2. QED
      BY <3>1, BlankTyped DEF Receiver
  <2>2. CASE kind = "oric"
    <3>1. t = [r1 EXCEPT !.st = "opcode"]
      BY <1>4, <2>2 DEF G!Command, G!HiresByte, G!HiresOffByte
    <3>2. QED
      BY <1>2, <2>2, <3>1 DEF Receiver
  <2>3. QED
    BY <2>1, <2>2
<1>7. Fed(Feeder, Receiver, r, <<31, 252>>, Feeder[<<Feeder[<<r, 31>>], 252>>])
  <2>2. PICK a \in Octet : a = 31
    BY <1>1
  <2>3. PICK b \in Octet : b = 252
    BY <1>1
  <2>4. Fed(Feeder, Receiver, r, <<a, b>>, Feeder[<<Feeder[<<r, a>>], b>>])
    BY <2>2, <2>3, FeederTwo
  <2>5. QED
    BY <2>2, <2>3, <2>4
<1>8. QED
  BY <1>3, <1>5, <1>6, <1>7 DEF Opens

SwitchesOn(q) ==
  \E t \in Receiver : /\ Fed(Feeder, Receiver, q, <<1>>, t)
                      /\ t.st = "opcode" /\ t.graphic /\ SamePicture(t, G!Rest)

LEMMA OnLeads ==
  ASSUME G!HiresAssumption, NEW q \in Receiver, q.st = "opcode" PROVE SwitchesOn(q)
<1>1. 1 \in Octet /\ 1 # 0 /\ 1 # 32 /\ G!Need(1) = 0
  <2>1. 1 \in Octet
    BY DEF Octet
  <2>2. G!Need(1) = 0
    BY <2>1, NeedIs
  <2>3. QED
    BY <2>1, <2>2
<1>2. G!Opcode(q, 1) = G!Exec(q, 1, <<>>)
  <2>1. ~ G!Need(1) > 0
    BY <1>1
  <2>2. QED
    BY <1>1, <2>1, OpcodeElse
<1>3. PICK t \in Receiver : t = G!Exec(q, 1, <<>>)
  BY <1>1, <1>2, OpcodeTyped
<1>4. Feeder[<<q, 1>>] = t
  BY <1>1, <1>2, <1>3, FeedOther, FeederTyped
<1>5. Fed(Feeder, Receiver, q, <<1>>, t)
  BY <1>1, <1>4, FeederTyped, FedOne
<1>6. t = [q EXCEPT !.vram = G!Blank, !.penX = 0, !.penY = 0, !.ink = 7, !.color = FALSE,
                    !.paper = FALSE, !.graphic = TRUE,
                    !.text = IF kind = "oric" THEN <<>> ELSE q.text]
  BY <1>3, ExecOn
<1>7. t.st = "opcode" /\ t.graphic /\ SamePicture(t, G!Rest)
  BY <1>6 DEF SamePicture, G!Rest, Receiver
<1>8. QED
  BY <1>5, <1>7 DEF SwitchesOn

Closes(q) ==
  \E t \in Receiver : /\ Fed(Feeder, Receiver, q, <<0>>, t) /\ t.st = "normal"
                      /\ t.graphic = q.graphic /\ t.vram = q.vram

LEMMA EndLeads ==
  ASSUME G!HiresAssumption, NEW q \in Receiver, q.st = "opcode" PROVE Closes(q)
<1>1. 0 \in Octet
  BY DEF Octet
<1>2. PICK t \in Receiver : t = [q EXCEPT !.st = "normal"]
  <2>1. [q EXCEPT !.st = "normal"] \in Receiver
    BY DEF Receiver
  <2>2. QED
    BY <2>1
<1>3. Feeder[<<q, 0>>] = t
  <2>1. G!Feed(q, 0) = G!Opcode(q, 0)
    BY <1>1, FeedOther
  <2>2. QED
    BY <1>1, <1>2, <2>1, FeederTyped, OpcodeEnd
<1>4. Fed(Feeder, Receiver, q, <<0>>, t)
  BY <1>1, <1>3, FeederTyped, FedOne
<1>5. t.st = "normal" /\ t.graphic = q.graphic /\ t.vram = q.vram
  BY <1>2 DEF Receiver
<1>6. QED
  BY <1>4, <1>5 DEF Closes

(* A stream leaves the decoder at rest and the terminal in graphics. *)
EndsGraphic(r, w) ==
  \E t \in Receiver : Fed(Feeder, Receiver, r, w, t) /\ t.st = "normal" /\ t.graphic

EndsShowing(r, w, v) ==
  \E t \in Receiver :
    Fed(Feeder, Receiver, r, w, t) /\ t.st = "normal" /\ t.graphic /\ t.vram = v

LEMMA OpenTyped ==
  /\ G!Open = <<31, 252>> /\ <<31, 252>> \in Seq(Octet) /\ <<1>> \in Seq(Octet)
  /\ <<0>> \in Seq(Octet) /\ <<>> \in Seq(Octet) /\ <<31, 251>> \in Seq(Octet)
BY DEF G!Open, G!PlotByte, G!HiresByte, Octet

LEMMA FeederJoin ==
  ASSUME NEW u \in Seq(Octet), NEW w \in Seq(Octet), NEW r, NEW s, NEW t,
         Fed(Feeder, Receiver, r, u, s), Fed(Feeder, Receiver, s, w, t)
  PROVE  Fed(Feeder, Receiver, r, u \o w, t)
BY FedJoin

(* The stream of a page. *)
Background(p) == IF p.background = NoPicture THEN <<>> ELSE G!Blit(p.background, 0, G!Size)

LEMMA BackgroundTyped ==
  ASSUME G!HiresAssumption, NEW p, PageIs(p) PROVE Background(p) \in Seq(Octet)
<1>1. CASE p.background = NoPicture
  BY <1>1, OpenTyped DEF Background
<1>2. CASE p.background # NoPicture
  <2>1. p.background \in [G!Vram -> Octet]
    BY <1>2 DEF PageIs
  <2>2. 0 \in 0 .. G!Size /\ G!Size \in 0 .. G!Size /\ 0 <= G!Size
    BY SizeIs
  <2>3. G!Blit(p.background, 0, G!Size) \in Seq(Octet)
    BY <2>1, <2>2, BlitTyped
  <2>4. QED
    BY <1>2, <2>3 DEF Background
<1>3. QED
  BY <1>1, <1>2

LEMMA SizePositive == ASSUME G!HiresAssumption PROVE 0 < G!Size
<1>1. RowBytes \in Nat \ {0} /\ ImageLines \in Nat \ {0}
  BY DEF G!HiresAssumption
<1>2. 1 * ImageLines <= RowBytes * ImageLines
  BY <1>1, TimesMore
<1>3. 1 * ImageLines = ImageLines /\ RowBytes * ImageLines \in Nat
  BY <1>1
<1>4. QED
  BY <1>1, <1>2, <1>3 DEF G!Size

BackgroundShown(p, q) ==
  \E t \in Receiver : /\ Fed(Feeder, Receiver, q, Background(p), t)
                      /\ t.st = "opcode" /\ t.graphic /\ SamePicture(t, Start(p))

LEMMA BackgroundLeads ==
  ASSUME G!HiresAssumption, NEW p, PageIs(p), kind = "oterm" \/ p.background = NoPicture,
         NEW q \in Receiver, q.st = "opcode", q.graphic, SamePicture(q, G!Rest)
  PROVE  BackgroundShown(p, q)
<1>1. CASE p.background = NoPicture
  <2>1. Background(p) = <<>> /\ Start(p) = G!Rest
    BY <1>1 DEF Background, Start
  <2>2. Fed(Feeder, Receiver, q, <<>>, q)
    BY FedNone
  <2>3. QED
    BY <2>1, <2>2 DEF BackgroundShown
<1>2. CASE p.background # NoPicture
  <2>1. PICK b \in [G!Vram -> Octet] : b = p.background
    BY <1>2 DEF PageIs
  <2>2. 0 \in 0 .. G!Size /\ G!Size \in 0 .. G!Size /\ 0 < G!Size /\ kind = "oterm"
    BY <1>2, SizeIs, SizePositive
  <2>3. PICK t \in Receiver :
          /\ Fed(Feeder, Receiver, q, G!Blit(b, 0, G!Size), t)
          /\ t.st = "opcode" /\ SamePen(q, t) /\ t.vram = Progress(q.vram, b, 0, G!Size)
    <3>1. BlitShown(b, 0, G!Size, q)
      BY <2>1, <2>2, BlitLeads
    <3>2. QED
      BY <3>1 DEF BlitShown
  <2>4. t.vram = b
    <3>1. \A c \in G!Vram : c \in 0 .. G!Size - 1
      BY SizeIs
    <3>2. Progress(q.vram, b, 0, G!Size) = b
      BY <2>1, <3>1 DEF Progress
    <3>3. QED
      BY <2>3, <3>2
  <2>5. Start(p) = [G!Rest EXCEPT !.vram = b]
    BY <1>2, <2>1 DEF Start
  <2>6. t.graphic /\ SamePicture(t, Start(p))
    BY <2>3, <2>4, <2>5, BlankTyped DEF SamePicture, SamePen, Receiver
  <2>7. Background(p) = G!Blit(b, 0, G!Size)
    BY <1>2, <2>1 DEF Background
  <2>8. QED
    BY <2>3, <2>6, <2>7 DEF BackgroundShown
<1>3. QED
  BY <1>1, <1>2

LEMMA PageStreamIs ==
  ASSUME NEW p, PageIs(p)
  PROVE  G!PageStream(p) = <<31, 252>> \o <<1>> \o Background(p) \o DrawBytes(p) \o <<0>>
<1>1. DOMAIN p.draw = 1 .. Len(p.draw)
  BY DEF PageIs
<1>2. DrawBytes(p) = G!FlattenSeq([i \in DOMAIN p.draw |-> <<p.draw[i].op>> \o p.draw[i].args])
  BY <1>1 DEF DrawBytes, DrawParts, DrawPart
<1>3. QED
  BY <1>2, OpenTyped DEF G!PageStream, Background, G!HiOn, G!HiEnd

LEMMA PageStreamTyped ==
  ASSUME G!HiresAssumption, NEW p, PageIs(p) PROVE G!PageStream(p) \in Seq(Octet)
<1>1. <<31, 252>> \o <<1>> \in Seq(Octet)
  BY OpenTyped, ConcatProperties
<1>2. <<31, 252>> \o <<1>> \o Background(p) \in Seq(Octet)
  BY <1>1, BackgroundTyped, ConcatProperties
<1>3. <<31, 252>> \o <<1>> \o Background(p) \o DrawBytes(p) \in Seq(Octet)
  BY <1>2, DrawPartsTyped, ConcatProperties
<1>4. <<31, 252>> \o <<1>> \o Background(p) \o DrawBytes(p) \o <<0>> \in Seq(Octet)
  BY <1>3, OpenTyped, ConcatProperties
<1>5. QED
  BY <1>4, PageStreamIs

LEMMA PageLeads ==
  ASSUME G!HiresAssumption, kind \in {"oterm", "oric"}, NEW p, PageIs(p),
         kind = "oterm" \/ p.background = NoPicture, NEW r \in Receiver, r.st = "normal"
  PROVE  EndsShowing(r, G!PageStream(p), G!Composed(p))
<1>1. PICK t1 \in Receiver : Fed(Feeder, Receiver, r, <<31, 252>>, t1) /\ t1.st = "opcode"
  BY OpenLeads DEF Opens
<1>2. PICK t2 \in Receiver :
        Fed(Feeder, Receiver, t1, <<1>>, t2) /\ t2.st = "opcode" /\ t2.graphic /\ SamePicture(t2, G!Rest)
  <2>1. SwitchesOn(t1)
    BY <1>1, OnLeads
  <2>2. QED
    BY <2>1 DEF SwitchesOn
<1>3. PICK t3 \in Receiver :
        Fed(Feeder, Receiver, t2, Background(p), t3) /\ t3.st = "opcode" /\ t3.graphic
        /\ SamePicture(t3, Start(p))
  <2>1. BackgroundShown(p, t2)
    BY <1>2, BackgroundLeads
  <2>2. QED
    BY <2>1 DEF BackgroundShown
<1>4. PICK t4 \in Receiver :
        Fed(Feeder, Receiver, t3, DrawBytes(p), t4) /\ t4.st = "opcode" /\ t4.graphic = t3.graphic
        /\ t4.vram = G!Composed(p)
  <2>1. DrawsShown(p, t3)
    BY <1>3, DrawsLead
  <2>2. QED
    BY <2>1 DEF DrawsShown
<1>5. PICK t5 \in Receiver :
        Fed(Feeder, Receiver, t4, <<0>>, t5) /\ t5.st = "normal" /\ t5.graphic = t4.graphic
        /\ t5.vram = t4.vram
  <2>1. Closes(t4)
    BY <1>4, EndLeads
  <2>2. QED
    BY <2>1 DEF Closes
<1>6. PICK w1 \in Seq(Octet) : w1 = <<31, 252>> \o <<1>>
  <2>1. <<31, 252>> \o <<1>> \in Seq(Octet)
    BY OpenTyped, ConcatProperties
  <2>2. QED
    BY <2>1
<1>7. Fed(Feeder, Receiver, r, w1, t2)
  BY <1>1, <1>2, <1>6, OpenTyped, FeederJoin
<1>8. PICK bg \in Seq(Octet) : bg = Background(p)
  BY BackgroundTyped
<1>9. PICK w2 \in Seq(Octet) : w2 = w1 \o bg
  <2>1. w1 \o bg \in Seq(Octet)
    BY <1>6, <1>8, ConcatProperties
  <2>2. QED
    BY <2>1
<1>10. Fed(Feeder, Receiver, r, w2, t3)
  <2>1. Fed(Feeder, Receiver, t2, bg, t3)
    BY <1>3, <1>8
  <2>2. Fed(Feeder, Receiver, r, w1 \o bg, t3)
    BY <1>7, <2>1, FeederJoin
  <2>3. QED
    BY <1>9, <2>2
<1>11. PICK db \in Seq(Octet) : db = DrawBytes(p)
  BY DrawPartsTyped
<1>12. PICK w3 \in Seq(Octet) : w3 = w2 \o db
  <2>1. w2 \o db \in Seq(Octet)
    BY <1>9, <1>11, ConcatProperties
  <2>2. QED
    BY <2>1
<1>13. Fed(Feeder, Receiver, r, w3, t4)
  <2>1. Fed(Feeder, Receiver, t3, db, t4)
    BY <1>4, <1>11
  <2>2. Fed(Feeder, Receiver, r, w2 \o db, t4)
    BY <1>9, <1>10, <1>11, <2>1, FeederJoin
  <2>3. QED
    BY <1>12, <2>2
<1>14. Fed(Feeder, Receiver, r, w3 \o <<0>>, t5)
  BY <1>5, <1>12, <1>13, OpenTyped, FeederJoin
<1>15. G!PageStream(p) = w3 \o <<0>>
  BY <1>6, <1>8, <1>9, <1>11, <1>12, PageStreamIs
<1>16. t5.graphic /\ t5.vram = G!Composed(p)
  BY <1>3, <1>4, <1>5
<1>17. QED
  BY <1>5, <1>14, <1>15, <1>16 DEF EndsShowing

(* The streams of an animation. *)
LEMMA FirstIs ==
  ASSUME NEW b, NEW s
  PROVE  G!Render(b, s, TRUE) = <<31, 252>> \o (<<1>> \o G!Blits(b, G!Blank)) \o <<0>>
BY OpenTyped DEF G!Render, G!HiOn, G!HiEnd

NextStream(b, s) == G!Render(b, s, FALSE)
Differences(b, s) == <<31, 252>> \o G!Blits(b, s) \o <<0>>

LEMMA NextIs ==
  ASSUME NEW b, NEW s PROVE NextStream(b, s) = IF b = s THEN <<>> ELSE Differences(b, s)
BY OpenTyped DEF NextStream, Differences, G!Render, G!HiEnd

LEMMA RenderTyped ==
  ASSUME G!HiresAssumption, NEW b \in [G!Vram -> Octet], NEW s
  PROVE  G!Render(b, s, TRUE) \in Seq(Octet) /\ NextStream(b, s) \in Seq(Octet)
<1>1. <<1>> \o G!Blits(b, G!Blank) \in Seq(Octet) /\ G!Blits(b, s) \in Seq(Octet)
  BY OpenTyped, BlitsTyped, ConcatProperties
<1>2. <<31, 252>> \o (<<1>> \o G!Blits(b, G!Blank)) \in Seq(Octet)
      /\ <<31, 252>> \o G!Blits(b, s) \in Seq(Octet)
  BY <1>1, OpenTyped, ConcatProperties
<1>3. <<31, 252>> \o (<<1>> \o G!Blits(b, G!Blank)) \o <<0>> \in Seq(Octet)
      /\ <<31, 252>> \o G!Blits(b, s) \o <<0>> \in Seq(Octet)
  BY <1>2, OpenTyped, ConcatProperties
<1>4. G!Render(b, s, TRUE) \in Seq(Octet)
  <2>1. G!Render(b, s, TRUE) = <<31, 252>> \o (<<1>> \o G!Blits(b, G!Blank)) \o <<0>>
    BY FirstIs
  <2>2. QED
    BY <1>3, <2>1, Zenon
<1>5. NextStream(b, s) \in Seq(Octet)
  <2>1. CASE b = s
    <3>1. NextStream(b, s) = <<>>
      BY <2>1, NextIs
    <3>2. QED
      BY <3>1, OpenTyped
  <2>2. CASE b # s
    <3>1. NextStream(b, s) = Differences(b, s)
      BY <2>2, NextIs
    <3>2. QED
      BY <1>3, <3>1, Zenon DEF Differences
  <2>3. QED
    BY <2>1, <2>2
<1>6. QED
  BY <1>4, <1>5

LEMMA FirstLeads ==
  ASSUME G!HiresAssumption, kind \in {"oterm", "oric"}, NEW b \in [G!Vram -> Octet], NEW s,
         kind = "oterm" \/ b = G!Blank, NEW r \in Receiver, r.st = "normal"
  PROVE  EndsShowing(r, G!Render(b, s, TRUE), b)
<1>1. PICK t1 \in Receiver : Fed(Feeder, Receiver, r, <<31, 252>>, t1) /\ t1.st = "opcode"
  BY OpenLeads DEF Opens
<1>2. PICK t2 \in Receiver :
        Fed(Feeder, Receiver, t1, <<1>>, t2) /\ t2.st = "opcode" /\ t2.graphic /\ SamePicture(t2, G!Rest)
  <2>1. SwitchesOn(t1)
    BY <1>1, OnLeads
  <2>2. QED
    BY <2>1 DEF SwitchesOn
<1>3. PICK t3 \in Receiver :
        /\ Fed(Feeder, Receiver, t2, G!Blits(b, G!Blank), t3)
        /\ t3.st = "opcode" /\ t3.graphic = t2.graphic
        /\ \A k \in G!Vram : /\ b[k] # G!Blank[k] => t3.vram[k] = b[k]
                             /\ t3.vram[k] = b[k] \/ t3.vram[k] = t2.vram[k]
  <2>1. BlitsShown(b, G!Blank, t2)
    BY <1>2, BlitsLead
  <2>2. QED
    BY <2>1 DEF BlitsShown
<1>4. t3.vram = b
  <2>1. t2.vram = G!Blank
    BY <1>2 DEF SamePicture, G!Rest
  <2>2. \A k \in G!Vram : t3.vram[k] = b[k]
    BY <1>3, <2>1
  <2>3. t3.vram \in [G!Vram -> Octet]
    BY <1>3 DEF Receiver
  <2>4. QED
    BY <2>2, <2>3
<1>5. PICK t4 \in Receiver :
        Fed(Feeder, Receiver, t3, <<0>>, t4) /\ t4.st = "normal" /\ t4.graphic = t3.graphic
        /\ t4.vram = t3.vram
  <2>1. Closes(t3)
    BY <1>3, EndLeads
  <2>2. QED
    BY <2>1 DEF Closes
<1>6. PICK w1 \in Seq(Octet) : w1 = G!Blits(b, G!Blank)
  BY BlitsTyped
<1>7. PICK w2 \in Seq(Octet) : w2 = <<1>> \o w1
  <2>1. <<1>> \o w1 \in Seq(Octet)
    BY <1>6, OpenTyped, ConcatProperties
  <2>2. QED
    BY <2>1
<1>8. Fed(Feeder, Receiver, t1, w2, t3)
  <2>1. Fed(Feeder, Receiver, t2, w1, t3)
    BY <1>3, <1>6
  <2>2. Fed(Feeder, Receiver, t1, <<1>> \o w1, t3)
    BY <1>2, <1>6, <2>1, OpenTyped, FeederJoin
  <2>3. QED
    BY <1>7, <2>2
<1>9. PICK w3 \in Seq(Octet) : w3 = <<31, 252>> \o w2
  <2>1. <<31, 252>> \o w2 \in Seq(Octet)
    BY <1>7, OpenTyped, ConcatProperties
  <2>2. QED
    BY <2>1
<1>10. Fed(Feeder, Receiver, r, w3, t3)
  <2>1. <<31, 252>> \in Seq(Octet)
    BY OpenTyped
  <2>2. Fed(Feeder, Receiver, r, <<31, 252>> \o w2, t3)
    BY <1>1, <1>8, <2>1, FeederJoin
  <2>3. QED
    BY <1>9, <2>2
<1>11. Fed(Feeder, Receiver, r, w3 \o <<0>>, t4)
  BY <1>5, <1>9, <1>10, OpenTyped, FeederJoin
<1>12. G!Render(b, s, TRUE) = w3 \o <<0>>
  <2>1. G!Render(b, s, TRUE) = <<31, 252>> \o (<<1>> \o G!Blits(b, G!Blank)) \o <<0>>
    BY FirstIs
  <2>2. QED
    BY <1>6, <1>7, <1>9, <2>1, Zenon
<1>13. t4.graphic /\ t4.vram = b
  BY <1>2, <1>3, <1>4, <1>5
<1>14. QED
  BY <1>5, <1>11, <1>12, <1>13 DEF EndsShowing

(* The next images: on a terminal in graphics, whatever it displays. *)
LEMMA NextLeads ==
  ASSUME G!HiresAssumption, kind \in {"oterm", "oric"}, NEW b \in [G!Vram -> Octet], NEW s,
         kind = "oterm" \/ b = s, NEW r \in Receiver, r.st = "normal", r.graphic
  PROVE  EndsGraphic(r, NextStream(b, s))
<1>1. CASE b = s
  <2>1. NextStream(b, s) = <<>>
    BY <1>1, NextIs
  <2>2. Fed(Feeder, Receiver, r, <<>>, r)
    BY FedNone
  <2>3. QED
    BY <2>1, <2>2 DEF EndsGraphic
<1>2. CASE b # s
  <2>1. PICK t1 \in Receiver :
          Fed(Feeder, Receiver, r, <<31, 252>>, t1) /\ t1.st = "opcode" /\ t1.graphic
    BY <1>2, OpenLeads DEF Opens
  <2>2. PICK t2 \in Receiver :
          Fed(Feeder, Receiver, t1, G!Blits(b, s), t2) /\ t2.st = "opcode" /\ t2.graphic = t1.graphic
    <3>1. BlitsShown(b, s, t1)
      BY <2>1, BlitsLead
    <3>2. QED
      BY <3>1 DEF BlitsShown
  <2>3. PICK t3 \in Receiver :
          Fed(Feeder, Receiver, t2, <<0>>, t3) /\ t3.st = "normal" /\ t3.graphic = t2.graphic
    <3>1. Closes(t2)
      BY <2>2, EndLeads
    <3>2. QED
      BY <3>1 DEF Closes
  <2>4. PICK w1 \in Seq(Octet) : w1 = G!Blits(b, s)
    BY BlitsTyped
  <2>5. PICK w2 \in Seq(Octet) : w2 = <<31, 252>> \o w1
    <3>1. <<31, 252>> \o w1 \in Seq(Octet)
      BY <2>4, OpenTyped, ConcatProperties
    <3>2. QED
      BY <3>1
  <2>6. Fed(Feeder, Receiver, r, w2, t2)
    <3>1. Fed(Feeder, Receiver, t1, w1, t2)
      BY <2>2, <2>4
    <3>2. <<31, 252>> \in Seq(Octet)
      BY OpenTyped
    <3>3. Fed(Feeder, Receiver, r, <<31, 252>> \o w1, t2)
      BY <2>1, <3>1, <3>2, FeederJoin
    <3>4. QED
      BY <2>5, <3>3
  <2>7. Fed(Feeder, Receiver, r, w2 \o <<0>>, t3)
    BY <2>3, <2>5, <2>6, OpenTyped, FeederJoin
  <2>8. NextStream(b, s) = w2 \o <<0>>
    <3>1. NextStream(b, s) = Differences(b, s)
      BY <1>2, NextIs
    <3>2. QED
      BY <2>4, <2>5, <3>1, Zenon DEF Differences
  <2>9. QED
    BY <2>1, <2>2, <2>3, <2>7, <2>8 DEF EndsGraphic
<1>3. QED
  BY <1>1, <1>2

(* Back to text, and the page that follows. *)
EndsText(r, w, text) ==
  \E t \in Receiver :
    Fed(Feeder, Receiver, r, w, t) /\ t.st = "normal" /\ ~ t.graphic /\ t.text = text

LeaveBytes == <<31, 251>> \o Text

LEMMA TextIs ==
  ASSUME G!HiresAssumption
  PROVE  /\ Text \in Seq(Octet) /\ \A i \in 1 .. Len(Text) : Text[i] # 31
         /\ LeaveBytes \in Seq(Octet)
<1>1. Text \in Seq((0 .. 255) \ {31})
  BY DEF G!HiresAssumption, G!PlotByte
<1>2. \A i \in 1 .. Len(Text) : Text[i] \in 0 .. 255 /\ Text[i] # 31
  BY <1>1
<1>3. Text \in Seq(Octet)
  BY <1>1, <1>2 DEF Octet
<1>4. QED
  BY <1>2, <1>3, OpenTyped, ConcatProperties DEF LeaveBytes

TextWritten(i) ==
  {p \in Receiver : /\ p.st = "normal" /\ ~ p.graphic
                    /\ Len(p.text) = i /\ \A j \in 1 .. i : p.text[j] = Text[j]}

LEMMA LetterLeads ==
  ASSUME G!HiresAssumption, NEW i \in 1 .. Len(Text), NEW p \in TextWritten(i - 1)
  PROVE  Feeder[<<p, Text[i]>>] \in TextWritten(i)
<1>1. PICK b \in Octet : b = Text[i] /\ b # 31
  BY TextIs
<1>2. p \in Receiver /\ p.st = "normal" /\ ~ p.graphic
  BY DEF TextWritten
<1>3. PICK g \in Seq(Octet) : g = p.text /\ Len(g) = i - 1 /\ \A j \in 1 .. i - 1 : g[j] = Text[j]
  <2>1. p.text \in Seq(Octet)
    BY <1>2 DEF Receiver
  <2>2. QED
    BY <2>1 DEF TextWritten
<1>4. PICK h \in Seq(Octet) : h = Append(g, b)
  <2>1. Append(g, b) \in Seq(Octet)
    BY <1>1, <1>3, AppendProperties
  <2>2. QED
    BY <2>1
<1>5. Len(h) = i /\ \A j \in 1 .. i : h[j] = Text[j]
  <2>1. Len(h) = (i - 1) + 1 /\ h[(i - 1) + 1] = b /\ \A j \in 1 .. i - 1 : h[j] = g[j]
    BY <1>1, <1>3, <1>4, AppendProperties
  <2>2. i \in Nat
    OBVIOUS
  <2>3. Len(h) = i /\ h[i] = Text[i]
    BY <1>1, <2>1, <2>2
  <2>4. ASSUME NEW j \in 1 .. i PROVE h[j] = Text[j]
    <3>1. j = i \/ j \in 1 .. i - 1
      OBVIOUS
    <3>2. QED
      BY <1>3, <2>1, <2>3, <3>1
  <2>5. QED
    BY <2>3, <2>4
<1>6. G!Feed(p, b) = [p EXCEPT !.text = h]
  BY <1>1, <1>2, <1>3, <1>4, FeedNormal
<1>7. PICK u \in Receiver : u = [p EXCEPT !.text = h]
  <2>1. [p EXCEPT !.text = h] \in Receiver
    BY <1>2, <1>4 DEF Receiver
  <2>2. QED
    BY <2>1
<1>8. u.st = "normal" /\ ~ u.graphic /\ u.text = h
  BY <1>2, <1>7 DEF Receiver
<1>9. u \in TextWritten(i)
  BY <1>5, <1>8 DEF TextWritten
<1>10. Feeder[<<p, b>>] = u
  BY <1>1, <1>2, <1>6, <1>7, FeederTyped
<1>11. QED
  BY <1>1, <1>9, <1>10

LEMMA LeaveLeads ==
  ASSUME G!HiresAssumption, NEW r \in Receiver, r.st = "normal"
  PROVE  EndsText(r, LeaveBytes, Text)
<1>1. 31 \in Octet /\ 251 \in Octet
  BY DEF Octet
<1>2. PICK r1 \in Receiver : r1 = [r EXCEPT !.st = "after1F"]
  <2>1. [r EXCEPT !.st = "after1F"] \in Receiver
    BY DEF Receiver
  <2>2. QED
    BY <2>1
<1>3. Feeder[<<r, 31>>] = r1
  BY <1>1, <1>2, FeedNormal, FeederTyped
<1>4. PICK t0 \in Receiver : t0 = G!Command(r1, 251)
  BY <1>1, <1>2, CommandTyped
<1>5. Feeder[<<r1, 251>>] = t0
  <2>1. r1.st = "after1F"
    BY <1>2 DEF Receiver
  <2>2. G!Feed(r1, 251) = G!Command(r1, 251)
    <3>1. PICK b \in Octet : b = 251
      BY <1>1
    <3>2. G!Feed(r1, b) = G!Command(r1, b)
      BY <1>2, <2>1, FeedOther
    <3>3. QED
      BY <3>1, <3>2
  <2>3. QED
    BY <1>1, <1>2, <1>4, <2>2, FeederTyped
<1>6. t0 = [r1 EXCEPT !.st = "normal", !.graphic = FALSE, !.text = <<>>]
  BY <1>4 DEF G!Command, G!HiresByte, G!HiresOffByte
<1>7. Fed(Feeder, Receiver, r, <<31, 251>>, t0)
  <2>1. PICK a \in Octet : a = 31
    BY <1>1
  <2>2. PICK b \in Octet : b = 251
    BY <1>1
  <2>3. Fed(Feeder, Receiver, r, <<a, b>>, Feeder[<<Feeder[<<r, a>>], b>>])
    BY <2>1, <2>2, FeederTwo
  <2>4. QED
    BY <1>3, <1>5, <2>1, <2>2, <2>3
<1>8. t0 \in TextWritten(0)
  <2>1. t0.st = "normal" /\ t0.graphic = FALSE /\ t0.text = <<>>
    BY <1>2, <1>6 DEF Receiver
  <2>2. Len(t0.text) = 0 /\ \A j \in 1 .. 0 : t0.text[j] = Text[j]
    BY <2>1
  <2>3. QED
    BY <1>4, <2>1, <2>2 DEF TextWritten
<1>9. PICK n \in Nat : n = Len(Text)
  BY TextIs
<1> DEFINE J == [i \in 0 .. n |-> TextWritten(i)]
<1>10. J \in [0 .. n -> SUBSET Receiver]
  BY DEF TextWritten
<1>11. t0 \in J[0]
  BY <1>8
<1>12. ASSUME NEW i \in 1 .. n, NEW p \in J[i - 1] PROVE Feeder[<<p, Text[i]>>] \in J[i]
  <2>1. i - 1 \in 0 .. n /\ i \in 0 .. n
    OBVIOUS
  <2>2. p \in TextWritten(i - 1)
    BY <1>12, <2>1
  <2>3. Feeder[<<p, Text[i]>>] \in TextWritten(i)
    BY <1>9, <2>2, LetterLeads
  <2>4. QED
    BY <2>1, <2>3
<1>13. \E t \in J[n] : Fed(Feeder, Receiver, t0, Text, t)
  <2>1. \A i \in 1 .. Len(Text) : \A p \in J[i - 1] : Feeder[<<p, Text[i]>>] \in J[i]
    BY <1>9, <1>12, Zenon
  <2>2. Feeder \in [Receiver \X Octet -> Receiver]
    BY FeederTyped
  <2>3. Text \in Seq(Octet)
    BY TextIs
  <2> HIDE DEF J
  <2>4. QED
    BY <1>9, <1>10, <1>11, <2>1, <2>2, <2>3, FedEach
<1>14. PICK t \in TextWritten(n) : Fed(Feeder, Receiver, t0, Text, t)
  <2>1. n \in 0 .. n
    OBVIOUS
  <2>2. QED
    BY <1>13, <2>1
<1>15. Fed(Feeder, Receiver, r, LeaveBytes, t)
  <2>1. Fed(Feeder, Receiver, r, <<31, 251>> \o Text, t)
    BY <1>7, <1>14, OpenTyped, TextIs, FeederJoin
  <2>2. QED
    BY <2>1 DEF LeaveBytes
<1>16. t \in Receiver /\ t.st = "normal" /\ ~ t.graphic
  BY <1>14 DEF TextWritten
<1>17. t.text = Text
  <2>1. PICK g \in Seq(Octet) : g = t.text
    BY <1>16 DEF Receiver
  <2>2. Len(g) = Len(Text) /\ \A j \in 1 .. Len(g) : g[j] = Text[j]
    BY <1>9, <1>14, <2>1 DEF TextWritten
  <2>3. g = Text
    BY <2>2, TextIs, SeqEqual
  <2>4. QED
    BY <2>1, <2>3
<1>18. QED
  BY <1>15, <1>16, <1>17 DEF EndsText

-----------------------------------------------------------------------------
(* Graphics: where the terminal will be once it has received the bytes on    *)
(* the way, as long as it can be followed.                                   *)
Ends(r, w, o, v, text) ==
  \E t \in Receiver :
    /\ Fed(Feeder, Receiver, r, w, t) /\ t.st = "normal"
    /\ o = "text" => ~ t.graphic /\ t.text = text
    /\ o # "text" => t.graphic
    /\ o \in {"page", "first"} /\ kind = "oterm" => t.vram = v

Followed == kind = "oric" => ~ blitted

GraphicsTyped ==
  /\ kind \in Kinds /\ on \in {"text", "page", "first", "anim"}
  /\ image \in [G!Vram -> Octet] /\ believed \in [G!Vram -> Octet]
  /\ said \in Seq(Octet) /\ blitted \in BOOLEAN
  /\ stream \in Seq(Octet) /\ rx \in Receiver

InStep == GraphicsTyped /\ (Followed => Ends(rx, stream, on, image, said))

LEMMA KindsAre == ASSUME G!HiresAssumption, kind \in Kinds PROVE kind \in {"oterm", "oric"}
BY DEF G!HiresAssumption

LEMMA SameEnds ==
  ASSUME G!HiresAssumption, kind' = kind, Ends(rx', stream', on', image', said')
  PROVE  Ends(rx, stream, on, image, said)'
<1>1. Feeder' = Feeder
  BY SameFeeder
<1>2. QED
  BY <1>1 DEF Ends

(* On a quiet line the terminal is there already. *)
LEMMA QuietEnds ==
  ASSUME NEW r, NEW o, NEW v, NEW text, Ends(r, <<>>, o, v, text)
  PROVE  /\ r \in Receiver /\ r.st = "normal"
         /\ o = "text" => ~ r.graphic /\ r.text = text
         /\ o # "text" => r.graphic
         /\ o \in {"page", "first"} /\ kind = "oterm" => r.vram = v
<1>1. PICK t \in Receiver :
        /\ Fed(Feeder, Receiver, r, <<>>, t) /\ t.st = "normal"
        /\ o = "text" => ~ t.graphic /\ t.text = text
        /\ o # "text" => t.graphic
        /\ o \in {"page", "first"} /\ kind = "oterm" => t.vram = v
  BY DEF Ends
<1>2. t = r
  BY <1>1, FedQuiet
<1>3. QED
  BY <1>1, <1>2

LEMMA ImagesAre == ASSUME G!HiresAssumption, NEW p \in Images PROVE p \in [G!Vram -> Octet]
BY DEF G!HiresAssumption, Octet

LEMMA ComposedTyped ==
  ASSUME G!HiresAssumption, NEW p, PageIs(p) PROVE G!Composed(p) \in [G!Vram -> Octet]
<1>1. PICK n \in Nat : n = Len(p.draw)
  BY DEF PageIs
<1>2. AfterDraws(p) \in [0 .. n -> Receiver] /\ G!Composed(p) = AfterDraws(p)[n].vram
  BY <1>1, AfterDrawsIs
<1>3. PICK t \in Receiver : t = AfterDraws(p)[n]
  BY <1>2
<1>4. QED
  BY <1>2, <1>3 DEF Receiver

LEMMA GraphicsStart == ASSUME G!HiresAssumption, G!Init PROVE InStep
<1>1. G!Rest \in Receiver /\ G!Blank \in [G!Vram -> Octet]
  BY BlankTyped
<1>2. rx = G!Rest /\ stream = <<>> /\ on = "text" /\ said = <<>> /\ blitted = FALSE
      /\ image = G!Blank /\ believed = G!Blank /\ kind \in Kinds
  BY DEF G!Init
<1>3. <<>> \in Seq(Octet)
  BY OpenTyped
<1>4. GraphicsTyped
  BY <1>1, <1>2, <1>3 DEF GraphicsTyped
<1>5. Fed(Feeder, Receiver, rx, stream, rx)
  BY <1>1, <1>2, FedNone
<1>6. rx.st = "normal" /\ ~ rx.graphic /\ rx.text = said
  BY <1>2 DEF G!Rest
<1>7. Ends(rx, stream, on, image, said)
  BY <1>1, <1>2, <1>5, <1>6 DEF Ends
<1>8. QED
  BY <1>4, <1>7 DEF InStep

LEMMA ShowPageHolds ==
  ASSUME G!HiresAssumption, InStep, NEW p \in Pages, G!ShowPage(p) PROVE InStep'
<1>1. PageIs(p)
  BY PagesAre
<1>2. stream = <<>> /\ Followed /\ on' = "page" /\ image' = G!Composed(p)
      /\ stream' = G!PageStream(p) /\ blitted' = (blitted \/ p.background # NoPicture)
      /\ kind' = kind /\ believed' = believed /\ said' = said /\ rx' = rx
  BY DEF G!ShowPage, G!CanSend, Followed
<1>3. GraphicsTyped'
  BY <1>1, <1>2, ComposedTyped, PageStreamTyped DEF InStep, GraphicsTyped
<1>4. rx \in Receiver /\ rx.st = "normal"
  BY <1>2, QuietEnds DEF InStep
<1>5. ASSUME Followed' PROVE Ends(rx, stream, on, image, said)'
  <2>1. kind \in {"oterm", "oric"}
    BY KindsAre DEF InStep, GraphicsTyped
  <2>2. kind = "oterm" \/ p.background = NoPicture
    BY <1>2, <1>5, <2>1 DEF Followed
  <2>3. EndsShowing(rx, G!PageStream(p), G!Composed(p))
    BY <1>1, <1>4, <2>1, <2>2, PageLeads
  <2>4. Ends(rx, G!PageStream(p), "page", G!Composed(p), said')
    BY <2>3 DEF Ends, EndsShowing
  <2>5. Ends(rx', stream', on', image', said')
    BY <1>2, <2>4
  <2>6. QED
    BY <1>2, <2>5, SameEnds
<1>6. QED
  BY <1>3, <1>5 DEF InStep

LEMMA AnimateHolds ==
  ASSUME G!HiresAssumption, InStep, NEW p \in Images, G!Animate(p) PROVE InStep'
<1>1. p \in [G!Vram -> Octet]
  BY ImagesAre
<1>2. stream = <<>> /\ Followed /\ on' = "first" /\ image' = p /\ believed' = p
      /\ stream' = G!Render(p, believed, TRUE) /\ blitted' = (blitted \/ p # G!Blank)
      /\ kind' = kind /\ said' = said /\ rx' = rx
  BY DEF G!Animate, G!CanSend, Followed
<1>3. GraphicsTyped'
  BY <1>1, <1>2, RenderTyped DEF InStep, GraphicsTyped
<1>4. rx \in Receiver /\ rx.st = "normal"
  BY <1>2, QuietEnds DEF InStep
<1>5. ASSUME Followed' PROVE Ends(rx, stream, on, image, said)'
  <2>1. kind \in {"oterm", "oric"}
    BY KindsAre DEF InStep, GraphicsTyped
  <2>2. kind = "oterm" \/ p = G!Blank
    BY <1>2, <1>5, <2>1 DEF Followed
  <2>3. EndsShowing(rx, G!Render(p, believed, TRUE), p)
    BY <1>1, <1>4, <2>1, <2>2, FirstLeads
  <2>4. Ends(rx, G!Render(p, believed, TRUE), "first", p, said')
    BY <2>3 DEF Ends, EndsShowing
  <2>5. Ends(rx', stream', on', image', said')
    BY <1>2, <2>4
  <2>6. QED
    BY <1>2, <2>5, SameEnds
<1>6. QED
  BY <1>3, <1>5 DEF InStep

LEMMA NextImageHolds ==
  ASSUME G!HiresAssumption, InStep, NEW p \in Images, G!NextImage(p) PROVE InStep'
<1>1. p \in [G!Vram -> Octet]
  BY ImagesAre
<1>2. stream = <<>> /\ Followed /\ on # "text" /\ on' = "anim" /\ image' = p /\ believed' = p
      /\ stream' = NextStream(p, believed) /\ blitted' = (blitted \/ p # believed)
      /\ kind' = kind /\ said' = said /\ rx' = rx
  BY DEF G!NextImage, G!CanSend, Followed, NextStream
<1>3. GraphicsTyped'
  BY <1>1, <1>2, RenderTyped DEF InStep, GraphicsTyped
<1>4. rx \in Receiver /\ rx.st = "normal" /\ rx.graphic
  BY <1>2, QuietEnds DEF InStep
<1>5. ASSUME Followed' PROVE Ends(rx, stream, on, image, said)'
  <2>1. kind \in {"oterm", "oric"}
    BY KindsAre DEF InStep, GraphicsTyped
  <2>2. kind = "oterm" \/ p = believed
    BY <1>2, <1>5, <2>1 DEF Followed
  <2>3. EndsGraphic(rx, NextStream(p, believed))
    BY <1>1, <1>4, <2>1, <2>2, NextLeads
  <2>4. Ends(rx, NextStream(p, believed), "anim", p, said')
    BY <2>3 DEF Ends, EndsGraphic
  <2>5. Ends(rx', stream', on', image', said')
    BY <1>2, <2>4
  <2>6. QED
    BY <1>2, <2>5, SameEnds
<1>6. QED
  BY <1>3, <1>5 DEF InStep

LEMMA LeaveHolds == ASSUME G!HiresAssumption, InStep, G!Leave PROVE InStep'
<1>1. stream = <<>> /\ on' = "text" /\ said' = Text /\ stream' = LeaveBytes
      /\ kind' = kind /\ image' = image /\ believed' = believed /\ blitted' = blitted /\ rx' = rx
  BY DEF G!Leave, LeaveBytes, G!PlotByte, G!HiresOffByte
<1>2. GraphicsTyped'
  BY <1>1, TextIs DEF InStep, GraphicsTyped
<1>3. ASSUME Followed' PROVE Ends(rx, stream, on, image, said)'
  <2>1. Followed
    BY <1>1, <1>3 DEF Followed
  <2>2. rx \in Receiver /\ rx.st = "normal"
    BY <1>1, <2>1, QuietEnds DEF InStep
  <2>3. EndsText(rx, LeaveBytes, Text)
    BY <2>2, LeaveLeads
  <2>4. Ends(rx, LeaveBytes, "text", image', Text)
    BY <2>3 DEF Ends, EndsText
  <2>5. Ends(rx', stream', on', image', said')
    BY <1>1, <2>4
  <2>6. QED
    BY <1>1, <2>5, SameEnds
<1>4. QED
  BY <1>2, <1>3 DEF InStep

LEMMA ByteHolds == ASSUME G!HiresAssumption, InStep, G!Receive PROVE InStep'
<1>1. stream \in Seq(Octet) /\ stream # <<>> /\ rx \in Receiver
  BY DEF InStep, GraphicsTyped, G!Receive
<1>2. PICK b \in Octet : b = Head(stream)
  BY <1>1, HeadTailProperties
<1>3. PICK w \in Seq(Octet) : w = Tail(stream)
  BY <1>1, HeadTailProperties
<1>4. PICK r \in Receiver : r = G!Feed(rx, b)
  BY <1>1, FeedTyped
<1>5. stream' = w /\ rx' = r /\ kind' = kind /\ on' = on /\ image' = image
      /\ believed' = believed /\ said' = said /\ blitted' = blitted
  BY <1>2, <1>3, <1>4 DEF G!Receive
<1>6. GraphicsTyped'
  BY <1>3, <1>4, <1>5 DEF InStep, GraphicsTyped
<1>7. ASSUME Followed' PROVE Ends(rx, stream, on, image, said)'
  <2>1. Followed
    BY <1>5, <1>7 DEF Followed
  <2>2. PICK t \in Receiver :
          /\ Fed(Feeder, Receiver, rx, stream, t) /\ t.st = "normal"
          /\ on = "text" => ~ t.graphic /\ t.text = said
          /\ on # "text" => t.graphic
          /\ on \in {"page", "first"} /\ kind = "oterm" => t.vram = image
    BY <2>1 DEF InStep, Ends
  <2>3. Feeder[<<rx, b>>] = r
    BY <1>1, <1>2, <1>4, FeederTyped
  <2>4. Fed(Feeder, Receiver, Feeder[<<rx, Head(stream)>>], Tail(stream), t)
    BY <1>1, <2>2, FedTail
  <2>5. Fed(Feeder, Receiver, r, w, t)
    BY <1>2, <1>3, <2>3, <2>4
  <2>6. Ends(r, w, on, image, said)
    BY <2>2, <2>5 DEF Ends
  <2>7. Ends(rx', stream', on', image', said')
    BY <1>5, <2>6
  <2>8. QED
    BY <1>5, <2>7, SameEnds
<1>8. QED
  BY <1>6, <1>7 DEF InStep

LEMMA GraphicsStep ==
  ASSUME G!HiresAssumption, InStep, [G!Next]_graphicsVars PROVE InStep'
<1>1. CASE UNCHANGED graphicsVars
  <2>1. rx' = rx /\ stream' = stream /\ on' = on /\ image' = image /\ said' = said /\ kind' = kind
        /\ believed' = believed /\ blitted' = blitted
    BY <1>1 DEF graphicsVars
  <2>2. GraphicsTyped' /\ Followed' = Followed
    BY <2>1 DEF InStep, GraphicsTyped, Followed
  <2>3. ASSUME Followed' PROVE Ends(rx, stream, on, image, said)'
    <3>1. Ends(rx', stream', on', image', said')
      BY <2>1, <2>2, <2>3 DEF InStep
    <3>2. QED
      BY <2>1, <3>1, SameEnds
  <2>4. QED
    BY <2>2, <2>3 DEF InStep
<1>2. QED
  BY <1>1, ShowPageHolds, AnimateHolds, NextImageHolds, LeaveHolds, ByteHolds DEF G!Next

LEMMA GraphicsIsShown == ASSUME G!HiresAssumption, InStep PROVE G!TypeOK /\ G!ImageInStep
<1>1. DOMAIN rx = DOMAIN G!Rest /\ rx.st \in {"normal", "after1F", "plotRow", "opcode", "args", "blit"}
      /\ rx.vram \in [G!Vram -> Octet]
  BY DEF InStep, GraphicsTyped, Receiver, G!Rest
<1>2. G!TypeOK
  BY <1>1 DEF InStep, GraphicsTyped, G!TypeOK, Octet
<1>3. G!ImageInStep
  <2>1. SUFFICES ASSUME stream = <<>>, kind = "oric" => ~ blitted
                 PROVE  /\ rx.st = "normal"
                        /\ on = "text" => ~ rx.graphic /\ rx.text = said
                        /\ on # "text" => rx.graphic
                        /\ on \in {"page", "first"} /\ kind = "oterm" => rx.vram = image
    BY DEF G!ImageInStep
  <2>2. Ends(rx, <<>>, on, image, said)
    BY <2>1 DEF InStep, Followed
  <2>3. QED
    BY <2>2, QuietEnds
<1>4. QED
  BY <1>2, <1>3

-----------------------------------------------------------------------------
(* The line. *)

PartsHold ==
  /\ M!MazeAssumption /\ C!Connect4Assumption /\ S!ScreenAssumption /\ G!HiresAssumption
  /\ MazeInv /\ GameInv /\ OnTheWay /\ InStep

LEMMA LineStarts == LineInit => PartsHold
<1> SUFFICES ASSUME LineInit PROVE PartsHold
  OBVIOUS
<1>1. M!MazeAssumption /\ C!Connect4Assumption /\ S!ScreenAssumption /\ G!HiresAssumption
  BY LineAssumption
<1>2. M!MazeInit /\ C!GameInit /\ S!Init /\ G!Init
  BY DEF LineInit
<1>3. MazeInv
  BY <1>1, <1>2, InitHolds, TreeInit DEF MazeInv
<1>4. QED
  BY <1>1, <1>2, <1>3, GameStarts, ScreenStarts, GraphicsStart DEF PartsHold

LEMMA LineSteps == PartsHold /\ [LineNext]_all => PartsHold'
<1> SUFFICES ASSUME PartsHold, [LineNext]_all PROVE PartsHold'
  OBVIOUS
<1>1. [M!MazeNext]_mazeVars
  BY Zenon DEF LineNext, OthersStay, In, all
<1>2. [C!GameNext]_gameVars
  BY Zenon DEF LineNext, OthersStay, In, all
<1>3. [S!Next]_screenVars
  BY Zenon DEF LineNext, OthersStay, In, all
<1>4. [G!Next]_graphicsVars
  BY Zenon DEF LineNext, OthersStay, In, all
<1>5. QED
  BY <1>1, <1>2, <1>3, <1>4, MazeStep, GameStep, ScreenStep, GraphicsStep DEF PartsHold

(* A maze of any size, dug in any way, once it is made: every cell can be    *)
(* reached from the first, by one way only; both faces of a wall fall        *)
(* together, the outer walls stand and the player stays inside               *)
(* (server/internal/maze, mazeApplet).                                       *)
THEOREM MazesArePerfect == LineSpec => []PerfectMaze
<1>1. PartsHold => PerfectMaze
  BY MazeIsPerfect DEF PartsHold, PerfectMaze
<1>2. QED
  BY LineStarts, LineSteps, <1>1, PTL DEF LineSpec

(* Four in a row on a board of any size: no token floats, each plays in      *)
(* turn, the result told is that of the board, and the computer misses       *)
(* neither a win nor a threat it could stop (server/internal/connect4,       *)
(* connect4Applet).                                                          *)
THEOREM GamesAreFair == LineSpec => []FairGame
<1>1. PartsHold => FairGame
  BY GameIsFair DEF PartsHold, FairGame
<1>2. QED
  BY LineStarts, LineSteps, <1>1, PTL DEF LineSpec

(* A screen of any size and any pictures on it: although only differences    *)
(* are sent, the terminal shows the picture composed last when the line is   *)
(* quiet, unless a text or an echoed key came past the buffer since the last *)
(* full drawing; and its decoder has taken each byte for what it was         *)
(* (oascii.Screen, ula.Terminal, client/term.s).                             *)
THEOREM ScreensAreShown == LineSpec => []TextShown
<1>1. PartsHold => TextShown
  BY ScreenIsShown DEF PartsHold, TextShown
<1>2. QED
  BY LineStarts, LineSteps, <1>1, PTL DEF LineSpec

(* Graphics of any size, with any pages and images: when the line is quiet   *)
(* the decoder is back to text, the terminal is in the mode the server       *)
(* believes, the text that follows graphics was written as text, and oterm   *)
(* shows the page, or the first image of an animation, byte for byte; the    *)
(* Oric is held to it until it is sent a blit (render.Hires,                 *)
(* oascii.HiresScreen, hires.Raster, client/hires.s).                        *)
THEOREM GraphicsStayInStep == LineSpec => []ImageInStep
<1>1. PartsHold => ImageInStep
  BY GraphicsIsShown DEF PartsHold, ImageInStep
<1>2. QED
  BY LineStarts, LineSteps, <1>1, PTL DEF LineSpec
=============================================================================
