-------------------------- MODULE DataWindow_proofs --------------------------
(***************************************************************************)
(* For any number of sessions, records and sorts and any size of page: the *)
(* selection stays inside the grid, and a write hits the record on screen. *)
(***************************************************************************)
EXTENDS DataWindow, FiniteSetTheorems, SequenceTheorems, TLAPS

(* A key is the number of the insert that gave it, for the records of the
   table and for the rows shown, which may be of records that have gone. *)
KeysNotReused ==
  /\ \A k \in DOMAIN table : table[k].born = k
  /\ \A s \in Sessions : \A i \in DOMAIN view[s].rows : view[s].rows[i].born = view[s].rows[i].key

(* Only a grid with rows leads to an edition or a deletion. *)
RowToWrite == \A s \in Sessions : at[s] \in {"edit", "delete"} => view[s].rows # <<>>

GridIInv == GridTypeOK /\ KeysNotReused /\ RowToWrite /\ GridInOrder

Doing == {"away", "load", "loadup", "grid", "create", "edit", "delete"}

(* What a session may have loaded for what it is doing: the part of GridIInv that
   concerns it. *)
Proper(v, where) ==
  /\ v \in View /\ where \in Doing
  /\ \A i \in DOMAIN v.rows : v.rows[i].born = v.rows[i].key
  /\ where \in {"edit", "delete"} => v.rows # <<>>
  /\ where \notin {"away", "load", "loadup"} =>
       IF v.rows = <<>> THEN v.total = 0 ELSE v.sel \in 0..Len(v.rows) - 1

(* ... and the part that concerns the table. *)
TableInOrder ==
  /\ born \in Nat
  /\ DOMAIN table \subseteq 1..born /\ table \in [DOMAIN table -> Record]
  /\ \A k \in DOMAIN table : table[k].born = k

-----------------------------------------------------------------------------
(* The invariant, session by session *)

LEMMA ByPart ==
  GridIInv <=> /\ TableInOrder
           /\ view \in [Sessions -> View] /\ at \in [Sessions -> Doing]
           /\ \A s \in Sessions : Proper(view[s], at[s])
BY DEF GridIInv, GridTypeOK, KeysNotReused, RowToWrite, GridInOrder, TableInOrder, Proper, Doing

(* A step that changes what one session has loaded, and where it is. *)
LEMMA MovePreserves ==
  ASSUME GridIInv, NEW s \in Sessions, NEW v, NEW where, Proper(v, where), Move(s, v, where)
  PROVE  GridIInv'
<1>1. /\ view \in [Sessions -> View] /\ at \in [Sessions -> Doing]
      /\ \A x \in Sessions : Proper(view[x], at[x])
      /\ TableInOrder
  BY ByPart
<1>2. /\ view' = [view EXCEPT ![s] = v] /\ at' = [at EXCEPT ![s] = where]
      /\ table' = table /\ born' = born
  BY DEF Move, Then
<1>3. TableInOrder'
  BY <1>1, <1>2 DEF TableInOrder
<1>4. view' \in [Sessions -> View] /\ at' \in [Sessions -> Doing]
  BY <1>1, <1>2 DEF Proper
<1>5. \A x \in Sessions : Proper(view'[x], at'[x])
  BY <1>1, <1>2
<1>6. QED
  BY <1>3, <1>4, <1>5
  DEF GridIInv, GridTypeOK, KeysNotReused, RowToWrite, GridInOrder, TableInOrder, Proper, Doing

(* A step that writes the table, and brings the session back to loading it. *)
LEMMA WritePreserves ==
  ASSUME GridIInv, NEW s \in Sessions, TableInOrder', view' = view, Then(s, "load")
  PROVE  GridIInv'
<1>1. /\ view \in [Sessions -> View] /\ at \in [Sessions -> Doing]
      /\ \A x \in Sessions : Proper(view[x], at[x])
  BY ByPart
<1>2. at' = [at EXCEPT ![s] = "load"]
  BY DEF Then
<1>3. at' \in [Sessions -> Doing]
  BY <1>1, <1>2 DEF Doing
<1>4. \A x \in Sessions : Proper(view'[x], at'[x])
  <2>1. Proper(view[s], "load")
    BY <1>1 DEF Proper, Doing
  <2>2. QED
    BY <1>1, <1>2, <2>1
<1>5. QED
  BY <1>1, <1>3, <1>4
  DEF GridIInv, GridTypeOK, KeysNotReused, RowToWrite, GridInOrder, TableInOrder, Proper, Doing

-----------------------------------------------------------------------------
(* The engine *)

LEMMA InsertType ==
  ASSUME NEW t, NEW n \in Nat, NEW v \in Values,
         DOMAIN t \subseteq 1..n, t \in [DOMAIN t -> Record], \A k \in DOMAIN t : t[k].born = k
  PROVE  /\ DOMAIN Insert(t, n, v) \subseteq 1..n + 1
         /\ Insert(t, n, v) \in [DOMAIN Insert(t, n, v) -> Record]
         /\ \A k \in DOMAIN Insert(t, n, v) : Insert(t, n, v)[k].born = k
<1> DEFINE D == DOMAIN t \cup {n + 1}
<1>1. DOMAIN Insert(t, n, v) = D /\ D \subseteq 1..n + 1
  BY DEF Insert
<1>2. \A k \in D : Insert(t, n, v)[k] \in Record /\ Insert(t, n, v)[k].born = k
  BY DEF Insert, Record
<1>3. Insert(t, n, v) = [k \in D |-> Insert(t, n, v)[k]]
  BY <1>1 DEF Insert
<1>4. QED
  BY <1>1, <1>2, <1>3

LEMMA FreshType == ASSUME DataWindowAssumption PROVE Fresh \in View
  BY DEF DataWindowAssumption, Fresh, View, Row

LEMMA ImportedType ==
  ASSUME DataWindowAssumption, NEW n \in Nat
  PROVE  /\ n + Len(Initial) \in Nat
         /\ DOMAIN Imported(n) \subseteq 1..n + Len(Initial)
         /\ Imported(n) \in [DOMAIN Imported(n) -> Record]
         /\ \A k \in DOMAIN Imported(n) : Imported(n)[k].born = k
<1>1. Len(Initial) \in Nat /\ \A i \in 1..Len(Initial) : Initial[i] \in Values
  BY DEF DataWindowAssumption
<1>2. \A k \in n + 1..n + Len(Initial) :
        k - n \in 1..Len(Initial) /\ k \in Nat /\ k \in 1..n + Len(Initial)
  BY <1>1
<1>3. \A k \in n + 1..n + Len(Initial) :
        [value |-> Initial[k - n], born |-> k] \in Record
  BY <1>1, <1>2 DEF Record
<1>4. QED
  BY <1>1, <1>2, <1>3 DEF Imported

(* The rows left from an offset on are among those of the listing. *)
LEMMA RestType ==
  ASSUME PerPage \in Nat, NEW n \in Nat, NEW p, Offset(p) \in Nat
  PROVE  Rest(n, p) \in Nat /\ \A i \in 1..Rest(n, p) : Offset(p) + i \in 1..n
<1>1. CASE n <= Offset(p)
  BY <1>1 DEF Rest
<1>2. CASE n > Offset(p) /\ n - Offset(p) < PerPage
  BY <1>2 DEF Rest
<1>3. CASE n > Offset(p) /\ n - Offset(p) >= PerPage
  BY <1>3 DEF Rest
<1>4. QED
  BY <1>1, <1>2, <1>3

(* What a page shows: rows of the table, at most a page of them, and none
   only beyond the last record. *)
LEMMA PageType ==
  ASSUME DataWindowAssumption, GridTypeOK, KeysNotReused,
         NEW v \in View, NEW q \in Listings(v), NEW p \in Nat \ {0}
  PROVE  /\ Len(q) \in Nat
         /\ PageOf(q, p) \in Seq(Row)
         /\ \A i \in DOMAIN PageOf(q, p) : PageOf(q, p)[i].born = PageOf(q, p)[i].key
         /\ p = 1 /\ PageOf(q, p) = <<>> => Len(q) = 0
<1> DEFINE K == {k \in DOMAIN table : table[k].value \in v.filter}
           n == Cardinality(K)
           m == Rest(Len(q), p)
<1>1. n \in Nat
  <2>1. IsFiniteSet(1..born)
    <3>1. born \in Int
      BY DEF GridTypeOK
    <3>2. QED
      BY <3>1, FS_Interval
  <2>2. K \subseteq 1..born
    BY DEF GridTypeOK
  <2>3. QED
    BY <2>1, <2>2, FS_Subset, FS_CardinalityType
<1>2. q \in [1..n -> K] /\ Len(q) = n
  BY <1>1 DEF Listings
<1>3. PerPage \in Nat /\ PerPage > 0 /\ Offset(p) \in Nat /\ (p = 1 => Offset(p) = 0)
  BY DEF DataWindowAssumption, Offset
<1>4. m \in Nat /\ \A i \in 1..m : Offset(p) + i \in 1..n
  BY <1>1, <1>2, <1>3, RestType
<1>5. \A i \in 1..m : q[Offset(p) + i] \in Nat /\ table[q[Offset(p) + i]].born = q[Offset(p) + i]
  <2>1. \A i \in 1..m : q[Offset(p) + i] \in K
    BY <1>2, <1>4
  <2>2. \A k \in K : k \in Nat /\ table[k].born = k
    BY DEF GridTypeOK, KeysNotReused
  <2>3. QED
    BY <2>1, <2>2
<1>6. \A i \in 1..m : PageOf(q, p)[i] \in Row /\ PageOf(q, p)[i].born = PageOf(q, p)[i].key
  BY <1>5 DEF PageOf, Row
<1>7. PageOf(q, p) \in [1..m -> Row] /\ DOMAIN PageOf(q, p) = 1..m
  BY <1>6 DEF PageOf
<1>8. PageOf(q, p) \in Seq(Row) /\ Len(PageOf(q, p)) = m
  BY <1>4, <1>7, SeqDef
<1>9. p = 1 /\ m = 0 => Len(q) = 0
  BY <1>1, <1>2, <1>3 DEF Rest
<1>10. QED
  BY <1>1, <1>2, <1>6, <1>7, <1>8, <1>9
-----------------------------------------------------------------------------
(* The grid *)

LEMMA ClampedInside ==
  ASSUME NEW sel \in Int, NEW n \in Nat
  PROVE  Clamped(sel, n) \in Int /\ (n > 0 => Clamped(sel, n) \in 0..n - 1)
BY DEF Clamped

LEMMA FreshProper ==
  ASSUME DataWindowAssumption
  PROVE  Proper(Fresh, "away") /\ Proper(Fresh, "load")
BY FreshType DEF Proper, Doing, Fresh

LEMMA LoadedView ==
  ASSUME NEW v \in View, NEW rows \in Seq(Row), NEW total \in Nat, NEW sel \in Int
  PROVE  LET w == Loaded(v, rows, total, sel)
         IN  w \in View /\ w.rows = rows /\ w.total = total /\ w.sel = sel
<1> DEFINE w1 == [v EXCEPT !.rows = rows]
           w2 == [w1 EXCEPT !.total = total]
           w3 == [w2 EXCEPT !.sel = sel]
<1>1. Loaded(v, rows, total, sel) = w3
  BY DEF View, Loaded
<1>2. w1 \in View /\ w1.rows = rows
  BY DEF View
<1>3. w2 \in View /\ w2.rows = rows /\ w2.total = total
  <2> HIDE DEF w1
  <2>1. QED
    BY <1>2 DEF View
<1>4. w3 \in View /\ w3.rows = rows /\ w3.total = total /\ w3.sel = sel
  <2> HIDE DEF w1, w2
  <2>1. QED
    BY <1>3 DEF View
<1>5. QED
  BY <1>1, <1>4

LEMMA ShowPreserves ==
  ASSUME GridIInv, NEW s \in Sessions, NEW rows \in Seq(Row), NEW total \in Nat,
         \A i \in DOMAIN rows : rows[i].born = rows[i].key, rows = <<>> => total = 0,
         Show(s, view[s], rows, total), UNCHANGED <<table, born>>
  PROVE  GridIInv'
<1> DEFINE n == Len(rows)
           sel == IF at[s] = "loadup" THEN n - 1 ELSE Clamped(view[s].sel, n)
           v == Loaded(view[s], rows, total, sel)
<1>1. view[s] \in View
  BY ByPart
<1>2. n \in Nat /\ (rows # <<>> => n > 0)
  BY EmptySeq
<1>3. sel \in Int /\ (n > 0 => sel \in 0..n - 1)
  <2>1. view[s].sel \in Int
    BY <1>1 DEF View
  <2>2. /\ Clamped(view[s].sel, n) \in Int
        /\ n > 0 => Clamped(view[s].sel, n) \in 0..n - 1
    BY <1>2, <2>1, ClampedInside
  <2>3. QED
    BY <1>2, <2>2
<1>4. v \in View /\ v.rows = rows /\ v.total = total /\ v.sel = sel
  <2> HIDE DEF sel
  <2>1. QED
    BY <1>1, <1>3, LoadedView
<1>5. Proper(v, "grid")
  <2> HIDE DEF sel, v
  <2>1. QED
    BY <1>2, <1>3, <1>4 DEF Proper, Doing
<1>6. Move(s, v, "grid")
  BY DEF Show, Move
<1>7. QED
  BY <1>5, <1>6, MovePreserves

LEMMA LoadPreserves ==
  ASSUME DataWindowAssumption, GridIInv, NEW s \in Sessions, Load(s)
  PROVE  GridIInv'
<1> DEFINE v == view[s]
<1>1. /\ v \in View /\ Proper(v, at[s]) /\ at[s] \in {"load", "loadup"}
      /\ at \in [Sessions -> Doing]
  BY ByPart DEF Load
<1>2. GridTypeOK /\ KeysNotReused
  BY DEF GridIInv
<1>3. CASE \E q \in Listings(v) :
             /\ PageOf(q, v.page) = <<>> /\ q # <<>> /\ v.page > 1
             /\ view' = [view EXCEPT ![s].page = 1] /\ UNCHANGED <<at, table, born>>
  <2> DEFINE w == [v EXCEPT !.page = 1]
  <2>1. Proper(w, at[s])
    BY <1>1 DEF Proper, View
  <2>2. Move(s, w, at[s])
    BY <1>1, <1>3 DEF Move, Then
  <2>3. QED
    BY <2>1, <2>2, MovePreserves
<1>4. CASE \E q \in Listings(v) :
             /\ ~(PageOf(q, v.page) = <<>> /\ q # <<>> /\ v.page > 1)
             /\ Show(s, v, PageOf(q, v.page), Len(q)) /\ UNCHANGED <<table, born>>
  <2>1. PICK q \in Listings(v) :
          /\ ~(PageOf(q, v.page) = <<>> /\ q # <<>> /\ v.page > 1)
          /\ Show(s, v, PageOf(q, v.page), Len(q)) /\ UNCHANGED <<table, born>>
    BY <1>4
  <2>2. v.page \in Nat \ {0}
    BY <1>1 DEF View
  <2>3. /\ Len(q) \in Nat /\ PageOf(q, v.page) \in Seq(Row)
        /\ \A i \in DOMAIN PageOf(q, v.page) :
             PageOf(q, v.page)[i].born = PageOf(q, v.page)[i].key
        /\ v.page = 1 /\ PageOf(q, v.page) = <<>> => Len(q) = 0
    BY <1>1, <1>2, <2>2, PageType
  <2>4. q = <<>> => Len(q) = 0
    OBVIOUS
  <2>5. PageOf(q, v.page) = <<>> => Len(q) = 0
    BY <2>1, <2>2, <2>3, <2>4
  <2>6. QED
    BY <2>1, <2>3, <2>5, ShowPreserves
<1>5. CASE Show(s, v, <<>>, 0) /\ UNCHANGED <<table, born>>
  <2>1. <<>> \in Seq(Row) /\ 0 \in Nat /\ \A i \in DOMAIN <<>> : <<>>[i].born = <<>>[i].key
    OBVIOUS
  <2>2. QED
    BY <1>5, <2>1, ShowPreserves
<1>6. QED
  BY <1>3, <1>4, <1>5 DEF Load

(* A grid to be loaded again, from another page, filter or sort. *)
LEMMA TurnedProper ==
  ASSUME NEW v \in View, NEW page \in Nat \ {0},
         \A i \in DOMAIN v.rows : v.rows[i].born = v.rows[i].key
  PROVE  Proper(Turned(v, page), "load")
<1> DEFINE w1 == [v EXCEPT !.page = page]
           w2 == [w1 EXCEPT !.sel = 0]
<1>1. Turned(v, page) = w2
  BY DEF View, Turned
<1>2. w1 \in View /\ w1.rows = v.rows
  BY DEF View
<1>3. w2 \in View /\ w2.rows = v.rows
  <2> HIDE DEF w1
  <2>1. QED
    BY <1>2 DEF View
<1>4. Proper(w2, "load")
  <2> HIDE DEF w1, w2
  <2>1. QED
    BY <1>3 DEF Proper, Doing
<1>5. QED
  BY <1>1, <1>4

(* The keys that move in the grid, or leave it. *)
LEMMA MovesPreserve ==
  ASSUME DataWindowAssumption, GridIInv, NEW s \in Sessions,
         \/ Open(s) \/ Down(s) \/ Up(s) \/ NextPage(s) \/ PreviousPage(s)
         \/ Filter(s) \/ Sort(s) \/ StartWriting(s) \/ Cancel(s) \/ Leave(s)
  PROVE  GridIInv'
<1> DEFINE v == view[s]
<1>1. Proper(v, at[s]) /\ v \in View
  BY ByPart
<1>2. /\ v.page \in Nat \ {0} /\ v.page + 1 \in Nat \ {0} /\ 1 \in Nat \ {0}
      /\ v.page > 1 => v.page - 1 \in Nat \ {0}
      /\ v.filter \in SUBSET Values /\ v.order \in Orders
  BY <1>1 DEF View
<1>3. \A i \in DOMAIN v.rows : v.rows[i].born = v.rows[i].key
  BY <1>1 DEF Proper
<1>4. \A page \in Nat \ {0} : Proper(Turned(v, page), "load")
  <2> HIDE DEF v
  <2>1. QED
    BY <1>1, <1>3, TurnedProper
<1>5. Proper(Turned(v, v.page + 1), "load")
  BY <1>2, <1>4
<1>6. v.page > 1 => Proper(Turned(v, v.page - 1), "load")
  BY <1>2, <1>4
<1>7. CASE Open(s) \/ Leave(s)
  BY <1>7, FreshProper, MovePreserves DEF Open, Leave
<1>8. CASE Down(s)
  <2>1. CASE v.sel < Len(v.rows) - 1 /\ at[s] = "grid" /\ Move(s, [v EXCEPT !.sel = @ + 1], "grid")
    <3>1. Proper([v EXCEPT !.sel = @ + 1], "grid")
      BY <1>1, <2>1 DEF Proper, View, Doing
    <3>2. QED
      BY <2>1, <3>1, MovePreserves
  <2>2. CASE Move(s, Turned(v, v.page + 1), "load")
    BY <2>2, <1>5, MovePreserves
  <2>3. QED
    BY <1>8, <2>1, <2>2 DEF Down
<1>9. CASE Up(s)
  <2>1. CASE v.sel > 0 /\ at[s] = "grid" /\ Move(s, [v EXCEPT !.sel = @ - 1], "grid")
    <3>1. Proper([v EXCEPT !.sel = @ - 1], "grid")
      BY SMTT(40), <1>1, <2>1 DEF Proper, View, Doing
    <3>2. QED
      BY <2>1, <3>1, MovePreserves
  <2>2. CASE v.page > 1 /\ Move(s, [v EXCEPT !.page = @ - 1], "loadup")
    <3>1. Proper([v EXCEPT !.page = @ - 1], "loadup")
      BY <1>1, <2>2 DEF Proper, View, Doing
    <3>2. QED
      BY <2>2, <3>1, MovePreserves
  <2>3. QED
    BY <1>9, <2>1, <2>2 DEF Up
<1>10. CASE NextPage(s)
  BY <1>10, <1>5, MovePreserves DEF NextPage
<1>11. CASE PreviousPage(s)
  BY <1>11, <1>6, MovePreserves DEF PreviousPage
<1>12. CASE Filter(s)
  <2>1. PICK f \in Filters \cup {Values} :
          Move(s, Turned([v EXCEPT !.filter = f], 1), "load")
    BY <1>12 DEF Filter
  <2>2. f \subseteq Values
    BY DEF DataWindowAssumption
  <2>3. Proper(Turned([v EXCEPT !.filter = f], 1), "load")
    BY <1>1, <1>2, <1>3, <2>2, TurnedProper DEF View
  <2>4. QED
    BY <2>1, <2>3, MovePreserves
<1>13. CASE Sort(s)
  <2>1. PICK o \in Orders : Move(s, Turned([v EXCEPT !.order = o], 1), "load")
    BY <1>13 DEF Sort
  <2>2. Proper(Turned([v EXCEPT !.order = o], 1), "load")
    BY <1>1, <1>2, <1>3, TurnedProper DEF View
  <2>3. QED
    BY <2>1, <2>2, MovePreserves
<1>14. CASE StartWriting(s)
  <2>1. Proper(v, "create") /\ (v.rows # <<>> => Proper(v, "edit") /\ Proper(v, "delete"))
    BY <1>1, <1>14 DEF Proper, Doing, StartWriting
  <2>2. QED
    BY <1>14, <2>1, MovePreserves DEF StartWriting
<1>15. CASE Cancel(s)
  <2>1. Proper(v, "load")
    BY <1>1 DEF Proper, Doing
  <2>2. QED
    BY <1>15, <2>1, MovePreserves DEF Cancel
<1>16. QED
  BY <1>7, <1>8, <1>9, <1>10, <1>11, <1>12, <1>13, <1>14, <1>15
(* The writes of the engine. *)
LEMMA TableWritesPreserve ==
  ASSUME GridIInv, NEW s \in Sessions, Create(s) \/ Update(s) \/ Delete(s)
  PROVE  GridIInv'
<1>1. TableInOrder
  BY ByPart
<1>2. CASE Create(s)
  <2>1. PICK v \in Values : table' = Insert(table, born, v)
    BY <1>2 DEF Create
  <2>2. born' = born + 1 /\ view' = view /\ Then(s, "load")
    BY <1>2 DEF Create
  <2>3. TableInOrder'
    BY <1>1, <2>1, <2>2, InsertType DEF TableInOrder
  <2>4. QED
    BY <2>2, <2>3, WritePreserves
<1>3. CASE Update(s)
  <2>1. PICK v \in Values : table' = Set(table, Selected(s).key, v)
    BY <1>3 DEF Update
  <2>2. born' = born /\ view' = view /\ Then(s, "load")
    BY <1>3 DEF Update
  <2>3. DOMAIN table' = DOMAIN table
    BY <2>1 DEF Set
  <2>4. \A k \in DOMAIN table : table'[k] \in Record /\ table'[k].born = k
    BY <1>1, <2>1 DEF Set, TableInOrder, Record
  <2>5. table' = [k \in DOMAIN table' |-> table'[k]]
    BY <2>1 DEF Set
  <2>6. TableInOrder'
    BY <1>1, <2>2, <2>3, <2>4, <2>5 DEF TableInOrder
  <2>7. QED
    BY <2>2, <2>6, WritePreserves
<1>4. CASE Delete(s)
  <2>1. table' = [k \in DOMAIN table \ {Selected(s).key} |-> table[k]]
    BY <1>4 DEF Delete, Remove
  <2>2. born' = born /\ view' = view /\ Then(s, "load")
    BY <1>4 DEF Delete
  <2>3. TableInOrder'
    BY <1>1, <2>1, <2>2 DEF TableInOrder
  <2>4. QED
    BY <2>2, <2>3, WritePreserves
<1>5. QED
  BY <1>2, <1>3, <1>4

-----------------------------------------------------------------------------
(* The process starts *)

(* Nobody is in a grid, and the table is as it was left or as imported. *)
LEMMA Started ==
  ASSUME DataWindowAssumption, TableInOrder',
         view' = [s \in Sessions |-> Fresh], at' = [s \in Sessions |-> "away"]
  PROVE  GridIInv'
<1>1. Fresh \in View /\ Fresh.rows = <<>>
  BY FreshType DEF Fresh
<1>2. view' \in [Sessions -> View] /\ at' \in [Sessions -> Doing]
  BY <1>1 DEF Doing
<1>3. \A s \in Sessions : Proper(view'[s], at'[s])
  BY FreshProper
<1>4. QED
  BY <1>2, <1>3
  DEF GridIInv, GridTypeOK, KeysNotReused, RowToWrite, GridInOrder, TableInOrder, Proper, Doing

LEMMA InitInv == DataWindowAssumption /\ GridInit => GridIInv
<1> SUFFICES ASSUME DataWindowAssumption, GridInit PROVE GridIInv
  OBVIOUS
<1>1. TableInOrder
  <2>1. Len(Initial) \in Nat /\ 0 + Len(Initial) = Len(Initial)
    BY DEF DataWindowAssumption
  <2>2. QED
    BY <2>1, ImportedType DEF GridInit, TableInOrder
<1>2. view \in [Sessions -> View] /\ at \in [Sessions -> Doing]
  BY FreshType DEF GridInit, Doing
<1>3. \A s \in Sessions : Proper(view[s], at[s])
  BY FreshProper DEF GridInit
<1>4. QED
  BY <1>1, <1>2, <1>3, ByPart

LEMMA RestartPreserves == ASSUME DataWindowAssumption, GridIInv, Restart PROVE GridIInv'
<1>1. TableInOrder
  BY ByPart
<1>2. TableInOrder'
  <2>1. CASE table' = Imported(born) /\ born' = born + Len(Initial)
    BY <1>1, <2>1, ImportedType DEF TableInOrder
  <2>2. CASE UNCHANGED <<table, born>>
    BY <1>1, <2>2 DEF TableInOrder
  <2>3. QED
    BY <2>1, <2>2 DEF Restart
<1>3. QED
  BY <1>2, Started DEF Restart

LEMMA StepInv == DataWindowAssumption /\ GridIInv /\ [GridNext]_gridVars => GridIInv'
<1> SUFFICES ASSUME DataWindowAssumption, GridIInv, [GridNext]_gridVars PROVE GridIInv'
  OBVIOUS
<1>1. CASE Restart
  BY <1>1, RestartPreserves
<1>2. ASSUME NEW s \in Sessions, Keystroke(s) PROVE GridIInv'
  BY <1>2, LoadPreserves, MovesPreserve, TableWritesPreserve DEF Keystroke
<1>3. CASE UNCHANGED gridVars
  BY <1>3 DEF gridVars, GridIInv, GridTypeOK, KeysNotReused, RowToWrite, GridInOrder
<1>4. QED
  BY <1>1, <1>2, <1>3 DEF GridNext

-----------------------------------------------------------------------------
(* The theorems *)

(* dataWindowApplet: rows[sel] never fails, whatever the other sessions
   delete between the moment the rows were read and a keystroke. *)
THEOREM SelectionInGrid ==
  ASSUME DataWindowAssumption
  PROVE  GridSpec => [](GridTypeOK /\ GridInOrder)
<1>1. GridInit => GridIInv
  BY InitInv
<1>2. GridIInv /\ [GridNext]_gridVars => GridIInv'
  BY StepInv
<1>3. GridIInv => GridTypeOK /\ GridInOrder
  BY DEF GridIInv
<1>4. QED
  BY <1>1, <1>2, <1>3, PTL DEF GridSpec

(* Only a session itself ends its edition or its deletion: by the write, or by
   a step that leaves the table alone. *)
LEMMA OwnWrite ==
  ASSUME GridIInv, GridNext, NEW s \in Sessions,
         at[s] \in {"edit", "delete"}, at'[s] = "load", table' # table
  PROVE  Update(s) \/ Delete(s)
<1>1. at \in [Sessions -> Doing]
  BY ByPart
<1>2. ASSUME Restart PROVE FALSE
  BY <1>2 DEF Restart
<1>3. ASSUME NEW t \in Sessions, Keystroke(t), t # s PROVE FALSE
  <2>1. at' = at \/ \E where \in Doing : at' = [at EXCEPT ![t] = where]
    BY <1>3
    DEF Keystroke, Open, Load, Show, Down, Up, NextPage, PreviousPage, Filter, Sort,
        StartWriting, Create, Update, Delete, Cancel, Leave, Move, Then, Doing
  <2>2. QED
    BY <1>1, <1>3, <2>1
<1>4. Keystroke(s)
  BY <1>2, <1>3 DEF GridNext
<1>5. ~(Open(s) \/ Load(s) \/ Down(s) \/ Up(s) \/ NextPage(s) \/ PreviousPage(s)
        \/ Filter(s) \/ Sort(s) \/ StartWriting(s) \/ Create(s))
  BY DEF Open, Load, Down, Up, NextPage, PreviousPage, Filter, Sort, StartWriting, Create
<1>6. ~(Cancel(s) \/ Leave(s))
  BY DEF Cancel, Leave, Move
<1>7. QED
  BY <1>4, <1>5, <1>6 DEF Keystroke

(* dwEditer, dwSupprimer: a session changes the record it has on the screen,
   or none: the key of a row is the number of an insert, and AUTOINCREMENT
   never gives it again. *)
LEMMA WriteHits ==
  ASSUME GridIInv, GridNext, NEW s \in Sessions,
         at[s] \in {"edit", "delete"}, at'[s] = "load", table' # table,
         NEW k \in DOMAIN table, k \notin DOMAIN table' \/ table'[k] # table[k]
  PROVE  table[k].born = Selected(s).born
<1>1. Update(s) \/ Delete(s)
  BY OwnWrite
<1>2. k = Selected(s).key
  <2>1. CASE Update(s)
    BY <2>1 DEF Update, Set
  <2>2. CASE Delete(s)
    BY <2>2 DEF Delete, Remove
  <2>3. QED
    BY <1>1, <2>1, <2>2
<1>3. table[k].born = k
  BY DEF GridIInv, KeysNotReused
<1>4. view[s].sel + 1 \in DOMAIN view[s].rows
  <2>1. view[s].rows \in Seq(Row) /\ view[s].sel \in Int
    BY DEF GridIInv, GridTypeOK, View
  <2>2. view[s].sel \in 0..Len(view[s].rows) - 1
    BY DEF GridIInv, RowToWrite, GridInOrder
  <2>3. QED
    BY <2>1, <2>2
<1>5. Selected(s).born = Selected(s).key
  BY <1>4 DEF GridIInv, KeysNotReused, Selected
<1>6. QED
  BY <1>2, <1>3, <1>5

THEOREM WritesHit == ASSUME DataWindowAssumption PROVE GridSpec => WritesHitTheShown
<1>1. GridInit => GridIInv
  BY InitInv
<1>2. GridIInv /\ [GridNext]_gridVars => GridIInv'
  BY StepInv
<1>3. GridIInv /\ [GridNext]_gridVars =>
        [\A s \in Sessions :
           at[s] \in {"edit", "delete"} /\ at'[s] = "load" /\ table' # table =>
             \A k \in DOMAIN table :
               (k \notin DOMAIN table' \/ table'[k] # table[k]) =>
                 table[k].born = Selected(s).born]_gridVars
  BY WriteHits
<1>4. QED
  BY <1>1, <1>2, <1>3, PTL DEF GridSpec, WritesHitTheShown
=============================================================================
