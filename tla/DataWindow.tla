----------------------------- MODULE DataWindow -----------------------------
(***************************************************************************)
(* The grids of the catalogue: a table of records in a SQLite file, which  *)
(* every operation of the engine reads or writes under the lock of that    *)
(* file, and sessions that show a page of it, move, filter, sort, and      *)
(* create, edit and delete records.  Between two operations a session      *)
(* works on the rows it has loaded, while others change the table.  A      *)
(* record stands for its columns, one value for all of them; its key is an  *)
(* INTEGER AUTOINCREMENT, as in the sources of content/site.json.          *)
(***************************************************************************)
EXTENDS Sequences, Integers, FiniteSets

CONSTANTS
  Sessions,      (* the sessions on the page                         *)
  Admins,        (* those of an administrator, who may write         *)
  Values,        (* what a record may hold, in the order of the sort *)
  Filters,       (* the values each filter lets through              *)
  Orders,        (* the sorts of the page, among "key", "asc", "desc" *)
  Initial,       (* the records the site brings along                *)
  PerPage,       (* rows of the grid                                 *)
  MaxKey         (* bound of the exploration: records ever inserted  *)

(* What the constants are. *)
DataWindowAssumption ==
  /\ Admins \subseteq Sessions /\ Values \subseteq Nat
  /\ \A f \in Filters : f \subseteq Values
  /\ Orders \subseteq {"key", "asc", "desc"} /\ "key" \in Orders
  /\ Initial \in Seq(Values) /\ PerPage \in Nat \ {0} /\ MaxKey \in Nat

VARIABLES
  table,         (* the records, by primary key                          *)
  born,          (* the inserts so far; AUTOINCREMENT's last key         *)
  view,          (* what each session has loaded, and where it is in it  *)
  at             (* what each session is doing                           *)

gridVars == <<table, born, view, at>>

(* born of a record is the number of its insert: the record itself, as
   opposed to the key it is found by. *)
Record == [value : Values, born : Nat]
Row == [key : Nat, born : Nat]   (* what is shown of it *)

View == [rows : Seq(Row), total : Nat, page : Nat \ {0}, sel : Int,
         filter : SUBSET Values, order : Orders]

Fresh == [rows |-> <<>>, total |-> 0, page |-> 1, sel |-> 0,
          filter |-> Values, order |-> "key"]

GridTypeOK ==
  /\ born \in Nat
  /\ DOMAIN table \subseteq 1..born /\ table \in [DOMAIN table -> Record]
  /\ view \in [Sessions -> View]
  /\ at \in [Sessions -> {"away", "load", "loadup", "grid", "create", "edit", "delete"}]

-----------------------------------------------------------------------------
(* The engine *)

(* Mutant: INTEGER PRIMARY KEY alone, which gives again the key of the last
   record once it is deleted. *)
InsertReusing(t, n, v) ==
  LET top == CHOOSE k \in 0..MaxKey :
               (k = 0 \/ k \in DOMAIN t) /\ \A j \in DOMAIN t : j <= k
  IN  [k \in DOMAIN t \cup {top + 1} |->
         IF k = top + 1 THEN [value |-> v, born |-> n + 1] ELSE t[k]]

Insert(t, n, v) ==
  [k \in DOMAIN t \cup {n + 1} |->
     IF k = n + 1 THEN [value |-> v, born |-> n + 1] ELSE t[k]]

(* An update or a deletion finds the record of the key, or none. *)
Set(t, k, v) == [j \in DOMAIN t |-> IF j = k THEN [t[j] EXCEPT !.value = v] ELSE t[j]]

Remove(t, k) == [j \in DOMAIN t \ {k} |-> t[j]]

(* importerDonnees: the records of the site, after n inserts. *)
Imported(n) ==
  [k \in n + 1..n + Len(Initial) |-> [value |-> Initial[k - n], born |-> k]]

(* InitialiserSource: the table of a new file is empty. *)
GridInit ==
  /\ table = Imported(0) /\ born = Len(Initial)
  /\ view = [s \in Sessions |-> Fresh]
  /\ at = [s \in Sessions |-> "away"]

(* The server starts again on the same file, and imports the records of the
   site again if none is left. *)
Restart ==
  /\ IF DOMAIN table = {}
     THEN /\ born + Len(Initial) <= MaxKey
          /\ table' = Imported(born) /\ born' = born + Len(Initial)
     ELSE UNCHANGED <<table, born>>
  /\ view' = [s \in Sessions |-> Fresh]
  /\ at' = [s \in Sessions |-> "away"]

Before(order, i, j) ==
  CASE order = "key" -> i < j
    [] order = "asc" -> table[i].value <= table[j].value
    [] order = "desc" -> table[i].value >= table[j].value

(* The listings of the records a filter lets through; records of one value
   come in any order. *)
Listings(v) ==
  LET K == {k \in DOMAIN table : table[k].value \in v.filter}
  IN  {q \in [1..Cardinality(K) -> K] :
         \A i, j \in DOMAIN q : i < j => q[i] # q[j] /\ Before(v.order, q[i], q[j])}

(* OFFSET, and the rows left of n from there under LIMIT. *)
Offset(p) == (p - 1) * PerPage

Rest(n, p) ==
  IF n <= Offset(p) THEN 0 ELSE IF n - Offset(p) < PerPage THEN n - Offset(p) ELSE PerPage

PageOf(q, p) ==
  [i \in 1..Rest(Len(q), p) |->
     LET k == q[Offset(p) + i] IN [key |-> k, born |-> table[k].born]]

-----------------------------------------------------------------------------
(* The grid *)

Then(s, where) == at' = [at EXCEPT ![s] = where]

(* Mutant: the selection is brought down to the last row, and no more. *)
ClampedAbove(sel, n) == IF sel >= n THEN n - 1 ELSE sel

Clamped(sel, n) ==
  LET low == IF sel >= n THEN n - 1 ELSE sel
  IN  IF low < 0 THEN 0 ELSE low

Loaded(v, rows, total, sel) == [v EXCEPT !.rows = rows, !.total = total, !.sel = sel]

(* load shows rows; the key that goes up a page selects the last of them. *)
Show(s, v, rows, total) ==
  LET n == Len(rows)
      sel == IF at[s] = "loadup" THEN n - 1 ELSE Clamped(v.sel, n)
  IN  /\ view' = [view EXCEPT ![s] = Loaded(v, rows, total, sel)]
      /\ Then(s, "grid")

(* load: one call of Lister, and another one for the first page when the
   page has disappeared, between which the table may change. *)
Load(s) ==
  LET v == view[s]
  IN  /\ at[s] \in {"load", "loadup"}
      /\ \/ \E q \in Listings(v) :
              IF PageOf(q, v.page) = <<>> /\ q # <<>> /\ v.page > 1
              THEN view' = [view EXCEPT ![s].page = 1] /\ UNCHANGED at
              ELSE Show(s, v, PageOf(q, v.page), Len(q))
         \/ Show(s, v, <<>>, 0)   (* an error of the database *)
      /\ UNCHANGED <<table, born>>

Move(s, v, where) ==
  /\ view' = [view EXCEPT ![s] = v]
  /\ Then(s, where)
  /\ UNCHANGED <<table, born>>

Pages(v) == IF v.total > PerPage THEN (v.total + PerPage - 1) \div PerPage ELSE 1

(* Another page of the rows, from its first one. *)
Turned(v, page) == [v EXCEPT !.page = page, !.sel = 0]

Open(s) == at[s] = "away" /\ Move(s, Fresh, "load")

Down(s) ==
  LET v == view[s]
  IN  /\ at[s] = "grid"
      /\ \/ v.sel < Len(v.rows) - 1 /\ Move(s, [v EXCEPT !.sel = @ + 1], "grid")
         \/ /\ v.sel >= Len(v.rows) - 1 /\ v.page < Pages(v)
            /\ Move(s, Turned(v, v.page + 1), "load")

Up(s) ==
  LET v == view[s]
  IN  /\ at[s] = "grid"
      /\ \/ v.sel > 0 /\ Move(s, [v EXCEPT !.sel = @ - 1], "grid")
         \/ v.sel <= 0 /\ v.page > 1 /\ Move(s, [v EXCEPT !.page = @ - 1], "loadup")

NextPage(s) ==
  LET v == view[s]
  IN  at[s] = "grid" /\ v.page < Pages(v) /\ Move(s, Turned(v, v.page + 1), "load")

PreviousPage(s) ==
  LET v == view[s]
  IN  at[s] = "grid" /\ v.page > 1 /\ Move(s, Turned(v, v.page - 1), "load")

(* F, P, and C which clears a filter. *)
Filter(s) ==
  /\ at[s] = "grid"
  /\ \E f \in Filters \cup {Values} :
       Move(s, Turned([view[s] EXCEPT !.filter = f], 1), "load")

(* T goes round the sorts: each is reached by some presses of the key. *)
Sort(s) ==
  /\ at[s] = "grid"
  /\ \E o \in Orders \ {view[s].order} :
       Move(s, Turned([view[s] EXCEPT !.order = o], 1), "load")

(* N, E and D; the row is the one shown when the key is pressed. *)
StartWriting(s) ==
  /\ at[s] = "grid" /\ s \in Admins
  /\ \/ Move(s, view[s], "create")
     \/ view[s].rows # <<>> /\ \E what \in {"edit", "delete"} : Move(s, view[s], what)

Selected(s) == view[s].rows[view[s].sel + 1]

(* An insert that fails, or fields that are refused, bring the form again. *)
Create(s) ==
  /\ at[s] = "create" /\ born < MaxKey
  /\ \E v \in Values : table' = Insert(table, born, v)
  /\ born' = born + 1
  /\ Then(s, "load") /\ UNCHANGED view

(* The record may be gone: the form says that it was modified all the same. *)
Update(s) ==
  /\ at[s] = "edit"
  /\ \E v \in Values : table' = Set(table, Selected(s).key, v)
  /\ Then(s, "load") /\ UNCHANGED <<born, view>>

Delete(s) ==
  /\ at[s] = "delete"
  /\ table' = Remove(table, Selected(s).key)
  /\ Then(s, "load") /\ UNCHANGED <<born, view>>

(* The form left empty, a deletion not confirmed, or one that fails. *)
Cancel(s) ==
  /\ at[s] \in {"create", "edit", "delete"}
  /\ Move(s, view[s], "load")

(* Q, and a connection cut at any moment. *)
Leave(s) == at[s] # "away" /\ Move(s, Fresh, "away")

Keystroke(s) ==
  \/ Open(s) \/ Load(s) \/ Down(s) \/ Up(s) \/ NextPage(s) \/ PreviousPage(s)
  \/ Filter(s) \/ Sort(s) \/ StartWriting(s)
  \/ Create(s) \/ Update(s) \/ Delete(s) \/ Cancel(s) \/ Leave(s)

GridNext == Restart \/ \E s \in Sessions : Keystroke(s)

GridSpec == GridInit /\ [][GridNext]_gridVars

-----------------------------------------------------------------------------
(* Properties *)

(* dataWindowApplet: the selection is a row of the grid whenever there is
   one, so that rows[sel] never fails, whatever the others have deleted
   meanwhile; and the grid is empty only when nothing passed the filter at
   the moment of the count, or the database failed. *)
GridInOrder ==
  \A s \in Sessions :
    LET v == view[s]
    IN  at[s] \notin {"away", "load", "loadup"} =>
          IF v.rows = <<>> THEN v.total = 0 ELSE v.sel \in 0..Len(v.rows) - 1

(* dwEditer, dwSupprimer: a write changes the record its session has on the
   screen or, when that one is gone, nothing; never a record created since
   under the same key. *)
WritesHitTheShown ==
  [][\A s \in Sessions :
       at[s] \in {"edit", "delete"} /\ at'[s] = "load" /\ table' # table =>
         \A k \in DOMAIN table :
           (k \notin DOMAIN table' \/ table'[k] # table[k]) =>
             table[k].born = Selected(s).born]_gridVars
=============================================================================
