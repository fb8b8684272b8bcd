------------------------------- MODULE ApiSource -------------------------------
(***************************************************************************)
(* The lists of a source behind a REST API (server/internal/datawindow,    *)
(* api.go).  An answer is kept for TTL in a cache that the sessions share; *)
(* a lock covers the cache, neither the request nor what follows it.  A    *)
(* list without a filter IS the cached array, which the next list sorts    *)
(* where it lies.  The reads and writes of a sort are steps of their own:  *)
(* nothing orders those of two sessions (a data race).                     *)
(***************************************************************************)
EXTENDS Integers, Sequences, FiniteSets

CONSTANTS
  Sessions,
  Answer,       \* the rows the service answers, in its order: distinct numbers
  Wanted,       \* the rows that pass the filter
  TTL,          \* how long an answer is kept
  Timeout,      \* how long the HTTP client waits (8 s in the code)
  MaxTime       \* bound of the model: the clock

SortOrders == {"asc", "desc"}
Rows == {Answer[i] : i \in DOMAIN Answer}

ApiSourceAssumption ==
  /\ IsFiniteSet(Sessions) /\ Answer \in Seq(Nat) /\ Wanted \subseteq Rows
  /\ TTL \in Nat \ {0} /\ Timeout \in Nat /\ MaxTime \in Nat

VARIABLES
  now,          \* the clock
  arrays,       \* the arrays in use: their rows, the instant of the answer
  cache,        \* the array kept and when it was stored; array 0: none
  listing       \* what each session is doing with its list
apiVars == <<now, arrays, cache, listing>>

(* array: the list in hand; i, j: where the filter or the sort is; low, high:
   the two rows a swap has read; drawn: the rows on the screen; opened: the
   row of the screen that was opened, and the record that was shown for it. *)
Away == [pc |-> "away", order |-> "asc", filter |-> FALSE, since |-> 0, asOf |-> 0,
         age |-> 0, array |-> 0, i |-> 0, j |-> 0, low |-> 0, high |-> 0,
         drawn |-> <<>>, opened |-> <<>>]

(* One array in the cache, one in the hand of each session, and a new one. *)
Ids == 1 .. Cardinality(Sessions) + 2

Places == {"away", "load", "request", "answer", "filter", "compare", "high", "low", "draw", "shown"}

ApiTypeOK ==
  /\ now \in 0 .. MaxTime
  /\ DOMAIN arrays \subseteq Ids
  /\ \A k \in DOMAIN arrays : arrays[k].rows \in Seq(Rows) /\ arrays[k].asOf \in 0 .. MaxTime
  /\ cache.array \in {0} \cup DOMAIN arrays /\ cache.fetched \in 0 .. MaxTime
  /\ \A s \in Sessions :
       /\ DOMAIN listing[s] = DOMAIN Away /\ listing[s].pc \in Places
       /\ listing[s].array \in {0} \cup DOMAIN arrays

ApiInit ==
  /\ now = 0 /\ arrays = [k \in {} |-> 0] /\ cache = [array |-> 0, fetched |-> 0]
  /\ listing = [s \in Sessions |-> Away]

At(s, pc) == listing[s].pc = pc
Becomes(s, l) == listing' = [listing EXCEPT ![s] = l]

(* The new state of a session and of the cache, among the arrays of all: what
   neither refers to any more is forgotten. *)
Then(s, l, c, all) ==
  /\ Becomes(s, l) /\ cache' = c
  /\ arrays' = [k \in DOMAIN all \cap ({c.array} \cup {listing'[t].array : t \in Sessions}) |-> all[k]]
  /\ UNCHANGED now

Unused == CHOOSE k \in Ids \ DOMAIN arrays : \A other \in Ids \ DOMAIN arrays : k <= other

WithArray(id, rows, asOf) ==
  [k \in DOMAIN arrays \cup {id} |-> IF k = id THEN [rows |-> rows, asOf |-> asOf] ELSE arrays[k]]

RowsOf(s) == arrays[listing[s].array].rows

-----------------------------------------------------------------------------
(* fetchAPI.                                                               *)

(* The page is opened, or T or F asks for another list: a new filter or order. *)
Ask(s, order, filter) ==
  /\ listing[s].pc \in {"away", "shown"}
  /\ Then(s, [Away EXCEPT !.pc = "load", !.order = order, !.filter = filter], cache, arrays)

(* What is done with the rows once they are in hand. *)
Begun(l, array, asOf) ==
  [l EXCEPT !.pc = IF l.filter THEN "filter" ELSE "compare",
            !.array = array, !.age = now - asOf, !.since = 0, !.asOf = 0,
            !.i = IF l.filter THEN 1 ELSE 2,
            !.j = IF l.filter THEN 0 ELSE 2]

(* Mutant: an answer is kept as long as TTL, inclusive. *)
FreshInclusive == cache.array # 0 /\ now - cache.fetched <= TTL

Fresh == cache.array # 0 /\ now - cache.fetched < TTL

FromCache(s) ==
  /\ At(s, "load")
  /\ Fresh
  /\ Becomes(s, Begun(listing[s], cache.array, arrays[cache.array].asOf))
  /\ UNCHANGED <<now, arrays, cache>>

Request(s) ==
  /\ At(s, "load")
  /\ ~Fresh
  /\ Becomes(s, [listing[s] EXCEPT !.pc = "request", !.since = now])
  /\ UNCHANGED <<now, arrays, cache>>

(* The service answers; the answer is on its way. *)
Answers(s) ==
  /\ At(s, "request")
  /\ Becomes(s, [listing[s] EXCEPT !.pc = "answer", !.asOf = now])
  /\ UNCHANGED <<now, arrays, cache>>

(* The answer is read, then stored, whatever was stored since the request. *)
Store(s) ==
  LET l == listing[s]
  IN /\ At(s, "answer")
     /\ Then(s, Begun(l, Unused, l.asOf), [array |-> Unused, fetched |-> now],
             WithArray(Unused, Answer, l.asOf))

(* An error of the service, or the time is over: the list is empty. *)
Fail(s) ==
  /\ listing[s].pc \in {"request", "answer"}
  /\ Becomes(s, [Away EXCEPT !.pc = "shown"])
  /\ UNCHANGED <<now, arrays, cache>>

-----------------------------------------------------------------------------
(* listerAPI: the filter copies, the sort does not.                        *)

(* One row of the list goes through the filter into a list of its own. *)
Filter(s) ==
  LET l == listing[s]
      r == RowsOf(s)[l.i]
  IN /\ At(s, "filter")
     /\ l.i <= Len(RowsOf(s))
     /\ Becomes(s, [l EXCEPT !.i = @ + 1, !.drawn = IF r \in Wanted THEN Append(@, r) ELSE @])
     /\ UNCHANGED <<now, arrays, cache>>

Filtered(s) ==
  LET l == listing[s]
  IN /\ At(s, "filter")
     /\ l.i > Len(RowsOf(s))
     /\ Then(s, [l EXCEPT !.pc = "compare", !.array = Unused, !.i = 2, !.j = 2, !.drawn = <<>>],
             cache, WithArray(Unused, l.drawn, arrays[l.array].asOf))

Less(order, x, y) == IF order = "asc" THEN x < y ELSE x > y

(* sort.SliceStable, by insertion for a list this short: row j is compared
   with the one before, and both are read again to be swapped. *)
Compare(s) ==
  LET l == listing[s]
      rows == RowsOf(s)
  IN /\ At(s, "compare")
     /\ l.i <= Len(rows)
     /\ \/ /\ l.j > 1 /\ Less(l.order, rows[l.j], rows[l.j - 1])
           /\ Becomes(s, [l EXCEPT !.pc = "low", !.low = rows[l.j], !.high = rows[l.j - 1]])
        \/ /\ ~(l.j > 1 /\ Less(l.order, rows[l.j], rows[l.j - 1]))
           /\ Becomes(s, [l EXCEPT !.i = @ + 1, !.j = l.i + 1])
     /\ UNCHANGED <<now, arrays, cache>>

Written(s, at, row) == [arrays EXCEPT ![listing[s].array].rows[at] = row]

StoreLow(s) ==
  LET l == listing[s]
  IN /\ At(s, "low")
     /\ arrays' = Written(s, l.j - 1, l.low)
     /\ Becomes(s, [l EXCEPT !.pc = "high"])
     /\ UNCHANGED <<now, cache>>

StoreHigh(s) ==
  LET l == listing[s]
  IN /\ At(s, "high")
     /\ arrays' = Written(s, l.j, l.high)
     /\ Becomes(s, [l EXCEPT !.pc = "compare", !.j = @ - 1, !.low = 0, !.high = 0])
     /\ UNCHANGED <<now, cache>>

Sorted(s) ==
  /\ At(s, "compare")
  /\ listing[s].i > Len(RowsOf(s))
  /\ Becomes(s, [listing[s] EXCEPT !.pc = "draw", !.i = 0, !.j = 0])
  /\ UNCHANGED <<now, arrays, cache>>

-----------------------------------------------------------------------------
(* The applet: the list is a part of the array, read at every drawing.     *)

Draw(s) ==
  /\ At(s, "draw")
  /\ Becomes(s, [listing[s] EXCEPT !.pc = "shown", !.drawn = RowsOf(s), !.opened = <<>>])
  /\ UNCHANGED <<now, arrays, cache>>

(* V or X on row k, then the screen is drawn again. *)
OpenRow(s, k) ==
  /\ At(s, "shown")
  /\ k \in DOMAIN listing[s].drawn
  /\ Becomes(s, [listing[s] EXCEPT !.pc = "draw",
                         !.opened = <<listing[s].drawn[k], RowsOf(s)[k]>>])
  /\ UNCHANGED <<now, arrays, cache>>

Leave(s) ==
  /\ At(s, "shown")
  /\ Then(s, Away, cache, arrays)

(* Time passes, but not past the time-out of a request, and not while a list
   is sorted or drawn. *)
Tick ==
  /\ now < MaxTime
  /\ \A s \in Sessions :
       /\ listing[s].pc \in {"away", "request", "answer", "shown"}
       /\ listing[s].pc \in {"request", "answer"} => now - listing[s].since < Timeout
  /\ now' = now + 1
  /\ UNCHANGED <<arrays, cache, listing>>

Listing(s) ==
  \/ \E order \in SortOrders, filter \in BOOLEAN : Ask(s, order, filter)
  \/ FromCache(s) \/ Request(s) \/ Answers(s) \/ Store(s) \/ Fail(s)
  \/ Filter(s) \/ Filtered(s)
  \/ Compare(s) \/ StoreLow(s) \/ StoreHigh(s) \/ Sorted(s)
  \/ Draw(s) \/ Leave(s)
  \/ \E k \in DOMAIN Answer : OpenRow(s, k)

ApiNext == Tick \/ \E s \in Sessions : Listing(s)

ApiSpec == ApiInit /\ [][ApiNext]_apiVars

-----------------------------------------------------------------------------
(* What is listed is what the service answered less than TTL plus the time
   of a request ago, although a late answer may replace a newer one in the
   cache (fetchAPI). *)
FreshEnough == \A s \in Sessions : listing[s].age < TTL + Timeout

(* The record opened is the one of the row on the screen: docs/datawindow.md,
   "fiche detail de la ligne selectionnee". *)
OpenedIsShown ==
  \A s \in Sessions : listing[s].opened # <<>> => listing[s].opened[1] = listing[s].opened[2]
=============================================================================
