-------------------------------- MODULE Forum --------------------------------
(***************************************************************************)
(* The forum: threads of posts bounded in number and in length, their      *)
(* file, and the sessions that list threads, read them page by page, reply *)
(* and open new ones, each from the copy it displayed last.  A post is its *)
(* date, and no two posts have the same.                                   *)
(***************************************************************************)
EXTENDS Integers, Sequences, FiniteSets

CONSTANTS
  Sessions,
  MaxThreads, MaxPostsPerThread,   (* what the store keeps (100, 500)        *)
  PerPage,                         (* posts displayed on a page (5)          *)
  MaxClock                         (* bound of the exploration: posts dated  *)

(* A reply that is taken back may have pushed a post out: a thread that keeps
   one post only would be left empty. *)
ForumAssumption ==
  /\ MaxThreads \in Nat /\ MaxPostsPerThread \in Nat \ {0, 1}
  /\ PerPage \in Nat \ {0} /\ MaxClock \in Nat

VARIABLES
  threads, nextID,   (* the store in memory                                  *)
  file,              (* what the file holds of both                          *)
  clock,             (* the date of the latest post                          *)
  pc,                (* where each session is                                *)
  listed,            (* the threads it listed last                           *)
  thread,            (* the thread it reads                                  *)
  count, page,       (* its posts when displayed last, and the page          *)
  under              (* the thread each post was written under (history)     *)

store == <<threads, nextID, file>>
view == <<listed, thread, count, page>>
vars == <<store, clock, pc, view, under>>

Steps == {"away", "list", "open", "thread", "replying", "writing"}
Thread == [id : 1..MaxClock, posts : Seq(1..MaxClock)]

PostsOf(t) == {t.posts[i] : i \in 1..Len(t.posts)}
IDs(q) == {q[i].id : i \in 1..Len(q)}

TypeOK ==
  /\ threads \in Seq(Thread) /\ Len(threads) <= MaxThreads
  /\ \A i \in 1..Len(threads) : Len(threads[i].posts) \in 1..MaxPostsPerThread
  /\ nextID \in 1..MaxClock + 1
  /\ file.threads \in Seq(Thread) /\ file.next \in 0..MaxClock + 1
  /\ clock \in 0..MaxClock
  /\ pc \in [Sessions -> Steps]
  /\ \A s \in Sessions : listed[s] \in Seq(1..MaxClock)
  /\ thread \in [Sessions -> 0..MaxClock]
  /\ count \in [Sessions -> 0..MaxPostsPerThread] /\ page \in [Sessions -> Nat]
  /\ under \in [1..clock -> 0..MaxClock]

Away ==
  /\ pc = [s \in Sessions |-> "away"]
  /\ listed = [s \in Sessions |-> <<>>]
  /\ thread = [s \in Sessions |-> 0]
  /\ count = [s \in Sessions |-> 0] /\ page = [s \in Sessions |-> 0]

Init ==
  /\ threads = <<>> /\ nextID = 1 /\ file = [next |-> 0, threads |-> <<>>]
  /\ clock = 0 /\ under = <<>>
  /\ Away

-----------------------------------------------------------------------------
(* Store *)

Latest(q, n) == IF Len(q) > n THEN SubSeq(q, Len(q) - n + 1, Len(q)) ELSE q

LastActivity(t) == t.posts[Len(t.posts)]

(* The threads of q that come before its thread i. *)
Livelier(q, i) == {j \in 1..Len(q) : LastActivity(q[j]) > LastActivity(q[i])}

ByActivity(q) == [k \in 1..Len(q) |-> q[CHOOSE i \in 1..Len(q) : Cardinality(Livelier(q, i)) = k - 1]]

(* Mutant: the first threads of the store go, whatever their activity. *)
enforceCapsUnsorted(q) ==
  LET cut == [i \in 1..Len(q) |-> [q[i] EXCEPT !.posts = Latest(@, MaxPostsPerThread)]]
  IN  Latest(cut, MaxThreads)

(* Every thread cut to its latest posts; too many threads, and the least
   recently active go (the others change order). *)
enforceCaps(q) ==
  LET cut == [i \in 1..Len(q) |-> [q[i] EXCEPT !.posts = Latest(@, MaxPostsPerThread)]]
  IN  IF Len(cut) <= MaxThreads THEN cut ELSE SubSeq(ByActivity(cut), 1, MaxThreads)

saved == file' = [next |-> nextID', threads |-> threads']

Date == clock < MaxClock /\ clock' = clock + 1

(* A new thread stays in memory even if it cannot be saved. *)
NewThread ==
  /\ Date
  /\ nextID' = nextID + 1
  /\ threads' = enforceCaps(Append(threads, [id |-> nextID, posts |-> <<clock'>>]))
  /\ saved \/ UNCHANGED file
  /\ under' = Append(under, nextID)

Position(id) == {i \in 1..Len(threads) : threads[i].id = id}

pageCount(n) == IF n <= 0 THEN 1 ELSE (n + PerPage - 1) \div PerPage

clampPage(p, pages) == IF p >= pages THEN pages - 1 ELSE p

(* A reply to a thread that has gone is refused; one that cannot be saved is
   taken back, not the post it may have pushed out. *)
Reply(s, id) ==
  /\ Date
  /\ UNCHANGED nextID
  /\ \/ \E i \in Position(id) :
          LET added == Latest(Append(threads[i].posts, clock'), MaxPostsPerThread) IN
          \/ /\ threads' = [threads EXCEPT ![i].posts = added]
             /\ saved
             /\ under' = Append(under, id)
             /\ page' = [page EXCEPT ![s] = pageCount(count[s] + 1) - 1]
          \/ /\ threads' = [threads EXCEPT ![i].posts = SubSeq(added, 1, Len(added) - 1)]
             /\ under' = Append(under, 0)
             /\ UNCHANGED <<file, page>>
     \/ /\ Position(id) = {}
        /\ under' = Append(under, 0)
        /\ UNCHANGED <<threads, file, page>>

-----------------------------------------------------------------------------
(* Screens *)

At(s, steps) == pc[s] \in steps
Goto(s, step) == pc' = [pc EXCEPT ![s] = step]

forumList(s) ==
  /\ At(s, {"away", "list"}) /\ Goto(s, "list")
  /\ listed' = [listed EXCEPT ![s] = LET q == ByActivity(threads) IN [i \in 1..Len(q) |-> q[i].id]]
  /\ UNCHANGED <<store, clock, thread, count, page, under>>

Choose(s) ==
  /\ At(s, {"list"}) /\ Goto(s, "open")
  /\ \E i \in 1..Len(listed[s]) : thread' = [thread EXCEPT ![s] = listed[s][i]]
  /\ page' = [page EXCEPT ![s] = 0]
  /\ UNCHANGED <<store, clock, listed, count, under>>

(* One turn of forumThread: the thread is copied and a page displayed; a
   thread that has gone brings the list back. *)
forumThread(s) ==
  /\ At(s, {"open"})
  /\ \/ /\ Position(thread[s]) = {}
        /\ Goto(s, "away")
        /\ UNCHANGED <<count, page>>
     \/ /\ \E i \in Position(thread[s]) : count' = [count EXCEPT ![s] = Len(threads[i].posts)]
        /\ page' = [page EXCEPT ![s] = clampPage(@, pageCount(count'[s]))]
        /\ Goto(s, "thread")
  /\ UNCHANGED <<store, clock, listed, thread, under>>

(* A key: the next or the previous page, or one that changes nothing. *)
Turn(s) ==
  /\ At(s, {"thread"}) /\ Goto(s, "open")
  /\ \/ page[s] < pageCount(count[s]) - 1 /\ page' = [page EXCEPT ![s] = @ + 1]
     \/ page[s] > 0 /\ page' = [page EXCEPT ![s] = @ - 1]
     \/ UNCHANGED page
  /\ UNCHANGED <<store, clock, listed, thread, count, under>>

AskReply(s) ==
  /\ At(s, {"thread"}) /\ Goto(s, "replying")
  /\ UNCHANGED <<store, clock, listed, thread, count, page, under>>

SendReply(s) ==
  /\ At(s, {"replying"}) /\ Goto(s, "open")
  /\ Reply(s, thread[s])
  /\ UNCHANGED <<listed, thread, count>>

AskTitle(s) ==
  /\ At(s, {"list"}) /\ Goto(s, "writing")
  /\ UNCHANGED <<store, clock, view, under>>

forumNewThread(s) ==
  /\ At(s, {"writing"}) /\ Goto(s, "away")
  /\ NewThread
  /\ UNCHANGED view

(* Back to the list, a text left empty, or the end of the session. *)
Back(s) ==
  /\ At(s, {"list", "thread", "replying", "writing"})
  /\ Goto(s, IF pc[s] = "replying" THEN "open" ELSE "away")
  /\ UNCHANGED <<store, clock, view, under>>

(* Mutant: the counter starts again at one. *)
counterFromOne(f) == 1

counterOf(f) == IF f.next = 0 THEN 1 ELSE f.next

Restart ==
  /\ threads' = enforceCaps(file.threads)
  /\ nextID' = counterOf(file)
  /\ pc' = [s \in Sessions |-> "away"]
  /\ listed' = [s \in Sessions |-> <<>>]
  /\ thread' = [s \in Sessions |-> 0]
  /\ count' = [s \in Sessions |-> 0] /\ page' = [s \in Sessions |-> 0]
  /\ UNCHANGED <<file, clock, under>>

Next ==
  \/ Restart
  \/ \E s \in Sessions :
       \/ forumList(s) \/ Choose(s) \/ forumThread(s) \/ Turn(s) \/ AskReply(s)
       \/ SendReply(s) \/ AskTitle(s) \/ forumNewThread(s) \/ Back(s)

Spec == Init /\ [][Next]_vars

-----------------------------------------------------------------------------
(* Properties *)

(* A post is in the thread its author had on the screen and in no other,
   whatever moved, disappeared or was restarted: no number names two threads,
   the posts of a thread are in order of date, a refused reply is in none. *)
PostsWhereWritten ==
  \A q \in {threads, file.threads} :
    /\ \A i, j \in 1..Len(q) : i # j => q[i].id # q[j].id
    /\ \A i \in 1..Len(q) :
         /\ \A p \in PostsOf(q[i]) : under[p] = q[i].id
         /\ \A j, k \in 1..Len(q[i].posts) : j < k => q[i].posts[j] < q[i].posts[k]

(* Unless the server restarts a thread disappears only when the store is full
   of threads that were active later. *)
LeastActiveEvicted ==
  [][ \A i \in 1..Len(threads) :
        threads[i].id \notin IDs(threads') =>
          \/ Restart
          \/ /\ Len(threads') = MaxThreads
             /\ \A j \in 1..Len(threads') : LastActivity(threads'[j]) > LastActivity(threads[i])
    ]_vars
=============================================================================
