------------------------------ MODULE Broadcast ------------------------------
(***************************************************************************)
(* What the chat room promises: a caller who comes in is shown the latest  *)
(* messages, then later ones, each at most once and in the order they were *)
(* published.  It may miss some (a slow session is not waited for).        *)
(***************************************************************************)
EXTENDS Integers, Sequences

CONSTANTS Callers, BacklogSize

VARIABLES
  published,  (* number of messages published so far               *)
  heard       (* the messages each caller in the room has been shown, by number *)

(* The latest messages when n have been published, oldest first. *)
Recall(n) ==
  LET k == IF n < BacklogSize THEN n ELSE BacklogSize
  IN  [i \in 1..k |-> n - k + i]

BInit == published = 0 /\ heard = [c \in Callers |-> <<>>]

Publish == published' = published + 1 /\ UNCHANGED heard

Enter(c) ==
  /\ heard' = [heard EXCEPT ![c] = Recall(published)]
  /\ UNCHANGED published

Hear(c) ==
  /\ \E n \in 1..published :
       /\ \A i \in 1..Len(heard[c]) : heard[c][i] < n
       /\ heard' = [heard EXCEPT ![c] = Append(@, n)]
  /\ UNCHANGED published

Depart(c) ==
  /\ heard' = [heard EXCEPT ![c] = <<>>]
  /\ UNCHANGED published

BNext == Publish \/ \E c \in Callers : Enter(c) \/ Hear(c) \/ Depart(c)

BSpec == BInit /\ [][BNext]_<<published, heard>>
=============================================================================
