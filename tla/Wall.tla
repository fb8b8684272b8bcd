-------------------------------- MODULE Wall --------------------------------
(***************************************************************************)
(* The message wall: the messages in memory, the JSON file behind them and *)
(* the crashes in between.  An operation runs under the mutex of the store *)
(* and is one step, unless the process dies after the file is replaced and *)
(* before Post returns.  A message is its number in the order of posting.  *)
(* The replacement of the file is atomic (AtomicFile).                     *)
(***************************************************************************)
EXTENDS Integers, Sequences

CONSTANTS
  MaxMessages,   (* messages kept (200)                                *)
  MaxPosts       (* bound of the exploration: posts that are attempted *)

WallAssumption == MaxMessages \in Nat \ {0} /\ MaxPosts \in Nat

VARIABLES
  msgs,          (* the messages in memory, oldest first          *)
  file,          (* the messages in the file                      *)
  up,            (* the process runs                              *)
  posted,        (* every message that reached the file (history) *)
  refused,       (* those whose author was told of a failure      *)
  n              (* posts attempted                               *)

vars == <<msgs, file, up, posted, refused, n>>

Elements(s) == {s[i] : i \in 1..Len(s)}

TypeOK ==
  /\ n \in 0..MaxPosts
  /\ msgs \in Seq(-MaxMessages..n) /\ file \in Seq(-MaxMessages..n)
  /\ posted \in Seq(-MaxMessages..n)
  /\ Len(msgs) <= MaxMessages
  /\ up \in BOOLEAN
  /\ refused \subseteq 1..n

(* The k last messages of s, or all of them. *)
Latest(s, k) == IF Len(s) > k THEN SubSeq(s, Len(s) - k + 1, Len(s)) ELSE s

Trim(s) == Latest(s, MaxMessages)

(* The file of an earlier run, even one written under a larger bound. *)
Init ==
  /\ \E k \in 0..MaxMessages + 1 : file = [i \in 1..k |-> i - k]
  /\ posted = file
  /\ msgs = <<>> /\ up = FALSE /\ refused = {} /\ n = 0

Open ==
  /\ ~ up
  /\ up' = TRUE
  /\ msgs' = Trim(file)
  /\ UNCHANGED <<file, posted, refused, n>>

Attempt ==
  /\ up /\ n < MaxPosts
  /\ n' = n + 1

Post ==
  /\ Attempt
  /\ msgs' = Trim(Append(msgs, n'))
  /\ file' = msgs'
  /\ posted' = Append(posted, n')
  /\ UNCHANGED <<up, refused>>

(* Mutant: one message too many taken back. *)
PostFailsTwiceBack ==
  /\ Attempt
  /\ LET added == Trim(Append(msgs, n')) IN msgs' = SubSeq(added, 1, Len(added) - 2)
  /\ refused' = refused \cup {n'}
  /\ UNCHANGED <<file, up, posted>>

(* The save fails: the message appended is taken back, and the oldest one,
   if the trim dropped it, stays dropped. *)
PostFails ==
  /\ Attempt
  /\ LET added == Trim(Append(msgs, n')) IN msgs' = SubSeq(added, 1, Len(added) - 1)
  /\ refused' = refused \cup {n'}
  /\ UNCHANGED <<file, up, posted>>

(* The process dies between the rename and the answer to the author. *)
PostThenCrash ==
  /\ Attempt
  /\ file' = Trim(Append(msgs, n'))
  /\ posted' = Append(posted, n')
  /\ msgs' = <<>> /\ up' = FALSE
  /\ UNCHANGED refused

Crash ==
  /\ up
  /\ up' = FALSE /\ msgs' = <<>>
  /\ UNCHANGED <<file, posted, refused, n>>

Next == Open \/ Post \/ PostFails \/ PostThenCrash \/ Crash

Spec == Init /\ [][Next]_vars

-----------------------------------------------------------------------------
(* Properties *)

(* What readers see now, a restart would show too. *)
ShownIsDurable ==
  /\ up => Elements(msgs) \subseteq Elements(Trim(file))
  /\ refused \cap (Elements(msgs) \cup Elements(file)) = {}

(* The wall is the end of what was posted. *)
KeepsLatest ==
  /\ up => \E k \in {MaxMessages - 1, MaxMessages} : msgs = Latest(posted, k)
  /\ \/ file = Latest(posted, MaxMessages)
     \/ file = posted

(* What is shown is durable and whole (Store.Post, Open): nothing on the
   screen is only in memory, a message its author was told is refused is never
   seen again, and the wall is the end of what was posted, in that order and
   without a gap, at most one message short of the bound however many saves
   failed. *)
WallKept == TypeOK /\ ShownIsDurable /\ KeepsLatest
=============================================================================
