-------------------------------- MODULE News --------------------------------
(***************************************************************************)
(* The news: announcements the sysop posts from inside the BBS, and the    *)
(* articles of an outside feed which the synchronisation imports.  The     *)
(* synchronisation runs beside the server: it copies the file, merges the  *)
(* feed into the copy, puts the result in place of the file and restarts   *)
(* the server, which has the announcements in memory and saves the whole   *)
(* list at every post.  A post has the date of the server, later than the  *)
(* posts before it.  An article has the date its feed gives it, whatever   *)
(* it is: past, that of a post or of another article, or yet to come.      *)
(***************************************************************************)
EXTENDS Integers, Sequences, FiniteSets

CONSTANTS
  MaxItems,      (* announcements kept (200)                           *)
  MaxImport,     (* articles imported at a time (20), or 0 for all     *)
  MaxClock,      (* bounds of the exploration: the latest date,        *)
  MaxArticles    (* and the articles of the feed                       *)

(* What the constants are. *)
NewsAssumption ==
  /\ MaxItems \in Nat \ {0} /\ MaxImport \in Nat
  /\ MaxClock \in Nat /\ MaxArticles \in Nat

VARIABLES
  items,         (* the announcements in memory                        *)
  file,          (* the announcements in the file                      *)
  clock,         (* the date of the server                             *)
  feed,          (* the articles of the feed                           *)
  sync,          (* the step the synchronisation is at                 *)
  copy,          (* the announcements it works on                      *)
  own,           (* the sysop's posts that were saved (history)        *)
  ahead,         (* the articles dated after the day they came into    *)
                 (* the feed, with that day (history)                  *)
  blind,         (* the file could not be read for the copy (history)  *)
  late           (* posts made while a synchronisation was on its way, *)
                 (* or replaced by one that had not read them (history)*)

history == <<own, ahead, blind, late>>
vars == <<items, file, clock, feed, sync, copy, history>>

(* An article has its place in the feed; a post has none. *)
Item ==
  {it \in [author : {"sysop", "feed"}, at : 1..MaxClock, no : 0..MaxArticles] :
     it.author = "sysop" <=> it.no = 0}

Dated(d) == [author |-> "sysop", at |-> d, no |-> 0]

Elements(s) == {s[i] : i \in 1..Len(s)}

TypeOK ==
  /\ items \in Seq(Item) /\ file \in Seq(Item) /\ copy \in Seq(Item)
  /\ Len(items) <= MaxItems /\ Len(file) <= MaxItems
  /\ clock \in 0..MaxClock
  /\ feed \subseteq Item /\ own \subseteq {Dated(d) : d \in 1..clock}
  /\ ahead \subseteq feed \X (0..clock) /\ late \subseteq own /\ blind \in BOOLEAN
  /\ sync \in {"idle", "copied", "merged", "pushed"}

Trim(s) == IF Len(s) > MaxItems THEN SubSeq(s, Len(s) - MaxItems + 1, Len(s)) ELSE s

Init ==
  /\ items = <<>> /\ file = <<>> /\ copy = <<>> /\ clock = 0 /\ feed = {}
  /\ own = {} /\ ahead = {} /\ late = {} /\ blind = FALSE
  /\ sync = "idle"

-----------------------------------------------------------------------------
(* The server *)

Post ==
  /\ clock' \in clock + 1..MaxClock
  /\ items' = Trim(Append(items, Dated(clock')))
  /\ file' = items'
  /\ own' = own \cup {Dated(clock')}
  /\ late' = IF sync = "idle" THEN late ELSE late \cup {Dated(clock')}
  /\ UNCHANGED <<feed, sync, copy, ahead, blind>>

(* The save fails: the last element goes, not the one the trim evicted. *)
PostFails ==
  /\ clock' \in clock + 1..MaxClock
  /\ LET added == Trim(Append(items, Dated(clock')))
     IN  items' = SubSeq(added, 1, Len(added) - 1)
  /\ UNCHANGED <<file, feed, sync, copy, history>>

(* A crash and a restart, as the service manager does. *)
Open ==
  /\ items' = Trim(file)
  /\ UNCHANGED <<file, clock, feed, sync, copy, history>>

-----------------------------------------------------------------------------
(* The feed and its synchronisation *)

(* An article comes, anywhere in the feed and with any date. *)
Article ==
  /\ clock' \in clock..MaxClock
  /\ \E it \in Item :
       /\ it.author = "feed" /\ \A other \in feed : other.no # it.no
       /\ feed' = feed \cup {it}
       /\ ahead' = IF it.at > clock' THEN ahead \cup {<<it, clock'>>} ELSE ahead
  /\ UNCHANGED <<items, file, sync, copy, own, blind, late>>

(* The order of the stable sort: by date, and at one date the articles, in the
   order of the feed, before the post. *)
Before(x, y) ==
  \/ x.at < y.at
  \/ /\ x.at = y.at /\ x.author = "feed"
     /\ y.author = "sysop" \/ x.no < y.no

Earlier(S, it) == {other \in S : Before(other, it)}

ByDate(S) == [i \in 1..Cardinality(S) |-> CHOOSE it \in S : Cardinality(Earlier(S, it)) = i - 1]

(* The order of the parsed feed: the latest first, then as it lists them. *)
Fresher(x, y) == x.at > y.at \/ (x.at = y.at /\ x.no < y.no)

(* The latest articles of the feed. *)
toItems(entries) ==
  {it \in entries : MaxImport > 0 => Cardinality({x \in entries : Fresher(x, it)}) < MaxImport}

(* Mutants: fresh articles are added at the end; everything is replaced. *)
mergeAppending(existing, fresh) ==
  existing \o ByDate(fresh \ Elements(existing))

mergeAllReplaced(existing, fresh) == ByDate(fresh)

(* The announcements of other authors are kept, those of the feed replaced. *)
mergeFile(existing, fresh) ==
  ByDate(fresh \cup {it \in Elements(existing) : it.author # "feed"})

CopyFile ==
  /\ sync = "idle" /\ sync' = "copied"
  /\ copy' = file /\ blind' = FALSE
  /\ UNCHANGED <<items, file, clock, feed, own, ahead, late>>

(* The file may not exist: a copy that fails counts as an empty list, for
   whatever reason it fails. *)
CopyFails ==
  /\ sync = "idle" /\ sync' = "copied"
  /\ copy' = <<>> /\ blind' = TRUE
  /\ UNCHANGED <<items, file, clock, feed, own, ahead, late>>

(* rssnews on the copy; nothing more to do if it changes nothing. *)
Merge ==
  /\ sync = "copied"
  /\ LET merged == Trim(mergeFile(copy, toItems(feed))) IN
       \/ merged = copy /\ sync' = "idle" /\ copy' = <<>>
       \/ merged # copy /\ sync' = "merged" /\ copy' = merged
  /\ UNCHANGED <<items, file, clock, feed, history>>

(* The fetch or a command fails: the script stops there. *)
Abort ==
  /\ sync \in {"copied", "merged"} /\ sync' = "idle"
  /\ copy' = <<>>
  /\ UNCHANGED <<items, file, clock, feed, history>>

Push ==
  /\ sync = "merged" /\ sync' = "pushed"
  /\ file' = copy
  /\ late' = IF blind THEN own ELSE late
  /\ UNCHANGED <<items, clock, feed, copy, own, ahead, blind>>


Restart ==
  /\ sync = "pushed" /\ sync' = "idle"
  /\ items' = Trim(file)
  /\ copy' = <<>>
  /\ UNCHANGED <<file, clock, feed, history>>

Synchronise == CopyFile \/ CopyFails \/ Merge \/ Push \/ Restart

Next == Post \/ PostFails \/ Open \/ Article \/ Synchronise \/ Abort

Spec == Init /\ [][Next]_vars

-----------------------------------------------------------------------------
(* Properties *)

(* A post may stand behind an article of a later date, if the article had
   come into the feed, dated ahead, before the post was made. *)
Overtakes(post, it) ==
  post.author = "sysop" /\ \E came \in 0..post.at - 1 : <<it, came>> \in ahead

(* The list the server shows names no announcement twice and is in order of
   date, whatever was imported in between: what stands behind an announcement
   is later, or is a post that an article dated ahead did not wait for. *)
Chronological ==
  \A i, j \in 1..Len(items) : i < j =>
    Before(items[i], items[j]) \/ Overtakes(items[j], items[i])

(* An announcement of the sysop is missing from the file only if enough
   later ones may have pushed it out, one less than the file holds (a failed
   save drops one), if it was made while a synchronisation was on its way,
   or if one replaced it that could not read the file. *)
PushedOut(it) == Cardinality({other \in own \cup feed : Before(it, other)}) >= MaxItems - 1

Kept(it) == it \in Elements(file)

LossesExplained == \A it \in own \ late : Kept(it) \/ PushedOut(it)

(* The header of rssnews: the announcements of other authors are kept, as
   long as there is room for them. *)
OtherAuthorsKept == \A it \in own : Kept(it) \/ PushedOut(it)

(* Once nothing new is dated, the latest article of the feed ends up in what
   the server shows, unless the sysop has filled the list since. *)
Latest == CHOOSE it \in feed : \A other \in feed \ {it} : Fresher(it, other)

=============================================================================
