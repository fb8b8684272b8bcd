---------------------------- MODULE ContentStore ----------------------------
(***************************************************************************)
(* The site the server shows: the JSON file, what is done to it while the  *)
(* server runs, and the store that polls its modification time and loads   *)
(* it again.  Times are only compared for equality, so every writing of    *)
(* the file has a number of its own; two writings that the file system     *)
(* stamps with one time are outside the model.                             *)
(***************************************************************************)
EXTENDS Integers

CONSTANTS
  Sites,         (* the sites that pass Validate                         *)
  DefaultSite,   (* what is shown without a file                         *)
  Absent, Broken,(* what the path may hold beside a site: nothing, or a  *)
                 (* half-copied file                                     *)
  MaxWrites      (* bound of the exploration: writings of the file       *)

ASSUME ContentAssumption == MaxWrites \in Nat

Unusable == {Absent, Broken}

VARIABLES
  file, mtime,   (* what the path holds, and when it was written         *)
  site, seen,    (* the site served, and the time memorised for it       *)
  watch,         (* the polling goroutine                                *)
  polled, stat   (* the times found by the poll and by reload            *)

contentVars == <<file, mtime, site, seen, watch, polled, stat>>

ContentTypeOK ==
  /\ file \in Sites \cup Unusable /\ mtime \in 1..MaxWrites + 1
  /\ site \in Sites \cup {DefaultSite} /\ seen \in 0..MaxWrites + 1
  /\ watch \in {"waiting", "reload", "read", "failed"}
  /\ polled \in 0..MaxWrites + 1 /\ stat \in 0..MaxWrites + 1

(* NewStore: a first load that fails leaves the default site, and no time
   memorised. *)
NewStore ==
  /\ file \in Sites \cup Unusable /\ mtime = 1
  /\ \/ file \in Sites /\ site = file /\ seen = 1
     \/ file \in Unusable /\ site = DefaultSite /\ seen = 0
  /\ watch = "waiting" /\ polled = 0 /\ stat = 0

-----------------------------------------------------------------------------
(* The file *)

Write(content) ==
  /\ mtime <= MaxWrites
  /\ file' = content /\ mtime' = mtime + 1
  /\ UNCHANGED <<site, seen, watch, polled, stat>>

(* The studio validates a site and renames it into place. *)
Save == \E v \in Sites : Write(v)

(* A remote deployment truncates the file and copies into it; an editor may
   take it away and put it back. *)
StartCopy == file \in Sites /\ \E u \in Unusable : Write(u)

EndCopy == file \in Unusable /\ \E v \in Sites : Write(v)

Edit == Save \/ StartCopy \/ EndCopy

-----------------------------------------------------------------------------
(* The polling goroutine *)

Poll ==
  /\ watch = "waiting" /\ file # Absent /\ mtime # seen
  /\ polled' = mtime /\ watch' = "reload"
  /\ UNCHANGED <<file, mtime, site, seen, stat>>

ReloadStat ==
  /\ watch = "reload"
  /\ IF file = Absent
     THEN watch' = "failed" /\ UNCHANGED stat
     ELSE watch' = "read" /\ stat' = mtime
  /\ UNCHANGED <<file, mtime, site, seen, polled>>

ReloadRead ==
  /\ watch = "read"
  /\ IF file \in Sites
     THEN site' = file /\ seen' = stat /\ watch' = "waiting"
     ELSE watch' = "failed" /\ UNCHANGED <<site, seen>>
  /\ UNCHANGED <<file, mtime, polled, stat>>

(* Mutant: the time is looked up again when it is memorised. *)
MemoriseCurrent ==
  /\ watch = "failed"
  /\ seen' = mtime /\ watch' = "waiting"
  /\ UNCHANGED <<file, mtime, site, polled, stat>>

(* A reload that failed is not tried again for the same time. *)
Memorise ==
  /\ watch = "failed"
  /\ seen' = polled /\ watch' = "waiting"
  /\ UNCHANGED <<file, mtime, site, polled, stat>>

Watch == Poll \/ ReloadStat \/ ReloadRead \/ Memorise

-----------------------------------------------------------------------------
(* Properties *)

(* Once nobody touches the file any more and it holds a site, that site is
   served in the end, whatever half-copied versions the polling met before:
   a failed reload memorises a time, and must not memorise it for a version
   it has not read. *)
ContentArrives ==
  <>[][FALSE]_file /\ <>[](file \in Sites) => <>[](site = file)
=============================================================================
