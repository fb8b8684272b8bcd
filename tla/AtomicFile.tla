----------------------------- MODULE AtomicFile -----------------------------
(***************************************************************************)
(* Write of package atomicfile: a temporary file is created in the same    *)
(* directory, written, synced, closed and renamed over the target, and     *)
(* removed on the way out.  Several goroutines or processes may write the  *)
(* same path.  Any step may fail; a process may crash between two steps    *)
(* and leave its temporary file behind; the power may be cut, which keeps  *)
(* the directory as the disk last saw it and any part of a file not synced.*)
(***************************************************************************)
EXTENDS Integers

CONSTANTS
  Writers,      (* calls of Write that may be in progress at a time *)
  Versions,     (* the contents that are written                    *)
  Absent,       (* the content of a file that does not exist        *)
  NoFile        (* no file under that name                          *)

Extents == {"none", "part", "all"}
File == [data : Versions, written : Extents, synced : BOOLEAN]

ASSUME AtomicFileAssumption == NoFile \notin File /\ Absent \notin Versions

VARIABLES
  target,       (* the file under path, as running programs see it     *)
  onDisk,       (* the file the directory names on the disk            *)
  tmp,          (* the temporary file of each writer                   *)
  pc,           (* the next system call of each writer                 *)
  past          (* the versions the target has held (history)          *)

vars == <<target, onDisk, tmp, pc, past>>

Maybe(S) == S \cup {NoFile}

TypeOK ==
  /\ target \in Maybe(File) /\ onDisk \in Maybe(File)
  /\ tmp \in [Writers -> Maybe(File)]
  /\ pc \in [Writers -> {"idle", "write", "sync", "close", "rename", "remove"}]
  /\ past \subseteq Versions \cup {Absent}

Whole(f) == f # NoFile => f.written = "all" /\ f.synced

Content(f) == IF f = NoFile THEN Absent ELSE f.data

Init ==
  /\ target \in Maybe({f \in File : f.written = "all" /\ f.synced})
  /\ onDisk = target
  /\ tmp = [w \in Writers |-> NoFile]
  /\ pc = [w \in Writers |-> "idle"]
  /\ past = {Content(target)}

At(w, step) == pc[w] = step
Goto(w, step) == pc' = [pc EXCEPT ![w] = step]

(* A CreateTemp that fails changes nothing. *)
CreateTemp(w, v) ==
  /\ At(w, "idle") /\ Goto(w, "write")
  /\ tmp' = [tmp EXCEPT ![w] = [data |-> v, written |-> "none", synced |-> FALSE]]
  /\ UNCHANGED <<target, onDisk, past>>

WriteData(w) ==
  /\ At(w, "write")
  /\ \/ Goto(w, "sync") /\ tmp' = [tmp EXCEPT ![w].written = "all"]
     \/ Goto(w, "remove") /\ \E e \in Extents : tmp' = [tmp EXCEPT ![w].written = e]
  /\ UNCHANGED <<target, onDisk, past>>

(* Mutant: the data is not synced. *)
SyncNothing(w) ==
  /\ At(w, "sync")
  /\ Goto(w, "close") \/ Goto(w, "remove")
  /\ UNCHANGED <<target, onDisk, tmp, past>>

Sync(w) ==
  /\ At(w, "sync")
  /\ \/ Goto(w, "close") /\ tmp' = [tmp EXCEPT ![w].synced = TRUE]
     \/ Goto(w, "remove") /\ UNCHANGED tmp
  /\ UNCHANGED <<target, onDisk, past>>

CloseTemp(w) ==
  /\ At(w, "close")
  /\ Goto(w, "rename") \/ Goto(w, "remove")
  /\ UNCHANGED <<target, onDisk, tmp, past>>

(* Mutant: the target is removed first, then the file is renamed. *)
RemoveThenRename(w) ==
  /\ At(w, "rename")
  /\ \/ /\ target # NoFile /\ target' = NoFile
        /\ UNCHANGED <<tmp, past, pc>>
     \/ /\ target = NoFile /\ target' = tmp[w]
        /\ tmp' = [tmp EXCEPT ![w] = NoFile]
        /\ past' = past \cup {Content(target')}
        /\ Goto(w, "remove")
  /\ UNCHANGED onDisk

Rename(w) ==
  /\ At(w, "rename") /\ Goto(w, "remove")
  /\ \/ /\ target' = tmp[w]
        /\ tmp' = [tmp EXCEPT ![w] = NoFile]
        /\ past' = past \cup {Content(target')}
     \/ UNCHANGED <<target, tmp, past>>
  /\ UNCHANGED onDisk

(* Mutant: no deferred Remove. *)
RemoveNothing(w) ==
  /\ At(w, "remove") /\ Goto(w, "idle")
  /\ UNCHANGED <<target, onDisk, tmp, past>>

(* The deferred Remove, a no-op after a rename, then Write returns. *)
RemoveTemp(w) ==
  /\ At(w, "remove") /\ Goto(w, "idle")
  /\ tmp' = [tmp EXCEPT ![w] = NoFile]
  /\ UNCHANGED <<target, onDisk, past>>

Write(w) ==
  \/ \E v \in Versions : CreateTemp(w, v)
  \/ WriteData(w) \/ Sync(w) \/ CloseTemp(w) \/ Rename(w) \/ RemoveTemp(w)

(* The kernel writes the directory when it likes: Write does not sync it. *)
FlushDirectory ==
  /\ onDisk # target
  /\ onDisk' = target
  /\ UNCHANGED <<target, tmp, pc, past>>

(* The process of w dies; its temporary file stays, under a name no later
   Write uses. *)
ProcessCrash(w) ==
  /\ ~ At(w, "idle") /\ Goto(w, "idle")
  /\ tmp' = [tmp EXCEPT ![w] = NoFile]
  /\ UNCHANGED <<target, onDisk, past>>

(* What a cut leaves of a file that was not synced is anyone's guess. *)
Remains(f) ==
  IF f = NoFile \/ f.synced THEN {f}
  ELSE {[f EXCEPT !.written = e, !.synced = TRUE] : e \in Extents}

PowerLoss ==
  /\ target' \in Remains(onDisk)
  /\ onDisk' = target'
  /\ tmp' = [w \in Writers |-> NoFile]
  /\ pc' = [w \in Writers |-> "idle"]
  /\ UNCHANGED past

Next ==
  \/ \E w \in Writers : Write(w) \/ ProcessCrash(w)
  \/ FlushDirectory
  \/ PowerLoss

Spec == Init /\ [][Next]_vars

-----------------------------------------------------------------------------
(* Properties *)

(* A reader of path, at any moment and after any crash or power cut, gets a
   whole version or no file at all: never a partial one. *)
NeverPartial == target # NoFile => target.written = "all"

(* A Write that returns leaves no temporary file behind it, whichever of its
   system calls failed. *)
NoResidue == \A w \in Writers : At(w, "idle") => tmp[w] = NoFile

(* Seen by its readers the file is a register. *)
R == INSTANCE Register WITH content <- Content(target)
ImplementsRegister == R!RSpec
=============================================================================
