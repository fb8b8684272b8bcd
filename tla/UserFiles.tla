----------------------------- MODULE UserFiles -----------------------------
(***************************************************************************)
(* The personal files of one member, whose sessions all work in one        *)
(* directory without a lock: the screen that lists them, the uploads,      *)
(* which check the quota and then write through a temporary file of the    *)
(* same directory, the deletions and the renamings.  Temporary files are   *)
(* entries like the others: they are listed, count in the quota, and stay  *)
(* when the server dies.                                                   *)
(***************************************************************************)
EXTENDS Integers, FiniteSets

CONSTANTS
  Sessions,      (* the sessions of the member                          *)
  Names,         (* the names a member gives                            *)
  Temps,         (* the names CreateTemp gives                          *)
  Sizes,         (* the sizes of the files received                     *)
  MaxFiles, MaxBytes, MaxUpload,   (* the quota, and the limit of a file *)
  NoOne          (* the writer of a file that is complete               *)

(* What the constants are. *)
UserFilesAssumption ==
  /\ IsFiniteSet(Sessions) /\ NoOne \notin Sessions /\ Names \cap Temps = {}
  /\ Sizes \subseteq Nat \ {0} /\ MaxFiles \in Nat /\ MaxBytes \in Nat /\ MaxUpload \in Nat

Entries == Names \cup Temps

VARIABLES
  dir,           (* the directory: size of each entry, and who writes it *)
  job            (* what each session is doing, and on which file         *)

vars == <<dir, job>>

Entry == [size : Sizes \cup {0}, by : Sessions \cup {NoOne}]

Jobs == [step : {"away", "list", "menu", "check", "create", "write", "rename", "stat", "move"},
         shown : SUBSET Entries,     (* the names of the last listing *)
         name : Entries \cup {NoOne}, to : Entries \cup {NoOne}, size : Sizes \cup {0}]

TypeOK ==
  /\ DOMAIN dir \subseteq Entries /\ \A e \in DOMAIN dir : dir[e] \in Entry
  /\ job \in [Sessions -> Jobs]

Idle(step) == [step |-> step, shown |-> {}, name |-> NoOne, to |-> NoOne, size |-> 0]

Init ==
  /\ dir = [e \in {} |-> 0]
  /\ job = [s \in Sessions |-> Idle("away")]

-----------------------------------------------------------------------------
(* The directory *)

(* Every byte of every file. *)
Bytes(d) == UNION {{e} \X (1..d[e].size) : e \in DOMAIN d}

Used(d) == Cardinality(Bytes(d))

Without(d, e) == [x \in DOMAIN d \ {e} |-> d[x]]
With(d, e, entry) == [x \in DOMAIN d \cup {e} |-> IF x = e THEN entry ELSE d[x]]

(* os.Rename replaces the target. *)
Renamed(d, old, new) == With(Without(d, old), new, d[old])

(* Mutant: the bytes that come are not counted. *)
WithinQuotaSoFar(d, name, size) ==
  /\ MaxFiles > 0 => Cardinality(DOMAIN d \cup {name}) <= MaxFiles
  /\ MaxBytes > 0 => Used(d) - (IF name \in DOMAIN d THEN d[name].size ELSE 0) <= MaxBytes

(* userfiles.Write: a file of the same name is replaced and counts once; 0
   is no limit. *)
WithinQuota(d, name, size) ==
  /\ MaxFiles > 0 => Cardinality(DOMAIN d \cup {name}) <= MaxFiles
  /\ MaxBytes > 0 => Used(d) + size - (IF name \in DOMAIN d THEN d[name].size ELSE 0) <= MaxBytes

-----------------------------------------------------------------------------
(* The sessions *)

Do(s, j) == job' = [job EXCEPT ![s] = j]
At(s, step) == job[s].step = step

(* The screen is drawn again, with a new listing. *)
Back(s) == Do(s, Idle("list"))

Open(s) == At(s, "away") /\ Back(s) /\ UNCHANGED dir

List(s) ==
  /\ At(s, "list")
  /\ Do(s, [Idle("menu") EXCEPT !.shown = DOMAIN dir])
  /\ UNCHANGED dir

(* T, or M in the grid of the catalogue: the file has been received, or read
   from the public library. *)
Receive(s) ==
  /\ At(s, "menu")
  /\ \E n \in Names, z \in Sizes : Do(s, [Idle("check") EXCEPT !.name = n, !.size = z])
  /\ UNCHANGED dir

CheckQuota(s) ==
  /\ At(s, "check")
  /\ IF WithinQuota(dir, job[s].name, job[s].size) /\ (MaxUpload > 0 => job[s].size <= MaxUpload)
     THEN Do(s, [job[s] EXCEPT !.step = "create"]) ELSE Back(s)
  /\ UNCHANGED dir

CreateTemp(s) ==
  /\ At(s, "create")
  /\ \/ \E t \in Temps \ (DOMAIN dir \cup {job[r].to : r \in Sessions}) :
          /\ dir' = With(dir, t, [size |-> 0, by |-> s])
          /\ Do(s, [job[s] EXCEPT !.step = "write", !.to = t])
     \/ Back(s) /\ UNCHANGED dir

(* What the session has open is closed with z bytes in it, under whatever
   name it has come to. *)
Closed(s, z) ==
  [e \in DOMAIN dir |-> IF dir[e].by = s THEN [size |-> z, by |-> NoOne] ELSE dir[e]]

(* The deferred Remove takes the temporary file under its first name. *)
RemoveTemp(s, d) == Back(s) /\ dir' = Without(d, job[s].to)

(* A disk that is full ends the upload. *)
WriteTemp(s) ==
  /\ At(s, "write")
  /\ \/ dir' = Closed(s, job[s].size) /\ Do(s, [job[s] EXCEPT !.step = "rename"])
     \/ \E z \in Sizes \cup {0} : z <= job[s].size /\ RemoveTemp(s, Closed(s, z))

(* Rename to the name given; it fails when the temporary file has gone. *)
RenameTemp(s) ==
  LET t == job[s].to
  IN  /\ At(s, "rename")
      /\ \/ t \in DOMAIN dir /\ dir' = Renamed(dir, t, job[s].name) /\ Back(s)
         \/ RemoveTemp(s, dir)

(* E, once it is confirmed; a file that has gone is an error and no more. *)
Delete(s) ==
  /\ At(s, "menu")
  /\ \E e \in job[s].shown : dir' = Without(dir, e)
  /\ Back(s)

(* R: the new name is looked for, and the file renamed if it was free. *)
StartRename(s) ==
  /\ At(s, "menu")
  /\ \E e \in job[s].shown : \E n \in Names \ {e} :
       Do(s, [Idle("stat") EXCEPT !.name = e, !.to = n])
  /\ UNCHANGED dir

StatTarget(s) ==
  /\ At(s, "stat")
  /\ IF job[s].to \in DOMAIN dir THEN Back(s) ELSE Do(s, [job[s] EXCEPT !.step = "move"])
  /\ UNCHANGED dir

RenameFile(s) ==
  LET e == job[s].name
  IN  /\ At(s, "move")
      /\ dir' = IF e \in DOMAIN dir THEN Renamed(dir, e, job[s].to) ELSE dir
      /\ Back(s)

(* Q, or the connection cut while the session waits for the member. *)
Leave(s) == At(s, "menu") /\ Do(s, Idle("away")) /\ UNCHANGED dir

Session(s) ==
  \/ Open(s) \/ List(s) \/ Receive(s) \/ CheckQuota(s) \/ CreateTemp(s) \/ WriteTemp(s)
  \/ RenameTemp(s) \/ Delete(s) \/ StartRename(s) \/ StatTarget(s) \/ RenameFile(s) \/ Leave(s)

(* The server dies, and the files stay as they are. *)
Crash ==
  /\ dir' = [e \in DOMAIN dir |-> [dir[e] EXCEPT !.by = NoOne]]
  /\ job' = [s \in Sessions |-> Idle("away")]

Next == Crash \/ \E s \in Sessions : Session(s)

Spec == Init /\ [][Next]_vars

-----------------------------------------------------------------------------
(* Properties *)

(* userfiles.Write: the check and the write of several sessions of a member
   may cross, and a replacement needs both files for a moment; the quota is
   exceeded by one file for each session at most, however often the server
   dies in the middle, and files are renamed or deleted meanwhile. *)
QuotaWithinRacers ==
  LET n == Cardinality(Sessions)
  IN  /\ MaxFiles > 0 => Cardinality(DOMAIN dir) <= MaxFiles + n
      /\ MaxBytes > 0 /\ MaxUpload > 0 => Used(dir) <= MaxBytes + n * MaxUpload
=============================================================================
