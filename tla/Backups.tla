-------------------------------- MODULE Backups --------------------------------
(***************************************************************************)
(* A file that the content studio replaces: the site it edits              *)
(* (studio/internal/store) or one of its deployments                       *)
(* (studio/internal/deploy).  Before it replaces it, the studio keeps a    *)
(* copy named by the second.  Its HTTP handlers run side by side.          *)
(* Editions are numbered in the order they are made in the browser.        *)
(***************************************************************************)
EXTENDS Integers

CONSTANTS
  Requests,                 \* requests in progress at a time
  MaxVersions, MaxSecond    \* bounds of the model: the editions, the clock

Places == {"studio", "local", "remote"}
Editions == 1 .. MaxVersions
NoSite == 0
Torn == MaxVersions + 1     \* what an interrupted write leaves
Content == NoSite .. Torn
Seconds == 0 .. MaxSecond

BackupsAssumption == MaxVersions \in Nat \ {0} /\ MaxSecond \in Nat

VARIABLES
  place,        \* where the file is: in the studio, deployed here or by ssh
  second,       \* the clock, as the names of the copies show it
  edited,       \* the last version made in the browser
  site,         \* what the file holds
  copies,       \* its copies, by the second of their names
  request,      \* what each request is doing
  replaced,     \* history: the versions that a request with a copy replaced
  excused       \* history: the versions that nothing promises to keep
studioVars == <<place, second, edited, site, copies, request, replaced, excused>>

Idle == [pc |-> "idle", does |-> "backup", stamp |-> 0, data |-> NoSite, saw |-> NoSite]

BackupsTypeOK ==
  /\ place \in Places /\ second \in Seconds /\ edited \in 0 .. MaxVersions
  /\ site \in Content /\ copies \in [Seconds -> Content]
  /\ request \in [Requests -> [pc : {"idle", "look", "copy", "replace"},
                               does : {"backup", "restore", "create", "deploy"},
                               stamp : Seconds, data : Content, saw : Content]]
  /\ replaced \subseteq Editions /\ excused \subseteq Editions

BackupsInit ==
  /\ place \in Places /\ second = 0
  /\ edited \in {0, 1} /\ site = edited
  /\ copies = [t \in Seconds |-> NoSite] /\ request = [r \in Requests |-> Idle]
  /\ replaced = {} /\ excused = {}

-----------------------------------------------------------------------------
At(r, pc) == request[r].pc = pc
Becomes(r, q) == request' = [request EXCEPT ![r] = q]
Goto(r, pc) == Becomes(r, [request[r] EXCEPT !.pc = pc])
Done(r) == Becomes(r, Idle)

Excuse(V) == excused' = excused \cup (V \cap Editions)

(* A version written while another request than those of R has looked at the
   file, and has not replaced it, is excused: that request may not copy it. *)
Put(v, R) ==
  /\ site' = v
  /\ IF \E r \in Requests \ R : request[r].pc \in {"copy", "replace"}
     THEN Excuse({v}) ELSE UNCHANGED excused

Edit == edited < MaxVersions /\ edited' = edited + 1

(* Store.Save of what the browser sends: it keeps no copy. *)
Save ==
  /\ place = "studio" /\ Edit /\ Put(edited', {})
  /\ UNCHANGED <<place, second, copies, request, replaced>>

(* The handler takes the time, and has what it will write: the copy chosen,
   the body of the request, or nothing. *)
Ask(r, does, data) ==
  /\ At(r, "idle")
  /\ Becomes(r, [Idle EXCEPT !.pc = "look", !.does = does, !.stamp = second, !.data = data])
  /\ UNCHANGED <<place, second, site, copies, replaced, excused>>

AskBackup(r) == place = "studio" /\ Ask(r, "backup", NoSite) /\ UNCHANGED edited

AskRestore(r, t) ==
  /\ place = "studio" /\ copies[t] # NoSite
  /\ Ask(r, "restore", copies[t]) /\ UNCHANGED edited

AskCreate(r) == place = "studio" /\ Edit /\ Ask(r, "create", edited')

(* What is deployed is what the browser has, saved or not. *)
AskDeploy(r) ==
  /\ place # "studio"
  /\ \/ \E v \in 1 .. edited : Ask(r, "deploy", v) /\ UNCHANGED edited
     \/ Edit /\ Ask(r, "deploy", edited')

(* Mutant: the file is replaced without a copy. *)
LookNoCopy(r) ==
  /\ At(r, "look") /\ Goto(r, "replace")
  /\ UNCHANGED <<place, second, edited, site, copies, replaced, excused>>

(* Stat, then the file is read: a new site must not be there; a missing file
   is not copied, and there is nothing to back up. *)
Look(r) ==
  LET q == request[r]
  IN /\ At(r, "look")
     /\ \/ /\ \/ q.does = "create" /\ site # NoSite
              \/ q.does = "backup" /\ site = NoSite
           /\ Done(r)
        \/ /\ q.does # "create" /\ site # NoSite
           /\ Becomes(r, [q EXCEPT !.pc = "copy", !.saw = site])
        \/ /\ q.does # "backup" /\ site = NoSite
           /\ Goto(r, "replace")
     /\ UNCHANGED <<place, second, edited, site, copies, replaced, excused>>

(* Stat fails for another reason than absence, or "test -f" does: the file is
   taken for a missing one and is replaced, by a creation too, without a copy;
   what it holds is excused.  A backup reads the file, and fails. *)
LookMissed(r) ==
  /\ At(r, "look") /\ request[r].does # "backup"
  /\ Goto(r, "replace") /\ Excuse({site})
  /\ UNCHANGED <<place, second, edited, site, copies, replaced>>

(* The copy of the second becomes v; the one it replaces is excused. *)
Keep(r, v, lost) ==
  LET old == copies[request[r].stamp]
  IN /\ copies' = [copies EXCEPT ![request[r].stamp] = v]
     /\ Excuse(lost \cup ({old} \ {v}))

Copy(r) ==
  /\ At(r, "copy")
  /\ Keep(r, request[r].saw, {})
  /\ \/ request[r].does = "backup" /\ Done(r)
     \/ request[r].does # "backup" /\ Goto(r, "replace")
  /\ UNCHANGED <<place, second, edited, site, replaced>>

(* On the host, "test -f F && cp F F.bak || true": a copy that fails, or that
   is cut, is not told to the studio; what it should have kept is excused. *)
CopyIgnored(r) ==
  /\ At(r, "copy") /\ place = "remote"
  /\ \/ Keep(r, Torn, {request[r].saw})
     \/ UNCHANGED copies /\ Excuse({request[r].saw})
  /\ Goto(r, "replace")
  /\ UNCHANGED <<place, second, edited, site, replaced>>

(* deployLocal writes the copy in place: cut, it stays, and the deployment
   stops. *)
CopyCut(r) ==
  /\ At(r, "copy") /\ place = "local"
  /\ Keep(r, Torn, {}) /\ Done(r)
  /\ UNCHANGED <<place, second, edited, site, replaced>>

Written(r, v) ==
  /\ At(r, "replace")
  /\ Put(v, {r}) /\ replaced' = replaced \cup ({site} \cap Editions) /\ Done(r)
  /\ UNCHANGED <<place, second, edited, copies>>

(* The file is replaced by a rename, with a content that was validated. *)
Replace(r) == place # "remote" /\ Written(r, request[r].data)

(* scp writes in place: the whole, or a part when the line is cut. *)
Scp(r) == place = "remote" /\ \E v \in {request[r].data, Torn} : Written(r, v)

(* Reading, writing or the validation fails: the request stops. *)
Fail(r) ==
  /\ ~At(r, "idle") /\ Done(r)
  /\ UNCHANGED <<place, second, edited, site, copies, replaced, excused>>

Tick ==
  /\ second < MaxSecond /\ second' = second + 1
  /\ UNCHANGED <<place, edited, site, copies, request, replaced, excused>>

Handling(r) ==
  \/ AskBackup(r) \/ AskCreate(r) \/ AskDeploy(r) \/ \E t \in Seconds : AskRestore(r, t)
  \/ Look(r) \/ LookMissed(r) \/ Copy(r) \/ CopyIgnored(r) \/ CopyCut(r)
  \/ Replace(r) \/ Scp(r) \/ Fail(r)

BackupsNext == Save \/ Tick \/ \E r \in Requests : Handling(r)

BackupsSpec == BackupsInit /\ [][BackupsNext]_studioVars

-----------------------------------------------------------------------------
(* What a restore, a creation or a deployment replaces is in a copy
   (Store.Restore, deploy.Deploy), unless it was written while the request
   had already looked at the file, its copy was replaced by one of the same
   second, looking at the file failed and was taken for its absence, or the
   copy failed on the remote host, which nothing reports. *)
ReplacedIsKept ==
  \A v \in replaced \ excused : \E t \in Seconds : copies[t] = v
=============================================================================
