------------------------------- MODULE Stores -------------------------------
(***************************************************************************)
(* What sessions share through the stores: files written as a whole, the   *)
(* files of a member, the grids, private mail, the forum, the wall, the    *)
(* accounts, the rows of an API in the cache, and the site file with its   *)
(* copies in the studio.  They share no state: each behaviour explores one *)
(* of the parts, and the others stay as they are at first.                 *)
(***************************************************************************)
EXTENDS AtomicFile, DataWindow

CONSTANTS
  Parts,                                                  \* what is explored
  Names, Temps, Sizes, MaxFiles, MaxBytes, MaxUpload, NoOne,   \* UserFiles
  Members, Me, MaxInBox, MaxSends,                        \* Mail
  MaxThreads, MaxPostsPerThread, MaxClock,                \* Forum
  MaxOnWall, MaxPosts,                                    \* Wall
  IPs, IPOf, Handles, NoUser,                             \* Login
  MaxFailures, Window, maxLoginAttempts, MaxCalls,
  Answer, Wanted, TTL, Timeout, MaxTime,                  \* ApiSource
  Requests, MaxVersions, MaxSecond                        \* Backups

VARIABLES
  explored,
  dir, job,                                                          \* UserFiles
  mailbox, mailID, mailFile, screen, box, shown, sent, opened, cut, attempts,  \* Mail
  threads, threadID, forumFile, clock, forumPc, listed, thread, count, page, under,
  wall, wallFile, up, posted, refused, n,                            \* Wall
  users, userFile, fails, loginPc, attempt, user, greeted, quiet,    \* Login
  now, arrays, cache, listing,                                       \* ApiSource
  place, second, edited, siteFile, copies, request, replaced, excused \* Backups

U == INSTANCE UserFiles

M == INSTANCE Mail WITH
       MaxMessages <- MaxInBox, msgs <- mailbox, nextID <- mailID, file <- mailFile

F == INSTANCE Forum WITH nextID <- threadID, file <- forumFile, pc <- forumPc

W == INSTANCE Wall WITH MaxMessages <- MaxOnWall, msgs <- wall, file <- wallFile

L == INSTANCE Login WITH file <- userFile, pc <- loginPc

A == INSTANCE ApiSource

K == INSTANCE Backups WITH site <- siteFile

ASSUME StoresAssumption ==
  /\ DataWindowAssumption /\ U!UserFilesAssumption /\ M!MailAssumption /\ F!ForumAssumption /\ W!WallAssumption
  /\ L!LoginAssumption /\ A!ApiSourceAssumption /\ K!BackupsAssumption

userVars == <<dir, job>>
mailVars == <<mailbox, mailID, mailFile, screen, box, shown, sent, opened, cut, attempts>>
forumVars == <<threads, threadID, forumFile, clock, forumPc, listed, thread, count, page, under>>
wallVars == <<wall, wallFile, up, posted, refused, n>>
loginVars == <<users, userFile, fails, loginPc, attempt, user, greeted, quiet>>
apiVars == <<now, arrays, cache, listing>>
studioVars == <<place, second, edited, siteFile, copies, request, replaced, excused>>
all == <<explored, vars, gridVars, userVars, mailVars, forumVars, wallVars, loginVars, apiVars,
         studioVars>>

StoresInit ==
  /\ explored \in Parts
  /\ Init /\ GridInit /\ U!Init /\ M!Init /\ F!Init /\ W!Init /\ L!Init
  /\ A!ApiInit /\ K!BackupsInit
  /\ explored # "atomicfile" => target = NoFile
  /\ explored # "wall" => wallFile = <<>>
  /\ explored # "studio" => place = "studio" /\ siteFile = 0

In(part, Step) == explored = part /\ Step

OthersStay ==
  /\ UNCHANGED explored
  /\ IF explored = "atomicfile" THEN TRUE ELSE UNCHANGED vars
  /\ IF explored = "grid" THEN TRUE ELSE UNCHANGED gridVars
  /\ IF explored = "userfiles" THEN TRUE ELSE UNCHANGED userVars
  /\ IF explored = "mail" THEN TRUE ELSE UNCHANGED mailVars
  /\ IF explored = "forum" THEN TRUE ELSE UNCHANGED forumVars
  /\ IF explored = "wall" THEN TRUE ELSE UNCHANGED wallVars
  /\ IF explored = "login" THEN TRUE ELSE UNCHANGED loginVars
  /\ IF explored = "api" THEN TRUE ELSE UNCHANGED apiVars
  /\ IF explored = "studio" THEN TRUE ELSE UNCHANGED studioVars

StoresNext ==
  /\ \/ In("atomicfile", Next) \/ In("grid", GridNext) \/ In("userfiles", U!Next)
     \/ In("mail", M!Next) \/ In("forum", F!Next) \/ In("wall", W!Next)
     \/ In("login", L!Next) \/ In("api", A!ApiNext) \/ In("studio", K!BackupsNext)
  /\ OthersStay

StoresSpec == StoresInit /\ [][StoresNext]_all

-----------------------------------------------------------------------------
(* The properties of the parts; the types of each are checked with one. *)

(* Personal files: the quota is exceeded by one file per session at most. *)
QuotaWithinRacers ==
  /\ explored = "atomicfile" => TypeOK
  /\ explored = "grid" => GridTypeOK
  /\ explored = "userfiles" => U!TypeOK /\ U!QuotaWithinRacers

(* Mail: a message is marked read only if its recipient chose to read it, and
   it was displayed unless the session ended on it. *)
ReadMeansOpened == explored = "mail" => M!TypeOK /\ M!ReadMeansOpened

(* Mail: the store holds what was delivered, in order, and nothing else. *)
DeliveriesKept == explored = "mail" => M!DeliveriesKept

(* Forum: a post is in the thread its author had on the screen. *)
PostsWhereWritten == explored = "forum" => F!TypeOK /\ F!PostsWhereWritten

(* Forum: the threads that disappear are those that were active least lately. *)
LeastActiveEvicted == F!LeastActiveEvicted

(* Wall: what is shown is durable, and the end of what was posted. *)
WallKept == explored = "wall" => W!WallKept

(* Login: the sessions of an address pass its limit by one failure each. *)
FailuresBounded == explored = "login" => L!FailuresBounded

(* Login: one automatic sysop as soon as there is an account. *)
OneSysop == explored = "login" => L!OneSysop

(* Login: accounts in use and call numbers shown are on the disk. *)
IdentifiedAreDurable == explored = "login" => L!IdentifiedAreDurable

(* Login: an address that is throttled gets new attempts after a window. *)
QuotaComesBack == explored = "login" => L!QuotaComesBack

(* API: what is listed is at most as old as the cache and a request allow. *)
FreshEnough == explored = "api" => A!ApiTypeOK /\ A!FreshEnough

(* API: the record opened is the one of the selected row. *)
OpenedIsShown == A!OpenedIsShown

(* Studio: what a request replaces is in a copy. *)
ReplacedIsKept == explored = "studio" => K!BackupsTypeOK /\ K!ReplacedIsKept
=============================================================================
