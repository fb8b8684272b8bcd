--------------------------------- MODULE Bbsd ---------------------------------
(***************************************************************************)
(* The bbsd process around the server: main waits for the Serve of the     *)
(* plain listener only, then runs its deferred calls and exits; the Serve  *)
(* of the TLS listener runs in a goroutine nobody waits for.               *)
(***************************************************************************)
EXTENDS Admission

CONSTANT Plain     (* the listener main itself serves *)

ASSUME BbsdAssumption == Plain \in Listeners

VARIABLES
  process,         (* "running", "closing" (deferred calls) or "exited" *)
  dwOpen           (* the DataWindow database is open                   *)

bbsdVars == <<vars, process, dwOpen>>

BbsdTypeOK ==
  /\ TypeOK
  /\ process \in {"running", "closing", "exited"}
  /\ dwOpen \in BOOLEAN

BbsdInit ==
  /\ Init
  /\ process = "running" /\ dwOpen = TRUE

(* A goroutine runs only as long as the process does. *)
Alive(A) == process # "exited" /\ A /\ UNCHANGED <<process, dwOpen>>

ServerStep == Alive(Next)

(* ListenAndServe has returned: the deferred stop and dwEngine.Close run. *)
CloseEngine ==
  /\ process = "running" /\ serve[Plain] = "stopped"
  /\ process' = "closing" /\ dwOpen' = FALSE
  /\ UNCHANGED vars

Exit ==
  /\ process = "closing"
  /\ process' = "exited"
  /\ UNCHANGED <<vars, dwOpen>>

BbsdNext == ServerStep \/ CloseEngine \/ Exit

BbsdSpec == BbsdInit /\ [][BbsdNext]_bbsdVars

(***************************************************************************)
(* Goroutines are scheduled, and Accept fails at once on a closed listener *)
(* (that it fails on an open one is not assumed).  Nothing is assumed of   *)
(* HandlerReturns: a session lasts as long as its client and its idle      *)
(* timeout let it.                                                         *)
(***************************************************************************)
BbsdFairSpec ==
  /\ BbsdSpec
  /\ WF_bbsdVars(CloseEngine \/ Exit)
  /\ \A l \in Listeners :
       /\ WF_bbsdVars(Alive(CloseListener(l)))
       /\ WF_bbsdVars(Alive(l \notin lnOpen /\ StopAccepting(l)))
       /\ WF_bbsdVars(Alive(Drained(l)))
  /\ \A c \in Conns : WF_bbsdVars(Alive(ownStep(c)))

-----------------------------------------------------------------------------
(* Properties *)

(* A clean stop on SIGINT or SIGTERM: the process exits, and closes what
   sessions use, only when the sessions in progress have ended. *)
CleanStop == process # "running" => \A c \in Conns : pc[c] \notin Running

(* What does hold of the end: Serve waits for the sessions of its listener,
   so that no session of the plain listener is cut, nor has the DataWindow
   engine closed under it. *)
PlainStopsClean ==
  /\ BbsdTypeOK /\ StopsAfterSessions
  /\ ~ dwOpen => \A c \in Conns : Via[c] = Plain => pc[c] \notin Running

(* The sessions end, one way or another. *)
HandlersReturn == \A c \in Conns : []<>(pc[c] # "serving")

(* If sessions end, every accepted connection, refused or served, is closed
   in the end, by serveConn or by the end of the process: no path of
   serveConn blocks on a guard. *)
EveryConnectionCloses ==
  HandlersReturn => \A c \in Conns : pc[c] = "spawned" ~> pc[c] = "done" \/ process = "exited"

(* If sessions end, the process is over once the context is cancelled. *)
ProcessExits == HandlersReturn => (cancelled ~> process = "exited")
=============================================================================
