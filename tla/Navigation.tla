----------------------------- MODULE Navigation -----------------------------
(***************************************************************************)
(* A session going through the pages of the site: the engine's stack, the  *)
(* screens and applets it runs, and the mode of the visitor's terminal,    *)
(* while the site is edited and loaded again.  A screen is computed from   *)
(* the site served when it is shown, and answered later: what the answer   *)
(* names may be gone by then.                                              *)
(*                                                                         *)
(* A page is a record: its kind, its entries, and the pages that follow    *)
(* its applet or form.  "Raw" changes what is drawn only.  Reading a key   *)
(* and running an applet take as long as the visitor wants.                *)
(*                                                                         *)
(* A page has one kind.  Validate also lets through a page with HIRES      *)
(* instructions beside an applet, a form or a grid; it is outside the      *)
(* model: runSite would run the applet without leaving the graphic mode,   *)
(* and TextOnTextScreen would not hold of it (engine.go:52-68).            *)
(***************************************************************************)
EXTENDS ContentStore, Sequences, SequencesExt

CONSTANTS
  PageIds, None, (* the names of pages, and no page                      *)
  MaxDepth       (* bound of the exploration: length of the stack        *)

Served == Sites \cup {DefaultSite}
MaybePage == PageIds \cup {None}

(* Of what Validate requires, the start page is all the engine relies on:
   any other name may designate no page. *)
ASSUME NavigationAssumption ==
  /\ MaxDepth \in Nat \ {0} /\ None \notin PageIds
  /\ \A v \in Served :
       /\ v.start \in DOMAIN v.pages /\ DOMAIN v.pages \subseteq PageIds
       /\ \A id \in DOMAIN v.pages :
            /\ {v.pages[id].next, v.pages[id].fail} \subseteq MaybePage
            /\ \A e \in v.pages[id].entries : {e.target, e.next, e.fail} \subseteq MaybePage

VARIABLES
  stack,         (* the pages entered, the current one last              *)
  phase,         (* what the session does                                *)
  now,           (* the site and the page the screen was made from       *)
  entry,         (* the menu entry that runs the applet                  *)
  hiresActive,   (* the engine's record of the terminal's mode           *)
  terminal,      (* the mode of the terminal                             *)
  ended,         (* why the session ended                                *)
  cancelled      (* the context of the server                            *)

sessionVars == <<stack, phase, now, entry, hiresActive, terminal, ended, cancelled>>
vars == <<contentVars, sessionVars>>

page == now.site.pages[now.id]
NoEntry == [does |-> "none", target |-> None, next |-> None, fail |-> None]

(* The pages an applet starts by itself: they are left when it returns. *)
Leaves == {"applet", "form"}

SessionTypeOK ==
  /\ Len(stack) <= MaxDepth
  /\ phase \in {"top", "key", "applet", "over"}
  /\ phase \in {"key", "applet"} => now.id \in DOMAIN now.site.pages
  /\ entry # NoEntry => entry \in page.entries
  /\ hiresActive \in BOOLEAN /\ terminal \in {"text", "hires"}
  /\ ended \in {"no", "quit", "io", "shutdown", "emptied", "nowhere"}
  /\ cancelled \in BOOLEAN

Init ==
  /\ NewStore
  /\ stack = <<site.start>> /\ phase = "top"
  /\ now = [site |-> site, id |-> site.start] /\ entry = NoEntry
  /\ hiresActive = FALSE /\ terminal = "text"
  /\ ended = "no" /\ cancelled = FALSE

-----------------------------------------------------------------------------
(* The stack.  It grows without a bound in the code. *)

Push(q, id) == IF id = None THEN q ELSE Append(q, id)

popOrHome(q, home) == IF Len(q) > 1 THEN Front(q) ELSE <<home>>

(* Mutant: no test of the length. *)
BackAlways(q) == Front(q)

BackInMenu(q) == IF Len(q) > 1 THEN Front(q) ELSE q

Resume(q) ==
  /\ Len(q) <= MaxDepth
  /\ phase' = "top" /\ stack' = q /\ entry' = NoEntry
  /\ UNCHANGED <<now, ended>>

End(why) ==
  /\ phase' = "over" /\ ended' = why
  /\ UNCHANGED <<stack, now, entry>>

-----------------------------------------------------------------------------
(* The loop of runSite: one turn shows one page *)

(* The end of the loop: the server stops, or nothing is left to show (found
   by the loop, or by runFormPage and runAppletPage when they have popped
   the last page). *)
Return ==
  /\ phase = "top"
  /\ \/ cancelled /\ End("shutdown")
     \/ ~ cancelled /\ stack = <<>> /\ End("emptied")
     \/ ~ cancelled /\ stack # <<>> /\ Last(stack) \notin DOMAIN site.pages
        /\ Last(stack) = site.start /\ End("nowhere")
  /\ UNCHANGED <<hiresActive, terminal, cancelled>>

(* The page went away with a reload. *)
PageGone ==
  /\ phase = "top" /\ ~ cancelled /\ stack # <<>>
  /\ Last(stack) \notin DOMAIN site.pages /\ Last(stack) # site.start
  /\ Resume(<<site.start>>)
  /\ UNCHANGED <<hiresActive, terminal, cancelled>>

(* Mutant: the mode is restored before menus only. *)
RestoreForMenus(kind) == IF kind = "menu" /\ hiresActive THEN "text" ELSE terminal

(* A page in text mode after a page in graphic mode. *)
Restore(kind) == IF kind # "hires" /\ hiresActive THEN "text" ELSE terminal

ShowPage ==
  /\ phase = "top" /\ ~ cancelled /\ stack # <<>>
  /\ Last(stack) \in DOMAIN site.pages
  /\ now' = [site |-> site, id |-> Last(stack)]
  /\ LET kind == site.pages[Last(stack)].kind IN
     /\ phase' = IF kind \in Leaves \cup {"grid"} THEN "applet" ELSE "key"
     /\ hiresActive' = (kind = "hires")
     /\ terminal' = IF kind = "hires" THEN "hires" ELSE Restore(kind)
  /\ UNCHANGED <<stack, entry, ended, cancelled>>

-----------------------------------------------------------------------------
(* A key *)

(* A page without entries: any key goes back. *)
AnyKey ==
  /\ phase = "key" /\ page.entries = {}
  /\ Resume(popOrHome(stack, now.site.start))

(* No entry has this key: the page is shown again. *)
InvalidKey == phase = "key" /\ page.entries # {} /\ Resume(stack)

Choose(e) ==
  /\ phase = "key" /\ e \in page.entries
  /\ \/ e.does = "quit" /\ End("quit")
     \/ e.does = "back" /\ Resume(BackInMenu(stack))
     \/ e.does = "home" /\ Resume(<<now.site.start>>)
     \/ e.does = "go" /\ Resume(Push(stack, e.target))
     \/ /\ e.does = "applet"
        /\ phase' = "applet" /\ entry' = e
        /\ UNCHANGED <<stack, now, ended>>

Key ==
  /\ AnyKey \/ InvalidKey \/ \E e \in page.entries : Choose(e)
  /\ UNCHANGED <<hiresActive, terminal, cancelled>>

-----------------------------------------------------------------------------
(* An applet returns.  Done, failed or neither: left, cancelled, unknown
   applet, component switched off. *)

Outcomes == {"done", "failed", "neither"}

(* runFormPage, runAppletPage: the page is left in every case. *)
LeavePage(out) ==
  /\ page.kind \in Leaves
  /\ LET follows == CASE out = "done" -> page.next
                      [] out = "failed" /\ page.kind = "form" -> page.fail
                      [] OTHER -> None
     IN Resume(Push(Front(stack), follows))

LeaveGrid == page.kind = "grid" /\ Resume(popOrHome(stack, now.site.start))

LeaveEntry(out) ==
  Resume(Push(stack, CASE out = "done" -> entry.next
                       [] out = "failed" -> entry.fail
                       [] OTHER -> None))

(* hiresanim draws in graphic mode and returns to text mode by itself. *)
AppletReturns ==
  /\ phase = "applet"
  /\ \E out \in Outcomes :
       IF entry = NoEntry THEN LeavePage(out) \/ LeaveGrid ELSE LeaveEntry(out)
  /\ terminal' \in {terminal, "text"}
  /\ UNCHANGED <<hiresActive, cancelled>>

(* Outcome.Quit: the context is over. *)
AppletQuits ==
  /\ phase = "applet" /\ cancelled /\ End("shutdown")
  /\ UNCHANGED <<hiresActive, terminal, cancelled>>

(* Reading or writing fails: the visitor hung up or was silent too long. *)
Disconnect ==
  /\ phase # "over" /\ End("io")
  /\ UNCHANGED <<hiresActive, terminal, cancelled>>

Cancel ==
  /\ ~ cancelled /\ cancelled' = TRUE
  /\ UNCHANGED <<stack, phase, now, entry, hiresActive, terminal, ended>>

Session == Return \/ PageGone \/ ShowPage \/ Key \/ AppletReturns \/ AppletQuits \/ Disconnect

Next ==
  \/ (Edit \/ Watch) /\ UNCHANGED sessionVars
  \/ (Session \/ Cancel) /\ UNCHANGED contentVars

Spec == Init /\ [][Next]_vars

(* The watcher's ticker keeps ticking. *)
FairSpec == Spec /\ WF_vars(Watch /\ UNCHANGED sessionVars)

-----------------------------------------------------------------------------
(* Properties *)

SiteTypeOK == ContentTypeOK /\ SessionTypeOK

(* A visitor is put out by nothing but its own choice, its line, the end of
   the server, or by leaving an applet or a form that stands at the root:
   whatever pages disappear or change kind under a session, it finds a page
   to show. *)
NobodyDropped ==
  /\ ended # "nowhere"
  /\ ended = "emptied" => page.kind \in Leaves
  /\ phase \in {"key", "applet"} => stack # <<>>

(* A screen in text is sent to a terminal in text mode, also when the page
   under it was graphic, disappeared, or became another kind of page. *)
TextOnTextScreen ==
  phase \in {"key", "applet"} /\ page.kind # "hires" => terminal = "text"
=============================================================================
