--------------------------------- MODULE Site ---------------------------------
(***************************************************************************)
(* What is changed from outside the server while visitors are connected:   *)
(* the site they visit, edited under them, and the news, imported beside   *)
(* the server.  They share no state: each behaviour explores one of the    *)
(* two, and the other stays as it is at first.                             *)
(***************************************************************************)
EXTENDS Navigation

CONSTANTS
  Parts,                                                  \* what is explored
  MaxItems, MaxImport, MaxClock, MaxArticles              \* News

VARIABLES
  explored,      \* "site" or "news"
  items, newsFile, clock, feed, sync, copy, own, ahead, blind, late

N == INSTANCE News WITH file <- newsFile

ASSUME SiteAssumption == N!NewsAssumption

newsVars == <<items, newsFile, clock, feed, sync, copy, own, ahead, blind, late>>
all == <<explored, vars, newsVars>>

InSite(A) == explored = "site" /\ A /\ UNCHANGED <<explored, newsVars>>
InNews(A) == explored = "news" /\ A /\ UNCHANGED <<explored, vars>>

AroundInit ==
  /\ Init /\ N!Init /\ explored \in Parts
  /\ explored # "site" => file = Absent

AroundNext == InSite(Next) \/ InNews(N!Next)

AroundSpec == AroundInit /\ [][AroundNext]_all

(* One formula is about an action of each part, and a behaviour explores one
   part: the ticker of the site's store; the timer of the synchronisation, which
   fires again and again.  The restart the script asks for comes, and a fetch
   or a command does not fail for ever. *)
AroundFairSpec ==
  /\ AroundSpec
  /\ WF_all(InSite(Watch /\ UNCHANGED sessionVars) \/ InNews(N!CopyFile \/ N!CopyFails))
  /\ WF_all(InNews(N!Restart))
  /\ SF_all(InNews(N!Merge)) /\ SF_all(InNews(N!Push))

(* News: the list shown is in order of date, each announcement once, but for
   posts behind an article that its feed dated ahead of them.  The types of
   both parts are checked with it. *)
Chronological == SiteTypeOK /\ N!TypeOK /\ N!Chronological

(* News: a missing announcement of the sysop was pushed out by later ones,
   made while a synchronisation was on its way, or replaced by one that
   could not read the file. *)
LossesExplained == N!LossesExplained


(* News: the announcements of other authors than the feed are kept. *)
OtherAuthorsKept == N!OtherAuthorsKept
=============================================================================
