-------------------------- MODULE Site_proofs -----------------------------
(***************************************************************************)
(* For any sites, with any names in their entries, edited at any moment: a *)
(* session finds a page to show, on a terminal in the right mode.          *)
(* For any dates in the feed, synchronised at any moment: the news are in  *)
(* order of date, but for posts that an article dated ahead did not wait   *)
(* for, and a post that is missing is missing for a reason.                *)
(***************************************************************************)
EXTENDS Site, SequenceTheorems, FiniteSetTheorems, TLAPS

Showing == phase \in {"key", "applet"}

(* The sites are ones that Validate accepted, and the stack holds names. *)
Typed ==
  /\ site \in Served /\ now.site \in Served
  /\ stack \in Seq(PageIds)
  /\ entry.next \in MaybePage /\ entry.fail \in MaybePage
  /\ Showing => now.id \in DOMAIN now.site.pages

(* The stack is empty only behind an applet or a form that was its root. *)
Rooted ==
  /\ Showing => stack # <<>>
  /\ phase = "top" /\ stack = <<>> => page.kind \in Leaves
  /\ ended = "emptied" => phase = "over" /\ page.kind \in Leaves
  /\ ended # "nowhere"

(* The engine may believe a terminal graphic that is not, never the
   contrary. *)
ModeKnown ==
  /\ terminal \in {"text", "hires"}
  /\ terminal = "hires" => hiresActive
  /\ Showing /\ page.kind # "hires" => ~ hiresActive

IInv == Typed /\ Rooted /\ ModeKnown

-----------------------------------------------------------------------------

(* What is left of a stack, and what is put on it, are names of pages. *)
LEMMA StackOps ==
  ASSUME NEW q \in Seq(PageIds)
  PROVE  /\ q # <<>> => Front(q) \in Seq(PageIds) /\ Last(q) \in PageIds
         /\ \A id \in MaybePage : Push(q, id) \in Seq(PageIds)
         /\ \A id \in PageIds : Push(q, id) # <<>> /\ Push(q, id) = Append(q, id)
         /\ q # <<>> => \A id \in MaybePage : Push(q, id) # <<>>
         /\ q # <<>> => BackInMenu(q) \in Seq(PageIds) \ {<<>>}
         /\ q # <<>> => \A home \in PageIds : popOrHome(q, home) \in Seq(PageIds) \ {<<>>}
<1>1. ASSUME q # <<>>
      PROVE  /\ Front(q) \in Seq(PageIds) /\ Last(q) \in PageIds
             /\ Len(q) > 1 => Front(q) # <<>>
  <2>1. Len(q) \in Nat /\ Len(q) > 0
    BY <1>1
  <2>2. Last(q) \in PageIds
    BY <2>1 DEF Last
  <2>3. \A i \in 1..Len(q) - 1 : q[i] \in PageIds
    BY <2>1
  <2>4. Front(q) \in Seq(PageIds)
    BY <2>1, <2>3, SubSeqProperties DEF Front
  <2>5. Len(Front(q)) = IF 1 <= Len(q) - 1 THEN Len(q) - 1 - 1 + 1 ELSE 0
    BY <2>1, <2>3, SubSeqProperties DEF Front
  <2>6. Len(q) > 1 => Front(q) # <<>>
    BY <2>1, <2>4, <2>5
  <2>7. QED
    BY <2>2, <2>4, <2>6
<1>2. ASSUME NEW id \in PageIds
      PROVE  /\ Push(q, id) \in Seq(PageIds) /\ Push(q, id) # <<>>
             /\ Push(q, id) = Append(q, id)
  BY <1>2, NavigationAssumption DEF Push
<1>3. Push(q, None) = q
  BY DEF Push
<1>4. ASSUME q # <<>> PROVE BackInMenu(q) \in Seq(PageIds) \ {<<>>}
  BY <1>1, <1>4 DEF BackInMenu
<1>5. ASSUME q # <<>>, NEW home \in PageIds
      PROVE  popOrHome(q, home) \in Seq(PageIds) \ {<<>>}
  BY <1>1, <1>5 DEF popOrHome
<1>6. QED
  BY <1>1, <1>2, <1>3, <1>4, <1>5 DEF MaybePage

(* Every site has a start page, and its pages name pages or nothing. *)
LEMMA SiteNames ==
  ASSUME NEW v \in Served
  PROVE  /\ v.start \in DOMAIN v.pages /\ v.start \in PageIds
         /\ \A id \in DOMAIN v.pages :
              /\ id \in PageIds
              /\ v.pages[id].next \in MaybePage /\ v.pages[id].fail \in MaybePage
              /\ \A e \in v.pages[id].entries :
                   e.target \in MaybePage /\ e.next \in MaybePage /\ e.fail \in MaybePage
BY NavigationAssumption

LEMMA NoEntryNames == NoEntry.next \in MaybePage /\ NoEntry.fail \in MaybePage
BY DEF NoEntry, MaybePage

LEMMA InitInv == Init => IInv
<1> SUFFICES ASSUME Init PROVE IInv
  OBVIOUS
<1>1. site \in Served
  BY DEF Init, NewStore, Served
<1>2. <<site.start>> \in Seq(PageIds) /\ <<site.start>> # <<>>
  BY <1>1, SiteNames
<1>3. Typed
  BY <1>1, <1>2, NoEntryNames DEF Init, Typed, Showing
<1>4. Rooted /\ ModeKnown
  BY <1>2 DEF Init, Rooted, ModeKnown, Showing
<1>5. QED
  BY <1>3, <1>4 DEF IInv

(* Resuming the loop with a stack of names that is empty only behind an
   applet or a form. *)
LEMMA ResumeInv ==
  ASSUME IInv, phase # "over", NEW q \in Seq(PageIds),
         q = <<>> => page.kind \in Leaves,
         Resume(q), UNCHANGED contentVars,
         UNCHANGED hiresActive, terminal' \in {terminal, "text"}
  PROVE  IInv'
<1>1. /\ phase' = "top" /\ stack' = q /\ entry' = NoEntry
      /\ now' = now /\ ended' = ended /\ site' = site
  BY DEF Resume, contentVars
<1>2. Typed'
  BY <1>1, NoEntryNames DEF IInv, Typed, Showing
<1>3. Rooted'
  BY <1>1 DEF IInv, Rooted, Showing, page
<1>4. ModeKnown'
  BY <1>1 DEF IInv, ModeKnown, Showing
<1>5. QED
  BY <1>2, <1>3, <1>4 DEF IInv

(* A session that ends for another reason than an empty stack. *)
LEMMA EndInv ==
  ASSUME IInv, NEW why \in {"quit", "io", "shutdown"}, End(why),
         UNCHANGED contentVars, UNCHANGED <<hiresActive, terminal>>
  PROVE  IInv'
BY DEF IInv, Typed, Rooted, ModeKnown, Showing, End, contentVars, page

LEMMA ContentInv ==
  ASSUME IInv, Edit \/ Watch, UNCHANGED sessionVars
  PROVE  IInv'
<1>1. site' \in Served
  BY DEF Edit, Save, StartCopy, EndCopy, Write, Watch, Poll, ReloadStat, ReloadRead, Memorise,
         IInv, Typed, Served
<1>2. QED
  BY <1>1 DEF IInv, Typed, Rooted, ModeKnown, Showing, sessionVars, page

LEMMA ReturnInv ==
  ASSUME IInv, Return, UNCHANGED contentVars
  PROVE  IInv'
<1>1. CASE End("shutdown")
  BY <1>1, EndInv DEF Return
<1>2. CASE stack = <<>> /\ End("emptied")
  BY <1>2 DEF Return, IInv, Typed, Rooted, ModeKnown, Showing, End, contentVars, page
<1>3. ~ (Last(stack) \notin DOMAIN site.pages /\ Last(stack) = site.start)
  BY SiteNames DEF IInv, Typed
<1>4. QED
  BY <1>1, <1>2, <1>3 DEF Return

LEMMA ShowPageInv ==
  ASSUME IInv, ShowPage, UNCHANGED contentVars
  PROVE  IInv'
<1> DEFINE kind == site.pages[Last(stack)].kind
<1>1. /\ now'.site = site /\ now'.id = Last(stack) /\ page'.kind = kind
      /\ Last(stack) \in DOMAIN site.pages
  BY DEF ShowPage, page
<1>2. /\ phase' \in {"key", "applet"} /\ stack # <<>>
      /\ stack' = stack /\ entry' = entry /\ ended' = ended /\ site' = site
      /\ hiresActive' = (kind = "hires")
      /\ terminal' = IF kind = "hires" THEN "hires" ELSE Restore(kind)
  BY DEF ShowPage, contentVars
<1>3. Typed'
  BY <1>1, <1>2 DEF IInv, Typed, Showing
<1>4. Rooted'
  BY <1>1, <1>2 DEF ShowPage, IInv, Rooted, Showing
<1>5. ModeKnown'
  BY <1>1, <1>2 DEF IInv, ModeKnown, Showing, Restore
<1>6. QED
  BY <1>3, <1>4, <1>5 DEF IInv

LEMMA KeyInv ==
  ASSUME IInv, Key, UNCHANGED contentVars
  PROVE  IInv'
<1>1. /\ phase = "key" /\ stack \in Seq(PageIds) /\ stack # <<>>
      /\ now.site.start \in PageIds
      /\ UNCHANGED <<hiresActive, terminal>>
  BY SiteNames DEF Key, AnyKey, InvalidKey, Choose, IInv, Typed, Rooted, Showing
<1>2. CASE AnyKey
  <2>1. popOrHome(stack, now.site.start) \in Seq(PageIds) \ {<<>>}
    BY <1>1, StackOps
  <2>2. QED
    BY <1>1, <1>2, <2>1, ResumeInv DEF AnyKey
<1>3. CASE InvalidKey
  BY <1>1, <1>3, ResumeInv DEF InvalidKey
<1>4. ASSUME NEW e \in page.entries, Choose(e) PROVE IInv'
  <2>1. e.target \in MaybePage /\ e.next \in MaybePage /\ e.fail \in MaybePage
    BY <1>1, SiteNames DEF IInv, Typed, Showing, page
  <2>2. CASE e.does = "quit" /\ End("quit")
    BY <1>1, <2>2, EndInv
  <2>3. CASE e.does = "back" /\ Resume(BackInMenu(stack))
    <3>1. BackInMenu(stack) \in Seq(PageIds) \ {<<>>}
      BY <1>1, StackOps
    <3>2. QED
      BY <1>1, <2>3, <3>1, ResumeInv
  <2>4. CASE e.does = "home" /\ Resume(<<now.site.start>>)
    <3>1. <<now.site.start>> \in Seq(PageIds) /\ <<now.site.start>> # <<>>
      BY <1>1
    <3>2. QED
      BY <1>1, <2>4, <3>1, ResumeInv
  <2>5. CASE e.does = "go" /\ Resume(Push(stack, e.target))
    <3>1. Push(stack, e.target) \in Seq(PageIds) \ {<<>>}
      BY <1>1, <2>1, StackOps
    <3>2. QED
      BY <1>1, <2>5, <3>1, ResumeInv
  <2>6. CASE /\ phase' = "applet" /\ entry' = e
             /\ UNCHANGED <<stack, now, ended>>
    BY <1>1, <2>1, <2>6 DEF IInv, Typed, Rooted, ModeKnown, Showing, contentVars, page
  <2>7. QED
    BY <1>4, <2>2, <2>3, <2>4, <2>5, <2>6 DEF Choose
<1>5. QED
  BY <1>2, <1>3, <1>4 DEF Key

LEMMA AppletReturnsInv ==
  ASSUME IInv, AppletReturns, UNCHANGED contentVars
  PROVE  IInv'
<1>1. /\ phase = "applet" /\ stack \in Seq(PageIds) /\ stack # <<>>
      /\ UNCHANGED hiresActive /\ terminal' \in {terminal, "text"}
  BY DEF AppletReturns, IInv, Typed, Rooted, Showing
<1>2. /\ now.site.start \in PageIds
      /\ page.next \in MaybePage /\ page.fail \in MaybePage
      /\ entry.next \in MaybePage /\ entry.fail \in MaybePage
      /\ None \in MaybePage
  BY <1>1, SiteNames DEF IInv, Typed, Showing, page, MaybePage
<1>3. ASSUME NEW out \in Outcomes, LeavePage(out) PROVE IInv'
  <2> DEFINE follows == CASE out = "done" -> page.next
                          [] out = "failed" /\ page.kind = "form" -> page.fail
                          [] OTHER -> None
  <2>1. follows \in MaybePage
    BY <1>2
  <2>2. Push(Front(stack), follows) \in Seq(PageIds)
    BY <1>1, <2>1, StackOps
  <2>3. page.kind \in Leaves /\ Resume(Push(Front(stack), follows))
    BY <1>3 DEF LeavePage
  <2>4. QED
    BY <1>1, <2>2, <2>3, ResumeInv
<1>4. CASE LeaveGrid
  <2>1. popOrHome(stack, now.site.start) \in Seq(PageIds) \ {<<>>}
    BY <1>1, <1>2, StackOps
  <2>2. QED
    BY <1>1, <1>4, <2>1, ResumeInv DEF LeaveGrid
<1>5. ASSUME NEW out \in Outcomes, LeaveEntry(out) PROVE IInv'
  <2> DEFINE follows == CASE out = "done" -> entry.next
                          [] out = "failed" -> entry.fail
                          [] OTHER -> None
  <2>1. follows \in MaybePage
    BY <1>2
  <2>2. Push(stack, follows) \in Seq(PageIds) \ {<<>>}
    BY <1>1, <2>1, StackOps
  <2>3. Resume(Push(stack, follows))
    BY <1>5 DEF LeaveEntry
  <2>4. QED
    BY <1>1, <2>2, <2>3, ResumeInv
<1>6. QED
  BY <1>3, <1>4, <1>5 DEF AppletReturns

LEMMA NextInv == IInv /\ [Next]_vars => IInv'
<1> SUFFICES ASSUME IInv, [Next]_vars PROVE IInv'
  OBVIOUS
<1>1. CASE (Edit \/ Watch) /\ UNCHANGED sessionVars
  BY <1>1, ContentInv
<1>2. CASE Return /\ UNCHANGED contentVars
  BY <1>2, ReturnInv
<1>3. CASE PageGone /\ UNCHANGED contentVars
  <2>1. site.start \in PageIds
    BY SiteNames DEF IInv, Typed
  <2>2. <<site.start>> \in Seq(PageIds) /\ <<site.start>> # <<>>
    BY <2>1
  <2>3. QED
    BY <1>3, <2>2, ResumeInv DEF PageGone
<1>4. CASE ShowPage /\ UNCHANGED contentVars
  BY <1>4, ShowPageInv
<1>5. CASE Key /\ UNCHANGED contentVars
  BY <1>5, KeyInv
<1>6. CASE AppletReturns /\ UNCHANGED contentVars
  BY <1>6, AppletReturnsInv
<1>7. CASE (AppletQuits \/ Disconnect) /\ UNCHANGED contentVars
  BY <1>7, EndInv DEF AppletQuits, Disconnect
<1>8. CASE (Cancel /\ UNCHANGED contentVars) \/ UNCHANGED vars
  BY <1>8 DEF Cancel, IInv, Typed, Rooted, ModeKnown, Showing, vars, contentVars, sessionVars, page
<1>9. QED
  BY <1>1, <1>2, <1>3, <1>4, <1>5, <1>6, <1>7, <1>8 DEF Next, Session

-----------------------------------------------------------------------------

(* For any sites and any edits: a visitor is put out by its own choice, its
   line or the end of the server alone, unless an applet or a form stands
   at the root (runSite, popOrHome, routeMenuChoice). *)
THEOREM AlwaysAPage == Spec => []NobodyDropped
<1>1. IInv => NobodyDropped
  BY DEF IInv, Rooted, Showing, NobodyDropped
<1>2. QED
  BY InitInv, NextInv, <1>1, PTL DEF Spec

(* For any sites and any edits: text goes to a terminal in text mode (the
   record hiresActive of runSite). *)
THEOREM TextIsReadable == Spec => []TextOnTextScreen
<1>1. IInv => TextOnTextScreen
  BY DEF IInv, ModeKnown, Showing, TextOnTextScreen
<1>2. QED
  BY InitInv, NextInv, <1>1, PTL DEF Spec

-----------------------------------------------------------------------------
(* The news.  Announcements are sorted by date, and at one date as they come:
   the rank of one is how many are before it. *)

LEMMA NewsSets == \A S : N!Cardinality(S) = Cardinality(S)
BY DEF N!Cardinality, Cardinality

LEMMA ItemIs ==
  ASSUME NEW x \in N!Item
  PROVE  /\ x.at \in 1..MaxClock /\ x.at \in Int
         /\ x.no \in 0..MaxArticles /\ x.no \in Int
         /\ x.author \in {"sysop", "feed"} /\ (x.author = "sysop" <=> x.no = 0)
BY SiteAssumption DEF N!Item, N!NewsAssumption

LEMMA ItemsDiffer ==
  ASSUME NEW x \in N!Item, NEW y \in N!Item, x.at = y.at, x.no = y.no
  PROVE  x = y
<1>1. x.author = y.author
  BY ItemIs
<1>2. QED
  BY <1>1 DEF N!Item

(* Any two announcements are told apart. *)
LEMMA BeforeOrders ==
  ASSUME NEW x \in N!Item, NEW y \in N!Item
  PROVE  /\ ~ N!Before(x, x)
         /\ x = y \/ N!Before(x, y) \/ N!Before(y, x)
         /\ \A z \in N!Item : N!Before(x, y) /\ N!Before(y, z) => N!Before(x, z)
<1>1. x = y \/ x.at # y.at \/ x.no # y.no
  BY ItemsDiffer
<1>2. x = y \/ N!Before(x, y) \/ N!Before(y, x)
  BY <1>1, ItemIs DEF N!Before
<1>3. ~ N!Before(x, x)
  BY ItemIs DEF N!Before
<1>4. ASSUME NEW z \in N!Item, N!Before(x, y), N!Before(y, z) PROVE N!Before(x, z)
  BY <1>4, ItemIs DEF N!Before
<1>5. QED
  BY <1>2, <1>3, <1>4

LEMMA ItemsAreFinite ==
  ASSUME NEW S \in SUBSET N!Item
  PROVE  IsFiniteSet(S) /\ Cardinality(S) \in Nat
<1> DEFINE T == (1..MaxClock) \X (0..MaxArticles)
           f == [x \in S |-> <<x.at, x.no>>]
<1>1. MaxClock \in Int /\ MaxArticles \in Int
  BY SiteAssumption DEF N!NewsAssumption
<1>2. IsFiniteSet(1..MaxClock) /\ IsFiniteSet(0..MaxArticles)
  BY <1>1, FS_Interval
<1>3. IsFiniteSet(T)
  BY <1>2, FS_Product
<1>4. f \in [S -> T]
  BY ItemIs
<1>5. ASSUME NEW x \in S, NEW y \in S, f[x] = f[y] PROVE x = y
  BY <1>5, ItemsDiffer
<1> HIDE DEF f, T
<1>6. f \in Injection(S, T)
  BY <1>4, <1>5, Zenon DEF Injection, IsInjective
<1>7. IsFiniteSet(S)
  BY <1>3, <1>6, FS_Injection
<1>8. QED
  BY <1>7, FS_CardinalityType

LEMMA EarlierRank ==
  ASSUME NEW S \in SUBSET N!Item, NEW x \in S
  PROVE  /\ Cardinality(N!Earlier(S, x)) \in 0..Cardinality(S) - 1
         /\ \A y \in S : N!Before(x, y) => Cardinality(N!Earlier(S, x)) < Cardinality(N!Earlier(S, y))
<1>1. IsFiniteSet(S) /\ Cardinality(S) \in Nat
  BY ItemsAreFinite
<1>2. ASSUME NEW y \in S
      PROVE  IsFiniteSet(N!Earlier(S, y)) /\ Cardinality(N!Earlier(S, y)) \in Nat
  <2>1. N!Earlier(S, y) \in SUBSET S
    BY DEF N!Earlier
  <2>2. QED
    BY <1>1, <2>1, FS_Subset, FS_CardinalityType
<1>3. ASSUME NEW y \in S
      PROVE  /\ IsFiniteSet(N!Earlier(S, y) \cup {y})
             /\ Cardinality(N!Earlier(S, y) \cup {y}) = Cardinality(N!Earlier(S, y)) + 1
  <2>1. y \notin N!Earlier(S, y)
    BY BeforeOrders DEF N!Earlier
  <2>2. QED
    BY <1>2, <2>1, FS_AddElement
<1>4. N!Earlier(S, x) \cup {x} \in SUBSET S
  BY DEF N!Earlier
<1>5. Cardinality(N!Earlier(S, x) \cup {x}) <= Cardinality(S)
  BY <1>1, <1>4, FS_Subset
<1>6. ASSUME NEW y \in S, N!Before(x, y)
      PROVE  Cardinality(N!Earlier(S, x)) < Cardinality(N!Earlier(S, y))
  <2>1. N!Earlier(S, x) \cup {x} \in SUBSET N!Earlier(S, y)
    BY <1>6, BeforeOrders DEF N!Earlier
  <2>2. Cardinality(N!Earlier(S, x) \cup {x}) <= Cardinality(N!Earlier(S, y))
    BY <1>2, <2>1, FS_Subset
  <2>3. QED
    BY <1>2, <1>3, <2>2
<1>7. QED
  BY <1>1, <1>2, <1>3, <1>5, <1>6

(* Every rank is the one of an announcement. *)
LEMMA RanksAreTaken ==
  ASSUME NEW S \in SUBSET N!Item, NEW i \in 1..Cardinality(S)
  PROVE  \E x \in S : Cardinality(N!Earlier(S, x)) = i - 1
<1> DEFINE f == [x \in S |-> Cardinality(N!Earlier(S, x)) + 1]
           m == Cardinality(S)
<1>1. IsFiniteSet(S) /\ m \in Nat
  BY ItemsAreFinite
<1>2. \A x \in S : f[x] = Cardinality(N!Earlier(S, x)) + 1 /\ Cardinality(N!Earlier(S, x)) \in 0..m - 1
  BY EarlierRank
<1>3. f \in [S -> 1..m]
  BY <1>1, <1>2
<1>4. ASSUME NEW x \in S, NEW y \in S, f[x] = f[y] PROVE x = y
  <2>1. ~ N!Before(x, y) /\ ~ N!Before(y, x)
    BY <1>2, <1>4, EarlierRank
  <2>2. QED
    BY <2>1, BeforeOrders
<1> HIDE DEF f
<1>5. f \in Injection(S, 1..m)
  BY <1>3, <1>4, Zenon DEF Injection, IsInjective
<1>6. IsFiniteSet(1..m) /\ Cardinality(1..m) = Cardinality(S)
  BY <1>1, FS_Interval
<1>7. f \in Surjection(S, 1..m)
  BY <1>5, <1>6, FS_Injection
<1>8. PICK x \in S : f[x] = i
  BY <1>7 DEF Surjection
<1>9. Cardinality(N!Earlier(S, x)) = i - 1
  BY <1>1, <1>2, <1>8
<1>10. QED
  BY <1>9

InOrder(q) == \A i, j \in 1..Len(q) : i < j => N!Before(q[i], q[j])

(* Sorting loses nothing, adds nothing, and puts each after those before it. *)
LEMMA ByDateIs ==
  ASSUME NEW S \in SUBSET N!Item
  PROVE  /\ N!ByDate(S) \in Seq(N!Item) /\ InOrder(N!ByDate(S))
         /\ \A x : x \in S <=> \E i \in 1..Len(N!ByDate(S)) : N!ByDate(S)[i] = x
<1> DEFINE q == N!ByDate(S)
           m == Cardinality(S)
           R(x) == Cardinality(N!Earlier(S, x))
<1>1. IsFiniteSet(S) /\ m \in Nat
  BY ItemsAreFinite
<1>2. q = [i \in 1..m |-> CHOOSE x \in S : R(x) = i - 1]
  <2>1. \A x : N!Cardinality(N!Earlier(S, x)) = R(x)
    BY NewsSets
  <2>2. N!Cardinality(S) = m
    BY NewsSets
  <2> DEFINE Told(i) == CHOOSE x \in S : N!Cardinality(N!Earlier(S, x)) = i - 1
             Placed(i) == CHOOSE x \in S : R(x) = i - 1
  <2> HIDE DEF R
  <2>3. ASSUME NEW i PROVE Told(i) = Placed(i)
    <3>1. \A x : N!Cardinality(N!Earlier(S, x)) = i - 1 <=> R(x) = i - 1
      BY <2>1, Zenon
    <3>2. QED
      BY <3>1, Zenon
  <2>4. q = [i \in 1..m |-> Told(i)]
    BY <2>2 DEF N!ByDate
  <2>5. [i \in 1..m |-> Told(i)] = [i \in 1..m |-> Placed(i)]
    <3> HIDE DEF Told, Placed, m
    <3>1. QED
      BY <2>3
  <2>6. QED
    BY <2>4, <2>5
<1>3. ASSUME NEW i \in 1..m PROVE q[i] \in S /\ R(q[i]) = i - 1
  <2>1. \E x \in S : R(x) = i - 1
    BY RanksAreTaken
  <2>2. q[i] = CHOOSE x \in S : R(x) = i - 1
    BY <1>2
  <2> HIDE DEF R, q
  <2>3. QED
    BY <2>1, <2>2
<1>4. \A x \in S : R(x) \in 0..m - 1 /\ \A y \in S : N!Before(x, y) => R(x) < R(y)
  BY EarlierRank
<1> HIDE DEF R
<1>5. q \in [1..m -> N!Item]
  <2>1. \A i \in 1..m : q[i] \in N!Item
    BY <1>3
  <2>2. DOMAIN q = 1..m /\ q = [i \in 1..m |-> q[i]]
    BY <1>2
  <2> HIDE DEF q
  <2>3. QED
    BY <2>1, <2>2
<1> HIDE DEF q
<1>6. q \in Seq(N!Item) /\ Len(q) = m
  BY <1>1, <1>5
<1>7. ASSUME NEW i \in 1..m, NEW j \in 1..m, i < j PROVE N!Before(q[i], q[j])
  <2>1. q[i] \in S /\ q[j] \in S /\ R(q[i]) = i - 1 /\ R(q[j]) = j - 1
    BY <1>3
  <2>2. ~ N!Before(q[j], q[i])
    BY <1>1, <1>4, <1>7, <2>1
  <2>3. q[i] # q[j]
    BY <1>1, <1>7, <2>1
  <2>4. QED
    BY <2>1, <2>2, <2>3, BeforeOrders
<1>8. ASSUME NEW x \in S PROVE \E i \in 1..m : q[i] = x
  <2> DEFINE i == R(x) + 1
  <2>1. i \in 1..m /\ i - 1 = R(x)
    BY <1>1, <1>4
  <2>2. q[i] \in S /\ R(q[i]) = R(x)
    BY <1>3, <2>1
  <2>3. ~ N!Before(x, q[i]) /\ ~ N!Before(q[i], x)
    BY <1>4, <2>2, <1>1
  <2>4. x = q[i]
    BY <2>2, <2>3, BeforeOrders
  <2>5. QED
    BY <2>1, <2>4
<1>9. QED
  BY <1>3, <1>6, <1>7, <1>8 DEF InOrder, q

(* A list of announcements of A: what stands behind another is later, or is a
   post that an article which had come before, by H, did not wait for. *)
Jumps(y, x, H) == y.author = "sysop" /\ \E came \in 0..y.at - 1 : <<x, came>> \in H

Fits(x, y, H) == N!Before(x, y) \/ Jumps(y, x, H)

Sound(q, A, H) ==
  /\ q \in Seq(N!Item)
  /\ \A i \in 1..Len(q) : q[i] \in A
  /\ \A i, j \in 1..Len(q) : i < j => Fits(q[i], q[j], H)

Articles == {it \in N!Item : it.author = "feed"}
Posts == {it \in N!Item : it.author = "sysop"}

Has(q, d) == \E i \in 1..Len(q) : q[i] = d
After(A, d) == Cardinality({e \in A : N!Before(d, e)})

(* The posts of D are in the list, or enough of A is after them. *)
Holds(q, D, A) == \A d \in D : Has(q, d) \/ After(A, d) >= MaxItems - 1

(* What is left of a list that was cut: all of it, or enough of its end. *)
EndOf(t, q) ==
  /\ t \in Seq(N!Item)
  /\ \E k \in 0..Len(q) :
       /\ Len(t) = Len(q) - k /\ \A i \in 1..Len(q) - k : t[i] = q[k + i]
       /\ k = 0 \/ Len(t) >= MaxItems - 1

LEMMA SoundGrows ==
  ASSUME NEW q, NEW A, NEW H, NEW A2, NEW H2, Sound(q, A, H), A \subseteq A2, H \subseteq H2
  PROVE  Sound(q, A2, H2)
<1>1. \A x, y : Fits(x, y, H) => Fits(x, y, H2)
  BY DEF Fits, Jumps
<1>2. QED
  BY <1>1 DEF Sound

LEMMA AfterGrows ==
  ASSUME NEW A \in SUBSET N!Item, NEW less \in SUBSET A, NEW d
  PROVE  After(less, d) \in Nat /\ After(A, d) \in Nat /\ After(less, d) <= After(A, d)
<1> DEFINE many == {e \in A : N!Before(d, e)}
           few == {e \in less : N!Before(d, e)}
<1>1. many \in SUBSET N!Item /\ few \in SUBSET N!Item /\ few \in SUBSET many
  OBVIOUS
<1>2. After(less, d) = Cardinality(few) /\ After(A, d) = Cardinality(many)
  BY DEF After
<1> HIDE DEF many, few
<1>3. QED
  BY <1>1, <1>2, ItemsAreFinite, FS_Subset

LEMMA HoldsGrows ==
  ASSUME NEW q, NEW D, NEW A \in SUBSET N!Item, NEW D2 \in SUBSET D, NEW less \in SUBSET A,
         Holds(q, D, less)
  PROVE  Holds(q, D2, A)
<1> SUFFICES ASSUME NEW d \in D2 PROVE Has(q, d) \/ After(A, d) >= MaxItems - 1
  BY DEF Holds
<1>1. CASE Has(q, d)
  BY <1>1
<1>2. CASE After(less, d) >= MaxItems - 1
  <2>1. After(less, d) \in Nat /\ After(A, d) \in Nat /\ After(less, d) <= After(A, d)
    BY AfterGrows
  <2>2. MaxItems \in Nat
    BY SiteAssumption DEF N!NewsAssumption
  <2>3. QED
    BY <1>2, <2>1, <2>2
<1>3. QED
  BY <1>1, <1>2 DEF Holds

LEMMA EndSound ==
  ASSUME NEW q, NEW t, NEW A, NEW H, Sound(q, A, H), EndOf(t, q)
  PROVE  Sound(t, A, H)
<1>1. PICK k \in 0..Len(q) : Len(t) = Len(q) - k /\ \A i \in 1..Len(q) - k : t[i] = q[k + i]
  BY DEF EndOf
<1>2. Len(q) \in Nat /\ t \in Seq(N!Item)
  BY LenProperties DEF Sound, EndOf
<1>3. \A i \in 1..Len(t) : k + i \in 1..Len(q) /\ t[i] = q[k + i]
  BY <1>1, <1>2
<1>4. ASSUME NEW i \in 1..Len(t), NEW j \in 1..Len(t), i < j PROVE Fits(t[i], t[j], H)
  <2>1. k + i < k + j
    BY <1>2, <1>4
  <2>2. Fits(q[k + i], q[k + j], H)
    BY <1>3, <2>1 DEF Sound
  <2>3. QED
    BY <1>3, <2>2
<1>5. QED
  BY <1>2, <1>3, <1>4 DEF Sound

(* Nothing stands behind a post but what is after it, and nothing behind
   itself. *)
LEMMA BehindIs ==
  ASSUME NEW A \in SUBSET N!Item, NEW H, H \in SUBSET (Articles \X Nat), NEW x \in A, NEW y \in A,
         Fits(x, y, H)
  PROVE  x # y /\ (x \in Posts => N!Before(x, y))
<1>1. Jumps(y, x, H) => x \in Articles /\ y.author = "sysop"
  BY DEF Jumps
<1>2. x \in Articles => x.author = "feed"
  BY DEF Articles
<1>3. x \in Posts => x.author = "sysop"
  BY DEF Posts
<1>4. N!Before(x, y) => x # y
  BY BeforeOrders
<1>5. QED
  BY <1>1, <1>2, <1>3, <1>4 DEF Fits

(* What is left of the list is after the posts that went. *)
LEMMA EndHolds ==
  ASSUME NEW q, NEW t, NEW A \in SUBSET N!Item, NEW H, H \in SUBSET (Articles \X Nat), NEW D \in SUBSET Posts,
         Sound(q, A, H), EndOf(t, q), Holds(q, D, A)
  PROVE  Holds(t, D, A)
<1> SUFFICES ASSUME NEW d \in D, ~ (After(A, d) >= MaxItems - 1) PROVE Has(t, d)
  BY DEF Holds
<1>1. PICK i \in 1..Len(q) : q[i] = d
  BY DEF Holds, Has
<1>2. PICK k \in 0..Len(q) : /\ Len(t) = Len(q) - k /\ \A j \in 1..Len(q) - k : t[j] = q[k + j]
                             /\ k = 0 \/ Len(t) >= MaxItems - 1
  BY DEF EndOf
<1>3. Len(q) \in Nat /\ \A j \in 1..Len(q) : q[j] \in A
  BY LenProperties DEF Sound
<1>4. CASE i > k
  <2>1. i - k \in 1..Len(t) /\ i - k \in 1..Len(q) - k /\ k + (i - k) = i
    BY <1>2, <1>3, <1>4
  <2>2. t[i - k] = q[i]
    BY <1>2, <2>1
  <2>3. QED
    BY <1>1, <2>1, <2>2 DEF Has
<1>5. CASE ~ i > k
  <2> DEFINE m == Len(t)
             later == {e \in A : N!Before(d, e)}
             g == [j \in 1..m |-> q[k + j]]
  <2>1. m \in Nat /\ \A j \in 1..m : k + j \in 1..Len(q) /\ i < k + j
    BY <1>2, <1>3, <1>5
  <2>2. d \in A /\ d \in Posts
    BY <1>1, <1>3
  <2>3. ASSUME NEW j \in 1..m PROVE g[j] \in later
    <3>1. q[k + j] \in A /\ Fits(d, q[k + j], H)
      BY <1>1, <1>3, <2>1 DEF Sound
    <3>2. N!Before(d, q[k + j])
      BY <2>2, <3>1, BehindIs
    <3>3. QED
      BY <3>1, <3>2
  <2>4. ASSUME NEW j \in 1..m, NEW l \in 1..m, g[j] = g[l] PROVE j = l
    <3>1. k + j \in 1..Len(q) /\ k + l \in 1..Len(q) /\ q[k + j] = q[k + l]
      BY <2>1, <2>4
    <3>2. ~ Fits(q[k + j], q[k + l], H) /\ ~ Fits(q[k + l], q[k + j], H)
      <4>1. q[k + j] \in A /\ q[k + l] \in A
        BY <1>3, <3>1
      <4>2. QED
        BY <3>1, <4>1, BehindIs
    <3>3. ~ k + j < k + l /\ ~ k + l < k + j
      BY <3>1, <3>2 DEF Sound
    <3>4. QED
      BY <2>1, <3>3
  <2>5. g \in [1..m -> later]
    BY <2>3
  <2> HIDE DEF g
  <2>6. g \in Injection(1..m, later)
    BY <2>4, <2>5, Zenon DEF Injection, IsInjective
  <2>7. later \in SUBSET N!Item
    OBVIOUS
  <2>8. IsFiniteSet(later) /\ Cardinality(later) \in Nat
    BY <2>7, ItemsAreFinite
  <2> HIDE DEF later
  <2>9. Cardinality(1..m) <= Cardinality(later) /\ Cardinality(1..m) = m
    <3>1. m \in Nat
      BY <2>1
    <3> HIDE DEF m
    <3>2. IsFiniteSet(1..m) /\ Cardinality(1..m) = m
      BY ONLY <3>1, FS_Interval
    <3>3. Cardinality(1..m) <= Cardinality(later)
      BY <2>6, <2>8, FS_Injection
    <3>4. QED
      BY <3>2, <3>3
  <2>10. After(A, d) >= m
    BY <2>8, <2>9, <2>1 DEF After, later
  <2>11. ~ (m >= MaxItems - 1)
    <3>1. MaxItems \in Nat /\ After(A, d) \in Nat
      BY SiteAssumption, <2>8 DEF N!NewsAssumption, After, later
    <3>2. QED
      BY <3>1, <2>1, <2>10
  <2>12. k = 0
    BY <1>2, <2>11
  <2>13. QED
    BY <1>5, <2>12
<1>6. QED
  BY <1>4, <1>5

LEMMA TrimIs ==
  ASSUME NEW q \in Seq(N!Item)
  PROVE  EndOf(N!Trim(q), q) /\ Len(N!Trim(q)) <= MaxItems /\ Len(N!Trim(q)) \in Nat
<1>1. MaxItems \in Nat \ {0} /\ Len(q) \in Nat /\ \A i \in 1..Len(q) : q[i] \in N!Item
  BY SiteAssumption, LenProperties DEF N!NewsAssumption
<1>2. CASE Len(q) > MaxItems
  <2> DEFINE k == Len(q) - MaxItems
             t == SubSeq(q, k + 1, Len(q))
  <2>1. k \in 1..Len(q) /\ k + 1 \in Int /\ \A i \in k + 1..Len(q) : q[i] \in N!Item
    BY <1>1, <1>2
  <2>2. t \in Seq(N!Item) /\ Len(t) = MaxItems /\ \A i \in 1..Len(q) - k : t[i] = q[k + i]
    <3>1. /\ t \in Seq(N!Item)
          /\ Len(t) = IF k + 1 <= Len(q) THEN Len(q) - (k + 1) + 1 ELSE 0
          /\ \A i \in 1..Len(q) - (k + 1) + 1 : t[i] = q[k + 1 + i - 1]
      BY <1>1, <2>1, SubSeqProperties
    <3> HIDE DEF t
    <3>2. QED
      BY <1>1, <1>2, <3>1
  <2>3. N!Trim(q) = t
    BY <1>2 DEF N!Trim
  <2> HIDE DEF t
  <2>4. k \in 0..Len(q) /\ Len(t) = Len(q) - k /\ Len(t) >= MaxItems - 1
    BY <1>1, <1>2, <2>2
  <2> HIDE DEF k
  <2>5. EndOf(t, q)
    BY <2>2, <2>4 DEF EndOf
  <2>6. QED
    BY <1>1, <2>2, <2>3, <2>5
<1>3. CASE ~ Len(q) > MaxItems
  <2>1. N!Trim(q) = q
    BY <1>3 DEF N!Trim
  <2>2. EndOf(q, q)
    <3>1. 0 \in 0..Len(q) /\ Len(q) = Len(q) - 0 /\ \A i \in 1..Len(q) - 0 : q[i] = q[0 + i]
      BY <1>1
    <3>2. QED
      BY <3>1 DEF EndOf
  <2>3. QED
    BY <1>1, <1>3, <2>1, <2>2
<1>4. QED
  BY <1>2, <1>3

(* A list that is cut stays a list, and explains the same losses. *)
LEMMA CutIs ==
  ASSUME NEW q, NEW t, NEW A \in SUBSET N!Item, NEW H, H \in SUBSET (Articles \X Nat), NEW D \in SUBSET Posts,
         Sound(q, A, H), Holds(q, D, A), EndOf(t, q)
  PROVE  Sound(t, A, H) /\ Holds(t, D, A)
BY EndSound, EndHolds

(* A post is put behind announcements that it may stand behind. *)
LEMMA PostIs ==
  ASSUME NEW q, NEW A \in SUBSET N!Item, NEW H, NEW D, NEW p \in N!Item,
         Sound(q, A, H), Holds(q, D, A), \A x \in A : Fits(x, p, H)
  PROVE  LET t == Append(q, p)
         IN  /\ t \in Seq(N!Item) /\ Len(t) = Len(q) + 1
             /\ Sound(t, A \cup {p}, H)
             /\ Holds(t, D \cup {p}, A \cup {p})
<1> DEFINE t == Append(q, p)
           A2 == A \cup {p}
<1>1. /\ q \in Seq(N!Item) /\ Len(q) \in Nat
      /\ t \in Seq(N!Item) /\ Len(t) = Len(q) + 1
      /\ \A i \in 1..Len(q) : t[i] = q[i]
      /\ t[Len(q) + 1] = p
  BY AppendProperties, LenProperties DEF Sound
<1>2. \A i \in 1..Len(q) + 1 : i \in 1..Len(q) \/ i = Len(q) + 1
  BY <1>1
<1> HIDE DEF t
<1>3. ASSUME NEW i \in 1..Len(t), NEW j \in 1..Len(t), i < j PROVE Fits(t[i], t[j], H)
  <2>1. i \in 1..Len(q)
    BY <1>1, <1>3
  <2>2. CASE j \in 1..Len(q)
    BY <1>1, <1>3, <2>1, <2>2 DEF Sound
  <2>3. CASE j = Len(q) + 1
    <3>1. q[i] \in A
      BY <2>1 DEF Sound
    <3>2. QED
      BY <1>1, <2>1, <2>3, <3>1
  <2>4. QED
    BY <1>1, <1>2, <2>2, <2>3
<1>4. ASSUME NEW i \in 1..Len(t) PROVE t[i] \in A2
  <2>1. CASE i \in 1..Len(q)
    BY <1>1, <2>1 DEF Sound
  <2>2. CASE i = Len(q) + 1
    BY <1>1, <2>2
  <2>3. QED
    BY <1>1, <1>2, <2>1, <2>2
<1>5. Sound(t, A2, H)
  BY <1>1, <1>3, <1>4 DEF Sound
<1>6. Holds(q, D, A2)
  <2>1. A2 \in SUBSET N!Item /\ A \in SUBSET A2 /\ D \in SUBSET D
    OBVIOUS
  <2> HIDE DEF A2
  <2>2. QED
    BY <2>1, HoldsGrows
<1>7. ASSUME NEW d \in D \cup {p} PROVE Has(t, d) \/ After(A2, d) >= MaxItems - 1
  <2>1. CASE d = p
    <3>1. Len(q) + 1 \in 1..Len(t)
      BY <1>1
    <3>2. QED
      BY <1>1, <2>1, <3>1 DEF Has
  <2>2. CASE d \in D /\ Has(q, d)
    <3>1. PICK i \in 1..Len(q) : q[i] = d
      BY <2>2 DEF Has
    <3>2. i \in 1..Len(t) /\ t[i] = d
      BY <1>1, <3>1
    <3>3. QED
      BY <3>2 DEF Has
  <2>3. QED
    BY <1>6, <1>7, <2>1, <2>2 DEF Holds
<1>8. Holds(t, D \cup {p}, A2)
  BY <1>7 DEF Holds
<1>9. QED
  BY <1>1, <1>5, <1>8 DEF t

(* The merge keeps the posts it read, and takes articles from the feed. *)
LEMMA MergeIs ==
  ASSUME NEW q, NEW O \in SUBSET Posts, NEW F \in SUBSET Articles, NEW H, NEW D \in SUBSET Posts,
         Sound(q, O \cup F, H)
  PROVE  LET merged == N!mergeFile(q, N!toItems(F))
         IN  /\ merged \in Seq(N!Item) /\ Sound(merged, O \cup F, H)
             /\ Holds(q, D, O \cup F) => Holds(merged, D, O \cup F)
<1> DEFINE fresh == N!toItems(F)
           kept == {it \in N!Elements(q) : it.author # "feed"}
           S == fresh \cup kept
           t == N!ByDate(S)
<1>1. ASSUME NEW x \in fresh PROVE x \in F /\ x \in N!Item
  BY <1>1 DEF N!toItems, Articles
<1>2. ASSUME NEW x \in kept PROVE x \in O \cup F /\ x \in N!Item
  <2>1. PICK i \in 1..Len(q) : x = q[i]
    BY DEF N!Elements
  <2>2. QED
    BY <2>1, LenProperties DEF Sound
<1>3. ASSUME NEW d \in D, Has(q, d) PROVE d \in kept
  <2>1. PICK i \in 1..Len(q) : q[i] = d
    BY <1>3 DEF Has
  <2>2. q[i] \in N!Elements(q)
    BY DEF N!Elements
  <2>3. d.author # "feed"
    BY DEF Posts
  <2>4. QED
    BY <2>1, <2>2, <2>3
<1>4. \A x \in S : x \in O \cup F /\ x \in N!Item
  BY <1>1, <1>2
<1>5. N!mergeFile(q, N!toItems(F)) = t
  BY DEF N!mergeFile
<1> HIDE DEF fresh, kept
<1>6. S \in SUBSET N!Item
  BY <1>4
<1>7. \A d \in D : Has(q, d) => d \in S
  BY <1>3
<1> HIDE DEF S
<1>8. /\ t \in Seq(N!Item) /\ InOrder(t)
      /\ \A x : x \in S <=> \E i \in 1..Len(t) : t[i] = x
  BY <1>6, ByDateIs
<1> HIDE DEF t
<1>9. Sound(t, O \cup F, H)
  <2>1. \A i \in 1..Len(t) : t[i] \in O \cup F
    BY <1>4, <1>8
  <2>2. QED
    BY <1>8, <2>1 DEF Sound, InOrder, Fits
<1>10. Holds(q, D, O \cup F) => Holds(t, D, O \cup F)
  BY <1>7, <1>8 DEF Holds, Has
<1>11. QED
  BY <1>5, <1>8, <1>9, <1>10

Known == own \cup feed
Listed(q) == Sound(q, Known, ahead) /\ Len(q) <= MaxItems
Explains(q) == Holds(q, own \ late, Known)

(* Posts are of the past.  So are the articles, or they came dated ahead. *)
NewsTyped ==
  /\ clock \in 0..MaxClock
  /\ own \subseteq {N!Dated(d) : d \in 1..clock} /\ feed \subseteq Articles
  /\ ahead \subseteq feed \X (0..clock)
  /\ \A x \in feed : x.at <= clock \/ \E came \in 0..clock : <<x, came>> \in ahead
  /\ late \subseteq own /\ blind \in BOOLEAN
  /\ sync \in {"idle", "copied", "merged", "pushed"}

(* The three lists are in order; what is shown and what is stored, and the
   copy if the file could be read for it, explain the posts they lack. *)
NewsIInv ==
  /\ NewsTyped
  /\ Listed(items) /\ Listed(newsFile) /\ Listed(copy)
  /\ Explains(items) /\ Explains(newsFile)
  /\ sync \in {"copied", "merged"} /\ ~ blind => Explains(copy)

LEMMA EmptyIs == Sound(<<>>, {}, {}) /\ Len(<<>>) <= MaxItems /\ Holds(<<>>, {}, {})
<1>1. <<>> \in Seq(N!Item) /\ Len(<<>>) = 0 /\ MaxItems \in Nat
  BY SiteAssumption DEF N!NewsAssumption
<1>2. QED
  BY <1>1 DEF Sound, Holds

LEMMA NewsInitInv == N!Init => NewsIInv
<1> SUFFICES ASSUME N!Init PROVE NewsIInv
  OBVIOUS
<1>1. /\ items = <<>> /\ newsFile = <<>> /\ copy = <<>> /\ own = {} /\ feed = {} /\ late = {}
      /\ own \ late = {} /\ Known = {} /\ ahead = {} /\ sync = "idle" /\ blind = FALSE /\ clock = 0
  BY DEF N!Init, Known
<1>2. 0 \in 0..MaxClock
  BY SiteAssumption DEF N!NewsAssumption
<1>3. NewsTyped
  BY <1>1, <1>2, Zenon DEF NewsTyped
<1>4. Listed(items) /\ Listed(newsFile) /\ Listed(copy) /\ Explains(items) /\ Explains(newsFile)
  BY <1>1, EmptyIs DEF Listed, Explains
<1>5. QED
  BY <1>1, <1>3, <1>4 DEF NewsIInv

LEMMA DatedIs ==
  ASSUME NEW d \in 1..MaxClock
  PROVE  N!Dated(d) \in Posts /\ N!Dated(d).author = "sysop" /\ N!Dated(d).at = d
BY SiteAssumption DEF N!Dated, N!Item, Posts, N!NewsAssumption

(* What is known are announcements. *)
LEMMA KnownIs ==
  ASSUME NewsTyped
  PROVE  /\ Known \in SUBSET N!Item /\ own \in SUBSET Posts /\ own \ late \in SUBSET Posts
         /\ feed \in SUBSET Articles
         /\ ahead \in SUBSET (Articles \X Nat)
<1>1. MaxClock \in Nat /\ clock \in 0..MaxClock
  BY SiteAssumption DEF NewsTyped, N!NewsAssumption
<1>2. 1..clock \subseteq 1..MaxClock /\ 0..clock \subseteq Nat
  BY <1>1
<1>3. own \in SUBSET Posts
  BY <1>2, DatedIs DEF NewsTyped
<1>4. feed \in SUBSET Articles /\ ahead \in SUBSET (Articles \X Nat)
  BY <1>2 DEF NewsTyped
<1>5. QED
  BY <1>3, <1>4 DEF Known, Posts, Articles

(* A list that a step leaves alone, while announcements are added. *)
LEMMA ListGrows ==
  ASSUME NewsTyped', NEW q, own \subseteq own', feed \subseteq feed', ahead \subseteq ahead',
         own' \ late' \subseteq own \ late
  PROVE  /\ Sound(q, Known, ahead) => Sound(q, Known', ahead')
         /\ Holds(q, own \ late, Known) => Holds(q, own' \ late', Known')
<1>1. Known' \in SUBSET N!Item /\ Known \in SUBSET Known'
  <2>1. clock' \in 0..MaxClock /\ MaxClock \in Nat
    BY SiteAssumption DEF NewsTyped, N!NewsAssumption
  <2>2. 1..clock' \subseteq 1..MaxClock
    BY <2>1
  <2>3. own' \in SUBSET Posts /\ feed' \in SUBSET Articles
    BY <2>2, DatedIs DEF NewsTyped
  <2>4. QED
    BY <2>3 DEF Known, Posts, Articles
<1>2. ASSUME Sound(q, Known, ahead) PROVE Sound(q, Known', ahead')
  BY <1>1, <1>2, SoundGrows
<1>3. ASSUME Holds(q, own \ late, Known) PROVE Holds(q, own' \ late', Known')
  <2> DEFINE D == own \ late
             D2 == own' \ late'
             A == Known'
  <2>1. D2 \in SUBSET D
    OBVIOUS
  <2> HIDE DEF D, D2, A
  <2>2. QED
    BY <1>1, <1>3, <2>1, HoldsGrows DEF D, D2, A
<1>4. QED
  BY <1>2, <1>3

LEMMA NewsStutter ==
  ASSUME NewsIInv, UNCHANGED newsVars
  PROVE  NewsIInv'
BY DEF NewsIInv, NewsTyped, Listed, Explains, Known, newsVars

(* Time passes, and nothing else. *)
LEMMA TimePasses ==
  ASSUME NewsTyped, clock' \in clock..MaxClock
  PROVE  /\ clock' \in 0..MaxClock /\ clock \in Nat /\ clock' \in Nat /\ clock <= clock'
         /\ 1..clock \subseteq 1..clock' /\ 0..clock \subseteq 0..clock' /\ 1..clock' \subseteq 1..MaxClock
         /\ \A x \in feed : x.at <= clock => x.at <= clock'
<1>1. clock \in 0..MaxClock /\ MaxClock \in Nat
  BY SiteAssumption DEF NewsTyped, N!NewsAssumption
<1>2. \A x \in feed : x.at \in Int
  BY KnownIs, ItemIs DEF Articles
<1>3. PICK c \in clock..MaxClock : clock' = c
  OBVIOUS
<1>4. QED
  BY <1>1, <1>2, <1>3

(* A post of now may stand behind all that is known. *)
LEMMA PostFits ==
  ASSUME NewsTyped, clock' \in clock + 1..MaxClock, NEW x \in Known
  PROVE  Fits(x, N!Dated(clock'), ahead)
<1> DEFINE p == N!Dated(clock')
<1>1. clock \in Nat /\ clock' \in 1..MaxClock /\ clock + 1 <= clock' /\ clock' \in Nat
      /\ 1..clock \subseteq 1..MaxClock
  BY SiteAssumption DEF NewsTyped, N!NewsAssumption
<1>2. p.author = "sysop" /\ p.at = clock'
  BY <1>1, DatedIs
<1>3. x.at \in Int
  BY KnownIs, ItemIs
<1> HIDE DEF p
<1>4. CASE x.at <= clock
  <2>1. x.at < p.at
    BY <1>1, <1>2, <1>3, <1>4
  <2>2. QED
    BY <2>1 DEF Fits, N!Before, p
<1>5. CASE x \in own
  <2>1. PICK d \in 1..clock : x = N!Dated(d)
    BY <1>5 DEF NewsTyped
  <2>2. x.at <= clock
    BY <1>1, <2>1, DatedIs
  <2>3. QED
    BY <1>4, <2>2
<1>6. CASE \E came \in 0..clock : <<x, came>> \in ahead
  <2>1. PICK came \in 0..clock : <<x, came>> \in ahead
    BY <1>6
  <2>2. p.at - 1 = clock' - 1 /\ came \in Int /\ 0 <= came /\ came <= clock
    BY <1>1, <1>2, <2>1
  <2>3. came \in 0..p.at - 1
    BY <1>1, <2>2
  <2>4. QED
    BY <1>2, <2>1, <2>3 DEF Fits, Jumps, p
<1>7. QED
  BY <1>4, <1>5, <1>6 DEF Known, NewsTyped

LEMMA PostInv ==
  ASSUME NewsIInv, N!Post
  PROVE  NewsIInv'
<1> DEFINE p == N!Dated(clock')
           t == Append(items, p)
           left == N!Trim(t)
           D == own \ late
           A2 == Known \cup {p}
<1>1. /\ clock' \in clock + 1..MaxClock /\ clock \in 0..MaxClock /\ MaxClock \in Nat
      /\ own' = own \cup {p} /\ UNCHANGED <<feed, ahead, sync, copy, blind>>
      /\ late' = IF sync = "idle" THEN late ELSE late \cup {p}
      /\ items' = left /\ newsFile' = left
  BY SiteAssumption DEF NewsIInv, NewsTyped, N!Post, N!NewsAssumption
<1>2. /\ clock' \in clock..MaxClock /\ clock' \in 1..clock' /\ clock' \in 1..MaxClock
      /\ 1..clock \subseteq 1..clock' /\ 0..clock \subseteq 0..clock'
  BY <1>1
<1>3. p \in Posts /\ p \in N!Item
  BY <1>2, DatedIs DEF Posts
<1>4. NewsTyped'
  <2>1. own' \subseteq {N!Dated(d) : d \in 1..clock'}
    BY <1>1, <1>2 DEF NewsIInv, NewsTyped
  <2>2. \A x \in feed : x.at <= clock' \/ \E came \in 0..clock' : <<x, came>> \in ahead
    BY <1>2, TimePasses DEF NewsIInv, NewsTyped
  <2>3. ahead \subseteq feed \X (0..clock') /\ late' \subseteq own'
    BY <1>1, <1>2 DEF NewsIInv, NewsTyped
  <2>4. clock' \in 0..MaxClock
    BY <1>2
  <2>5. QED
    BY <1>1, <2>1, <2>2, <2>3, <2>4 DEF NewsIInv, NewsTyped
<1>5. /\ Known \in SUBSET N!Item /\ ahead \in SUBSET (Articles \X Nat) /\ D \in SUBSET Posts
      /\ A2 \in SUBSET N!Item /\ Known' = A2
  BY <1>1, <1>3, KnownIs DEF NewsIInv, Known
<1>6. \A x \in Known : Fits(x, p, ahead)
  BY <1>1, PostFits DEF NewsIInv
<1>7. Sound(items, Known, ahead) /\ Holds(items, D, Known)
  BY DEF NewsIInv, Listed, Explains
<1> HIDE DEF p, D
<1>8. t \in Seq(N!Item) /\ Sound(t, A2, ahead) /\ Holds(t, D \cup {p}, A2)
  BY <1>3, <1>5, <1>6, <1>7, PostIs
<1> HIDE DEF t
<1>9. EndOf(left, t) /\ Len(left) <= MaxItems
  BY <1>8, TrimIs
<1> HIDE DEF left, A2
<1>10. D \cup {p} \in SUBSET Posts
  BY <1>3, <1>5
<1>11. Sound(left, A2, ahead) /\ Holds(left, D \cup {p}, A2)
  BY <1>5, <1>8, <1>9, <1>10, CutIs
<1>12. own' \ late' \in SUBSET (D \cup {p})
  BY <1>1 DEF D
<1>13. Holds(left, own' \ late', Known')
  <2> DEFINE D2 == own' \ late'
             E == D \cup {p}
  <2>1. D2 \in SUBSET E /\ A2 \in SUBSET A2 /\ Holds(left, E, A2)
    BY <1>11, <1>12
  <2> HIDE DEF D2, E
  <2>2. Holds(left, D2, A2)
    BY <1>5, <2>1, HoldsGrows
  <2>3. QED
    BY <1>5, <2>2 DEF D2
<1>14. Listed(items)' /\ Listed(newsFile)' /\ Explains(items)' /\ Explains(newsFile)'
  BY <1>1, <1>5, <1>9, <1>11, <1>13 DEF Listed, Explains
<1>15. own \subseteq own' /\ feed \subseteq feed' /\ ahead \subseteq ahead'
  BY <1>1
<1>16. Listed(copy)'
  <2>1. Known \subseteq Known'
    BY <1>15 DEF Known
  <2>2. QED
    BY <1>1, <1>15, <2>1, SoundGrows DEF NewsIInv, Listed
<1>17. ASSUME sync' \in {"copied", "merged"}, ~ blind' PROVE Explains(copy)'
  <2>1. sync \in {"copied", "merged"} /\ ~ blind /\ copy' = copy
    BY <1>1, <1>17
  <2>2. own' \ late' \subseteq own \ late
    BY <1>1, <2>1
  <2>3. Holds(copy, own \ late, Known)
    BY <2>1 DEF NewsIInv, Explains
  <2>4. Holds(copy, own' \ late', Known')
    BY <1>4, <1>15, <2>2, <2>3, ListGrows
  <2>5. QED
    BY <2>1, <2>4 DEF Explains
<1>18. QED
  BY <1>4, <1>14, <1>16, <1>17 DEF NewsIInv

(* What is shown when the save of a post fails: the list as it was, or
   without its first announcement. *)
LEMMA TakenBack ==
  ASSUME NEW q \in Seq(N!Item), Len(q) <= MaxItems, NEW x \in N!Item
  PROVE  LET added == N!Trim(Append(q, x))
             t == SubSeq(added, 1, Len(added) - 1)
         IN  EndOf(t, q) /\ Len(t) <= MaxItems
<1> DEFINE u == Append(q, x)
           added == N!Trim(u)
           m == Len(added)
           t == SubSeq(added, 1, m - 1)
<1>1. MaxItems \in Nat \ {0} /\ Len(q) \in Nat
  BY SiteAssumption, LenProperties DEF N!NewsAssumption
<1>2. /\ u \in Seq(N!Item) /\ Len(u) = Len(q) + 1
      /\ \A i \in 1..Len(q) : u[i] = q[i]
  BY AppendProperties
<1>3. EndOf(added, u) /\ m <= MaxItems /\ m \in Nat
  BY <1>2, TrimIs
<1> HIDE DEF u
<1>4. PICK k \in 0..Len(u) : /\ m = Len(u) - k /\ \A i \in 1..Len(u) - k : added[i] = u[k + i]
                             /\ k = 0 \/ m >= MaxItems - 1
  BY <1>3 DEF EndOf
<1>5. added \in Seq(N!Item) /\ \A i \in 1..m : added[i] \in N!Item
  BY <1>3, LenProperties DEF EndOf
<1>6. Len(u) > MaxItems => m = MaxItems
  <2>1. ASSUME Len(u) > MaxItems PROVE m = MaxItems
    <3>1. added = SubSeq(u, Len(u) - MaxItems + 1, Len(u))
      BY <2>1 DEF N!Trim
    <3>2. \A i \in Len(u) - MaxItems + 1..Len(u) : u[i] \in N!Item
      BY <1>1, <1>2, <2>1, LenProperties
    <3> HIDE DEF added
    <3>3. Len(added) = IF Len(u) - MaxItems + 1 <= Len(u)
                       THEN Len(u) - (Len(u) - MaxItems + 1) + 1 ELSE 0
      BY <1>1, <1>2, <3>1, <3>2, SubSeqProperties
    <3>4. QED
      BY <1>1, <1>2, <3>3
  <2>2. QED
    BY <2>1
<1>7. Len(u) <= MaxItems => m = Len(u)
  BY <1>1, <1>2 DEF N!Trim
<1> HIDE DEF added
<1>8. /\ t \in Seq(N!Item) /\ Len(t) = (IF 1 <= m - 1 THEN m - 1 - 1 + 1 ELSE 0)
      /\ \A i \in 1..m - 1 - 1 + 1 : t[i] = added[1 + i - 1]
  <2>1. 1 \in Int /\ m - 1 \in Int /\ \A i \in 1..m - 1 : added[i] \in N!Item
    BY <1>3, <1>5
  <2> HIDE DEF m
  <2>2. QED
    BY <2>1, SubSeqProperties
<1> HIDE DEF t, m
<1>9. m \in Nat \ {0}
  BY <1>1, <1>2, <1>3, <1>6, <1>7
<1>10. Len(t) = m - 1 /\ \A i \in 1..m - 1 : t[i] = added[i]
  BY <1>8, <1>9
<1>11. k \in 0..Len(q) /\ Len(t) = Len(q) - k
  BY <1>1, <1>2, <1>4, <1>9, <1>10
<1>12. \A i \in 1..Len(q) - k : t[i] = q[k + i]
  BY <1>1, <1>2, <1>4, <1>9, <1>10
<1>13. k = 0 \/ Len(t) >= MaxItems - 1
  BY <1>1, <1>2, <1>4, <1>6, <1>7, <1>9, <1>10
<1>14. EndOf(t, q)
  BY <1>8, <1>11, <1>12, <1>13 DEF EndOf
<1>15. Len(t) <= MaxItems
  BY <1>1, <1>3, <1>10
<1>16. QED
  BY <1>14, <1>15 DEF t, added, m, u

(* Nothing new is known: what is cut from a list explains its losses. *)
LEMMA CutListed ==
  ASSUME NewsTyped, NEW q, NEW t, Listed(q), EndOf(t, q), Len(t) <= MaxItems
  PROVE  Listed(t) /\ (Explains(q) => Explains(t))
<1>1. Listed(t)
  BY EndSound DEF Listed
<1>2. ASSUME Explains(q) PROVE Explains(t)
  <2> DEFINE D == own \ late
  <2>1. Holds(q, D, Known) /\ Sound(q, Known, ahead)
    BY <1>2 DEF Explains, Listed
  <2>2. Known \in SUBSET N!Item /\ ahead \in SUBSET (Articles \X Nat) /\ D \in SUBSET Posts
    BY KnownIs
  <2> HIDE DEF D
  <2>3. Holds(t, D, Known)
    BY <2>1, <2>2, CutIs
  <2>4. QED
    BY <2>3 DEF Explains, D
<1>3. QED
  BY <1>1, <1>2

LEMMA PostFailsInv ==
  ASSUME NewsIInv, N!PostFails
  PROVE  NewsIInv'
<1> DEFINE x == N!Dated(clock')
           added == N!Trim(Append(items, x))
           t == SubSeq(added, 1, Len(added) - 1)
<1>1. /\ clock' \in clock + 1..MaxClock /\ clock \in 0..MaxClock /\ MaxClock \in Nat
      /\ UNCHANGED <<newsFile, feed, sync, copy, own, ahead, blind, late>>
      /\ items' = t
  BY SiteAssumption DEF NewsIInv, NewsTyped, N!PostFails, N!history, N!NewsAssumption
<1>2. clock' \in 1..MaxClock /\ clock' \in clock..MaxClock
  BY <1>1
<1>3. x \in N!Item
  BY <1>2, DatedIs DEF Posts
<1>4. NewsTyped'
  <2>1. /\ clock' \in 0..MaxClock /\ 1..clock \subseteq 1..clock' /\ 0..clock \subseteq 0..clock'
        /\ \A it \in feed : it.at <= clock => it.at <= clock'
    BY <1>2, TimePasses DEF NewsIInv
  <2>2. QED
    BY <1>1, <2>1 DEF NewsIInv, NewsTyped
<1>5. EndOf(t, items) /\ Len(t) <= MaxItems
  <2> HIDE DEF x
  <2>1. items \in Seq(N!Item) /\ Len(items) <= MaxItems
    BY DEF NewsIInv, Listed, Sound
  <2>2. QED
    BY <1>3, <2>1, TakenBack DEF x
<1> HIDE DEF t
<1>6. Listed(t) /\ Explains(t)
  BY <1>5, CutListed DEF NewsIInv
<1>7. QED
  BY <1>1, <1>4, <1>6 DEF NewsIInv, Listed, Explains, Known

LEMMA ArticleInv ==
  ASSUME NewsIInv, N!Article
  PROVE  NewsIInv'
<1>1. PICK it \in N!Item :
        /\ it.author = "feed" /\ feed' = feed \cup {it}
        /\ ahead' = IF it.at > clock' THEN ahead \cup {<<it, clock'>>} ELSE ahead
  BY DEF N!Article
<1>2. clock' \in clock..MaxClock /\ UNCHANGED <<items, newsFile, sync, copy, own, blind, late>>
  BY DEF N!Article
<1>3. /\ clock' \in 0..MaxClock /\ clock' \in 0..clock'
      /\ 1..clock \subseteq 1..clock' /\ 0..clock \subseteq 0..clock'
      /\ \A x \in feed : x.at <= clock => x.at <= clock'
  BY <1>2, TimePasses DEF NewsIInv
<1>4. NewsTyped'
  <2>1. feed' \subseteq Articles
    BY <1>1 DEF NewsIInv, NewsTyped, Articles
  <2>2. ahead' \subseteq feed' \X (0..clock')
    BY <1>1, <1>3 DEF NewsIInv, NewsTyped
  <2>3. it.at <= clock' \/ \E came \in 0..clock' : <<it, came>> \in ahead'
    <3>1. it.at \in Int /\ clock' \in Int
      BY <1>3, ItemIs
    <3>2. CASE it.at > clock'
      BY <1>1, <1>3, <3>2
    <3>3. QED
      BY <3>1, <3>2
  <2>4. \A x \in feed : x.at <= clock' \/ \E came \in 0..clock' : <<x, came>> \in ahead'
    BY <1>1, <1>3 DEF NewsIInv, NewsTyped
  <2>5. \A x \in feed' : x.at <= clock' \/ \E came \in 0..clock' : <<x, came>> \in ahead'
    BY <1>1, <2>3, <2>4
  <2>6. own' \subseteq {N!Dated(d) : d \in 1..clock'}
    BY <1>2, <1>3 DEF NewsIInv, NewsTyped
  <2>7. QED
    BY <1>2, <1>3, <2>1, <2>2, <2>5, <2>6 DEF NewsIInv, NewsTyped
<1>5. ASSUME NEW q
      PROVE  /\ Sound(q, Known, ahead) => Sound(q, Known', ahead')
             /\ Holds(q, own \ late, Known) => Holds(q, own' \ late', Known')
  <2>1. own \subseteq own' /\ feed \subseteq feed' /\ ahead \subseteq ahead'
        /\ own' \ late' \subseteq own \ late
    BY <1>1, <1>2
  <2>2. QED
    BY <1>4, <2>1, ListGrows
<1>6. Listed(items)' /\ Listed(newsFile)' /\ Listed(copy)'
  BY <1>2, <1>5 DEF NewsIInv, Listed
<1>7. Explains(items)' /\ Explains(newsFile)' /\ (Explains(copy) => Explains(copy)')
  BY <1>2, <1>5 DEF NewsIInv, Explains
<1>8. QED
  BY <1>2, <1>4, <1>6, <1>7 DEF NewsIInv

(* The server starts on what the file holds. *)
LEMMA StartInv ==
  ASSUME NewsIInv, NEW started \in {"idle", sync}, NEW kept \in {<<>>, copy},
         items' = N!Trim(newsFile), sync' = started, copy' = kept,
         started \in {"copied", "merged"} => kept = copy,
         UNCHANGED <<newsFile, clock, feed, own, ahead, blind, late>>
  PROVE  NewsIInv'
<1> DEFINE t == N!Trim(newsFile)
<1>1. EndOf(t, newsFile) /\ Len(t) <= MaxItems
  BY TrimIs DEF NewsIInv, Listed, Sound
<1> HIDE DEF t
<1>2. Listed(t) /\ Explains(t)
  BY <1>1, CutListed DEF NewsIInv
<1>3. Listed(items)' /\ Explains(items)' /\ Listed(newsFile)' /\ Explains(newsFile)'
  BY <1>2 DEF t, NewsIInv, Listed, Explains, Known
<1>4. Listed(kept)
  BY EmptyIs, SoundGrows DEF NewsIInv, Listed
<1>5. Listed(copy)'
  BY <1>4 DEF Listed, Known
<1>6. NewsTyped'
  BY DEF NewsIInv, NewsTyped, Known
<1>7. sync' \in {"copied", "merged"} /\ ~ blind' => Explains(copy)'
  BY DEF NewsIInv, Explains, Known
<1>8. QED
  BY <1>3, <1>5, <1>6, <1>7 DEF NewsIInv

(* What the synchronisation does to its copy. *)
LEMMA CopyInv ==
  ASSUME NewsIInv, NEW kept, Listed(kept), copy' = kept,
         sync' \in {"idle", "copied", "merged"}, blind' \in BOOLEAN,
         sync' \in {"copied", "merged"} /\ ~ blind' => Explains(kept),
         UNCHANGED <<items, newsFile, clock, feed, own, ahead, late>>
  PROVE  NewsIInv'
<1>1. Listed(items)' /\ Explains(items)' /\ Listed(newsFile)' /\ Explains(newsFile)'
  BY DEF NewsIInv, Listed, Explains, Known
<1>2. Listed(copy)' /\ (sync' \in {"copied", "merged"} /\ ~ blind' => Explains(copy)')
  BY DEF Listed, Explains, Known
<1>3. NewsTyped'
  BY DEF NewsIInv, NewsTyped, Known
<1>4. QED
  BY <1>1, <1>2, <1>3 DEF NewsIInv

LEMMA SynchroniseInv ==
  ASSUME NewsIInv, N!CopyFile \/ N!CopyFails \/ N!Merge \/ N!Abort
  PROVE  NewsIInv'
<1>1. Listed(<<>>)
  BY EmptyIs, SoundGrows DEF Listed
<1>2. CASE N!CopyFile
  <2>1. Listed(newsFile) /\ Explains(newsFile) /\ blind' \in BOOLEAN
    BY <1>2 DEF N!CopyFile, NewsIInv
  <2>2. QED
    BY <1>2, <2>1, CopyInv DEF N!CopyFile
<1>3. CASE N!CopyFails
  <2>1. /\ copy' = <<>> /\ sync' = "copied" /\ blind' = TRUE
        /\ UNCHANGED <<items, newsFile, clock, feed, own, ahead, late>>
    BY <1>3 DEF N!CopyFails
  <2>2. QED
    BY <1>1, <2>1, CopyInv
<1>4. CASE N!Abort
  <2>1. /\ copy' = <<>> /\ sync' = "idle" /\ blind' = blind /\ blind \in BOOLEAN
        /\ UNCHANGED <<items, newsFile, clock, feed, own, ahead, late>>
    BY <1>4 DEF N!Abort, N!history, NewsIInv, NewsTyped
  <2>2. QED
    BY <1>1, <2>1, CopyInv
<1>5. CASE N!Merge
  <2> DEFINE merged == N!mergeFile(copy, N!toItems(feed))
             left == N!Trim(merged)
             D == own \ late
  <2>1. /\ sync = "copied" /\ blind' = blind /\ blind \in BOOLEAN
        /\ UNCHANGED <<items, newsFile, clock, feed, own, ahead, late>>
        /\ \/ copy' = <<>> /\ sync' = "idle"
           \/ copy' = left /\ sync' = "merged"
    BY <1>5 DEF N!Merge, N!history, NewsIInv, NewsTyped
  <2>2. /\ Known \in SUBSET N!Item /\ own \in SUBSET Posts /\ feed \in SUBSET Articles
        /\ ahead \in SUBSET (Articles \X Nat) /\ D \in SUBSET Posts
        /\ Sound(copy, Known, ahead)
    BY KnownIs DEF NewsIInv, Listed
  <2>3. /\ merged \in Seq(N!Item) /\ Sound(merged, Known, ahead)
        /\ Holds(copy, D, Known) => Holds(merged, D, Known)
    <3> HIDE DEF D
    <3>1. Sound(copy, own \cup feed, ahead)
      BY <2>2 DEF Known
    <3>2. /\ merged \in Seq(N!Item) /\ Sound(merged, own \cup feed, ahead)
          /\ Holds(copy, D, own \cup feed) => Holds(merged, D, own \cup feed)
      BY <2>2, <3>1, MergeIs
    <3> HIDE DEF merged
    <3>3. QED
      BY <3>2 DEF Known
  <2> HIDE DEF merged
  <2>4. EndOf(left, merged) /\ Len(left) <= MaxItems
    BY <2>3, TrimIs
  <2> HIDE DEF left
  <2>5. Listed(left)
    BY <2>3, <2>4, EndSound DEF Listed
  <2>6. ASSUME ~ blind PROVE Explains(left)
    <3>1. Holds(copy, D, Known)
      BY <2>1, <2>6 DEF NewsIInv, Explains, Known
    <3>2. Holds(merged, D, Known)
      BY <2>3, <3>1
    <3> HIDE DEF D
    <3>3. Holds(left, D, Known)
      BY <2>2, <2>3, <2>4, <3>2, CutIs
    <3>4. QED
      BY <3>3 DEF Explains, Known, D
  <2>7. CASE copy' = <<>> /\ sync' = "idle"
    BY <1>1, <2>1, <2>7, CopyInv
  <2>8. CASE copy' = left /\ sync' = "merged"
    BY <2>1, <2>5, <2>6, <2>8, CopyInv
  <2>9. QED
    BY <2>1, <2>7, <2>8
<1>6. QED
  BY <1>2, <1>3, <1>4, <1>5

(* A push that could not read the file replaces every post: all count as
   late.  Else the copy explains what it lacks. *)
LEMMA PushInv ==
  ASSUME NewsIInv, N!Push
  PROVE  NewsIInv'
<1>1. /\ sync = "merged" /\ sync' = "pushed" /\ newsFile' = copy
      /\ late' = (IF blind THEN own ELSE late)
      /\ UNCHANGED <<items, clock, feed, copy, own, ahead, blind>>
  BY DEF N!Push
<1>2. NewsTyped'
  BY <1>1 DEF NewsIInv, NewsTyped, Known
<1>3. Listed(items)' /\ Listed(newsFile)' /\ Listed(copy)'
  BY <1>1 DEF NewsIInv, Listed, Known
<1>4. CASE blind
  <2>1. own' \ late' = {}
    BY <1>1, <1>4
  <2>2. QED
    BY <1>1, <1>2, <1>3, <2>1 DEF NewsIInv, Explains, Holds
<1>5. CASE ~ blind
  <2>1. Explains(items) /\ Explains(copy)
    BY <1>1, <1>5 DEF NewsIInv
  <2>2. Explains(items)' /\ Explains(newsFile)'
    BY <1>1, <1>5, <2>1 DEF Explains, Known
  <2>3. QED
    BY <1>1, <1>2, <1>3, <2>2 DEF NewsIInv
<1>6. QED
  BY <1>4, <1>5

LEMMA NewsNextInv == NewsIInv /\ N!Next => NewsIInv'
<1> SUFFICES ASSUME NewsIInv, N!Next PROVE NewsIInv'
  OBVIOUS
<1>1. CASE N!Post
  BY <1>1, PostInv
<1>2. CASE N!PostFails
  BY <1>2, PostFailsInv
<1>3. CASE N!Article
  BY <1>3, ArticleInv
<1>4. CASE N!Open
  BY <1>4, StartInv DEF N!Open, N!history
<1>5. CASE N!Restart
  BY <1>5, StartInv DEF N!Restart, N!history
<1>6. CASE N!Push
  BY <1>6, PushInv
<1>7. CASE N!CopyFile \/ N!CopyFails \/ N!Merge \/ N!Abort
  BY <1>7, SynchroniseInv
<1>8. QED
  BY <1>1, <1>2, <1>3, <1>4, <1>5, <1>6, <1>7 DEF N!Next, N!Synchronise

-----------------------------------------------------------------------------
(* Types of the site and of the session.  An entry of a menu is remembered
   while its applet runs, and no longer. *)

SiteIInv == SiteTypeOK /\ (phase \in {"top", "key"} => entry = NoEntry)

LEMMA SiteInitInv == Init => SiteIInv
<1> SUFFICES ASSUME Init PROVE SiteIInv
  OBVIOUS
<1>1. ContentTypeOK
  BY ContentAssumption DEF Init, NewStore, ContentTypeOK
<1>2. SessionTypeOK
  <2>1. Len(<<site.start>>) = 1 /\ 1 <= MaxDepth
    BY NavigationAssumption
  <2>2. QED
    BY <2>1 DEF Init, SessionTypeOK
<1>3. QED
  BY <1>1, <1>2 DEF Init, SiteIInv, SiteTypeOK

LEMMA ContentTyped ==
  ASSUME ContentTypeOK, Edit \/ Watch
  PROVE  ContentTypeOK'
<1>1. CASE Edit
  <2>1. PICK v \in Sites \cup Unusable : Write(v)
    BY <1>1 DEF Edit, Save, StartCopy, EndCopy
  <2>2. mtime + 1 \in 1..MaxWrites + 1
    BY <2>1, ContentAssumption DEF Write, ContentTypeOK
  <2>3. QED
    BY <2>1, <2>2 DEF Write, ContentTypeOK
<1>2. CASE Watch
  <2>1. 1..MaxWrites + 1 \subseteq 0..MaxWrites + 1
    OBVIOUS
  <2>2. QED
    BY <1>2, <2>1 DEF Watch, Poll, ReloadStat, ReloadRead, Memorise, ContentTypeOK
<1>3. QED
  BY <1>1, <1>2

LEMMA SessionTyped ==
  ASSUME SiteIInv, IInv, Session \/ Cancel, UNCHANGED contentVars
  PROVE  SessionTypeOK' /\ (phase \in {"top", "key"} => entry = NoEntry)'
<1> DEFINE Goal == SessionTypeOK' /\ (phase \in {"top", "key"} => entry = NoEntry)'
<1>1. /\ SessionTypeOK /\ (phase \in {"top", "key"} => entry = NoEntry)
      /\ site' = site
  BY DEF SiteIInv, SiteTypeOK, contentVars
<1>2. ASSUME NEW q, Resume(q), UNCHANGED <<hiresActive, cancelled>>, terminal' \in {terminal, "text"}
      PROVE  Goal
  BY <1>1, <1>2 DEF Resume, SessionTypeOK, page
<1>3. ASSUME NEW why \in {"quit", "io", "shutdown", "emptied", "nowhere"}, End(why),
             UNCHANGED <<hiresActive, terminal, cancelled>>
      PROVE  Goal
  BY <1>1, <1>3 DEF End, SessionTypeOK, page
<1>4. CASE Return \/ AppletQuits \/ Disconnect
  BY <1>3, <1>4 DEF Return, AppletQuits, Disconnect
<1>5. CASE PageGone
  BY <1>2, <1>5 DEF PageGone
<1>6. CASE ShowPage
  <2>1. now'.site = site /\ now'.id = Last(stack) /\ Last(stack) \in DOMAIN site.pages
    BY <1>6 DEF ShowPage
  <2>2. entry = NoEntry /\ entry' = entry
    BY <1>1, <1>6 DEF ShowPage
  <2>3. QED
    BY <1>1, <1>6, <2>1, <2>2 DEF ShowPage, Restore, SessionTypeOK
<1>7. CASE Key
  <2>1. CASE AnyKey \/ InvalidKey
    BY <1>2, <1>7, <2>1 DEF Key, AnyKey, InvalidKey
  <2>2. ASSUME NEW e \in page.entries, Choose(e) PROVE Goal
    <3>1. CASE e.does = "applet" /\ phase' = "applet" /\ entry' = e /\ UNCHANGED <<stack, now, ended>>
      BY <1>1, <1>7, <2>2, <3>1 DEF Key, Choose, SessionTypeOK, page
    <3>2. QED
      BY <1>2, <1>3, <1>7, <2>2, <3>1 DEF Key, Choose
  <2>3. QED
    BY <1>7, <2>1, <2>2 DEF Key
<1>8. CASE AppletReturns
  <2>1. \E q : Resume(q)
    BY <1>8 DEF AppletReturns, LeavePage, LeaveGrid, LeaveEntry
  <2>2. QED
    BY <1>2, <1>8, <2>1 DEF AppletReturns
<1>9. CASE Cancel
  BY <1>1, <1>9 DEF Cancel, SessionTypeOK, page
<1>10. QED
  BY <1>4, <1>5, <1>6, <1>7, <1>8, <1>9 DEF Session

LEMMA SiteNextInv == SiteIInv /\ IInv /\ [Next]_vars => SiteIInv'
<1> SUFFICES ASSUME SiteIInv, IInv, [Next]_vars PROVE SiteIInv'
  OBVIOUS
<1>1. CASE (Edit \/ Watch) /\ UNCHANGED sessionVars
  <2>1. ContentTypeOK'
    BY <1>1, ContentTyped DEF SiteIInv, SiteTypeOK
  <2>2. QED
    BY <1>1, <2>1 DEF SiteIInv, SiteTypeOK, SessionTypeOK, sessionVars, page
<1>2. CASE (Session \/ Cancel) /\ UNCHANGED contentVars
  <2>1. ContentTypeOK'
    BY <1>2 DEF SiteIInv, SiteTypeOK, ContentTypeOK, contentVars
  <2>2. QED
    BY <1>2, <2>1, SessionTyped DEF SiteIInv, SiteTypeOK
<1>3. CASE UNCHANGED vars
  BY <1>3 DEF SiteIInv, SiteTypeOK, ContentTypeOK, SessionTypeOK, vars, sessionVars, contentVars, page
<1>4. QED
  BY <1>1, <1>2, <1>3 DEF Next

-----------------------------------------------------------------------------
(* Both parts: each behaviour changes one and leaves the other alone. *)

AroundInv == IInv /\ SiteIInv /\ NewsIInv

LEMMA AroundInitInv == AroundInit => AroundInv
BY InitInv, SiteInitInv, NewsInitInv DEF AroundInit, AroundInv

LEMMA AroundNextInv == AroundInv /\ [AroundNext]_all => AroundInv'
<1> SUFFICES ASSUME AroundInv, [AroundNext]_all PROVE AroundInv'
  OBVIOUS
<1>1. CASE InSite(Next)
  <2>1. [Next]_vars /\ UNCHANGED newsVars
    BY <1>1 DEF InSite
  <2>2. QED
    BY <2>1, NextInv, SiteNextInv, NewsStutter DEF AroundInv
<1>2. CASE InNews(N!Next)
  <2>1. [Next]_vars /\ N!Next
    BY <1>2 DEF InNews
  <2>2. QED
    BY <2>1, NextInv, SiteNextInv, NewsNextInv DEF AroundInv
<1>3. CASE UNCHANGED all
  <2>1. [Next]_vars /\ UNCHANGED newsVars
    BY <1>3 DEF all
  <2>2. QED
    BY <2>1, NextInv, SiteNextInv, NewsStutter DEF AroundInv
<1>4. QED
  BY <1>1, <1>2, <1>3 DEF AroundNext

(* However many announcements are kept or imported, and whatever dates the
   feed gives (past, equal or to come): the list shown names no announcement
   twice, and each stands behind those before it in date, but for a post made
   after an article dated ahead of it had come.  Whatever the synchronisation
   put in place of the list, and wherever it stopped (Post in
   news.go, mergeFile in rssnews, oric-rss-sync.sh). *)
THEOREM NewsInOrder == AroundSpec => []Chronological
<1>1. AroundInv => Chronological
  <2> SUFFICES ASSUME AroundInv PROVE SiteTypeOK /\ N!TypeOK /\ N!Chronological
    BY DEF Chronological
  <2>1. SiteTypeOK
    BY DEF AroundInv, SiteIInv
  <2>2. N!TypeOK
    <3>1. NewsIInv
      BY DEF AroundInv
    <3>2. feed \subseteq N!Item
      BY <3>1 DEF NewsIInv, NewsTyped, Articles
    <3>3. QED
      BY <3>1, <3>2 DEF NewsIInv, NewsTyped, Listed, Sound, N!TypeOK
  <2>3. N!Chronological
    BY DEF AroundInv, NewsIInv, Listed, Sound, Fits, Jumps, N!Overtakes, N!Chronological
  <2>4. QED
    BY <2>1, <2>2, <2>3
<1>2. QED
  BY AroundInitInv, AroundNextInv, <1>1, PTL DEF AroundSpec

(* Likewise: a post of the sysop is missing from the file only for a reason
   that is known: pushed out by later ones, made during a synchronisation, or
   replaced by one that could not read the file. *)
THEOREM LossesHaveReasons == AroundSpec => []LossesExplained
<1>1. AroundInv => LossesExplained
  <2> SUFFICES ASSUME AroundInv, NEW d \in own \ late PROVE N!Kept(d) \/ N!PushedOut(d)
    BY DEF LossesExplained, N!LossesExplained
  <2>1. Has(newsFile, d) \/ After(Known, d) >= MaxItems - 1
    BY DEF AroundInv, NewsIInv, Explains, Holds
  <2>2. CASE Has(newsFile, d)
    BY <2>2 DEF Has, N!Kept, N!Elements
  <2>3. CASE After(Known, d) >= MaxItems - 1
    BY <2>3, NewsSets DEF After, Known, N!PushedOut
  <2>4. QED
    BY <2>1, <2>2, <2>3
<1>2. QED
  BY AroundInitInv, AroundNextInv, <1>1, PTL DEF AroundSpec
=============================================================================
