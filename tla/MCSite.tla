-------------------------------- MODULE MCSite --------------------------------
(***************************************************************************)
(* Three sites that replace each other under a visitor, for the module     *)
(* Site.                                                                   *)
(***************************************************************************)
EXTENDS Site, TLC

CONSTANTS main, hall, art, card, enrol

(* Three sites that share pages of different kinds and start elsewhere, and
   the built-in site. *)
MCPageIds == {main, hall, art, card, enrol}

Go(id) == [NoEntry EXCEPT !.does = "go", !.target = id]
Run(next, fail) == [does |-> "applet", target |-> None, next |-> next, fail |-> fail]
Special(what) == [NoEntry EXCEPT !.does = what]
Page(kind, entries) == [kind |-> kind, entries |-> entries, next |-> None, fail |-> None]

First ==
  [start |-> main,
   pages |->
     main :> Page("menu", {Go(art), Go(enrol), Run(card, enrol), Special("back"), Special("quit")}) @@
     art :> Page("hires", {Go(card), Run(None, None), Special("back"), Special("home")}) @@
     card :> Page("content", {}) @@
     enrol :> [Page("form", {}) EXCEPT !.next = art, !.fail = card]]

Second ==
  [start |-> hall,
   pages |->
     hall :> Page("menu", {Go(main), Go(card), Special("quit")}) @@
     main :> Page("hires", {}) @@
     art :> Page("grid", {}) @@
     card :> [Page("applet", {}) EXCEPT !.next = main]]

Third ==
  [start |-> card,
   pages |-> card :> [Page("applet", {}) EXCEPT !.next = enrol] @@
             enrol :> Page("menu", {Go(card), Special("back"), Special("home")})]

MCSites == {First, Second, Third}

MCDefaultSite ==
  [start |-> main,
   pages |-> main :> Page("menu", {Go(card), Special("quit")}) @@ card :> Page("content", {})]
=============================================================================
