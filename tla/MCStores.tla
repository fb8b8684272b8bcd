------------------------------ MODULE MCStores ------------------------------
(***************************************************************************)
(* Two writers, or sessions, that share the stores.                        *)
(***************************************************************************)
EXTENDS Stores, TLC

CONSTANTS w1, w2, v1, v2, a, b, t1, t2, anna, bob, ip, h1, h2

MCWriters == {w1, w2}
MCVersions == {v1, v2}
MCNames == {a, b}
MCTemps == {t1, t2}
MCSizes == {1, 2}
MCValues == {1, 2}
MCFilters == {{}}   \* a filter that nothing passes
MCOrders == {"key", "desc"}
MCInitial == <<2>>
MCAnswer == <<2, 1>>
MCMembers == {anna, bob}
OwnMailbox == w1 :> anna @@ w2 :> bob
MCIPs == {ip}
Here == [s \in MCWriters |-> ip]
MCHandles == {h1, h2}

(* The two play the same part, each with its mailbox. *)
Swap == w1 :> w2 @@ w2 :> w1 @@ anna :> bob @@ bob :> anna
Stay == [x \in DOMAIN Swap |-> x]
Symmetry == {s : s \in {Stay, Swap}}
=============================================================================
