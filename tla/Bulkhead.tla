------------------------------ MODULE Bulkhead ------------------------------
(***************************************************************************)
(* What the connection guards of the server promise, whatever their        *)
(* implementation: at most MaxConns sessions at a time, at most            *)
(* MaxConnsPerIP of them from one address, zero meaning no limit.          *)
(***************************************************************************)
EXTENDS Integers, FiniteSets

CONSTANTS
  Conns,          (* the TCP connections clients may open      *)
  IPs,            (* the addresses they come from              *)
  RemoteIP,       (* the address of each connection            *)
  MaxConns,       (* global limit of simultaneous sessions     *)
  MaxConnsPerIP   (* limit of simultaneous sessions of an IP   *)

VARIABLE live    (* the connections whose session has been let in *)

FromIP(S, ip) == {c \in S : RemoteIP[c] = ip}

Within(S) ==
  /\ MaxConns > 0 => Cardinality(S) <= MaxConns
  /\ MaxConnsPerIP > 0 => \A ip \in IPs : Cardinality(FromIP(S, ip)) <= MaxConnsPerIP

BInit == live = {}

Admit(c) ==
  /\ c \notin live
  /\ live' = live \cup {c}
  /\ Within(live')

Depart(c) ==
  /\ c \in live
  /\ live' = live \ {c}

BNext == \E c \in Conns : Admit(c) \/ Depart(c)

BSpec == BInit /\ [][BNext]_live
=============================================================================
