-------------------------------- MODULE MCBbsd --------------------------------
EXTENDS Bbsd

CONSTANTS c1, c2, c3, ipA, ipB, plain, tls

MCConns == {c1, c2, c3}
MCIPs == {ipA, ipB}
MCListeners == {plain, tls}

(* Two connections of one address, and one of each listener among them. *)
MCRemoteIP == [c \in Conns |-> IF c = c3 THEN ipB ELSE ipA]
MCVia == [c \in Conns |-> IF c = c2 THEN tls ELSE plain]
=============================================================================
