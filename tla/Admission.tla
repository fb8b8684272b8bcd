------------------------------ MODULE Admission ------------------------------
(***************************************************************************)
(* The life of a TCP connection in the server: the Accept loop of each     *)
(* listener, the two guards of serveConn (global semaphore, counter per    *)
(* IP), the session, the deferred releases in the order Go runs them, and  *)
(* the shutdown.  Every access to a shared object (channel, mutex, atomic  *)
(* counter) is a step of its own, so that goroutines interleave as they do *)
(* in the program.                                                         *)
(***************************************************************************)
EXTENDS Integers, FiniteSets

CONSTANTS
  Conns, IPs, RemoteIP, MaxConns, MaxConnsPerIP,
  Listeners,      (* the plain and the TLS listener, which share the server *)
  Via             (* the listener each connection reaches                   *)

ASSUME AdmissionAssumption ==
  /\ IsFiniteSet(Conns)
  /\ RemoteIP \in [Conns -> IPs]
  /\ Via \in [Conns -> Listeners]
  /\ MaxConns \in Nat
  /\ MaxConnsPerIP \in Int

VARIABLES
  cancelled,      (* the context is done (SIGINT, SIGTERM)                  *)
  lnOpen,         (* the listeners that are not closed                      *)
  serve,          (* the state of each call of Serve                        *)
  pc,             (* where the goroutine of each connection is              *)
  refused,        (* the connections a guard turned away (history)          *)
  slots,          (* tokens held in the semaphore channel                   *)
  perIP,          (* sessions counted per address (an absent key is 0)      *)
  connTotal, connActive, connRejected

counters == <<connTotal, connActive, connRejected>>
guards == <<slots, perIP>>
loop == <<cancelled, lnOpen, serve>>
vars == <<loop, pc, refused, guards, counters>>

Undecided == {"arrived", "slotted", "overIP"}
HoldsIP == {"admitted", "serving", "ended", "inactive"}
HoldsSlot == HoldsIP \cup {"slotted", "overIP", "freeing"}
Active == {"serving", "ended"}
Running == Undecided \cup HoldsSlot \cup {"spawned", "closing"}

In(S) == {c \in Conns : pc[c] \in S}

TypeOK ==
  /\ cancelled \in BOOLEAN
  /\ lnOpen \subseteq Listeners
  /\ serve \in [Listeners -> {"accepting", "draining", "stopped"}]
  /\ pc \in [Conns -> Running \cup {"idle", "done"}]
  /\ refused \subseteq Conns
  /\ slots \in Nat
  /\ perIP \in [IPs -> Nat]
  /\ connTotal \in Nat /\ connActive \in Nat /\ connRejected \in Nat

Init ==
  /\ cancelled = FALSE
  /\ lnOpen = Listeners
  /\ serve = [l \in Listeners |-> "accepting"]
  /\ pc = [c \in Conns |-> "idle"]
  /\ refused = {}
  /\ slots = 0
  /\ perIP = [ip \in IPs |-> 0]
  /\ connTotal = 0 /\ connActive = 0 /\ connRejected = 0

Goto(c, from, to) == pc[c] = from /\ pc' = [pc EXCEPT ![c] = to]

-----------------------------------------------------------------------------
(* Serve *)

Cancel ==
  /\ ~ cancelled
  /\ cancelled' = TRUE
  /\ UNCHANGED <<lnOpen, serve, pc, refused, guards, counters>>

(* Mutant: nobody closes the listener, Accept waits for ever. *)
NeverCloseListener(l) == FALSE

CloseListener(l) ==
  /\ cancelled /\ l \in lnOpen
  /\ lnOpen' = lnOpen \ {l}
  /\ UNCHANGED <<cancelled, serve, pc, refused, guards, counters>>

Accept(c) ==
  /\ Via[c] \in lnOpen
  /\ serve[Via[c]] = "accepting"
  /\ Goto(c, "idle", "spawned")
  /\ UNCHANGED <<loop, refused, guards, counters>>

(* Accept fails (closed listener or passing error) once the context is done. *)
StopAccepting(l) ==
  /\ cancelled /\ serve[l] = "accepting"
  /\ serve' = [serve EXCEPT ![l] = "draining"]
  /\ UNCHANGED <<cancelled, lnOpen, pc, refused, guards, counters>>

(* Mutant: Serve returns without waiting for its goroutines. *)
ReturnAtOnce(l) ==
  /\ serve[l] = "draining"
  /\ serve' = [serve EXCEPT ![l] = "stopped"]
  /\ UNCHANGED <<cancelled, lnOpen, pc, refused, guards, counters>>

(* wg.Wait returns when every goroutine this Serve started is done. *)
Drained(l) ==
  /\ serve[l] = "draining"
  /\ \A c \in Conns : Via[c] = l => pc[c] \notin Running
  /\ serve' = [serve EXCEPT ![l] = "stopped"]
  /\ UNCHANGED <<cancelled, lnOpen, pc, refused, guards, counters>>

-----------------------------------------------------------------------------
(* serveConn *)

CountArrival(c) ==
  /\ Goto(c, "spawned", "arrived")
  /\ connTotal' = connTotal + 1
  /\ UNCHANGED <<loop, refused, guards, connActive, connRejected>>

TakeSlot(c) ==
  /\ MaxConns > 0 => slots < MaxConns
  /\ Goto(c, "arrived", "slotted")
  /\ slots' = IF MaxConns > 0 THEN slots + 1 ELSE slots
  /\ UNCHANGED <<loop, refused, perIP, counters>>

Saturated(c) ==
  /\ MaxConns > 0 /\ slots >= MaxConns
  /\ Goto(c, "arrived", "closing")
  /\ refused' = refused \cup {c}
  /\ connRejected' = connRejected + 1
  /\ UNCHANGED <<loop, guards, connTotal, connActive>>

(* Mutant: the limit is compared with <=. *)
AcquireIPOneMore(c) ==
  /\ MaxConnsPerIP > 0 => perIP[RemoteIP[c]] <= MaxConnsPerIP
  /\ Goto(c, "slotted", "admitted")
  /\ perIP' = IF MaxConnsPerIP > 0 THEN [perIP EXCEPT ![RemoteIP[c]] = @ + 1] ELSE perIP
  /\ UNCHANGED <<loop, refused, slots, counters>>

AcquireIP(c) ==
  /\ MaxConnsPerIP > 0 => perIP[RemoteIP[c]] < MaxConnsPerIP
  /\ Goto(c, "slotted", "admitted")
  /\ perIP' = IF MaxConnsPerIP > 0 THEN [perIP EXCEPT ![RemoteIP[c]] = @ + 1] ELSE perIP
  /\ UNCHANGED <<loop, refused, slots, counters>>

IPFull(c) ==
  /\ MaxConnsPerIP > 0 /\ perIP[RemoteIP[c]] >= MaxConnsPerIP
  /\ Goto(c, "slotted", "overIP")
  /\ UNCHANGED <<loop, refused, guards, counters>>

(* Mutant: the address is released though it was never acquired. *)
RejectIPReleases(c) ==
  /\ Goto(c, "overIP", "inactive")
  /\ refused' = refused \cup {c}
  /\ connRejected' = connRejected + 1
  /\ UNCHANGED <<loop, guards, connTotal, connActive>>

RejectIP(c) ==
  /\ Goto(c, "overIP", "freeing")
  /\ refused' = refused \cup {c}
  /\ connRejected' = connRejected + 1
  /\ UNCHANGED <<loop, guards, connTotal, connActive>>

Activate(c) ==
  /\ Goto(c, "admitted", "serving")
  /\ connActive' = connActive + 1
  /\ UNCHANGED <<loop, refused, guards, connTotal, connRejected>>

HandlerReturns(c) ==
  /\ Goto(c, "serving", "ended")
  /\ UNCHANGED <<loop, refused, guards, counters>>

Deactivate(c) ==
  /\ Goto(c, "ended", "inactive")
  /\ connActive' = connActive - 1
  /\ UNCHANGED <<loop, refused, guards, connTotal, connRejected>>

(* A key whose count falls to zero is deleted, that is, back to 0. *)
ReleaseIP(c) ==
  /\ Goto(c, "inactive", "freeing")
  /\ perIP' = IF MaxConnsPerIP > 0 THEN [perIP EXCEPT ![RemoteIP[c]] = IF @ - 1 <= 0 THEN 0 ELSE @ - 1]
                                   ELSE perIP
  /\ UNCHANGED <<loop, refused, slots, counters>>

(* Mutant: the deferred function sends into the channel instead of receiving. *)
FreeSlotSends(c) ==
  /\ MaxConns > 0 => slots < MaxConns
  /\ Goto(c, "freeing", "closing")
  /\ slots' = IF MaxConns > 0 THEN slots + 1 ELSE slots
  /\ UNCHANGED <<loop, refused, perIP, counters>>

FreeSlot(c) ==
  /\ Goto(c, "freeing", "closing")
  /\ slots' = IF MaxConns > 0 THEN slots - 1 ELSE slots
  /\ UNCHANGED <<loop, refused, perIP, counters>>

(* conn.Close, then wg.Done *)
Close(c) ==
  /\ Goto(c, "closing", "done")
  /\ UNCHANGED <<loop, refused, guards, counters>>

(* What the server does by itself, the session apart. *)
ownStep(c) ==
  \/ CountArrival(c) \/ TakeSlot(c) \/ Saturated(c) \/ AcquireIP(c) \/ IPFull(c)
  \/ RejectIP(c) \/ Activate(c) \/ Deactivate(c)
  \/ ReleaseIP(c) \/ FreeSlot(c) \/ Close(c)

serveConn(c) == ownStep(c) \/ HandlerReturns(c)

Serve(l) == CloseListener(l) \/ StopAccepting(l) \/ Drained(l)

Next ==
  \/ Cancel
  \/ \E l \in Listeners : Serve(l)
  \/ \E c \in Conns : Accept(c) \/ serveConn(c)

Spec == Init /\ [][Next]_vars

-----------------------------------------------------------------------------
(* Properties *)

(* The semaphore holds one token per goroutine that took one, and no more
   than its capacity: no path of serveConn leaks or returns a token twice. *)
SlotsExact ==
  MaxConns > 0 => slots = Cardinality(In(HoldsSlot)) /\ slots <= MaxConns

(* The counter of an address is the number of its sessions between
   acquireIP and releaseIP, and never above the limit. *)
PerIPExact ==
  MaxConnsPerIP > 0 =>
    \A ip \in IPs :
      /\ perIP[ip] = Cardinality({c \in In(HoldsIP) : RemoteIP[c] = ip})
      /\ perIP[ip] <= MaxConnsPerIP

(* The supervision counters agree with what happened to the connections. *)
CountersExact ==
  /\ connTotal = Cardinality(In(Running \cup {"done"}) \ In({"spawned"}))
  /\ connActive = Cardinality(In(Active))
  /\ connRejected = Cardinality(refused)

(* A refused connection never reaches the handler. *)
RefusedNeverServed == refused \cap In(HoldsIP) = {}

(* What the guards and the counters promise together: no path of serveConn,
   in whatever order the goroutines run, leaks or returns anything twice. *)
GuardsExact == SlotsExact /\ PerIPExact /\ CountersExact /\ RefusedNeverServed

(* Serve returns only after every session it accepted has been closed. *)
StopsAfterSessions ==
  \A c \in Conns : serve[Via[c]] = "stopped" => pc[c] \in {"idle", "done"}

(* The guards implement the bulkhead: a session is live from acquireIP to
   releaseIP. *)
B == INSTANCE Bulkhead WITH live <- In(HoldsIP)
ImplementsBulkhead == B!BSpec
=============================================================================
