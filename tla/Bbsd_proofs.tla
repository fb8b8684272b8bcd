----------------------------- MODULE Bbsd_proofs -----------------------------
(***************************************************************************)
(* The guards of serveConn hold for any number of connections, addresses   *)
(* and listeners and for any limits, and implement the bulkhead; the       *)
(* process around the server ends no session of the plain listener.        *)
(***************************************************************************)
EXTENDS Bbsd, FiniteSetTheorems, TLAPS

(* The connections of P whose goroutine is at one of the points S. *)
At(S, P) == {c \in Conns : c \in P /\ pc[c] \in S}

Of(ip) == {c \in Conns : RemoteIP[c] = ip}

Arrived == (Running \cup {"done"}) \ {"spawned"}

Ind(x, S) == IF x \in S THEN 1 ELSE 0

(* The counters are the sizes of the sets they count. *)
Counted ==
  /\ slots = IF MaxConns > 0 THEN Cardinality(At(HoldsSlot, Conns)) ELSE 0
  /\ \A ip \in IPs :
       perIP[ip] = IF MaxConnsPerIP > 0 THEN Cardinality(At(HoldsIP, Of(ip))) ELSE 0
  /\ connTotal = Cardinality(At(Arrived, Conns))
  /\ connActive = Cardinality(At(Active, Conns))
  /\ connRejected = Cardinality(refused)

Bounded ==
  /\ MaxConns > 0 => slots <= MaxConns
  /\ MaxConnsPerIP > 0 => \A ip \in IPs : perIP[ip] <= MaxConnsPerIP

RefusedOut == \A c \in refused : pc[c] \in {"freeing", "closing", "done"}

IInv == TypeOK /\ Counted /\ Bounded /\ RefusedOut /\ StopsAfterSessions

-----------------------------------------------------------------------------

(* One goroutine moving from a point to another changes the size of a set
   At(S, P) by one exactly when it enters or leaves S and belongs to P. *)
LEMMA MoveCard ==
  ASSUME TypeOK, NEW S, NEW P, NEW c \in Conns, NEW from, NEW to, Goto(c, from, to)
  PROVE  /\ Cardinality(At(S, P)) \in Nat
         /\ Cardinality(At(S, P))'
              = IF c \in P THEN Cardinality(At(S, P)) + Ind(to, S) - Ind(from, S)
                           ELSE Cardinality(At(S, P))
         /\ c \in P /\ from \in S => Cardinality(At(S, P)) > 0
<1>1. pc[c] = from /\ pc' = [pc EXCEPT ![c] = to] /\ pc \in [Conns -> Running \cup {"idle", "done"}]
  BY DEF Goto, TypeOK
<1>2. IsFiniteSet(At(S, P))
  BY AdmissionAssumption, FS_Subset DEF At
<1>3. Cardinality(At(S, P)) \in Nat
  BY <1>2, FS_CardinalityType
<1>4. ASSUME c \in P, from \notin S, to \in S
      PROVE  Cardinality(At(S, P))' = Cardinality(At(S, P)) + 1
  <2>1. At(S, P)' = At(S, P) \cup {c} /\ c \notin At(S, P)
    BY <1>1, <1>4 DEF At
  <2>2. QED
    BY <2>1, <1>2, FS_AddElement
<1>5. ASSUME c \in P, from \in S, to \notin S
      PROVE  Cardinality(At(S, P))' = Cardinality(At(S, P)) - 1
  <2>1. At(S, P)' = At(S, P) \ {c} /\ c \in At(S, P)
    BY <1>1, <1>5 DEF At
  <2>2. QED
    BY <2>1, <1>2, FS_RemoveElement
<1>6. ASSUME c \notin P \/ (from \in S <=> to \in S)
      PROVE  Cardinality(At(S, P))' = Cardinality(At(S, P))
  <2>1. At(S, P)' = At(S, P)
    BY <1>1, <1>6 DEF At
  <2>2. QED
    BY <2>1
<1>7. ASSUME c \in P, from \in S
      PROVE  Cardinality(At(S, P)) > 0
  <2>1. c \in At(S, P)
    BY <1>1, <1>7 DEF At
  <2>2. QED
    BY <2>1, <1>2, <1>3, FS_EmptySet
<1>8. QED
  BY <1>3, <1>4, <1>5, <1>6, <1>7 DEF Ind

(* The same for every set the invariant counts. *)
LEMMA Effects ==
  ASSUME TypeOK, NEW c \in Conns, NEW from, NEW to, Goto(c, from, to)
  PROVE  /\ pc[c] = from
         /\ pc' = [pc EXCEPT ![c] = to]
         /\ Cardinality(At(HoldsSlot, Conns))'
              = Cardinality(At(HoldsSlot, Conns)) + Ind(to, HoldsSlot) - Ind(from, HoldsSlot)
         /\ \A ip \in IPs : Cardinality(At(HoldsIP, Of(ip)))'
              = IF RemoteIP[c] = ip
                THEN Cardinality(At(HoldsIP, Of(ip))) + Ind(to, HoldsIP) - Ind(from, HoldsIP)
                ELSE Cardinality(At(HoldsIP, Of(ip)))
         /\ Cardinality(At(Arrived, Conns))'
              = Cardinality(At(Arrived, Conns)) + Ind(to, Arrived) - Ind(from, Arrived)
         /\ Cardinality(At(Active, Conns))'
              = Cardinality(At(Active, Conns)) + Ind(to, Active) - Ind(from, Active)
         /\ \A S, P : Cardinality(At(S, P)) \in Nat
         /\ (from \in HoldsSlot) => Cardinality(At(HoldsSlot, Conns)) > 0
         /\ (from \in Active) => Cardinality(At(Active, Conns)) > 0
         /\ (from \in HoldsIP) => Cardinality(At(HoldsIP, Of(RemoteIP[c]))) > 0
<1>1. pc[c] = from /\ pc' = [pc EXCEPT ![c] = to]
  BY DEF Goto
<1>2. c \in Of(RemoteIP[c]) /\ \A ip : c \in Of(ip) <=> RemoteIP[c] = ip
  BY DEF Of
<1>3. \A ip \in IPs : Cardinality(At(HoldsIP, Of(ip)))'
         = IF RemoteIP[c] = ip
           THEN Cardinality(At(HoldsIP, Of(ip))) + Ind(to, HoldsIP) - Ind(from, HoldsIP)
           ELSE Cardinality(At(HoldsIP, Of(ip)))
  BY <1>2, MoveCard
<1>4. \A S, P : Cardinality(At(S, P)) \in Nat
  BY MoveCard
<1>5. Cardinality(At(HoldsSlot, Conns))'
        = Cardinality(At(HoldsSlot, Conns)) + Ind(to, HoldsSlot) - Ind(from, HoldsSlot)
  BY MoveCard
<1>6. Cardinality(At(Arrived, Conns))'
        = Cardinality(At(Arrived, Conns)) + Ind(to, Arrived) - Ind(from, Arrived)
  BY MoveCard
<1>7. Cardinality(At(Active, Conns))'
        = Cardinality(At(Active, Conns)) + Ind(to, Active) - Ind(from, Active)
  BY MoveCard
<1>8. /\ (from \in HoldsSlot) => Cardinality(At(HoldsSlot, Conns)) > 0
      /\ (from \in Active) => Cardinality(At(Active, Conns)) > 0
      /\ (from \in HoldsIP) => Cardinality(At(HoldsIP, Of(RemoteIP[c]))) > 0
  BY <1>2, MoveCard
<1>9. QED
  BY <1>1, <1>3, <1>4, <1>5, <1>6, <1>7, <1>8

LEMMA InitIInv == Init => IInv
<1> SUFFICES ASSUME Init PROVE IInv
  OBVIOUS
<1>1. \A S, P : "idle" \notin S => At(S, P) = {}
  BY DEF Init, At
<1>2. /\ At(HoldsSlot, Conns) = {} /\ At(Arrived, Conns) = {} /\ At(Active, Conns) = {}
      /\ \A ip \in IPs : At(HoldsIP, Of(ip)) = {}
  BY <1>1 DEF HoldsSlot, HoldsIP, Arrived, Active, Running, Undecided
<1>3. TypeOK /\ RefusedOut
  BY DEF Init, TypeOK, RefusedOut
<1>4. Bounded /\ StopsAfterSessions
  BY AdmissionAssumption DEF Init, Bounded, StopsAfterSessions
<1>5. Counted
  BY <1>2, FS_EmptySet DEF Init, Counted
<1>6. QED
  BY <1>3, <1>4, <1>5 DEF IInv

(* A step that leaves every goroutine where it is. *)
LEMMA LoopStep ==
  ASSUME IInv, Cancel \/ (\E l \in Listeners : Serve(l)) \/ UNCHANGED vars
  PROVE  IInv'
<1>1. UNCHANGED <<pc, refused, guards, counters>>
  BY DEF Cancel, Serve, CloseListener, StopAccepting, Drained, vars, guards, counters
<1>2. \A S, P : At(S, P)' = At(S, P)
  BY <1>1 DEF At
<1>3. Counted' /\ Bounded' /\ RefusedOut'
  BY <1>1, <1>2 DEF IInv, Counted, Bounded, RefusedOut, guards, counters
<1>4. TypeOK'
  BY <1>1 DEF IInv, TypeOK, Cancel, Serve, CloseListener, StopAccepting, Drained, vars, loop, guards, counters
<1>5. StopsAfterSessions'
  BY <1>1, AdmissionAssumption DEF IInv, TypeOK, StopsAfterSessions, Cancel, Serve, CloseListener, StopAccepting, Drained, vars, loop, Running
<1>6. QED
  BY <1>3, <1>4, <1>5 DEF IInv

LEMMA ConnStep ==
  ASSUME IInv, NEW c \in Conns, Accept(c) \/ serveConn(c)
  PROVE  IInv'
<1>0. TypeOK /\ Counted /\ Bounded /\ RefusedOut /\ StopsAfterSessions
  BY DEF IInv
<1> USE AdmissionAssumption DEF Running, Undecided, HoldsSlot, HoldsIP, Active
<1>1. CASE CountArrival(c)
  <2>1. Goto(c, "spawned", "arrived")
    BY <1>1 DEF CountArrival
  <2>2. TypeOK'
    BY <1>0, <1>1, <2>1, Effects DEF CountArrival, TypeOK, Counted, Goto, loop, guards, counters
  <2>3. Counted'
    BY <1>0, <1>1, <2>1, Effects, FS_AddElement, FS_Subset DEF CountArrival, TypeOK, Counted, RefusedOut, Ind, Arrived, loop, guards, counters
  <2>4. Bounded'
    BY <1>0, <1>1 DEF CountArrival, TypeOK, Bounded, guards
  <2>5. RefusedOut' /\ StopsAfterSessions'
    BY <1>0, <1>1, <2>1 DEF CountArrival, TypeOK, RefusedOut, StopsAfterSessions, Goto, loop
  <2>6. QED
    BY <2>2, <2>3, <2>4, <2>5 DEF IInv
<1>2. CASE TakeSlot(c)
  <2>1. Goto(c, "arrived", "slotted")
    BY <1>2 DEF TakeSlot
  <2>2. TypeOK'
    BY <1>0, <1>2, <2>1, Effects DEF TakeSlot, TypeOK, Counted, Goto, loop, guards, counters
  <2>3. Counted'
    BY <1>0, <1>2, <2>1, Effects, FS_AddElement, FS_Subset DEF TakeSlot, TypeOK, Counted, RefusedOut, Ind, Arrived, loop, guards, counters
  <2>4. Bounded'
    BY <1>0, <1>2 DEF TakeSlot, TypeOK, Bounded, guards
  <2>5. RefusedOut' /\ StopsAfterSessions'
    BY <1>0, <1>2, <2>1 DEF TakeSlot, TypeOK, RefusedOut, StopsAfterSessions, Goto, loop
  <2>6. QED
    BY <2>2, <2>3, <2>4, <2>5 DEF IInv
<1>3. CASE Saturated(c)
  <2>1. Goto(c, "arrived", "closing")
    BY <1>3 DEF Saturated
  <2>2. TypeOK'
    BY <1>0, <1>3, <2>1, Effects DEF Saturated, TypeOK, Counted, Goto, loop, guards, counters
  <2>3. Counted'
    BY <1>0, <1>3, <2>1, Effects, FS_AddElement, FS_Subset DEF Saturated, TypeOK, Counted, RefusedOut, Ind, Arrived, loop, guards, counters
  <2>4. Bounded'
    BY <1>0, <1>3 DEF Saturated, TypeOK, Bounded, guards
  <2>5. RefusedOut' /\ StopsAfterSessions'
    BY <1>0, <1>3, <2>1 DEF Saturated, TypeOK, RefusedOut, StopsAfterSessions, Goto, loop
  <2>6. QED
    BY <2>2, <2>3, <2>4, <2>5 DEF IInv
<1>4. CASE AcquireIP(c)
  <2>1. Goto(c, "slotted", "admitted")
    BY <1>4 DEF AcquireIP
  <2>2. TypeOK'
    BY <1>0, <1>4, <2>1, Effects DEF AcquireIP, TypeOK, Counted, Goto, loop, guards, counters
  <2>3. Counted'
    BY <1>0, <1>4, <2>1, Effects, FS_AddElement, FS_Subset DEF AcquireIP, TypeOK, Counted, RefusedOut, Ind, Arrived, loop, guards, counters
  <2>4. Bounded'
    BY <1>0, <1>4 DEF AcquireIP, TypeOK, Bounded, guards
  <2>5. RefusedOut' /\ StopsAfterSessions'
    BY <1>0, <1>4, <2>1 DEF AcquireIP, TypeOK, RefusedOut, StopsAfterSessions, Goto, loop
  <2>6. QED
    BY <2>2, <2>3, <2>4, <2>5 DEF IInv
<1>5. CASE IPFull(c)
  <2>1. Goto(c, "slotted", "overIP")
    BY <1>5 DEF IPFull
  <2>2. TypeOK'
    BY <1>0, <1>5, <2>1, Effects DEF IPFull, TypeOK, Counted, Goto, loop, guards, counters
  <2>3. Counted'
    BY <1>0, <1>5, <2>1, Effects, FS_AddElement, FS_Subset DEF IPFull, TypeOK, Counted, RefusedOut, Ind, Arrived, loop, guards, counters
  <2>4. Bounded'
    BY <1>0, <1>5 DEF IPFull, TypeOK, Bounded, guards
  <2>5. RefusedOut' /\ StopsAfterSessions'
    BY <1>0, <1>5, <2>1 DEF IPFull, TypeOK, RefusedOut, StopsAfterSessions, Goto, loop
  <2>6. QED
    BY <2>2, <2>3, <2>4, <2>5 DEF IInv
<1>6. CASE RejectIP(c)
  <2>1. Goto(c, "overIP", "freeing")
    BY <1>6 DEF RejectIP
  <2>2. TypeOK'
    BY <1>0, <1>6, <2>1, Effects DEF RejectIP, TypeOK, Counted, Goto, loop, guards, counters
  <2>3. Counted'
    BY <1>0, <1>6, <2>1, Effects, FS_AddElement, FS_Subset DEF RejectIP, TypeOK, Counted, RefusedOut, Ind, Arrived, loop, guards, counters
  <2>4. Bounded'
    BY <1>0, <1>6 DEF RejectIP, TypeOK, Bounded, guards
  <2>5. RefusedOut' /\ StopsAfterSessions'
    BY <1>0, <1>6, <2>1 DEF RejectIP, TypeOK, RefusedOut, StopsAfterSessions, Goto, loop
  <2>6. QED
    BY <2>2, <2>3, <2>4, <2>5 DEF IInv
<1>7. CASE Activate(c)
  <2>1. Goto(c, "admitted", "serving")
    BY <1>7 DEF Activate
  <2>2. TypeOK'
    BY <1>0, <1>7, <2>1, Effects DEF Activate, TypeOK, Counted, Goto, loop, guards, counters
  <2>3. Counted'
    BY <1>0, <1>7, <2>1, Effects, FS_AddElement, FS_Subset DEF Activate, TypeOK, Counted, RefusedOut, Ind, Arrived, loop, guards, counters
  <2>4. Bounded'
    BY <1>0, <1>7 DEF Activate, TypeOK, Bounded, guards
  <2>5. RefusedOut' /\ StopsAfterSessions'
    BY <1>0, <1>7, <2>1 DEF Activate, TypeOK, RefusedOut, StopsAfterSessions, Goto, loop
  <2>6. QED
    BY <2>2, <2>3, <2>4, <2>5 DEF IInv
<1>8. CASE HandlerReturns(c)
  <2>1. Goto(c, "serving", "ended")
    BY <1>8 DEF HandlerReturns
  <2>2. TypeOK'
    BY <1>0, <1>8, <2>1, Effects DEF HandlerReturns, TypeOK, Counted, Goto, loop, guards, counters
  <2>3. Counted'
    BY <1>0, <1>8, <2>1, Effects, FS_AddElement, FS_Subset DEF HandlerReturns, TypeOK, Counted, RefusedOut, Ind, Arrived, loop, guards, counters
  <2>4. Bounded'
    BY <1>0, <1>8 DEF HandlerReturns, TypeOK, Bounded, guards
  <2>5. RefusedOut' /\ StopsAfterSessions'
    BY <1>0, <1>8, <2>1 DEF HandlerReturns, TypeOK, RefusedOut, StopsAfterSessions, Goto, loop
  <2>6. QED
    BY <2>2, <2>3, <2>4, <2>5 DEF IInv
<1>9. CASE Deactivate(c)
  <2>1. Goto(c, "ended", "inactive")
    BY <1>9 DEF Deactivate
  <2>2. TypeOK'
    <3>1. connActive > 0
      BY <1>0, <2>1, Effects DEF Counted
    <3>2. QED
      BY <1>0, <1>9, <2>1, <3>1 DEF Deactivate, TypeOK, Goto, loop, guards, counters
  <2>3. Counted'
    BY <1>0, <1>9, <2>1, Effects, FS_AddElement, FS_Subset DEF Deactivate, TypeOK, Counted, RefusedOut, Ind, Arrived, loop, guards, counters
  <2>4. Bounded'
    BY <1>0, <1>9 DEF Deactivate, TypeOK, Bounded, guards
  <2>5. RefusedOut' /\ StopsAfterSessions'
    BY <1>0, <1>9, <2>1 DEF Deactivate, TypeOK, RefusedOut, StopsAfterSessions, Goto, loop
  <2>6. QED
    BY <2>2, <2>3, <2>4, <2>5 DEF IInv
<1>10. CASE ReleaseIP(c)
  <2>1. Goto(c, "inactive", "freeing")
    BY <1>10 DEF ReleaseIP
  <2>2. TypeOK'
    BY <1>0, <1>10, <2>1, Effects DEF ReleaseIP, TypeOK, Counted, Goto, loop, guards, counters
  <2>3. Counted'
    BY <1>0, <1>10, <2>1, Effects, FS_AddElement, FS_Subset DEF ReleaseIP, TypeOK, Counted, RefusedOut, Ind, Arrived, loop, guards, counters
  <2>4. Bounded'
    BY <1>0, <1>10 DEF ReleaseIP, TypeOK, Bounded, guards
  <2>5. RefusedOut' /\ StopsAfterSessions'
    BY <1>0, <1>10, <2>1 DEF ReleaseIP, TypeOK, RefusedOut, StopsAfterSessions, Goto, loop
  <2>6. QED
    BY <2>2, <2>3, <2>4, <2>5 DEF IInv
<1>11. CASE FreeSlot(c)
  <2>1. Goto(c, "freeing", "closing")
    BY <1>11 DEF FreeSlot
  <2>2. TypeOK'
    <3>1. MaxConns > 0 => slots > 0
      BY <1>0, <2>1, Effects DEF Counted
    <3>2. QED
      BY <1>0, <1>11, <2>1, <3>1 DEF FreeSlot, TypeOK, Goto, loop, guards, counters
  <2>3. Counted'
    BY <1>0, <1>11, <2>1, Effects, FS_AddElement, FS_Subset DEF FreeSlot, TypeOK, Counted, RefusedOut, Ind, Arrived, loop, guards, counters
  <2>4. Bounded'
    BY <1>0, <1>11 DEF FreeSlot, TypeOK, Bounded, guards
  <2>5. RefusedOut' /\ StopsAfterSessions'
    BY <1>0, <1>11, <2>1 DEF FreeSlot, TypeOK, RefusedOut, StopsAfterSessions, Goto, loop
  <2>6. QED
    BY <2>2, <2>3, <2>4, <2>5 DEF IInv
<1>12. CASE Close(c)
  <2>1. Goto(c, "closing", "done")
    BY <1>12 DEF Close
  <2>2. TypeOK'
    BY <1>0, <1>12, <2>1, Effects DEF Close, TypeOK, Counted, Goto, loop, guards, counters
  <2>3. Counted'
    BY <1>0, <1>12, <2>1, Effects, FS_AddElement, FS_Subset DEF Close, TypeOK, Counted, RefusedOut, Ind, Arrived, loop, guards, counters
  <2>4. Bounded'
    BY <1>0, <1>12 DEF Close, TypeOK, Bounded, guards
  <2>5. RefusedOut' /\ StopsAfterSessions'
    BY <1>0, <1>12, <2>1 DEF Close, TypeOK, RefusedOut, StopsAfterSessions, Goto, loop
  <2>6. QED
    BY <2>2, <2>3, <2>4, <2>5 DEF IInv
<1>13. CASE Accept(c)
  <2>1. Goto(c, "idle", "spawned")
    BY <1>13 DEF Accept
  <2>2. TypeOK'
    BY <1>0, <1>13, <2>1, Effects DEF Accept, TypeOK, Counted, Goto, loop, guards, counters
  <2>3. Counted'
    BY <1>0, <1>13, <2>1, Effects, FS_AddElement, FS_Subset DEF Accept, TypeOK, Counted, RefusedOut, Ind, Arrived, loop, guards, counters
  <2>4. Bounded'
    BY <1>0, <1>13 DEF Accept, TypeOK, Bounded, guards
  <2>5. RefusedOut' /\ StopsAfterSessions'
    BY <1>0, <1>13, <2>1 DEF Accept, TypeOK, RefusedOut, StopsAfterSessions, Goto, loop
  <2>6. QED
    BY <2>2, <2>3, <2>4, <2>5 DEF IInv
<1>14. QED
  BY <1>1, <1>2, <1>3, <1>4, <1>5, <1>6, <1>7, <1>8, <1>9, <1>10, <1>11, <1>12, <1>13 DEF serveConn, ownStep

LEMMA Inductive == IInv /\ [Next]_vars => IInv'
<1> SUFFICES ASSUME IInv, [Next]_vars PROVE IInv'
  OBVIOUS
<1>1. ASSUME NEW c \in Conns, Accept(c) \/ serveConn(c) PROVE IInv'
  BY <1>1, ConnStep
<1>2. ASSUME Cancel \/ (\E l \in Listeners : Serve(l)) \/ UNCHANGED vars PROVE IInv'
  BY <1>2, LoopStep
<1>3. QED
  BY <1>1, <1>2 DEF Next

LEMMA InvariantHolds == Spec => []IInv
<1>1. QED
  BY InitIInv, Inductive, PTL DEF Spec

-----------------------------------------------------------------------------

(* The semaphore and the per-IP counters are exact and within the limits,
   the supervision counters are exact, no refused connection is served, and
   Serve waits for its sessions: for any limits and any number of clients. *)
THEOREM GuardsCorrect ==
  Spec => [](TypeOK /\ GuardsExact /\ StopsAfterSessions)
<1>1. ASSUME IInv
      PROVE  TypeOK /\ GuardsExact /\ StopsAfterSessions
  <2>1. SlotsExact
    <3>1. In(HoldsSlot) = At(HoldsSlot, Conns)
      BY DEF In, At
    <3>2. QED
      BY <1>1, <3>1 DEF IInv, Counted, Bounded, SlotsExact
  <2>2. PerIPExact
    <3>1. \A ip : {c \in In(HoldsIP) : RemoteIP[c] = ip} = At(HoldsIP, Of(ip))
      BY DEF In, At, Of
    <3>2. QED
      BY <1>1, <3>1 DEF IInv, Counted, Bounded, PerIPExact
  <2>3. CountersExact
    <3>1. In(Active) = At(Active, Conns)
      BY DEF In, At
    <3>2. In(Running \cup {"done"}) \ In({"spawned"}) = At(Arrived, Conns)
      BY DEF In, At, Arrived
    <3>3. QED
      BY <1>1, <3>1, <3>2 DEF IInv, Counted, CountersExact
  <2>4. RefusedNeverServed
    BY <1>1 DEF IInv, RefusedOut, RefusedNeverServed, In, HoldsIP
  <2>5. QED
    BY <1>1, <2>1, <2>2, <2>3, <2>4 DEF IInv, GuardsExact
<1>2. QED
  BY <1>1, InvariantHolds, PTL

(* A step of a goroutine that does not cross acquireIP or releaseIP leaves
   the set of live sessions alone. *)
LEMMA LiveUnchanged ==
  ASSUME TypeOK, NEW c \in Conns, NEW from, NEW to, Goto(c, from, to),
         from \in HoldsIP <=> to \in HoldsIP
  PROVE  In(HoldsIP)' = In(HoldsIP)
<1>1. pc[c] = from /\ pc' = [pc EXCEPT ![c] = to] /\ pc \in [Conns -> Running \cup {"idle", "done"}]
  BY DEF Goto, TypeOK
<1>2. QED
  BY <1>1 DEF In

LEMMA WithinLimits == IInv => B!Within(In(HoldsIP))
<1> SUFFICES ASSUME IInv PROVE B!Within(In(HoldsIP))
  OBVIOUS
<1>1. /\ In(HoldsIP) \subseteq At(HoldsSlot, Conns)
      /\ IsFiniteSet(At(HoldsSlot, Conns)) /\ IsFiniteSet(In(HoldsIP))
  BY AdmissionAssumption, FS_Subset DEF In, At, HoldsSlot
<1>2. Cardinality(In(HoldsIP)) <= Cardinality(At(HoldsSlot, Conns))
  BY <1>1, FS_Subset
<1>3. \A ip : B!FromIP(In(HoldsIP), ip) = At(HoldsIP, Of(ip))
  BY DEF B!FromIP, In, At, Of
<1>4. Cardinality(In(HoldsIP)) \in Nat /\ Cardinality(At(HoldsSlot, Conns)) \in Nat
  BY <1>1, FS_CardinalityType
<1>5. MaxConns > 0 => Cardinality(In(HoldsIP)) <= MaxConns
  BY <1>2, <1>4, AdmissionAssumption DEF IInv, Counted, Bounded
<1>6. MaxConnsPerIP > 0 =>
        \A ip \in IPs : Cardinality(B!FromIP(In(HoldsIP), ip)) <= MaxConnsPerIP
  BY <1>3 DEF IInv, Counted, Bounded
<1>7. \A S : B!Cardinality(S) = Cardinality(S)
  BY DEF B!Cardinality, Cardinality
<1>8. QED
  BY <1>5, <1>6, <1>7 DEF B!Within

(* The interleaved accesses of serveConn to the channel, the mutex and the
   counters implement the two atomic operations of the bulkhead. *)
THEOREM AdmissionImplementsBulkhead == Spec => ImplementsBulkhead
<1>1. Init => B!BInit
  BY DEF Init, B!BInit, In, HoldsIP
<1>2. ASSUME IInv, IInv', [Next]_vars
      PROVE  [B!BNext]_(In(HoldsIP))
  <2>0. TypeOK
    BY <1>2 DEF IInv
  <2>1. ASSUME NEW c \in Conns, AcquireIP(c)
        PROVE  B!BNext
    <3>1. Goto(c, "slotted", "admitted")
      BY <2>1 DEF AcquireIP
    <3>2. In(HoldsIP)' = In(HoldsIP) \cup {c} /\ c \notin In(HoldsIP)
      BY <2>0, <3>1 DEF Goto, TypeOK, In, HoldsIP
    <3>3. B!Within(In(HoldsIP))'
      BY <1>2, WithinLimits, PTL
    <3>4. QED
      BY <3>2, <3>3 DEF B!BNext, B!Admit
  <2>2. ASSUME NEW c \in Conns, ReleaseIP(c)
        PROVE  B!BNext
    <3>1. Goto(c, "inactive", "freeing")
      BY <2>2 DEF ReleaseIP
    <3>2. In(HoldsIP)' = In(HoldsIP) \ {c} /\ c \in In(HoldsIP)
      BY <2>0, <3>1 DEF Goto, TypeOK, In, HoldsIP
    <3>3. QED
      BY <3>2 DEF B!BNext, B!Depart
  <2>3. ASSUME NEW c \in Conns,
               \/ Accept(c) \/ CountArrival(c) \/ TakeSlot(c) \/ Saturated(c) \/ IPFull(c)
               \/ RejectIP(c) \/ Activate(c) \/ HandlerReturns(c) \/ Deactivate(c)
               \/ FreeSlot(c) \/ Close(c)
        PROVE  UNCHANGED In(HoldsIP)
    <3>1. PICK from, to : Goto(c, from, to) /\ (from \in HoldsIP <=> to \in HoldsIP)
      BY <2>3 DEF Accept, CountArrival, TakeSlot, Saturated, IPFull, RejectIP, Activate,
                  HandlerReturns, Deactivate, FreeSlot, Close, HoldsIP
    <3>2. QED
      BY <2>0, <3>1, LiveUnchanged
  <2>4. ASSUME Cancel \/ (\E l \in Listeners : Serve(l)) \/ UNCHANGED vars
        PROVE  UNCHANGED In(HoldsIP)
    BY <2>4 DEF Cancel, Serve, CloseListener, StopAccepting, Drained, vars, In
  <2>5. QED
    BY <1>2, <2>1, <2>2, <2>3, <2>4 DEF Next, serveConn, ownStep
<1>3. QED
  BY <1>1, <1>2, InvariantHolds, PTL DEF Spec, ImplementsBulkhead, B!BSpec

-----------------------------------------------------------------------------
(* The process *)

(* The process leaves "running", and the database is closed, only when the
   Serve that main waits for has returned; it never starts again. *)
ClosesAfterServe ==
  /\ process \in {"running", "closing", "exited"}
  /\ dwOpen \in BOOLEAN
  /\ process # "running" \/ ~ dwOpen => serve[Plain] = "stopped"

BbsdIInv == IInv /\ ClosesAfterServe

(* No action of the server takes a Serve out of "stopped". *)
LEMMA StoppedForGood ==
  ASSUME TypeOK, [Next]_vars, serve[Plain] = "stopped"
  PROVE  serve'[Plain] = "stopped"
<1>1. CASE UNCHANGED serve
  BY <1>1
<1>2. ASSUME NEW l \in Listeners, StopAccepting(l)
      PROVE  serve'[Plain] = "stopped"
  BY <1>2, BbsdAssumption DEF StopAccepting, TypeOK
<1>3. ASSUME NEW l \in Listeners, Drained(l)
      PROVE  serve'[Plain] = "stopped"
  BY <1>3, BbsdAssumption DEF Drained, TypeOK
<1>4. ASSUME NEW c \in Conns, Accept(c) \/ serveConn(c)
      PROVE  UNCHANGED serve
  BY <1>4 DEF Accept, serveConn, ownStep, CountArrival, TakeSlot, Saturated, AcquireIP, IPFull,
              RejectIP, Activate, HandlerReturns, Deactivate, ReleaseIP, FreeSlot, Close, loop
<1>5. QED
  BY <1>1, <1>2, <1>3, <1>4 DEF Next, Serve, Cancel, CloseListener, vars, loop

LEMMA BbsdInductive == BbsdIInv /\ [BbsdNext]_bbsdVars => BbsdIInv'
<1> SUFFICES ASSUME BbsdIInv, [BbsdNext]_bbsdVars PROVE BbsdIInv'
  OBVIOUS
<1>1. [Next]_vars
  BY DEF BbsdNext, bbsdVars, ServerStep, Alive, CloseEngine, Exit
<1>2. IInv'
  BY <1>1, Inductive DEF BbsdIInv
<1>3. serve[Plain] = "stopped" => serve'[Plain] = "stopped"
  BY <1>1, StoppedForGood DEF BbsdIInv, IInv
<1>4. ClosesAfterServe'
  BY <1>3 DEF BbsdIInv, ClosesAfterServe, BbsdNext, bbsdVars, vars, loop, ServerStep, Alive,
              CloseEngine, Exit
<1>5. QED
  BY <1>2, <1>4 DEF BbsdIInv

(* No session of the plain listener is cut by the end of the process, and
   the database is not closed under one, for any number of connections and
   any limits: main runs its deferred calls after Serve, Serve returns after
   its sessions. *)
THEOREM PlainSessionsEndFirst == BbsdSpec => []PlainStopsClean
<1>1. BbsdInit => BbsdIInv
  BY InitIInv DEF BbsdInit, BbsdIInv, ClosesAfterServe
<1>2. BbsdIInv => PlainStopsClean
  <2>1. BbsdIInv => \A c \in Conns : serve[Via[c]] = "stopped" => pc[c] \notin Running
    BY DEF BbsdIInv, IInv, StopsAfterSessions, Running, Undecided, HoldsSlot, HoldsIP
  <2>2. QED
    BY <2>1 DEF BbsdIInv, IInv, ClosesAfterServe, PlainStopsClean, BbsdTypeOK
<1>3. QED
  BY <1>1, <1>2, BbsdInductive, PTL DEF BbsdSpec

(* The process takes no step the server alone could not take: what is proved
   of the server holds of it inside the process. *)
THEOREM ProcessRunsTheServer == BbsdSpec => Spec
<1>1. BbsdInit => Init
  BY DEF BbsdInit
<1>2. [BbsdNext]_bbsdVars => [Next]_vars
  BY DEF BbsdNext, bbsdVars, ServerStep, Alive, CloseEngine, Exit
<1>3. QED
  BY <1>1, <1>2, PTL DEF BbsdSpec, Spec
=============================================================================
