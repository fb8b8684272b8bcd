---------------------------- MODULE Stores_proofs ----------------------------
(***************************************************************************)
(* The stores that sessions share, for any bounds and any number of        *)
(* sessions.  A behaviour of StoresSpec explores one of them: each theorem *)
(* follows from the invariant of that store under its own actions.         *)
(***************************************************************************)
EXTENDS Stores, AtomicFile_proofs, DataWindow_proofs, SequenceTheorems, FiniteSetTheorems, TLAPS

-----------------------------------------------------------------------------
(* Sets of positions *)

(* A set of positions that contains all those before any of its own is an
   interval. *)
LEMMA Prefix ==
  ASSUME NEW k \in Nat, NEW S \in SUBSET (1..k), \A i \in S : 1..i \subseteq S
  PROVE  Cardinality(S) \in 0..k /\ S = 1..Cardinality(S)
<1> DEFINE m == Cardinality(S)
<1>1. IsFiniteSet(1..k) /\ Cardinality(1..k) = k
  BY FS_Interval
<1>2. IsFiniteSet(S) /\ m \in Nat /\ m <= k
  BY ZenonT(40), <1>1, FS_Subset, FS_CardinalityType
<1>3. ASSUME NEW i \in S PROVE i <= m
  <2>1. Cardinality(1..i) = i
    BY FS_Interval
  <2>2. Cardinality(1..i) <= Cardinality(S)
    BY <1>2, <1>3, FS_Subset
  <2>3. QED
    BY <2>1, <2>2
<1>4. S \subseteq 1..m
  BY <1>2, <1>3
<1>5. IsFiniteSet(1..m) /\ Cardinality(1..m) = m
  BY <1>2, FS_Interval
<1>6. S = 1..m
  BY <1>4, <1>5, FS_Subset
<1>7. QED
  BY <1>2, <1>6

LEMMA FunctionIsSeq ==
  ASSUME NEW S, NEW k \in Nat, NEW f \in [1..k -> S]
  PROVE  f \in Seq(S) /\ Len(f) = k
OBVIOUS

-----------------------------------------------------------------------------
(* Login: the limiter *)

LEMMA LoginSets == \A S : L!Cardinality(S) = Cardinality(S) /\ (L!IsFiniteSet(S) <=> IsFiniteSet(S))
BY DEF L!Cardinality, Cardinality, L!IsFiniteSet, IsFiniteSet

(* The failures of an address are kept oldest first. *)
OldestFirst(ages) == \A i, j \in 1..Len(ages) : i < j => ages[i] >= ages[j]

(* What leaves the window leaves from the front, and what stays is younger. *)
LEMMA RecentKeeps ==
  ASSUME L!LoginAssumption, NEW ages \in Seq(0..Window - 1), OldestFirst(ages)
  PROVE  /\ L!recent(ages) \in Seq(0..Window - 1)
         /\ OldestFirst(L!recent(ages))
         /\ Len(L!recent(ages)) <= Len(ages)
         /\ \A q \in 0..Window : (\A i \in 1..Len(ages) : ages[i] >= q) =>
              \A i \in 1..Len(L!recent(ages)) : L!recent(ages)[i] >= q + 1
<1> DEFINE S == L!Expired(ages, Window)
           gone == Cardinality(S)
           kept == L!recent(ages)
<1>1. Window \in Nat \ {0} /\ Len(ages) \in Nat /\ \A i \in 1..Len(ages) : ages[i] \in 0..Window - 1
  BY LenProperties DEF L!LoginAssumption
<1>2. gone \in 0..Len(ages) /\ S = 1..gone
  <2>1. S \in SUBSET (1..Len(ages))
    BY DEF L!Expired
  <2>2. ASSUME NEW i \in S, NEW j \in 1..i PROVE j \in S
    <3>1. i \in 1..Len(ages) /\ ages[i] + 1 >= Window
      BY DEF L!Expired
    <3>2. j \in 1..Len(ages) /\ (j = i \/ j < i)
      BY ONLY <1>1, <2>2, <3>1
    <3>3. j < i => ages[j] >= ages[i]
      BY ONLY <3>1, <3>2, OldestFirst(ages) DEF OldestFirst
    <3>4. ages[i] \in Nat /\ ages[j] \in Nat /\ Window \in Nat
      BY ONLY <1>1, <3>1, <3>2
    <3>5. ages[j] + 1 >= Window
      BY ONLY SMTT(40), <3>1, <3>2, <3>3, <3>4
    <3>6. QED
      BY <3>2, <3>5 DEF L!Expired
  <2>3. \A i \in S : 1..i \subseteq S
    BY <2>2
  <2>4. QED
    BY <1>1, <2>1, <2>3, Prefix
<1>3. kept = [i \in 1..Len(ages) - gone |-> ages[gone + i] + 1]
  <2>1. L!Cardinality(S) = gone
    BY LoginSets
  <2> HIDE DEF gone
  <2>2. QED
    BY <2>1 DEF L!recent, L!Aged
<1>4. \A i \in 1..Len(ages) : ages[i] + 1 >= Window => i \in S
  BY DEF L!Expired
<1> HIDE DEF S, gone, kept
<1>5. ASSUME NEW i \in 1..Len(ages) - gone
      PROVE  gone + i \in 1..Len(ages) /\ ages[gone + i] + 1 \in 0..Window - 1
  <2>1. gone + i \in 1..Len(ages) /\ gone + i \notin 1..gone
    BY <1>1, <1>2
  <2>2. ~ (ages[gone + i] + 1 >= Window)
    BY <1>2, <1>4, <2>1
  <2>3. QED
    BY <1>1, <2>1, <2>2
<1>6. kept \in Seq(0..Window - 1) /\ Len(kept) = Len(ages) - gone
  <2>1. Len(ages) - gone \in Nat
    BY <1>1, <1>2
  <2>2. kept \in [1..Len(ages) - gone -> 0..Window - 1]
    BY <1>3, <1>5
  <2>3. QED
    BY <2>1, <2>2, FunctionIsSeq
<1>7. \A i \in 1..Len(kept) : gone + i \in 1..Len(ages) /\ kept[i] = ages[gone + i] + 1
  BY <1>3, <1>5, <1>6
<1>8. OldestFirst(kept)
  <2>1. ASSUME NEW i \in 1..Len(kept), NEW j \in 1..Len(kept), i < j
        PROVE  kept[i] >= kept[j]
    <3>1. gone + i < gone + j
      BY <1>2, <2>1
    <3>2. ages[gone + i] >= ages[gone + j]
      BY <1>7, <2>1, <3>1 DEF OldestFirst
    <3>3. QED
      BY SMTT(40), <1>1, <1>7, <3>2
  <2>2. QED
    BY <2>1 DEF OldestFirst
<1>9. ASSUME NEW q \in 0..Window, \A i \in 1..Len(ages) : ages[i] >= q, NEW i \in 1..Len(kept)
      PROVE  kept[i] >= q + 1
  <2>1. gone + i \in 1..Len(ages) /\ kept[i] = ages[gone + i] + 1
    BY <1>7, <1>9
  <2>2. ages[gone + i] >= q /\ ages[gone + i] \in Nat
    BY <1>1, <1>9, <2>1
  <2>3. QED
    BY <2>1, <2>2
<1>10. QED
  BY <1>1, <1>2, <1>6, <1>8, <1>9 DEF kept

(* The sessions of an address that the limiter let through and that have not
   told it how it went, when the sessions are where the function says. *)
Undecided(where, ip) == {s \in Sessions : IPOf[s] = ip /\ where[s].at \in {"through", "failed"}}

Limited ==
  /\ fails \in [IPs -> Seq(0..Window - 1)]
  /\ \A ip \in IPs :
       /\ OldestFirst(fails[ip])
       /\ \A i \in 1..Len(fails[ip]) : fails[ip][i] >= quiet[ip]
       /\ Len(fails[ip]) + Cardinality(Undecided(loginPc, ip)) <= MaxFailures + (L!Sharing(ip) - 1)

(* Memory and disk hold the same accounts with the same rights, one of them
   the sysop's; memory may count calls that could not be saved. *)
Durable ==
  /\ DOMAIN users = DOMAIN userFile
  /\ \A h \in DOMAIN users :
       users[h].admin = userFile[h].admin /\ userFile[h].calls <= users[h].calls
  /\ DOMAIN users # {} => \E h \in DOMAIN users : L!Sysops(users) = {h}
  /\ \A s \in Sessions : user[s] # NoUser => user[s] \in DOMAIN users
  /\ \A h \in Handles : greeted[h] > 0 => h \in DOMAIN userFile /\ greeted[h] <= userFile[h].calls

LoginIInv == L!TypeOK /\ Limited /\ Durable

LEMMA SharingFinite ==
  ASSUME L!LoginAssumption, NEW where, NEW ip
  PROVE  /\ IsFiniteSet(Undecided(where, ip)) /\ Cardinality(Undecided(where, ip)) \in Nat
         /\ L!Sharing(ip) \in Nat
         /\ Cardinality(Undecided(where, ip)) <= L!Sharing(ip)
<1> DEFINE T == {s \in Sessions : IPOf[s] = ip}
<1>1. IsFiniteSet(Sessions)
  BY LoginSets DEF L!LoginAssumption
<1>2. IsFiniteSet(T) /\ Cardinality(T) \in Nat
  BY <1>1, FS_Subset, FS_CardinalityType
<1>3. Undecided(where, ip) \in SUBSET T
  BY DEF Undecided
<1>4. /\ IsFiniteSet(Undecided(where, ip)) /\ Cardinality(Undecided(where, ip)) \in Nat
      /\ Cardinality(Undecided(where, ip)) <= Cardinality(T)
  BY <1>2, <1>3, FS_Subset, FS_CardinalityType
<1>5. L!Sharing(ip) = Cardinality(T)
  BY LoginSets DEF L!Sharing
<1>6. QED
  BY <1>2, <1>4, <1>5

(* One session moves: the count of its address follows, the others stay. *)
LEMMA OneMoves ==
  ASSUME L!LoginAssumption, NEW before, NEW after, NEW s \in Sessions, NEW ip,
         \A t \in Sessions \ {s} : after[t].at = before[t].at,
         after[s].at \notin {"through", "failed"} \/ before[s].at \in {"through", "failed"}
  PROVE  /\ Cardinality(Undecided(after, ip)) <= Cardinality(Undecided(before, ip))
         /\ /\ IPOf[s] = ip /\ before[s].at \in {"through", "failed"}
            /\ after[s].at \notin {"through", "failed"}
            => Cardinality(Undecided(after, ip)) = Cardinality(Undecided(before, ip)) - 1
<1>1. IsFiniteSet(Undecided(before, ip))
  BY SharingFinite
<1>2. Undecided(after, ip) \in SUBSET Undecided(before, ip)
  BY DEF Undecided
<1>3. Cardinality(Undecided(after, ip)) <= Cardinality(Undecided(before, ip))
  BY <1>1, <1>2, FS_Subset
<1>4. ASSUME IPOf[s] = ip, before[s].at \in {"through", "failed"}, after[s].at \notin {"through", "failed"}
      PROVE  Cardinality(Undecided(after, ip)) = Cardinality(Undecided(before, ip)) - 1
  <2>1. Undecided(after, ip) = Undecided(before, ip) \ {s} /\ s \in Undecided(before, ip)
    BY <1>4 DEF Undecided
  <2>2. QED
    BY <1>1, <2>1, FS_RemoveElement
<1>5. QED
  BY <1>3, <1>4

(* The accounts, as functions. *)
LEMMA AccountsAreFunctions ==
  /\ \A H \in SUBSET Handles : \A f \in [H -> L!Account] : f \in L!Accounts
  /\ \A f \in L!Accounts : f \in [DOMAIN f -> L!Account] /\ DOMAIN f \in SUBSET Handles
BY DEF L!Accounts

LEMMA LoginInit == ASSUME L!LoginAssumption, L!Init PROVE LoginIInv
<1> USE DEF L!Init, L!Nobody
<1>1. L!TypeOK
  <2>1. users \in L!Accounts /\ userFile \in L!Accounts
    <3>1. {} \in SUBSET Handles /\ <<>> \in [{} -> L!Account]
      OBVIOUS
    <3>2. QED
      BY <3>1, AccountsAreFunctions
  <2>2. QED
    BY <2>1, EmptySeq DEF L!TypeOK, L!Steps, L!LoginAssumption
<1>2. ASSUME NEW ip \in IPs
      PROVE  Len(fails[ip]) + Cardinality(Undecided(loginPc, ip)) <= MaxFailures + (L!Sharing(ip) - 1)
  <2>1. Undecided(loginPc, ip) = {}
    BY DEF Undecided
  <2>2. Cardinality(Undecided(loginPc, ip)) = 0 /\ Len(fails[ip]) = 0
    BY <2>1, FS_EmptySet
  <2>3. QED
    BY <2>2, SharingFinite DEF L!LoginAssumption
<1>3. Limited
  <2>1. fails \in [IPs -> Seq(0..Window - 1)] /\ \A ip \in IPs : fails[ip] = <<>>
    BY EmptySeq
  <2>2. \A ip \in IPs : Len(fails[ip]) = 0
    BY <2>1
  <2> HIDE DEF L!Init
  <2>3. QED
    BY <1>2, <2>1, <2>2 DEF Limited, OldestFirst
<1>4. Durable
  BY DEF Durable
<1>5. QED
  BY <1>1, <1>3, <1>4 DEF LoginIInv

(* Where the steps of a session take it; the others stay where they are. *)
LEMMA LoginMoves ==
  ASSUME L!LoginAssumption, LoginIInv, NEW s \in Sessions
  PROVE  /\ \A step \in L!Steps : L!Goto(s, step) =>
              /\ loginPc' \in [Sessions -> [at : L!Steps, form : BOOLEAN]]
              /\ loginPc'[s].at = step
              /\ \A t \in Sessions \ {s} : loginPc'[t].at = loginPc[t].at
         /\ L!Again(s) =>
              /\ attempt' \in [Sessions -> 0..maxLoginAttempts]
              /\ L!Goto(s, "screen") \/ L!Goto(s, "menu")
         /\ L!BackToMenu(s) =>
              /\ attempt' \in [Sessions -> 0..maxLoginAttempts]
              /\ L!Goto(s, "menu")
<1>1. loginPc \in [Sessions -> [at : L!Steps, form : BOOLEAN]] /\ attempt \in [Sessions -> 0..maxLoginAttempts]
  BY DEF LoginIInv, L!TypeOK
<1>2. maxLoginAttempts \in Nat \ {0}
  BY DEF L!LoginAssumption
<1>3. ASSUME NEW step \in L!Steps, L!Goto(s, step)
      PROVE  /\ loginPc' \in [Sessions -> [at : L!Steps, form : BOOLEAN]]
             /\ loginPc'[s].at = step
             /\ \A t \in Sessions \ {s} : loginPc'[t].at = loginPc[t].at
  BY <1>1, <1>3 DEF L!Goto
<1>4. ASSUME L!Again(s)
      PROVE  /\ attempt' \in [Sessions -> 0..maxLoginAttempts]
             /\ L!Goto(s, "screen") \/ L!Goto(s, "menu")
  BY <1>1, <1>2, <1>4 DEF L!Again
<1>5. ASSUME L!BackToMenu(s)
      PROVE  /\ attempt' \in [Sessions -> 0..maxLoginAttempts]
             /\ L!Goto(s, "menu")
  BY <1>1, <1>2, <1>5 DEF L!BackToMenu
<1>6. QED
  BY <1>3, <1>4, <1>5

(* A step that tells the limiter nothing and asks it nothing. *)
LEMMA LimiterAlone ==
  ASSUME L!LoginAssumption, LoginIInv, NEW s \in Sessions, UNCHANGED <<fails, quiet>>,
         \A t \in Sessions \ {s} : loginPc'[t].at = loginPc[t].at,
         loginPc'[s].at \notin {"through", "failed"} \/ loginPc[s].at \in {"through", "failed"}
  PROVE  Limited'
<1>1. ASSUME NEW ip \in IPs
      PROVE  Len(fails[ip]) + Cardinality(Undecided(loginPc', ip)) <= MaxFailures + (L!Sharing(ip) - 1)
  <2>1. Cardinality(Undecided(loginPc', ip)) <= Cardinality(Undecided(loginPc, ip))
    BY OneMoves
  <2>2. Len(fails[ip]) + Cardinality(Undecided(loginPc, ip)) <= MaxFailures + (L!Sharing(ip) - 1)
    BY DEF LoginIInv, Limited
  <2>3. /\ Cardinality(Undecided(loginPc', ip)) \in Nat /\ Cardinality(Undecided(loginPc, ip)) \in Nat
        /\ L!Sharing(ip) \in Nat
    BY SharingFinite
  <2>4. Len(fails[ip]) \in Nat /\ MaxFailures \in Nat
    BY LenProperties DEF LoginIInv, Limited, L!LoginAssumption
  <2>5. QED
    BY <2>1, <2>2, <2>3, <2>4
<1>2. QED
  BY <1>1 DEF LoginIInv, Limited

(* A step that leaves the accounts alone, and identifies nobody. *)
LEMMA AccountsAlone ==
  ASSUME LoginIInv, NEW s \in Sessions, UNCHANGED <<users, userFile, greeted>>,
         user' = user \/ user' = [user EXCEPT ![s] = NoUser]
  PROVE  Durable' /\ user' \in [Sessions -> Handles \cup {NoUser}]
<1>1. user \in [Sessions -> Handles \cup {NoUser}]
  BY DEF LoginIInv, L!TypeOK
<1>2. \A t \in Sessions : user'[t] = user[t] \/ user'[t] = NoUser
  BY <1>1
<1>3. user' \in [Sessions -> Handles \cup {NoUser}]
  BY <1>1
<1>4. Durable'
  BY <1>2 DEF LoginIInv, Durable
<1>5. QED
  BY <1>3, <1>4

LEMMA TypesAlone ==
  ASSUME LoginIInv, UNCHANGED <<users, userFile, fails, greeted, quiet>>,
         loginPc' \in [Sessions -> [at : L!Steps, form : BOOLEAN]],
         attempt' \in [Sessions -> 0..maxLoginAttempts],
         user' \in [Sessions -> Handles \cup {NoUser}]
  PROVE  L!TypeOK'
BY DEF LoginIInv, L!TypeOK

(* The screens: nothing but the place of the session changes, which may be
   let through if the failures are fewer than allowed, and its identity. *)
LEMMA LoginScreens ==
  ASSUME L!LoginAssumption, LoginIInv, NEW s \in Sessions,
         \/ L!OpenScreen(s) \/ L!CancelScreen(s) \/ L!Throttled(s) \/ L!Disconnect(s)
  PROVE  LoginIInv'
<1>1. /\ UNCHANGED <<users, userFile, fails, greeted, quiet>>
      /\ user' = user \/ user' = [user EXCEPT ![s] = NoUser]
  BY DEF L!OpenScreen, L!CancelScreen, L!Throttled, L!Disconnect, L!store
<1>2. /\ loginPc' \in [Sessions -> [at : L!Steps, form : BOOLEAN]]
      /\ attempt' \in [Sessions -> 0..maxLoginAttempts]
      /\ loginPc'[s].at \in {"screen", "menu"}
      /\ \A t \in Sessions \ {s} : loginPc'[t].at = loginPc[t].at
  <2>1. CASE L!OpenScreen(s)
    <3>1. /\ loginPc \in [Sessions -> [at : L!Steps, form : BOOLEAN]]
          /\ attempt \in [Sessions -> 0..maxLoginAttempts]
          /\ 1 \in 0..maxLoginAttempts
      BY DEF LoginIInv, L!TypeOK, L!LoginAssumption
    <3>2. PICK form \in BOOLEAN : loginPc' = [loginPc EXCEPT ![s] = [at |-> "screen", form |-> form]]
      BY <2>1 DEF L!OpenScreen
    <3>3. attempt' = [attempt EXCEPT ![s] = 1]
      BY <2>1 DEF L!OpenScreen
    <3>4. QED
      BY <3>1, <3>2, <3>3 DEF L!Steps
  <2>2. CASE L!CancelScreen(s) \/ L!Throttled(s) \/ L!Disconnect(s)
    <3>1. L!BackToMenu(s) \/ L!Again(s)
      BY <2>2 DEF L!CancelScreen, L!Throttled, L!Disconnect
    <3>2. "screen" \in L!Steps /\ "menu" \in L!Steps
      BY DEF L!Steps
    <3>3. QED
      BY <3>1, <3>2, LoginMoves
  <2>3. QED
    BY <2>1, <2>2
<1>3. Limited'
  BY <1>1, <1>2, LimiterAlone
<1>4. Durable' /\ user' \in [Sessions -> Handles \cup {NoUser}]
  BY <1>1, AccountsAlone
<1>5. L!TypeOK'
  BY <1>1, <1>2, <1>4, TypesAlone
<1>6. QED
  BY <1>3, <1>4, <1>5 DEF LoginIInv

(* Whatever the others are about to record, those that share the address of a
   session that is let through are at most the sharing ones. *)
LEMMA LoginLetThrough ==
  ASSUME L!LoginAssumption, LoginIInv, NEW s \in Sessions, L!LetThrough(s)
  PROVE  LoginIInv'
<1>1. /\ UNCHANGED <<users, userFile, fails, greeted, quiet, user, attempt>>
      /\ L!Goto(s, "through") /\ Len(fails[IPOf[s]]) < MaxFailures
  BY DEF L!LetThrough, L!store, L!Allowed
<1>2. /\ loginPc' \in [Sessions -> [at : L!Steps, form : BOOLEAN]]
      /\ loginPc'[s].at = "through"
      /\ \A t \in Sessions \ {s} : loginPc'[t].at = loginPc[t].at
  <2>1. "through" \in L!Steps
    BY DEF L!Steps
  <2>2. QED
    BY <1>1, <2>1, LoginMoves
<1>3. ASSUME NEW ip \in IPs
      PROVE  Len(fails[ip]) + Cardinality(Undecided(loginPc', ip)) <= MaxFailures + (L!Sharing(ip) - 1)
  <2>1. Len(fails[ip]) \in Nat /\ MaxFailures \in Nat
    BY LenProperties DEF LoginIInv, Limited, L!LoginAssumption
  <2>2. /\ Cardinality(Undecided(loginPc', ip)) \in Nat /\ L!Sharing(ip) \in Nat
        /\ Cardinality(Undecided(loginPc', ip)) <= L!Sharing(ip)
    BY SharingFinite
  <2>3. CASE ip = IPOf[s]
    BY <1>1, <2>1, <2>2, <2>3
  <2>4. CASE ip # IPOf[s]
    <3>1. Undecided(loginPc', ip) = Undecided(loginPc, ip)
      BY <1>2, <2>4 DEF Undecided
    <3>2. QED
      BY <3>1 DEF LoginIInv, Limited
  <2>5. QED
    BY <2>3, <2>4
<1>4. Limited'
  BY <1>1, <1>3 DEF LoginIInv, Limited
<1>5. Durable' /\ user' \in [Sessions -> Handles \cup {NoUser}]
  BY <1>1, AccountsAlone
<1>6. attempt' \in [Sessions -> 0..maxLoginAttempts]
  BY <1>1 DEF LoginIInv, L!TypeOK
<1>7. L!TypeOK'
  BY <1>1, <1>2, <1>5, <1>6, TypesAlone
<1>8. QED
  BY <1>4, <1>5, <1>7 DEF LoginIInv

LEMMA AppendFailure ==
  ASSUME L!LoginAssumption, NEW ages \in Seq(0..Window - 1), OldestFirst(ages)
  PROVE  /\ Append(ages, 0) \in Seq(0..Window - 1)
         /\ OldestFirst(Append(ages, 0))
         /\ Len(Append(ages, 0)) = Len(ages) + 1
         /\ \A i \in 1..Len(Append(ages, 0)) : Append(ages, 0)[i] >= 0
<1>1. 0 \in 0..Window - 1 /\ 0..Window - 1 \subseteq Nat
  BY DEF L!LoginAssumption
<1>2. Append(ages, 0) \in Seq(0..Window - 1) /\ Len(Append(ages, 0)) = Len(ages) + 1
  BY <1>1
<1>3. ASSUME NEW i \in 1..Len(ages) + 1
      PROVE  /\ Append(ages, 0)[i] = (IF i <= Len(ages) THEN ages[i] ELSE 0)
             /\ Append(ages, 0)[i] \in Nat
  <2>1. Append(ages, 0)[i] = (IF i <= Len(ages) THEN ages[i] ELSE 0)
    BY <1>1
  <2>2. \A k \in 1..Len(ages) : ages[k] \in Nat
    BY <1>1, ElementOfSeq
  <2>3. QED
    BY <2>1, <2>2
<1>4. OldestFirst(Append(ages, 0))
  BY SMTT(40), <1>1, <1>2, <1>3 DEF OldestFirst
<1>5. QED
  BY <1>2, <1>3, <1>4

LEMMA LoginRecordFailure ==
  ASSUME L!LoginAssumption, LoginIInv, NEW s \in Sessions, L!RecordFailure(s)
  PROVE  LoginIInv'
<1> DEFINE a == IPOf[s]
<1>1. /\ UNCHANGED <<users, userFile, greeted, user>>
      /\ loginPc[s].at = "failed" /\ L!Again(s)
      /\ fails' = [fails EXCEPT ![a] = Append(@, 0)] /\ quiet' = [quiet EXCEPT ![a] = 0]
  BY DEF L!RecordFailure, L!store, L!At, L!Fail
<1>2. /\ a \in IPs /\ fails \in [IPs -> Seq(0..Window - 1)] /\ quiet \in [IPs -> 0..Window]
      /\ \A ip \in IPs : OldestFirst(fails[ip])
      /\ MaxFailures \in Nat /\ Window \in Nat
  BY DEF LoginIInv, Limited, L!TypeOK, L!LoginAssumption
<1>3. "screen" \in L!Steps /\ "menu" \in L!Steps
  BY DEF L!Steps
<1>4. /\ loginPc' \in [Sessions -> [at : L!Steps, form : BOOLEAN]]
      /\ attempt' \in [Sessions -> 0..maxLoginAttempts]
      /\ loginPc'[s].at \in {"screen", "menu"}
      /\ \A t \in Sessions \ {s} : loginPc'[t].at = loginPc[t].at
  BY <1>1, <1>3, LoginMoves
<1>5. /\ Append(fails[a], 0) \in Seq(0..Window - 1) /\ OldestFirst(Append(fails[a], 0))
      /\ Len(Append(fails[a], 0)) = Len(fails[a]) + 1
      /\ \A i \in 1..Len(Append(fails[a], 0)) : Append(fails[a], 0)[i] >= 0
  BY <1>2, AppendFailure
<1>6. /\ fails' \in [IPs -> Seq(0..Window - 1)] /\ quiet' \in [IPs -> 0..Window]
      /\ fails'[a] = Append(fails[a], 0) /\ quiet'[a] = 0
      /\ \A ip \in IPs \ {a} : fails'[ip] = fails[ip] /\ quiet'[ip] = quiet[ip]
  BY <1>1, <1>2, <1>5
<1>7. ASSUME NEW ip \in IPs
      PROVE  Len(fails'[ip]) + Cardinality(Undecided(loginPc', ip)) <= MaxFailures + (L!Sharing(ip) - 1)
  <2>1. Len(fails[ip]) + Cardinality(Undecided(loginPc, ip)) <= MaxFailures + (L!Sharing(ip) - 1)
    BY DEF LoginIInv, Limited
  <2>2. /\ Cardinality(Undecided(loginPc', ip)) \in Nat /\ Cardinality(Undecided(loginPc, ip)) \in Nat
        /\ L!Sharing(ip) \in Nat /\ Len(fails[ip]) \in Nat
    BY <1>2, SharingFinite, LenProperties
  <2>3. /\ Cardinality(Undecided(loginPc', ip)) <= Cardinality(Undecided(loginPc, ip))
        /\ ip = a => Cardinality(Undecided(loginPc', ip)) = Cardinality(Undecided(loginPc, ip)) - 1
    <3>1. loginPc[s].at \in {"through", "failed"} /\ loginPc'[s].at \notin {"through", "failed"}
      BY <1>1, <1>4
    <3>2. \A t \in Sessions \ {s} : loginPc'[t].at = loginPc[t].at
      BY <1>4
    <3> HIDE DEF a
    <3>3. /\ Cardinality(Undecided(loginPc', ip)) <= Cardinality(Undecided(loginPc, ip))
          /\ IPOf[s] = ip => Cardinality(Undecided(loginPc', ip)) = Cardinality(Undecided(loginPc, ip)) - 1
      BY <3>1, <3>2, OneMoves
    <3>4. QED
      BY <3>3 DEF a
  <2>4. CASE ip = a
    BY SMTT(40), <1>2, <1>5, <1>6, <2>1, <2>2, <2>3, <2>4
  <2>5. CASE ip # a
    BY SMTT(40), <1>2, <1>6, <2>1, <2>2, <2>3, <2>5
  <2>6. QED
    BY <2>4, <2>5
<1>8. \A ip \in IPs : OldestFirst(fails'[ip]) /\ \A i \in 1..Len(fails'[ip]) : fails'[ip][i] >= quiet'[ip]
  <2>1. \A ip \in IPs : \A i \in 1..Len(fails[ip]) : fails[ip][i] >= quiet[ip]
    BY DEF LoginIInv, Limited
  <2>2. QED
    BY <1>2, <1>5, <1>6, <2>1
<1>9. Limited'
  BY <1>6, <1>7, <1>8 DEF Limited
<1>10. Durable' /\ user' \in [Sessions -> Handles \cup {NoUser}]
  BY <1>1, AccountsAlone
<1>11. L!TypeOK'
  BY <1>1, <1>4, <1>6, <1>10 DEF LoginIInv, L!TypeOK
<1>12. QED
  BY <1>9, <1>10, <1>11 DEF LoginIInv

LEMMA LoginRecordSuccess ==
  ASSUME L!LoginAssumption, LoginIInv, NEW s \in Sessions, L!RecordSuccess(s)
  PROVE  LoginIInv'
<1> DEFINE a == IPOf[s]
<1>1. /\ UNCHANGED <<users, userFile, greeted, user, quiet>>
      /\ L!BackToMenu(s) /\ fails' = [fails EXCEPT ![a] = <<>>]
  BY DEF L!RecordSuccess, L!store, L!Reset
<1>2. /\ a \in IPs /\ fails \in [IPs -> Seq(0..Window - 1)]
      /\ MaxFailures \in Nat \ {0}
  BY DEF LoginIInv, Limited, L!LoginAssumption
<1>3. "menu" \in L!Steps
  BY DEF L!Steps
<1>4. /\ loginPc' \in [Sessions -> [at : L!Steps, form : BOOLEAN]]
      /\ attempt' \in [Sessions -> 0..maxLoginAttempts]
      /\ loginPc'[s].at = "menu"
      /\ \A t \in Sessions \ {s} : loginPc'[t].at = loginPc[t].at
  BY <1>1, <1>3, LoginMoves
<1>5. /\ fails' \in [IPs -> Seq(0..Window - 1)]
      /\ fails'[a] = <<>> /\ Len(fails'[a]) = 0
      /\ \A ip \in IPs \ {a} : fails'[ip] = fails[ip]
  <2>1. <<>> \in Seq(0..Window - 1)
    BY EmptySeq
  <2>2. QED
    BY <1>1, <1>2, <2>1
<1>6. ASSUME NEW ip \in IPs
      PROVE  Len(fails'[ip]) + Cardinality(Undecided(loginPc', ip)) <= MaxFailures + (L!Sharing(ip) - 1)
  <2>1. Len(fails[ip]) + Cardinality(Undecided(loginPc, ip)) <= MaxFailures + (L!Sharing(ip) - 1)
    BY DEF LoginIInv, Limited
  <2>2. /\ Cardinality(Undecided(loginPc', ip)) \in Nat /\ Cardinality(Undecided(loginPc, ip)) \in Nat
        /\ Cardinality(Undecided(loginPc', ip)) <= L!Sharing(ip)
        /\ L!Sharing(ip) \in Nat /\ Len(fails[ip]) \in Nat
    BY <1>2, SharingFinite, LenProperties
  <2>3. Cardinality(Undecided(loginPc', ip)) <= Cardinality(Undecided(loginPc, ip))
    BY <1>4, OneMoves
  <2>4. CASE ip = a
    BY <1>2, <1>5, <2>2, <2>4
  <2>5. CASE ip # a
    BY <1>2, <1>5, <2>1, <2>2, <2>3, <2>5
  <2>6. QED
    BY <2>4, <2>5
<1>7. \A ip \in IPs : OldestFirst(fails'[ip]) /\ \A i \in 1..Len(fails'[ip]) : fails'[ip][i] >= quiet'[ip]
  <2>1. \A ip \in IPs : OldestFirst(fails[ip]) /\ \A i \in 1..Len(fails[ip]) : fails[ip][i] >= quiet[ip]
    BY DEF LoginIInv, Limited
  <2>2. OldestFirst(fails'[a]) /\ \A i \in 1..Len(fails'[a]) : fails'[a][i] >= quiet'[a]
    BY <1>5 DEF OldestFirst
  <2>3. QED
    BY <1>1, <1>5, <2>1, <2>2
<1>8. Limited'
  BY <1>5, <1>6, <1>7 DEF Limited
<1>9. Durable' /\ user' \in [Sessions -> Handles \cup {NoUser}]
  BY <1>1, AccountsAlone
<1>10. L!TypeOK'
  BY <1>1, <1>4, <1>5, <1>9 DEF LoginIInv, L!TypeOK
<1>11. QED
  BY <1>8, <1>9, <1>10 DEF LoginIInv

LEMMA LoginTick == ASSUME L!LoginAssumption, LoginIInv, L!Tick PROVE LoginIInv'
<1>1. /\ UNCHANGED <<users, userFile, greeted, user, loginPc, attempt>>
      /\ fails' = [ip \in IPs |-> L!recent(fails[ip])]
      /\ quiet' = [ip \in IPs |-> IF quiet[ip] < Window THEN quiet[ip] + 1 ELSE Window]
  BY DEF L!Tick, L!store
<1>2. fails \in [IPs -> Seq(0..Window - 1)] /\ quiet \in [IPs -> 0..Window] /\ Window \in Nat
  BY DEF LoginIInv, Limited, L!TypeOK, L!LoginAssumption
<1>3. quiet' \in [IPs -> 0..Window] /\ \A ip \in IPs : quiet'[ip] <= quiet[ip] + 1
  BY <1>1, <1>2
<1>4. ASSUME NEW ip \in IPs
      PROVE  /\ fails'[ip] \in Seq(0..Window - 1) /\ OldestFirst(fails'[ip])
             /\ Len(fails'[ip]) <= Len(fails[ip])
             /\ \A i \in 1..Len(fails'[ip]) : fails'[ip][i] >= quiet'[ip]
  <2>1. /\ fails[ip] \in Seq(0..Window - 1) /\ OldestFirst(fails[ip])
        /\ \A i \in 1..Len(fails[ip]) : fails[ip][i] >= quiet[ip]
        /\ quiet[ip] \in 0..Window
    BY <1>2 DEF LoginIInv, Limited
  <2>2. fails'[ip] = L!recent(fails[ip])
    BY <1>1
  <2>3. /\ fails'[ip] \in Seq(0..Window - 1) /\ OldestFirst(fails'[ip])
        /\ Len(fails'[ip]) <= Len(fails[ip])
        /\ \A i \in 1..Len(fails'[ip]) : fails'[ip][i] >= quiet[ip] + 1
    BY <2>1, <2>2, RecentKeeps
  <2>4. \A i \in 1..Len(fails'[ip]) : fails'[ip][i] \in 0..Window - 1
    BY <2>3, ElementOfSeq
  <2>5. \A i \in 1..Len(fails'[ip]) : fails'[ip][i] >= quiet'[ip]
    BY SMTT(40), <1>2, <1>3, <2>1, <2>3, <2>4
  <2>6. QED
    BY <2>3, <2>5
<1>5. fails' \in [IPs -> Seq(0..Window - 1)]
  BY <1>1, <1>4
<1>6. ASSUME NEW ip \in IPs
      PROVE  Len(fails'[ip]) + Cardinality(Undecided(loginPc, ip)) <= MaxFailures + (L!Sharing(ip) - 1)
  <2>1. Len(fails[ip]) + Cardinality(Undecided(loginPc, ip)) <= MaxFailures + (L!Sharing(ip) - 1)
    BY DEF LoginIInv, Limited
  <2>2. /\ Cardinality(Undecided(loginPc, ip)) \in Nat /\ L!Sharing(ip) \in Nat /\ MaxFailures \in Nat
        /\ Len(fails[ip]) \in Nat /\ Len(fails'[ip]) \in Nat /\ Len(fails'[ip]) <= Len(fails[ip])
    BY <1>2, <1>4, SharingFinite, LenProperties DEF L!LoginAssumption
  <2>3. QED
    BY <2>1, <2>2
<1>7. Limited'
  BY <1>1, <1>4, <1>5, <1>6 DEF Limited
<1>8. Durable'
  BY <1>1 DEF LoginIInv, Durable
<1>9. L!TypeOK'
  BY <1>1, <1>3, <1>4 DEF LoginIInv, L!TypeOK
<1>10. QED
  BY <1>7, <1>8, <1>9 DEF LoginIInv

LEMMA SysopsDependOnRights ==
  ASSUME NEW before, NEW after, DOMAIN after = DOMAIN before,
         \A h \in DOMAIN before : after[h].admin = before[h].admin
  PROVE  L!Sysops(after) = L!Sysops(before)
BY DEF L!Sysops

(* A call is counted in memory, and on the disk if the session is accepted. *)
LEMMA LoginCounted ==
  ASSUME L!LoginAssumption, LoginIInv, NEW s \in Sessions, NEW h \in DOMAIN users,
         users[h].calls < MaxCalls,
         users' = [users EXCEPT ![h].calls = @ + 1],
         \/ /\ userFile' = users'
            /\ user' = [user EXCEPT ![s] = h]
            /\ greeted' = [greeted EXCEPT ![h] = users'[h].calls]
         \/ UNCHANGED <<userFile, user, greeted>>
  PROVE  /\ Durable' /\ users' \in L!Accounts /\ userFile' \in L!Accounts
         /\ user' \in [Sessions -> Handles \cup {NoUser}] /\ greeted' \in [Handles -> 0..MaxCalls]
<1> DEFINE D == DOMAIN users
<1>1. /\ users \in [D -> L!Account] /\ userFile \in [D -> L!Account] /\ D \in SUBSET Handles
      /\ user \in [Sessions -> Handles \cup {NoUser}] /\ greeted \in [Handles -> 0..MaxCalls]
      /\ userFile \in L!Accounts /\ MaxCalls \in Nat
  BY AccountsAreFunctions DEF LoginIInv, Durable, L!TypeOK, L!LoginAssumption
<1>2. Durable
  BY DEF LoginIInv
<1>3. /\ users' \in [D -> L!Account] /\ DOMAIN users' = D
      /\ users'[h].calls = users[h].calls + 1 /\ users'[h].admin = users[h].admin
      /\ \A g \in D \ {h} : users'[g] = users[g]
  BY <1>1 DEF L!Account
<1>4. \A g \in D : /\ users'[g].admin = users[g].admin
                   /\ users'[g].calls \in 0..MaxCalls /\ users[g].calls \in 0..MaxCalls
                   /\ userFile[g].calls \in 0..MaxCalls /\ users[g].calls <= users'[g].calls
  BY <1>1, <1>3 DEF L!Account
<1>5. L!Sysops(users') = L!Sysops(users)
  BY <1>3, <1>4, SysopsDependOnRights
<1>6. users' \in L!Accounts
  BY <1>1, <1>3, AccountsAreFunctions
<1>7. CASE userFile' = users' /\ user' = [user EXCEPT ![s] = h] /\ greeted' = [greeted EXCEPT ![h] = users'[h].calls]
  <2>1. /\ user' \in [Sessions -> Handles \cup {NoUser}] /\ greeted' \in [Handles -> 0..MaxCalls]
        /\ \A t \in Sessions : user'[t] = user[t] \/ user'[t] = h
        /\ greeted'[h] = users'[h].calls
        /\ \A g \in Handles \ {h} : greeted'[g] = greeted[g]
    BY <1>1, <1>4, <1>7
  <2>2. \A g \in Handles : greeted'[g] > 0 => g \in D /\ greeted'[g] <= users'[g].calls
    <3>1. ASSUME NEW g \in Handles, greeted'[g] > 0, g # h PROVE g \in D /\ greeted'[g] <= users'[g].calls
      <4>1. g \in D /\ greeted[g] <= userFile[g].calls /\ userFile[g].calls <= users[g].calls
        BY <1>2, <2>1, <3>1 DEF Durable
      <4>2. greeted[g] \in Nat /\ userFile[g].calls \in Nat /\ users[g].calls \in Nat /\ users'[g].calls \in Nat
        BY <1>1, <1>4, <4>1
      <4>3. QED
        BY <1>4, <2>1, <3>1, <4>1, <4>2
    <3>2. h \in D /\ greeted'[h] <= users'[h].calls
      BY <1>1, <1>4, <2>1
    <3>3. QED
      BY <3>1, <3>2
  <2>3. Durable'
    <3>1. \A g \in D : users'[g].calls <= users'[g].calls
      BY <1>4
    <3>2. D # {} => \E g \in D : L!Sysops(users') = {g}
      BY <1>2, <1>5 DEF Durable
    <3>3. \A t \in Sessions : user'[t] # NoUser => user'[t] \in D
      BY <1>2, <2>1 DEF Durable
    <3>4. QED
      BY <1>3, <1>7, <2>2, <3>1, <3>2, <3>3 DEF Durable
  <2>4. QED
    BY <1>6, <1>7, <2>1, <2>3
<1>8. CASE UNCHANGED <<userFile, user, greeted>>
  <2>1. \A g \in D : users'[g].admin = userFile[g].admin /\ userFile[g].calls <= users'[g].calls
    BY <1>2, <1>4 DEF Durable
  <2>2. D # {} => \E g \in D : L!Sysops(users') = {g}
    BY <1>2, <1>5 DEF Durable
  <2>3. Durable'
    BY <1>2, <1>3, <1>8, <2>1, <2>2 DEF Durable
  <2>4. QED
    BY <1>1, <1>6, <1>8, <2>3
<1>9. QED
  BY <1>7, <1>8

LEMMA LoginAuthenticate ==
  ASSUME L!LoginAssumption, LoginIInv, NEW s \in Sessions, L!Authenticate(s)
  PROVE  LoginIInv'
<1>1. UNCHANGED <<fails, attempt, quiet>> /\ loginPc[s].at = "through"
  BY DEF L!Authenticate, L!At
<1>2. /\ loginPc' \in [Sessions -> [at : L!Steps, form : BOOLEAN]]
      /\ \A t \in Sessions \ {s} : loginPc'[t].at = loginPc[t].at
  <2>1. L!Goto(s, "failed") \/ L!Goto(s, "accepted")
    BY DEF L!Authenticate
  <2>2. "failed" \in L!Steps /\ "accepted" \in L!Steps
    BY DEF L!Steps
  <2>3. QED
    BY <2>1, <2>2, LoginMoves
<1>3. Limited'
  BY <1>1, <1>2, LimiterAlone
<1>4. /\ Durable' /\ users' \in L!Accounts /\ userFile' \in L!Accounts
      /\ user' \in [Sessions -> Handles \cup {NoUser}] /\ greeted' \in [Handles -> 0..MaxCalls]
  <2>1. CASE UNCHANGED <<users, userFile, user, greeted>>
    <3>1. Durable'
      BY <2>1 DEF LoginIInv, Durable
    <3>2. QED
      BY <2>1, <3>1 DEF LoginIInv, L!TypeOK
  <2>2. CASE \E h \in DOMAIN users :
               /\ users[h].calls < MaxCalls
               /\ users' = [users EXCEPT ![h].calls = @ + 1]
               /\ \/ /\ userFile' = users'
                     /\ user' = [user EXCEPT ![s] = h]
                     /\ greeted' = [greeted EXCEPT ![h] = users'[h].calls]
                  \/ UNCHANGED <<userFile, user, greeted>>
    BY <2>2, LoginCounted
  <2>3. QED
    BY <2>1, <2>2 DEF L!Authenticate, L!store
<1>5. L!TypeOK'
  BY <1>1, <1>2, <1>4 DEF LoginIInv, L!TypeOK
<1>6. QED
  BY <1>3, <1>4, <1>5 DEF LoginIInv

(* The account registered is the sysop's if there was none, and is on the
   disk before its author is identified. *)
LEMMA LoginRegistered ==
  ASSUME L!LoginAssumption, LoginIInv, NEW s \in Sessions, NEW h \in Handles \ DOMAIN users,
         NEW new, new = [calls |-> 0, admin |-> DOMAIN users = {}],
         users' = [g \in DOMAIN users \cup {h} |-> IF g = h THEN new ELSE users[g]],
         userFile' = users',
         user' = [user EXCEPT ![s] = h],
         greeted' = greeted
  PROVE  /\ Durable' /\ users' \in L!Accounts
         /\ user' \in [Sessions -> Handles \cup {NoUser}]
<1> DEFINE D == DOMAIN users
<1>1. /\ users \in [D -> L!Account] /\ D \in SUBSET Handles /\ DOMAIN userFile = D
      /\ user \in [Sessions -> Handles \cup {NoUser}] /\ greeted \in [Handles -> 0..MaxCalls]
      /\ userFile \in [D -> L!Account] /\ MaxCalls \in Nat
  BY AccountsAreFunctions DEF LoginIInv, Durable, L!TypeOK, L!LoginAssumption
<1>2. Durable
  BY DEF LoginIInv
<1>3. new \in L!Account
  BY <1>1 DEF L!Account
<1>4. /\ DOMAIN users' = D \cup {h} /\ users'[h] = new /\ h \notin D
      /\ \A g \in D : users'[g] = users[g]
  OBVIOUS
<1>5. D \cup {h} \in SUBSET Handles /\ users' \in [D \cup {h} -> L!Account]
  BY <1>1, <1>3
<1>6. users' \in L!Accounts
  BY <1>5, AccountsAreFunctions
<1>7. \E g \in D \cup {h} : L!Sysops(users') = {g}
  <2>1. CASE D = {}
    <3>1. L!Sysops(users') = {h}
      BY <1>4, <2>1 DEF L!Sysops
    <3>2. QED
      BY <3>1
  <2>2. CASE D # {}
    <3>1. PICK g \in D : L!Sysops(users) = {g}
      BY <1>2, <2>2 DEF Durable
    <3>2. new.admin = FALSE
      BY <2>2
    <3>3. L!Sysops(users') = L!Sysops(users)
      BY <1>4, <3>2 DEF L!Sysops
    <3>4. QED
      BY <3>1, <3>3
  <2>3. QED
    BY <2>1, <2>2
<1>8. /\ user' \in [Sessions -> Handles \cup {NoUser}]
      /\ \A t \in Sessions : user'[t] = user[t] \/ user'[t] = h
  BY <1>1
<1>9. \A t \in Sessions : user'[t] # NoUser => user'[t] \in D \cup {h}
  BY <1>2, <1>8 DEF Durable
<1>10. \A g \in Handles : greeted[g] > 0 => g \in D \cup {h} /\ greeted[g] <= users'[g].calls
  <2>1. ASSUME NEW g \in Handles, greeted[g] > 0 PROVE g \in D \cup {h} /\ greeted[g] <= users'[g].calls
    <3>1. g \in D /\ greeted[g] <= userFile[g].calls /\ userFile[g].calls <= users[g].calls
      BY <1>1, <1>2, <2>1 DEF Durable
    <3>2. greeted[g] \in Nat /\ userFile[g].calls \in Nat /\ users[g].calls \in Nat
      BY <1>1, <3>1 DEF L!Account
    <3>3. QED
      BY <1>4, <3>1, <3>2
  <2>2. QED
    BY <2>1
<1>11. \A g \in D \cup {h} : users'[g].calls <= users'[g].calls
  BY <1>5 DEF L!Account
<1>12. Durable'
  BY <1>4, <1>7, <1>9, <1>10, <1>11 DEF Durable
<1>13. QED
  BY <1>6, <1>8, <1>12

LEMMA LoginRegister ==
  ASSUME L!LoginAssumption, LoginIInv, NEW s \in Sessions, L!Register(s)
  PROVE  LoginIInv'
<1>1. UNCHANGED <<fails, loginPc, attempt, greeted, quiet>>
  BY DEF L!Register
<1>2. Limited'
  BY <1>1 DEF LoginIInv, Limited
<1>3. /\ Durable' /\ users' \in L!Accounts /\ userFile' \in L!Accounts
      /\ user' \in [Sessions -> Handles \cup {NoUser}]
  <2>1. CASE UNCHANGED <<users, userFile, user>>
    <3>1. Durable'
      BY <1>1, <2>1 DEF LoginIInv, Durable
    <3>2. QED
      BY <2>1, <3>1 DEF LoginIInv, L!TypeOK
  <2>2. CASE \E h \in Handles \ DOMAIN users :
               \E new \in {[calls |-> 0, admin |-> DOMAIN users = {}]} :
                 /\ users' = [g \in DOMAIN users \cup {h} |-> IF g = h THEN new ELSE users[g]]
                 /\ userFile' = users'
                 /\ user' = [user EXCEPT ![s] = h]
    <3>1. PICK h \in Handles \ DOMAIN users, new \in {[calls |-> 0, admin |-> DOMAIN users = {}]} :
            /\ users' = [g \in DOMAIN users \cup {h} |-> IF g = h THEN new ELSE users[g]]
            /\ userFile' = users'
            /\ user' = [user EXCEPT ![s] = h]
      BY <2>2
    <3>2. new = [calls |-> 0, admin |-> DOMAIN users = {}] /\ greeted' = greeted
      BY <1>1
    <3>3. /\ Durable' /\ users' \in L!Accounts
          /\ user' \in [Sessions -> Handles \cup {NoUser}]
      BY ZenonT(40), <3>1, <3>2, LoginRegistered
    <3>4. QED
      BY <3>1, <3>3
  <2>3. QED
    BY <2>1, <2>2 DEF L!Register, L!store
<1>4. L!TypeOK'
  BY <1>1, <1>3 DEF LoginIInv, L!TypeOK
<1>5. QED
  BY <1>2, <1>3, <1>4 DEF LoginIInv

LEMMA LoginCrash == ASSUME L!LoginAssumption, LoginIInv, L!Crash PROVE LoginIInv'
<1> USE DEF L!Crash
<1>1. L!TypeOK'
  <2>1. <<>> \in Seq(0..Window - 1)
    BY EmptySeq
  <2>2. QED
    BY <2>1 DEF LoginIInv, L!TypeOK, L!Steps, L!LoginAssumption
<1>2. ASSUME NEW ip \in IPs
      PROVE  0 + Cardinality(Undecided(loginPc', ip)) <= MaxFailures + (L!Sharing(ip) - 1)
  <2>1. Undecided(loginPc', ip) = {}
    BY DEF Undecided
  <2>2. QED
    BY <2>1, FS_EmptySet, SharingFinite DEF L!LoginAssumption
<1>3. Limited'
  <2>1. fails' \in [IPs -> Seq(0..Window - 1)] /\ \A ip \in IPs : fails'[ip] = <<>>
    BY EmptySeq
  <2>2. \A ip \in IPs : Len(fails'[ip]) = 0
    BY <2>1
  <2> HIDE DEF L!Crash
  <2>3. QED
    BY <1>2, <2>1, <2>2 DEF Limited, OldestFirst
<1>4. Durable'
  <2>1. L!Sysops(userFile) = L!Sysops(users)
    BY SysopsDependOnRights DEF LoginIInv, Durable
  <2>2. \A h \in DOMAIN userFile : userFile[h].calls <= userFile[h].calls
    BY AccountsAreFunctions DEF LoginIInv, L!TypeOK, L!Account, L!LoginAssumption
  <2>3. QED
    BY <2>1, <2>2 DEF LoginIInv, Durable
<1>5. QED
  BY <1>1, <1>3, <1>4 DEF LoginIInv

LEMMA LoginStep ==
  ASSUME L!LoginAssumption, LoginIInv, L!Next \/ UNCHANGED loginVars
  PROVE  LoginIInv'
<1>1. CASE UNCHANGED loginVars
  BY <1>1 DEF loginVars, LoginIInv, Limited, Durable, L!TypeOK
<1>2. CASE L!Tick \/ L!Crash
  BY <1>2, LoginTick, LoginCrash
<1>3. ASSUME NEW s \in Sessions,
             \/ L!OpenScreen(s) \/ L!CancelScreen(s) \/ L!LetThrough(s) \/ L!Throttled(s)
             \/ L!Authenticate(s) \/ L!RecordFailure(s) \/ L!RecordSuccess(s)
             \/ L!Register(s) \/ L!Disconnect(s)
      PROVE  LoginIInv'
  BY <1>3, LoginScreens, LoginLetThrough, LoginAuthenticate, LoginRecordFailure, LoginRecordSuccess, LoginRegister
<1>4. QED
  BY <1>1, <1>2, <1>3 DEF L!Next

LEMMA LoginInvariant == StoresSpec => [](explored = "login" => LoginIInv)
<1>1. StoresInit => (explored = "login" => LoginIInv)
  BY StoresAssumption, LoginInit DEF StoresInit
<1>2. (explored = "login" => LoginIInv) /\ [StoresNext]_all => (explored = "login" => LoginIInv)'
  <2> SUFFICES ASSUME explored = "login" => LoginIInv, [StoresNext]_all, explored' = "login"
               PROVE  LoginIInv'
    OBVIOUS
  <2>1. explored = "login" /\ (L!Next \/ UNCHANGED loginVars)
    BY DEF StoresNext, OthersStay, In, all
  <2>2. QED
    BY <2>1, StoresAssumption, LoginStep
<1>3. QED
  BY <1>1, <1>2, PTL DEF StoresSpec

(* For any number of sessions and addresses: however many of them ask the
   limiter before any of them records its failure, an address is charged with
   one failure beyond the limit for each session but the first. *)
THEOREM AttemptsAreBounded == StoresSpec => []FailuresBounded
<1>1. (explored = "login" => LoginIInv) => FailuresBounded
  <2> SUFFICES ASSUME LoginIInv PROVE L!FailuresBounded
    BY DEF FailuresBounded
  <2>1. ASSUME NEW ip \in IPs PROVE Len(fails[ip]) <= MaxFailures + (L!Sharing(ip) - 1)
    <3>1. Len(fails[ip]) + Cardinality(Undecided(loginPc, ip)) <= MaxFailures + (L!Sharing(ip) - 1)
      BY DEF LoginIInv, Limited
    <3>2. /\ Cardinality(Undecided(loginPc, ip)) \in Nat /\ L!Sharing(ip) \in Nat
          /\ Len(fails[ip]) \in Nat /\ MaxFailures \in Nat
      BY StoresAssumption, SharingFinite, LenProperties DEF LoginIInv, Limited, L!LoginAssumption
    <3>3. QED
      BY <3>1, <3>2
  <2>2. QED
    BY <2>1 DEF LoginIInv, L!FailuresBounded
<1>2. QED
  BY <1>1, LoginInvariant, PTL

(* Nobody is locked out by attempts that were refused: a window after its last
   failure, an address has attempts again. *)
THEOREM AttemptsComeBack == StoresSpec => []QuotaComesBack
<1>1. (explored = "login" => LoginIInv) => QuotaComesBack
  <2> SUFFICES ASSUME LoginIInv, NEW ip \in IPs, quiet[ip] = Window PROVE L!Allowed(ip)
    BY DEF QuotaComesBack, L!QuotaComesBack
  <2>1. /\ fails[ip] \in Seq(0..Window - 1) /\ Window \in Nat /\ MaxFailures \in Nat \ {0}
        /\ \A i \in 1..Len(fails[ip]) : fails[ip][i] >= Window
    BY StoresAssumption DEF LoginIInv, Limited, L!LoginAssumption
  <2>2. \A i \in 1..Len(fails[ip]) : fails[ip][i] \in 0..Window - 1
    BY <2>1, ElementOfSeq
  <2>3. ~ (1 \in 1..Len(fails[ip]))
    BY <2>1, <2>2
  <2>4. Len(fails[ip]) = 0
    BY <2>1, <2>3, LenProperties
  <2>5. QED
    BY <2>1, <2>4 DEF L!Allowed
<1>2. QED
  BY <1>1, LoginInvariant, PTL

(* Whichever registrations race, fail to be saved or are lost by a crash, one
   account is the sysop's as soon as there is one, in memory and on disk. *)
THEOREM FirstIsTheSysop == StoresSpec => []OneSysop
<1>1. (explored = "login" => LoginIInv) => OneSysop
  <2> SUFFICES ASSUME LoginIInv, NEW accounts \in {users, userFile}, accounts # <<>>
               PROVE  L!Cardinality(L!Sysops(accounts)) = 1
    BY DEF OneSysop, L!OneSysop
  <2>1. L!Sysops(userFile) = L!Sysops(users) /\ DOMAIN userFile = DOMAIN users
    BY SysopsDependOnRights DEF LoginIInv, Durable
  <2>2. accounts \in [DOMAIN accounts -> L!Account]
    BY AccountsAreFunctions DEF LoginIInv, L!TypeOK
  <2>3. DOMAIN accounts # {}
    BY <2>2
  <2>4. PICK h \in DOMAIN users : L!Sysops(accounts) = {h}
    BY <2>1, <2>3 DEF LoginIInv, Durable
  <2>5. QED
    BY <2>4, LoginSets, FS_Singleton
<1>2. QED
  BY <1>1, LoginInvariant, PTL

(* Whoever is identified is found again after a restart, with the same rights,
   and no call number is shown twice. *)
THEOREM MembersAreDurable == StoresSpec => []IdentifiedAreDurable
<1>1. (explored = "login" => LoginIInv) => IdentifiedAreDurable
  BY DEF IdentifiedAreDurable, L!IdentifiedAreDurable, LoginIInv, Durable
<1>2. QED
  BY <1>1, LoginInvariant, PTL

-----------------------------------------------------------------------------
(* Wall: the ends of sequences *)

(* What is dropped from the front to keep k. *)
Dropped(s, k) == IF Len(s) > k THEN Len(s) - k ELSE 0

LEMMA LatestIs ==
  ASSUME NEW S, NEW s \in Seq(S), NEW k \in Nat
  PROVE  /\ Dropped(s, k) \in 0..Len(s)
         /\ W!Latest(s, k) \in Seq(S)
         /\ Len(W!Latest(s, k)) = Len(s) - Dropped(s, k)
         /\ \A i \in 1..Len(s) - Dropped(s, k) : W!Latest(s, k)[i] = s[Dropped(s, k) + i]
<1> DEFINE d == Dropped(s, k)
<1>1. Len(s) \in Nat /\ \A i \in 1..Len(s) : s[i] \in S
  BY LenProperties, ElementOfSeq
<1>2. d \in 0..Len(s)
  BY <1>1 DEF Dropped
<1>3. CASE Len(s) > k
  <2>1. d = Len(s) - k /\ W!Latest(s, k) = SubSeq(s, d + 1, Len(s))
    BY <1>1, <1>3 DEF Dropped, W!Latest
  <2>2. d + 1 \in Int /\ Len(s) \in Int /\ \A i \in d + 1..Len(s) : s[i] \in S
    BY <1>1, <1>2
  <2> HIDE DEF d
  <2>3. /\ SubSeq(s, d + 1, Len(s)) \in Seq(S)
        /\ Len(SubSeq(s, d + 1, Len(s))) = (IF d + 1 <= Len(s) THEN Len(s) - (d + 1) + 1 ELSE 0)
        /\ \A i \in 1..Len(s) - (d + 1) + 1 : SubSeq(s, d + 1, Len(s))[i] = s[d + 1 + i - 1]
    BY <2>2, SubSeqProperties
  <2>4. Len(SubSeq(s, d + 1, Len(s))) = Len(s) - d
    BY <1>1, <1>2, <2>3
  <2>5. ASSUME NEW i \in 1..Len(s) - d PROVE SubSeq(s, d + 1, Len(s))[i] = s[d + i]
    <3>1. i \in 1..Len(s) - (d + 1) + 1 /\ d + 1 + i - 1 = d + i
      BY <1>1, <1>2
    <3>2. QED
      BY <2>3, <3>1
  <2>6. QED
    BY <1>2, <2>1, <2>3, <2>4, <2>5 DEF d
<1>4. CASE ~ (Len(s) > k)
  BY <1>1, <1>4 DEF Dropped, W!Latest
<1>5. QED
  BY <1>3, <1>4

LEMMA LatestTwice ==
  ASSUME NEW S, NEW s \in Seq(S), NEW k \in Nat
  PROVE  W!Latest(W!Latest(s, k), k) = W!Latest(s, k)
<1>1. Len(W!Latest(s, k)) = Len(s) - Dropped(s, k)
  BY LatestIs
<1>2. Len(W!Latest(s, k)) <= k
  BY <1>1, LenProperties DEF Dropped
<1>3. QED
  BY <1>1, <1>2, LenProperties DEF W!Latest

LEMMA AppendIs ==
  ASSUME NEW S, NEW s \in Seq(S), NEW x \in S
  PROVE  /\ Append(s, x) \in Seq(S) /\ Len(Append(s, x)) = Len(s) + 1
         /\ \A i \in 1..Len(s) + 1 : Append(s, x)[i] = (IF i <= Len(s) THEN s[i] ELSE x)
OBVIOUS

(* What is appended to the end of a sequence that is kept, complete or one
   element short, is appended to the whole. *)
LEMMA LatestAppend ==
  ASSUME NEW S, NEW s \in Seq(S), NEW x \in S, NEW k \in Nat \ {0}, NEW j \in {k - 1, k}
  PROVE  W!Latest(Append(W!Latest(s, j), x), k) = W!Latest(Append(s, x), k)
<1> DEFINE e == W!Latest(s, j)
           d == Dropped(s, j)
           t == Append(e, x)
           u == Append(s, x)
<1>1. j \in Nat /\ Len(s) \in Nat
  BY LenProperties
<1>2. d \in 0..Len(s) /\ e \in Seq(S) /\ Len(e) = Len(s) - d /\ \A i \in 1..Len(s) - d : e[i] = s[d + i]
  BY <1>1, LatestIs
<1>3. d = IF Len(s) > j THEN Len(s) - j ELSE 0
  BY DEF Dropped
<1> HIDE DEF e, d
<1>4. /\ t \in Seq(S) /\ Len(t) = Len(s) - d + 1
      /\ \A i \in 1..Len(s) - d + 1 : t[i] = (IF i <= Len(s) - d THEN e[i] ELSE x)
  <2>1. /\ t \in Seq(S) /\ Len(t) = Len(e) + 1
        /\ \A i \in 1..Len(e) + 1 : t[i] = (IF i <= Len(e) THEN e[i] ELSE x)
    BY <1>2, AppendIs
  <2>2. QED
    BY <1>2, <2>1
<1>5. /\ u \in Seq(S) /\ Len(u) = Len(s) + 1
      /\ \A i \in 1..Len(s) + 1 : u[i] = (IF i <= Len(s) THEN s[i] ELSE x)
  BY <1>1
<1> HIDE DEF t, u
<1>6. \A i \in 1..Len(t) : d + i \in 1..Len(u) /\ t[i] = u[d + i]
  <2>1. ASSUME NEW i \in 1..Len(t) PROVE d + i \in 1..Len(u) /\ t[i] = u[d + i]
    <3>1. d + i \in 1..Len(u) /\ i \in 1..Len(s) - d + 1
      BY <1>1, <1>2, <1>4, <1>5
    <3>2. CASE i <= Len(s) - d
      <4>1. t[i] = s[d + i] /\ d + i <= Len(s)
        BY <1>1, <1>2, <1>4, <3>1, <3>2
      <4>2. QED
        BY <1>5, <3>1, <4>1
    <3>3. CASE ~ (i <= Len(s) - d)
      <4>1. t[i] = x /\ ~ (d + i <= Len(s))
        BY <1>1, <1>2, <1>4, <3>1, <3>3
      <4>2. QED
        BY <1>5, <3>1, <4>1
    <3>4. QED
      BY <3>2, <3>3
  <2>2. QED
    BY <2>1
<1>7. /\ Dropped(t, k) \in 0..Len(t)
      /\ W!Latest(t, k) \in Seq(S) /\ Len(W!Latest(t, k)) = Len(t) - Dropped(t, k)
      /\ \A i \in 1..Len(t) - Dropped(t, k) : W!Latest(t, k)[i] = t[Dropped(t, k) + i]
  BY <1>4, LatestIs
<1>8. /\ Dropped(u, k) \in 0..Len(u)
      /\ W!Latest(u, k) \in Seq(S) /\ Len(W!Latest(u, k)) = Len(u) - Dropped(u, k)
      /\ \A i \in 1..Len(u) - Dropped(u, k) : W!Latest(u, k)[i] = u[Dropped(u, k) + i]
  BY <1>5, LatestIs
<1>9. d + Dropped(t, k) = Dropped(u, k)
  <2>1. Len(t) = Len(s) - d + 1 /\ Len(u) = Len(s) + 1
    BY <1>4, <1>5
  <2>2. Dropped(t, k) = (IF Len(t) > k THEN Len(t) - k ELSE 0)
    BY DEF Dropped
  <2>3. Dropped(u, k) = (IF Len(u) > k THEN Len(u) - k ELSE 0)
    BY DEF Dropped
  <2>4. CASE Len(s) > j
    BY <1>1, <1>3, <2>1, <2>2, <2>3, <2>4
  <2>5. CASE ~ (Len(s) > j)
    BY <1>1, <1>3, <2>1, <2>2, <2>3, <2>5
  <2>6. QED
    BY <2>4, <2>5
<1>10. Len(W!Latest(t, k)) = Len(W!Latest(u, k))
  <2>1. Dropped(t, k) \in Int /\ Dropped(u, k) \in Int /\ d \in Int
    BY <1>1, <1>2, <1>4, <1>5, <1>7, <1>8
  <2>2. Len(t) = Len(s) - d + 1 /\ Len(u) = Len(s) + 1
    BY <1>4, <1>5
  <2>3. Len(W!Latest(t, k)) = Len(t) - Dropped(t, k) /\ Len(W!Latest(u, k)) = Len(u) - Dropped(u, k)
    BY <1>7, <1>8
  <2>4. QED
    BY <1>1, <1>9, <2>1, <2>2, <2>3
<1>11. ASSUME NEW i \in 1..Len(W!Latest(t, k)) PROVE W!Latest(t, k)[i] = W!Latest(u, k)[i]
  <2>1. /\ W!Latest(t, k)[i] = t[Dropped(t, k) + i]
        /\ W!Latest(u, k)[i] = u[Dropped(u, k) + i]
    BY <1>7, <1>8, <1>10
  <2>2. Dropped(t, k) + i \in 1..Len(t) /\ d + (Dropped(t, k) + i) = Dropped(u, k) + i
    BY SMTT(40), <1>1, <1>2, <1>4, <1>7, <1>9
  <2>3. QED
    BY <1>6, <2>1, <2>2
<1>12. W!Latest(t, k) = W!Latest(u, k)
  BY <1>7, <1>8, <1>10, <1>11, SeqEqual
<1>13. QED
  BY <1>12 DEF t, u, e

(* Taking back what was appended leaves the end of the sequence, as it was, or
   one element short if the oldest was dropped to make room. *)
LEMMA TakenBack ==
  ASSUME NEW S, NEW s \in Seq(S), NEW x \in S, NEW k \in Nat \ {0}, NEW j \in {k - 1, k}
  PROVE  LET added == W!Latest(Append(W!Latest(s, j), x), k) IN
         \E i \in {k - 1, k} : SubSeq(added, 1, Len(added) - 1) = W!Latest(s, i)
<1> DEFINE u == Append(s, x)
           added == W!Latest(u, k)
           back == SubSeq(added, 1, Len(added) - 1)
           i == IF Len(s) >= k THEN k - 1 ELSE j
<1>1. k - 1 \in Nat /\ k \in Nat /\ i \in {k - 1, k} /\ i \in Nat /\ j \in Nat /\ Len(s) \in Nat
  BY LenProperties
<1>2. /\ u \in Seq(S) /\ Len(u) = Len(s) + 1
      /\ \A p \in 1..Len(s) : u[p] = s[p]
  BY <1>1
<1> HIDE DEF u
<1>3. /\ Dropped(u, k) \in 0..Len(u)
      /\ added \in Seq(S) /\ Len(added) = Len(u) - Dropped(u, k)
      /\ \A p \in 1..Len(u) - Dropped(u, k) : added[p] = u[Dropped(u, k) + p]
  <2>1. u \in Seq(S) /\ k \in Nat
    BY <1>2
  <2>2. QED
    BY ONLY <2>1, LatestIs
<1>4. /\ Dropped(s, i) \in 0..Len(s)
      /\ W!Latest(s, i) \in Seq(S) /\ Len(W!Latest(s, i)) = Len(s) - Dropped(s, i)
      /\ \A p \in 1..Len(s) - Dropped(s, i) : W!Latest(s, i)[p] = s[Dropped(s, i) + p]
  BY <1>1, LatestIs
<1>5. Dropped(u, k) = Dropped(s, i)
  BY <1>1, <1>2 DEF Dropped
<1> HIDE DEF i, added
<1>6. Len(added) - 1 = Len(s) - Dropped(s, i) /\ Len(added) \in Nat /\ Len(added) >= 1
  BY <1>1, <1>2, <1>3, <1>4, <1>5
<1>7. \A p \in 1..Len(added) - 1 : added[p] \in S
  BY <1>3, <1>6, ElementOfSeq
<1>8. /\ back \in Seq(S)
      /\ Len(back) = (IF 1 <= Len(added) - 1 THEN Len(added) - 1 - 1 + 1 ELSE 0)
      /\ \A p \in 1..Len(added) - 1 - 1 + 1 : back[p] = added[1 + p - 1]
  <2>1. 1 \in Int /\ Len(added) - 1 \in Int
    BY <1>6
  <2>2. QED
    BY <1>7, <2>1, SubSeqProperties
<1>9. Len(back) = Len(s) - Dropped(s, i)
  BY <1>6, <1>8
<1>10. ASSUME NEW p \in 1..Len(back) PROVE back[p] = W!Latest(s, i)[p]
  <2>1. p \in 1..Len(added) - 1 - 1 + 1 /\ 1 + p - 1 = p
    BY <1>6, <1>9
  <2>2. back[p] = added[p]
    BY <1>8, <2>1
  <2>3. p \in 1..Len(u) - Dropped(u, k) /\ Dropped(s, i) + p \in 1..Len(s)
    BY SMTT(40), <1>1, <1>2, <1>3, <1>4, <1>5, <1>9
  <2>4. added[p] = s[Dropped(s, i) + p]
    BY <1>2, <1>3, <1>5, <2>3
  <2>5. QED
    BY <1>4, <1>9, <2>2, <2>4
<1>11. back = W!Latest(s, i)
  BY <1>4, <1>8, <1>9, <1>10, SeqEqual
<1>12. W!Latest(Append(W!Latest(s, j), x), k) = added
  BY LatestAppend DEF added, u
<1>13. QED
  BY <1>1, <1>11, <1>12

LEMMA LatestElements ==
  ASSUME NEW S, NEW s \in Seq(S), NEW k \in Nat
  PROVE  /\ W!Elements(W!Latest(s, k)) \subseteq W!Elements(s)
         /\ \A j \in Nat : j <= k => W!Elements(W!Latest(s, j)) \subseteq W!Elements(W!Latest(s, k))
<1>1. Len(s) \in Nat
  BY LenProperties
<1>2. ASSUME NEW q \in Nat
      PROVE  /\ Dropped(s, q) \in 0..Len(s)
             /\ Len(W!Latest(s, q)) = Len(s) - Dropped(s, q)
             /\ \A i \in 1..Len(s) - Dropped(s, q) : W!Latest(s, q)[i] = s[Dropped(s, q) + i]
  BY LatestIs
<1>3. ASSUME NEW e \in W!Elements(W!Latest(s, k)) PROVE e \in W!Elements(s)
  <2>1. PICK i \in 1..Len(W!Latest(s, k)) : e = W!Latest(s, k)[i]
    BY DEF W!Elements
  <2>2. /\ Dropped(s, k) \in 0..Len(s)
        /\ Len(W!Latest(s, k)) = Len(s) - Dropped(s, k)
        /\ \A p \in 1..Len(s) - Dropped(s, k) : W!Latest(s, k)[p] = s[Dropped(s, k) + p]
    BY <1>2
  <2>3. Dropped(s, k) + i \in 1..Len(s) /\ e = s[Dropped(s, k) + i]
    BY <1>1, <2>1, <2>2
  <2>4. QED
    BY <2>3 DEF W!Elements
<1>4. ASSUME NEW j \in Nat, j <= k, NEW e \in W!Elements(W!Latest(s, j))
      PROVE  e \in W!Elements(W!Latest(s, k))
  <2>1. PICK i \in 1..Len(W!Latest(s, j)) : e = W!Latest(s, j)[i]
    BY DEF W!Elements
  <2>2. Dropped(s, k) <= Dropped(s, j)
    BY <1>1, <1>4 DEF Dropped
  <2>3. /\ e = s[Dropped(s, j) + i] /\ Dropped(s, j) \in 0..Len(s)
        /\ Len(W!Latest(s, j)) = Len(s) - Dropped(s, j)
    BY <1>2, <2>1
  <2>4. Dropped(s, k) \in 0..Len(s) /\ Len(W!Latest(s, k)) = Len(s) - Dropped(s, k)
    BY <1>2
  <2> DEFINE p == Dropped(s, j) + i - Dropped(s, k)
  <2>5. p \in 1..Len(s) - Dropped(s, k) /\ Dropped(s, k) + p = Dropped(s, j) + i
    BY <1>1, <2>1, <2>2, <2>3, <2>4
  <2> HIDE DEF p
  <2>6. e = W!Latest(s, k)[p] /\ p \in 1..Len(W!Latest(s, k))
    BY <1>2, <2>3, <2>4, <2>5
  <2>7. QED
    BY <2>6 DEF W!Elements
<1>5. QED
  BY <1>3, <1>4

LEMMA ElementsAppend ==
  ASSUME NEW S, NEW s \in Seq(S), NEW x \in S
  PROVE  W!Elements(Append(s, x)) = W!Elements(s) \cup {x}
<1>1. /\ Len(Append(s, x)) = Len(s) + 1 /\ Len(s) \in Nat
      /\ \A i \in 1..Len(s) + 1 : Append(s, x)[i] = (IF i <= Len(s) THEN s[i] ELSE x)
  BY AppendIs, LenProperties
<1>2. ASSUME NEW i \in 1..Len(s) PROVE i \in 1..Len(s) + 1 /\ Append(s, x)[i] = s[i]
  BY <1>1
<1>3. Len(s) + 1 \in 1..Len(s) + 1 /\ Append(s, x)[Len(s) + 1] = x
  BY <1>1
<1>4. \A i \in 1..Len(s) + 1 : i \in 1..Len(s) \/ i = Len(s) + 1
  BY <1>1
<1>5. QED
  BY <1>1, <1>2, <1>3, <1>4 DEF W!Elements

-----------------------------------------------------------------------------
(* Wall: what is shown and what was posted *)

(* Whatever the failures, what is in memory is the end of what was posted, at
   most one message short of the bound: a failed save gives back the place of
   the message it took back, but not the oldest one, dropped to make room. *)
WallIInv ==
  /\ n \in 0..MaxPosts /\ up \in BOOLEAN /\ refused \subseteq 1..n
  /\ wall \in Seq(-MaxOnWall..n) /\ wallFile \in Seq(-MaxOnWall..n)
  /\ posted \in Seq(-MaxOnWall..n)
  /\ W!KeepsLatest
  /\ ~ up => wall = <<>>
  /\ refused \cap W!Elements(posted) = {}

LEMMA WallInit == ASSUME W!WallAssumption, W!Init PROVE WallIInv
<1>1. PICK k \in 0..MaxOnWall + 1 : wallFile = [i \in 1..k |-> i - k]
  BY DEF W!Init
<1>2. k \in Nat /\ wallFile \in [1..k -> -MaxOnWall..0]
  BY <1>1 DEF W!WallAssumption
<1>3. wallFile \in Seq(-MaxOnWall..0)
  BY <1>2, FunctionIsSeq
<1>4. n = 0 /\ up = FALSE /\ refused = {} /\ wall = <<>> /\ posted = wallFile
  BY DEF W!Init
<1>5. W!KeepsLatest
  BY <1>4 DEF W!KeepsLatest
<1>6. wall \in Seq(-MaxOnWall..n) /\ wallFile \in Seq(-MaxOnWall..n)
  BY <1>3, <1>4, EmptySeq
<1>7. n \in 0..MaxPosts /\ posted \in Seq(-MaxOnWall..n)
  BY <1>4, <1>6 DEF W!WallAssumption
<1>8. up \in BOOLEAN /\ refused \subseteq 1..n /\ refused \cap W!Elements(posted) = {}
  BY <1>4
<1>9. QED
  BY <1>4, <1>5, <1>6, <1>7, <1>8 DEF WallIInv

(* An attempt to post: what it appends to the end of what was posted. *)
LEMMA WallAttempt ==
  ASSUME W!WallAssumption, WallIInv, W!Attempt
  PROVE  /\ up /\ n' = n + 1 /\ n' \in 0..MaxPosts /\ n' \notin refused /\ n' \notin W!Elements(posted)
         /\ wall \in Seq(-MaxOnWall..n') /\ wallFile \in Seq(-MaxOnWall..n')
         /\ posted \in Seq(-MaxOnWall..n') /\ Append(posted, n') \in Seq(-MaxOnWall..n')
         /\ W!Trim(Append(wall, n')) = W!Latest(Append(posted, n'), MaxOnWall)
         /\ W!Trim(Append(wall, n')) \in Seq(-MaxOnWall..n')
         /\ W!Elements(Append(posted, n')) = W!Elements(posted) \cup {n'}
         /\ \E k \in {MaxOnWall - 1, MaxOnWall} :
              SubSeq(W!Trim(Append(wall, n')), 1, Len(W!Trim(Append(wall, n'))) - 1) = W!Latest(posted, k)
<1> DEFINE S == -MaxOnWall..n'
<1>1. up /\ n < MaxPosts /\ n' = n + 1 /\ n \in Nat /\ MaxPosts \in Nat /\ MaxOnWall \in Nat \ {0}
  BY DEF W!Attempt, WallIInv, W!WallAssumption
<1>2. n' \in 0..MaxPosts /\ n' \in S /\ n' \notin refused
  BY <1>1 DEF WallIInv
<1>3. -MaxOnWall..n \subseteq S
  BY <1>1
<1>4. wall \in Seq(S) /\ wallFile \in Seq(S) /\ posted \in Seq(S)
  <2> HIDE DEF S
  <2>1. Seq(-MaxOnWall..n) \subseteq Seq(S)
    BY <1>3, SeqMonotonic
  <2>2. QED
    BY <2>1 DEF WallIInv
<1>5. n' \notin W!Elements(posted)
  <2>1. \A i \in 1..Len(posted) : posted[i] \in -MaxOnWall..n
    BY ElementOfSeq DEF WallIInv
  <2>2. \A i \in 1..Len(posted) : posted[i] # n'
    BY <1>1, <2>1
  <2>3. QED
    BY <2>2 DEF W!Elements
<1>6. PICK j \in {MaxOnWall - 1, MaxOnWall} : wall = W!Latest(posted, j)
  BY <1>1 DEF WallIInv, W!KeepsLatest
<1> HIDE DEF S
<1>7. Append(posted, n') \in Seq(S) /\ W!Elements(Append(posted, n')) = W!Elements(posted) \cup {n'}
  BY <1>2, <1>4, AppendIs, ElementsAppend
<1>8. W!Trim(Append(wall, n')) = W!Latest(Append(posted, n'), MaxOnWall)
  BY <1>1, <1>2, <1>4, <1>6, LatestAppend DEF W!Trim
<1>9. W!Latest(Append(posted, n'), MaxOnWall) \in Seq(S)
  BY <1>1, <1>7, LatestIs
<1>10. \E k \in {MaxOnWall - 1, MaxOnWall} :
         SubSeq(W!Trim(Append(wall, n')), 1, Len(W!Trim(Append(wall, n'))) - 1) = W!Latest(posted, k)
  <2> DEFINE added == W!Latest(Append(W!Latest(posted, j), n'), MaxOnWall)
  <2>1. added = W!Trim(Append(wall, n'))
    BY <1>6 DEF W!Trim
  <2>2. \E k \in {MaxOnWall - 1, MaxOnWall} : SubSeq(added, 1, Len(added) - 1) = W!Latest(posted, k)
    BY SMTT(40), <1>1, <1>2, <1>4, TakenBack
  <2>3. QED
    BY <2>1, <2>2
<1>11. QED
  BY <1>1, <1>2, <1>4, <1>5, <1>7, <1>8, <1>9, <1>10 DEF S

LEMMA WallStep ==
  ASSUME W!WallAssumption, WallIInv, W!Next \/ UNCHANGED wallVars
  PROVE  WallIInv'
<1>1. MaxOnWall \in Nat \ {0} /\ MaxOnWall - 1 \in Nat /\ <<>> \in Seq(-MaxOnWall..n')
  BY EmptySeq DEF W!WallAssumption
<1>2. CASE UNCHANGED wallVars
  BY <1>2 DEF wallVars, WallIInv, W!KeepsLatest
<1>3. CASE W!Open
  <2>1. /\ UNCHANGED <<wallFile, posted, refused, n>> /\ up' = TRUE
        /\ wall' = W!Latest(wallFile, MaxOnWall)
    BY <1>3 DEF W!Open, W!Trim
  <2>2. wallFile \in Seq(-MaxOnWall..n) /\ posted \in Seq(-MaxOnWall..n)
    BY DEF WallIInv
  <2>3. wall' = W!Latest(posted, MaxOnWall)
    BY <1>1, <2>1, <2>2, LatestTwice DEF WallIInv, W!KeepsLatest
  <2>4. wall' \in Seq(-MaxOnWall..n)
    BY <1>1, <2>2, <2>3, LatestIs
  <2>5. QED
    BY <2>1, <2>3, <2>4 DEF WallIInv, W!KeepsLatest
<1>4. CASE W!Post \/ W!PostThenCrash
  <2>1. /\ W!Attempt /\ posted' = Append(posted, n') /\ refused' = refused
        /\ wallFile' = W!Trim(Append(wall, n'))
        /\ \/ wall' = W!Trim(Append(wall, n')) /\ up' = up
           \/ wall' = <<>> /\ up' = FALSE
    BY <1>4 DEF W!Post, W!PostThenCrash
  <2>2. /\ up /\ n' = n + 1 /\ n' \in 0..MaxPosts /\ n' \notin refused
        /\ Append(posted, n') \in Seq(-MaxOnWall..n')
        /\ W!Trim(Append(wall, n')) = W!Latest(Append(posted, n'), MaxOnWall)
        /\ W!Trim(Append(wall, n')) \in Seq(-MaxOnWall..n')
        /\ W!Elements(Append(posted, n')) = W!Elements(posted) \cup {n'}
    BY <2>1, WallAttempt
  <2>3. refused' \subseteq 1..n' /\ refused' \cap W!Elements(posted') = {}
    BY <2>1, <2>2 DEF WallIInv
  <2>4. /\ posted' \in Seq(-MaxOnWall..n') /\ wallFile' \in Seq(-MaxOnWall..n')
        /\ wall' \in Seq(-MaxOnWall..n') /\ up' \in BOOLEAN /\ (~ up' => wall' = <<>>)
    BY <1>1, <2>1, <2>2
  <2>5. /\ wallFile' = W!Latest(posted', MaxOnWall)
        /\ up' => wall' = W!Latest(posted', MaxOnWall)
    BY <2>1, <2>2
  <2>6. QED
    BY <2>2, <2>3, <2>4, <2>5 DEF WallIInv, W!KeepsLatest
<1>5. CASE W!PostFails
  <2> DEFINE added == W!Trim(Append(wall, n'))
  <2>1. /\ W!Attempt /\ UNCHANGED <<wallFile, up, posted>> /\ refused' = refused \cup {n'}
        /\ wall' = SubSeq(added, 1, Len(added) - 1)
    BY <1>5 DEF W!PostFails
  <2>2. /\ up /\ n' = n + 1 /\ n' \in 0..MaxPosts /\ n' \notin W!Elements(posted)
        /\ wallFile \in Seq(-MaxOnWall..n') /\ posted \in Seq(-MaxOnWall..n')
        /\ \E k \in {MaxOnWall - 1, MaxOnWall} : SubSeq(added, 1, Len(added) - 1) = W!Latest(posted, k)
    BY <2>1, WallAttempt
  <2>3. PICK k \in {MaxOnWall - 1, MaxOnWall} : wall' = W!Latest(posted, k)
    BY <2>1, <2>2
  <2>4. wall' \in Seq(-MaxOnWall..n')
    BY <1>1, <2>2, <2>3, LatestIs
  <2>5. refused' \subseteq 1..n' /\ refused' \cap W!Elements(posted) = {}
    BY <2>1, <2>2 DEF WallIInv
  <2>6. QED
    BY <2>1, <2>2, <2>3, <2>4, <2>5 DEF WallIInv, W!KeepsLatest
<1>6. CASE W!Crash
  BY <1>1, <1>6 DEF W!Crash, WallIInv, W!KeepsLatest
<1>7. QED
  BY <1>2, <1>3, <1>4, <1>5, <1>6 DEF W!Next

(* For any bound, any number of posts and whatever saves fail: the wall shows
   the end of what reached the file, and nothing its author was refused. *)
THEOREM WallIsTheEnd == StoresSpec => []WallKept
<1>1. StoresInit => (explored = "wall" => WallIInv)
  BY StoresAssumption, WallInit DEF StoresInit
<1>2. (explored = "wall" => WallIInv) /\ [StoresNext]_all => (explored = "wall" => WallIInv)'
  <2> SUFFICES ASSUME explored = "wall" => WallIInv, [StoresNext]_all, explored' = "wall"
               PROVE  WallIInv'
    OBVIOUS
  <2>1. explored = "wall" /\ (W!Next \/ UNCHANGED wallVars)
    BY DEF StoresNext, OthersStay, In, all
  <2>2. QED
    BY <2>1, StoresAssumption, WallStep
<1>3. (explored = "wall" => WallIInv) => WallKept
  <2> SUFFICES ASSUME WallIInv PROVE W!WallKept
    BY DEF WallKept
  <2>1. /\ MaxOnWall \in Nat \ {0} /\ MaxOnWall - 1 \in Nat /\ posted \in Seq(-MaxOnWall..n)
        /\ wallFile \in Seq(-MaxOnWall..n) /\ refused \cap W!Elements(posted) = {}
    BY StoresAssumption DEF WallIInv, W!WallAssumption
  <2>2. /\ W!Trim(wallFile) = W!Latest(posted, MaxOnWall)
        /\ W!Elements(wallFile) \subseteq W!Elements(posted)
    BY <2>1, LatestTwice, LatestElements DEF WallIInv, W!KeepsLatest, W!Trim
  <2>3. CASE up
    <3>1. PICK k \in {MaxOnWall - 1, MaxOnWall} : wall = W!Latest(posted, k)
      BY <2>3 DEF WallIInv, W!KeepsLatest
    <3>2. k \in Nat /\ k <= MaxOnWall
      BY <2>1
    <3>3. /\ W!Elements(wall) \subseteq W!Elements(posted)
          /\ W!Elements(wall) \subseteq W!Elements(W!Trim(wallFile))
      BY <2>1, <2>2, <3>1, <3>2, LatestElements
    <3>4. Len(wall) <= MaxOnWall
      <4>1. Len(wall) = Len(posted) - Dropped(posted, k)
        BY <2>1, <3>1, <3>2, LatestIs
      <4>2. QED
        BY <2>1, <3>2, <4>1, LenProperties DEF Dropped
    <3>5. W!ShownIsDurable
      BY <2>1, <2>2, <3>3 DEF W!ShownIsDurable
    <3>6. QED
      BY <3>4, <3>5 DEF WallIInv, W!WallKept, W!TypeOK
  <2>4. CASE ~ up
    <3>1. wall = <<>> /\ Len(wall) = 0 /\ W!Elements(wall) = {}
      BY <2>4 DEF WallIInv, W!Elements
    <3>2. W!ShownIsDurable
      BY <2>1, <2>2, <2>4, <3>1 DEF W!ShownIsDurable
    <3>3. QED
      BY <2>1, <3>1, <3>2 DEF WallIInv, W!WallKept, W!TypeOK
  <2>5. QED
    BY <2>3, <2>4
<1>4. QED
  BY <1>1, <1>2, <1>3, PTL DEF StoresSpec

-----------------------------------------------------------------------------
(* Mail: what an inbox displays *)

LEMMA MailSets == \A S : M!Cardinality(S) = Cardinality(S)
BY DEF M!Cardinality, Cardinality

(* Positions can be counted from the last one: there is a k-th. *)
LEMMA KthExists ==
  ASSUME NEW m \in Nat, NEW T \in SUBSET (1..m), NEW k \in 1..Cardinality(T)
  PROVE  \E i \in T : Cardinality({j \in T : j >= i}) = k
<1> DEFINE rank(i) == {j \in T : j >= i}
           f == [i \in T |-> Cardinality(rank(i))]
           c == Cardinality(T)
<1>1. IsFiniteSet(T) /\ c \in Nat
  <2>1. IsFiniteSet(1..m)
    BY FS_Interval
  <2>2. QED
    BY <2>1, FS_Subset, FS_CardinalityType
<1>2. ASSUME NEW i \in T
      PROVE  IsFiniteSet(rank(i)) /\ Cardinality(rank(i)) \in 1..c
  <2>1. IsFiniteSet(rank(i)) /\ Cardinality(rank(i)) \in Nat /\ Cardinality(rank(i)) <= c
    BY <1>1, FS_Subset, FS_CardinalityType
  <2>2. i \in rank(i)
    OBVIOUS
  <2>3. Cardinality(rank(i)) # 0
    BY <2>1, <2>2, FS_EmptySet
  <2>4. QED
    BY <1>1, <2>1, <2>3
<1>3. ASSUME NEW i \in T, NEW j \in T, i < j
      PROVE  Cardinality(rank(i)) # Cardinality(rank(j))
  <2>1. i \in Int /\ j \in Int /\ \A p \in T : p \in Int
    OBVIOUS
  <2>2. rank(j) \subseteq rank(i) /\ i \in rank(i) /\ i \notin rank(j)
    <3>1. \A p \in T : p >= j => p >= i
      BY <1>3, <2>1
    <3>2. i >= i /\ ~ (i >= j)
      BY <1>3, <2>1
    <3>3. QED
      BY ONLY <3>1, <3>2, i \in T
  <2>3. IsFiniteSet(rank(i))
    BY <1>2
  <2> HIDE DEF rank
  <2>4. QED
    BY <2>2, <2>3, FS_Subset
<1>4. f \in Injection(T, 1..c)
  <2>1. f \in [T -> 1..c]
    BY <1>2
  <2>2. ASSUME NEW i \in T, NEW j \in T, f[i] = f[j] PROVE i = j
    <3>1. Cardinality(rank(i)) = Cardinality(rank(j))
      BY <2>2
    <3>2. i \in Int /\ j \in Int
      OBVIOUS
    <3>3. QED
      BY <1>3, <3>1, <3>2
  <2> HIDE DEF f
  <2>3. QED
    BY <2>1, <2>2 DEF Injection, IsInjective
<1>5. f \in Surjection(T, 1..c)
  <2>1. IsFiniteSet(1..c) /\ Cardinality(1..c) = c
    BY <1>1, FS_Interval
  <2> HIDE DEF f
  <2>2. QED
    BY <1>4, <2>1, FS_Injection
<1>6. \E i \in T : f[i] = k
  <2> HIDE DEF f
  <2>1. QED
    BY <1>5 DEF Surjection
<1>7. QED
  BY <1>6

Letters == [id : 1..MaxSends, from : Members, to : Members, read : BOOLEAN]

LEMMA InboxIs ==
  ASSUME mailbox \in Seq(Letters), NEW m
  PROVE  M!Inbox(m) \in Seq(Letters)
<1> DEFINE T == M!Received(m)
           c == M!Cardinality(T)
<1>1. Len(mailbox) \in Nat /\ \A i \in 1..Len(mailbox) : mailbox[i] \in Letters
  BY LenProperties, ElementOfSeq
<1>2. T \in SUBSET (1..Len(mailbox)) /\ c = Cardinality(T)
  BY MailSets DEF M!Received
<1>3. c \in Nat
  <2>1. IsFiniteSet(1..Len(mailbox))
    BY <1>1, FS_Interval
  <2>2. IsFiniteSet(T)
    BY <1>2, <2>1, FS_Subset
  <2>3. QED
    BY <1>2, <2>2, FS_CardinalityType
<1>4. ASSUME NEW k \in 1..c PROVE mailbox[M!KthLast(m, k)] \in Letters
  <2>1. \E i \in T : Cardinality({j \in T : j >= i}) = k
    BY <1>1, <1>2, KthExists
  <2>2. \E i \in T : M!Cardinality({j \in T : j >= i}) = k
    BY <2>1, MailSets
  <2>3. M!KthLast(m, k) \in T
    BY <2>2 DEF M!KthLast
  <2>4. QED
    BY <1>1, <1>2, <2>3
<1> HIDE DEF c
<1>5. [k \in 1..c |-> mailbox[M!KthLast(m, k)]] \in [1..c -> Letters]
  BY <1>4
<1>6. [k \in 1..c |-> mailbox[M!KthLast(m, k)]] \in Seq(Letters)
  BY ONLY <1>3, <1>5, FunctionIsSeq
<1>7. QED
  BY <1>6 DEF M!Inbox, c

-----------------------------------------------------------------------------
(* Mail: what is kept of what was delivered *)

(* Messages as they were sent, whoever has read them since. *)
Unmarked(q) == [i \in 1..Len(q) |-> [q[i] EXCEPT !.read = FALSE]]

LEMMA UnmarkedIs ==
  ASSUME NEW q \in Seq(Letters)
  PROVE  /\ Unmarked(q) \in Seq(Letters) /\ Len(Unmarked(q)) = Len(q)
         /\ \A i \in 1..Len(q) : /\ Unmarked(q)[i] = [q[i] EXCEPT !.read = FALSE]
                                 /\ Unmarked(q)[i].id = q[i].id
<1>1. Len(q) \in Nat /\ \A i \in 1..Len(q) : q[i] \in Letters
  BY LenProperties, ElementOfSeq
<1>2. \A x \in Letters : [x EXCEPT !.read = FALSE] \in Letters /\ [x EXCEPT !.read = FALSE].id = x.id
  BY DEF Letters
<1>3. Unmarked(q) \in [1..Len(q) -> Letters]
  BY <1>1, <1>2 DEF Unmarked
<1>4. Unmarked(q) \in Seq(Letters) /\ Len(Unmarked(q)) = Len(q)
  BY ONLY <1>1, <1>3, FunctionIsSeq
<1>5. ASSUME NEW i \in 1..Len(q)
      PROVE  Unmarked(q)[i] = [q[i] EXCEPT !.read = FALSE] /\ Unmarked(q)[i].id = q[i].id
  <2>1. Unmarked(q)[i] = [q[i] EXCEPT !.read = FALSE]
    BY DEF Unmarked
  <2>2. QED
    BY <1>1, <1>2, <2>1
<1>6. QED
  BY <1>4, <1>5

LEMMA UnmarkedLatest ==
  ASSUME NEW q \in Seq(Letters), NEW k \in Nat
  PROVE  Unmarked(W!Latest(q, k)) = W!Latest(Unmarked(q), k)
<1> DEFINE e == W!Latest(q, k)
           d == Dropped(q, k)
<1>1. /\ d \in 0..Len(q) /\ e \in Seq(Letters) /\ Len(e) = Len(q) - d /\ Len(q) \in Nat
      /\ \A i \in 1..Len(q) - d : e[i] = q[d + i]
  BY LatestIs, LenProperties
<1>2. /\ Unmarked(e) \in Seq(Letters) /\ Len(Unmarked(e)) = Len(e)
      /\ \A i \in 1..Len(e) : Unmarked(e)[i] = [e[i] EXCEPT !.read = FALSE]
  BY <1>1, UnmarkedIs
<1>3. /\ Unmarked(q) \in Seq(Letters) /\ Len(Unmarked(q)) = Len(q)
      /\ \A i \in 1..Len(q) : Unmarked(q)[i] = [q[i] EXCEPT !.read = FALSE]
  BY UnmarkedIs
<1>4. Dropped(Unmarked(q), k) = d
  BY <1>3 DEF Dropped
<1>5. /\ W!Latest(Unmarked(q), k) \in Seq(Letters) /\ Len(W!Latest(Unmarked(q), k)) = Len(q) - d
      /\ \A i \in 1..Len(q) - d : W!Latest(Unmarked(q), k)[i] = Unmarked(q)[d + i]
  <2>1. /\ W!Latest(Unmarked(q), k) \in Seq(Letters)
        /\ Len(W!Latest(Unmarked(q), k)) = Len(Unmarked(q)) - Dropped(Unmarked(q), k)
        /\ \A i \in 1..Len(Unmarked(q)) - Dropped(Unmarked(q), k) :
             W!Latest(Unmarked(q), k)[i] = Unmarked(q)[Dropped(Unmarked(q), k) + i]
    BY <1>3, LatestIs
  <2> HIDE DEF d
  <2>2. QED
    BY <1>3, <1>4, <2>1
<1> HIDE DEF e, d
<1>6. ASSUME NEW i \in 1..Len(Unmarked(e)) PROVE Unmarked(e)[i] = W!Latest(Unmarked(q), k)[i]
  <2>1. i \in 1..Len(e) /\ i \in 1..Len(q) - d /\ d + i \in 1..Len(q)
    BY <1>1, <1>2
  <2>2. Unmarked(e)[i] = [q[d + i] EXCEPT !.read = FALSE]
    BY <1>1, <1>2, <2>1
  <2>3. QED
    BY <1>3, <1>5, <2>1, <2>2
<1>7. Unmarked(e) = W!Latest(Unmarked(q), k)
  BY <1>1, <1>2, <1>5, <1>6, SeqEqual
<1>8. QED
  BY <1>7 DEF e

LEMMA UnmarkedAppend ==
  ASSUME NEW q \in Seq(Letters), NEW x \in Letters, x.read = FALSE
  PROVE  Unmarked(Append(q, x)) = Append(Unmarked(q), x)
<1> DEFINE t == Append(q, x)
<1>1. /\ t \in Seq(Letters) /\ Len(t) = Len(q) + 1 /\ Len(q) \in Nat
      /\ \A i \in 1..Len(q) + 1 : t[i] = (IF i <= Len(q) THEN q[i] ELSE x)
  BY AppendIs, LenProperties
<1> HIDE DEF t
<1>2. /\ Unmarked(t) \in Seq(Letters) /\ Len(Unmarked(t)) = Len(q) + 1
      /\ \A i \in 1..Len(q) + 1 : Unmarked(t)[i] = [t[i] EXCEPT !.read = FALSE]
  BY <1>1, UnmarkedIs
<1>3. /\ Unmarked(q) \in Seq(Letters) /\ Len(Unmarked(q)) = Len(q)
      /\ \A i \in 1..Len(q) : Unmarked(q)[i] = [q[i] EXCEPT !.read = FALSE]
  BY UnmarkedIs
<1>4. /\ Append(Unmarked(q), x) \in Seq(Letters) /\ Len(Append(Unmarked(q), x)) = Len(q) + 1
      /\ \A i \in 1..Len(q) + 1 :
           Append(Unmarked(q), x)[i] = (IF i <= Len(q) THEN Unmarked(q)[i] ELSE x)
  BY <1>3, AppendIs
<1>5. [x EXCEPT !.read = FALSE] = x
  BY DEF Letters
<1>6. ASSUME NEW i \in 1..Len(q) + 1 PROVE Unmarked(t)[i] = Append(Unmarked(q), x)[i]
  <2>1. CASE i <= Len(q)
    <3>1. i \in 1..Len(q)
      BY <1>1, <2>1
    <3>2. QED
      BY <1>1, <1>2, <1>3, <1>4, <2>1, <3>1
  <2>2. CASE ~ (i <= Len(q))
    BY <1>1, <1>2, <1>4, <1>5, <2>2
  <2>3. QED
    BY <2>1, <2>2
<1>7. Unmarked(t) = Append(Unmarked(q), x)
  BY <1>2, <1>4, <1>6, SeqEqual
<1>8. QED
  BY <1>7 DEF t

LEMMA FrontIs ==
  ASSUME NEW S, NEW q \in Seq(S), Len(q) >= 1
  PROVE  /\ SubSeq(q, 1, Len(q) - 1) \in Seq(S) /\ Len(SubSeq(q, 1, Len(q) - 1)) = Len(q) - 1
         /\ \A i \in 1..Len(q) - 1 : SubSeq(q, 1, Len(q) - 1)[i] = q[i]
<1>1. Len(q) \in Nat /\ \A i \in 1..Len(q) - 1 : q[i] \in S
  BY LenProperties, ElementOfSeq
<1>2. 1 \in Int /\ Len(q) - 1 \in Int
  BY <1>1
<1>3. /\ SubSeq(q, 1, Len(q) - 1) \in Seq(S)
      /\ Len(SubSeq(q, 1, Len(q) - 1)) = (IF 1 <= Len(q) - 1 THEN Len(q) - 1 - 1 + 1 ELSE 0)
      /\ \A i \in 1..Len(q) - 1 - 1 + 1 : SubSeq(q, 1, Len(q) - 1)[i] = q[1 + i - 1]
  BY <1>1, <1>2, SubSeqProperties
<1>4. ASSUME NEW i \in 1..Len(q) - 1 PROVE SubSeq(q, 1, Len(q) - 1)[i] = q[i]
  <2>1. i \in 1..Len(q) - 1 - 1 + 1 /\ 1 + i - 1 = i
    BY <1>1
  <2>2. QED
    BY <1>3, <2>1
<1>5. Len(SubSeq(q, 1, Len(q) - 1)) = Len(q) - 1
  <2>1. \A c \in Nat : c >= 1 => c - 1 = (IF 1 <= c - 1 THEN c - 1 - 1 + 1 ELSE 0)
    OBVIOUS
  <2>2. QED
    BY <1>1, <1>3, <2>1
<1>6. QED
  BY <1>3, <1>4, <1>5

LEMMA UnmarkedFront ==
  ASSUME NEW q \in Seq(Letters), Len(q) >= 1
  PROVE  Unmarked(SubSeq(q, 1, Len(q) - 1)) = SubSeq(Unmarked(q), 1, Len(Unmarked(q)) - 1)
<1> DEFINE e == SubSeq(q, 1, Len(q) - 1)
           b == SubSeq(Unmarked(q), 1, Len(Unmarked(q)) - 1)
<1>1. e \in Seq(Letters) /\ Len(e) = Len(q) - 1 /\ \A i \in 1..Len(q) - 1 : e[i] = q[i]
  BY FrontIs
<1>2. /\ Unmarked(q) \in Seq(Letters) /\ Len(Unmarked(q)) = Len(q) /\ Len(q) \in Nat
      /\ \A i \in 1..Len(q) : Unmarked(q)[i] = [q[i] EXCEPT !.read = FALSE]
  BY UnmarkedIs, LenProperties
<1>3. b \in Seq(Letters) /\ Len(b) = Len(q) - 1 /\ \A i \in 1..Len(q) - 1 : b[i] = Unmarked(q)[i]
  <2>1. Len(Unmarked(q)) >= 1
    BY <1>2
  <2>2. QED
    BY <1>2, <2>1, FrontIs
<1> HIDE DEF e, b
<1>4. /\ Unmarked(e) \in Seq(Letters) /\ Len(Unmarked(e)) = Len(q) - 1
      /\ \A i \in 1..Len(q) - 1 : Unmarked(e)[i] = [e[i] EXCEPT !.read = FALSE]
  BY <1>1, UnmarkedIs
<1>5. ASSUME NEW i \in 1..Len(q) - 1 PROVE Unmarked(e)[i] = b[i]
  <2>1. i \in 1..Len(q)
    BY <1>2
  <2>2. QED
    BY <1>1, <1>2, <1>3, <1>4, <2>1
<1>6. Unmarked(e) = b
  BY <1>3, <1>4, <1>5, SeqEqual
<1>7. QED
  BY <1>6 DEF e, b

LEMMA UnmarkedMarked ==
  ASSUME NEW q \in Seq(Letters), NEW m, NEW k
  PROVE  /\ M!Marked(q, m, k) \in Seq(Letters)
         /\ Unmarked(M!Marked(q, m, k)) = Unmarked(q)
         /\ \A i \in 1..Len(q) :
              /\ M!Marked(q, m, k)[i].id = q[i].id /\ M!Marked(q, m, k)[i].to = q[i].to
              /\ M!Marked(q, m, k)[i].read => q[i].read \/ (q[i].id = k /\ q[i].to = m)
         /\ Len(M!Marked(q, m, k)) = Len(q)
<1> DEFINE t == M!Marked(q, m, k)
<1>1. Len(q) \in Nat /\ \A i \in 1..Len(q) : q[i] \in Letters
  BY LenProperties, ElementOfSeq
<1>2. \A x \in Letters : /\ [x EXCEPT !.read = TRUE] \in Letters /\ [x EXCEPT !.read = TRUE].id = x.id
                         /\ [x EXCEPT !.read = TRUE].to = x.to
                         /\ [[x EXCEPT !.read = TRUE] EXCEPT !.read = FALSE] = [x EXCEPT !.read = FALSE]
  BY DEF Letters
<1>3. t \in [1..Len(q) -> Letters]
  BY <1>1, <1>2 DEF M!Marked
<1>4. t \in Seq(Letters) /\ Len(t) = Len(q)
  BY ONLY <1>1, <1>3, FunctionIsSeq
<1>5. ASSUME NEW i \in 1..Len(q)
      PROVE  /\ t[i].id = q[i].id /\ t[i].to = q[i].to
             /\ t[i].read => q[i].read \/ (q[i].id = k /\ q[i].to = m)
             /\ [t[i] EXCEPT !.read = FALSE] = [q[i] EXCEPT !.read = FALSE]
  <2>1. CASE q[i].id = k /\ q[i].to = m
    <3>1. t[i] = [q[i] EXCEPT !.read = TRUE]
      BY <2>1 DEF M!Marked
    <3>2. QED
      BY <1>1, <1>2, <2>1, <3>1
  <2>2. CASE ~ (q[i].id = k /\ q[i].to = m)
    <3>1. t[i] = q[i]
      BY <2>2 DEF M!Marked
    <3>2. QED
      BY <3>1
  <2>3. QED
    BY <2>1, <2>2
<1> HIDE DEF t
<1>6. Unmarked(t) = Unmarked(q)
  BY <1>4, <1>5 DEF Unmarked
<1>7. QED
  BY <1>4, <1>5, <1>6 DEF t

-----------------------------------------------------------------------------
(* Mail: the invariant *)

MailTyped ==
  /\ mailbox \in Seq(Letters) /\ sent \in Seq(Letters)
  /\ mailFile \in [next : 0..MaxSends + 1, messages : Seq(Letters)]
  /\ attempts \in 0..MaxSends /\ mailID \in 1..attempts + 1
  /\ opened \subseteq Members \X (1..MaxSends) /\ cut \subseteq Members \X (1..MaxSends)
  /\ screen \in [Sessions -> {"away", "inbox", "opening", "message", "compose"}]
  /\ box \in [Sessions -> Seq(Letters)]
  /\ shown \in [Sessions -> Letters \cup {M!NoMessage}]
  /\ \A s \in Sessions : screen[s] = "opening" => shown[s] \in Letters

(* A number that reached the file is below the counter of the file, and that
   one is at most the counter in memory: none is given twice, although failed
   sends and crashes move the two apart. *)
Numbered ==
  /\ M!counterOf(mailFile) <= mailID
  /\ \A i \in 1..Len(sent) : sent[i].id < M!counterOf(mailFile)
  /\ \A i, j \in 1..Len(sent) : i < j => sent[i].id < sent[j].id

(* As on the wall: all that is kept, or one message less. *)
EndOfSent(q) == \E k \in {MaxInBox - 1, MaxInBox} : Unmarked(q) = W!Latest(sent, k)

(* What was chosen: displayed, cut, or about to be displayed. *)
Chosen == opened \cup cut \cup UNION {M!Opening(s) : s \in Sessions}

OnlyOpened(q) == \A i \in 1..Len(q) : q[i].read => <<q[i].to, q[i].id>> \in Chosen

MailIInv ==
  /\ MailTyped /\ Numbered
  /\ EndOfSent(mailbox) /\ EndOfSent(mailFile.messages)
  /\ OnlyOpened(mailbox) /\ OnlyOpened(mailFile.messages)

LEMMA MailInit == ASSUME M!MailAssumption, M!Init PROVE MailIInv
<1>1. /\ mailbox = <<>> /\ mailID = 1 /\ mailFile = [next |-> 0, messages |-> <<>>]
      /\ sent = <<>> /\ opened = {} /\ cut = {} /\ attempts = 0
      /\ screen = [s \in Sessions |-> "away"] /\ box = [s \in Sessions |-> <<>>]
      /\ shown = [s \in Sessions |-> M!NoMessage]
  BY DEF M!Init, M!Away
<1>2. <<>> \in Seq(Letters)
  BY EmptySeq
<1>3. /\ attempts \in 0..MaxSends /\ mailID \in 1..attempts + 1
      /\ mailFile \in [next : 0..MaxSends + 1, messages : Seq(Letters)]
  BY <1>1, <1>2 DEF M!MailAssumption
<1>4. MailTyped
  BY <1>1, <1>2, <1>3 DEF MailTyped
<1>5. Numbered
  BY <1>1 DEF Numbered, M!counterOf
<1>6. Unmarked(<<>>) = <<>>
  <2>1. Unmarked(<<>>) \in Seq(Letters) /\ Len(Unmarked(<<>>)) = 0
    BY <1>2, UnmarkedIs
  <2>2. QED
    BY <2>1, EmptySeq
<1>7. W!Latest(<<>>, MaxInBox) = <<>>
  BY DEF W!Latest, M!MailAssumption
<1>8. EndOfSent(mailbox) /\ EndOfSent(mailFile.messages)
  BY <1>1, <1>6, <1>7 DEF EndOfSent
<1>9. OnlyOpened(mailbox) /\ OnlyOpened(mailFile.messages)
  BY <1>1 DEF OnlyOpened
<1>10. QED
  BY <1>4, <1>5, <1>8, <1>9 DEF MailIInv

(* A session that leaves a screen takes nothing from what was chosen. *)
LEMMA ChosenStays ==
  ASSUME MailTyped, NEW s \in Sessions, opened \cup cut \subseteq opened' \cup cut',
         \A x \in Sessions \ {s} : screen'[x] = screen[x] /\ shown'[x] = shown[x],
         M!Opening(s) \subseteq opened' \cup cut'
  PROVE  Chosen \subseteq Chosen'
<1>1. ASSUME NEW x \in Sessions PROVE M!Opening(x) \subseteq opened' \cup cut' \cup M!Opening(x)'
  <2>1. CASE x = s
    BY <2>1
  <2>2. CASE x # s
    <3>1. screen'[x] = screen[x] /\ shown'[x] = shown[x]
      BY <2>2
    <3>2. QED
      BY <3>1 DEF M!Opening
  <2>3. QED
    BY <2>1, <2>2
<1>2. ASSUME NEW c \in Chosen PROVE c \in Chosen'
  <2>1. CASE c \in opened \cup cut
    BY <2>1 DEF Chosen
  <2>2. CASE \E x \in Sessions : c \in M!Opening(x)
    <3>1. PICK x \in Sessions : c \in M!Opening(x)
      BY <2>2
    <3>2. c \in opened' \cup cut' \cup M!Opening(x)'
      BY <1>1, <3>1
    <3>3. QED
      BY <3>2 DEF Chosen
  <2>3. QED
    BY <2>1, <2>2 DEF Chosen
<1>3. QED
  BY <1>2

(* Screens come and go without the store. *)
LEMMA ScreensAlone ==
  ASSUME MailIInv, UNCHANGED <<mailbox, mailID, mailFile, sent, attempts>>,
         opened' \subseteq Members \X (1..MaxSends), cut' \subseteq Members \X (1..MaxSends),
         Chosen \subseteq Chosen',
         screen' \in [Sessions -> {"away", "inbox", "opening", "message", "compose"}],
         box' \in [Sessions -> Seq(Letters)],
         shown' \in [Sessions -> Letters \cup {M!NoMessage}],
         \A s \in Sessions : screen'[s] = "opening" => shown'[s] \in Letters
  PROVE  MailIInv'
<1>1. MailTyped'
  BY DEF MailIInv, MailTyped
<1>2. Numbered' /\ EndOfSent(mailbox)' /\ EndOfSent(mailFile.messages)'
  BY DEF MailIInv, Numbered, M!counterOf, EndOfSent
<1>3. OnlyOpened(mailbox)' /\ OnlyOpened(mailFile.messages)'
  BY DEF MailIInv, OnlyOpened
<1>4. QED
  BY <1>1, <1>2, <1>3 DEF MailIInv

(* What a message sent makes of the store, and what taking it back leaves. *)
LEMMA Sending ==
  ASSUME M!MailAssumption, MailIInv, attempts < MaxSends, NEW m \in Members, NEW to \in Members
  PROVE  LET x == M!New(m, to)
             added == M!Trim(Append(mailbox, x))
             back == SubSeq(added, 1, Len(added) - 1)
         IN  /\ x \in Letters /\ x.id = mailID
             /\ added \in Seq(Letters) /\ OnlyOpened(added)
             /\ Unmarked(added) = W!Latest(Append(sent, x), MaxInBox)
             /\ back \in Seq(Letters) /\ OnlyOpened(back) /\ EndOfSent(back)
<1> DEFINE x == M!New(m, to)
           added == M!Trim(Append(mailbox, x))
           back == SubSeq(added, 1, Len(added) - 1)
<1>1. /\ MaxInBox \in Nat \ {0} /\ MaxInBox \in Nat /\ MaxInBox - 1 \in Nat /\ MaxSends \in Nat
      /\ attempts \in Nat /\ mailID \in 1..attempts + 1
      /\ mailbox \in Seq(Letters) /\ sent \in Seq(Letters)
  BY DEF M!MailAssumption, MailIInv, MailTyped
<1>2. x \in Letters /\ x.id = mailID /\ x.read = FALSE
  <2>1. mailID \in 1..MaxSends
    BY <1>1
  <2>2. x = [id |-> mailID, from |-> m, to |-> to, read |-> FALSE]
    BY DEF M!New
  <2>3. QED
    BY <2>1, <2>2 DEF Letters
<1> HIDE DEF x
<1>3. PICK j \in {MaxInBox - 1, MaxInBox} : Unmarked(mailbox) = W!Latest(sent, j)
  BY DEF MailIInv, EndOfSent
<1> DEFINE whole == Append(mailbox, x)
<1>4. /\ whole \in Seq(Letters) /\ Len(whole) = Len(mailbox) + 1 /\ Len(mailbox) \in Nat
      /\ \A i \in 1..Len(mailbox) + 1 : whole[i] = (IF i <= Len(mailbox) THEN mailbox[i] ELSE x)
  BY <1>1, <1>2, AppendIs, LenProperties
<1>5. added = W!Latest(whole, MaxInBox)
  BY DEF M!Trim, W!Latest
<1>6. Unmarked(whole) = Append(W!Latest(sent, j), x)
  BY <1>1, <1>2, <1>3, UnmarkedAppend
<1> HIDE DEF whole, added
<1>7. /\ Dropped(whole, MaxInBox) \in 0..Len(whole) /\ added \in Seq(Letters)
      /\ Len(added) = Len(whole) - Dropped(whole, MaxInBox)
      /\ \A i \in 1..Len(whole) - Dropped(whole, MaxInBox) :
           added[i] = whole[Dropped(whole, MaxInBox) + i]
  BY ZenonT(60), <1>1, <1>4, <1>5, LatestIs
<1>8. Len(added) >= 1 /\ Len(added) \in Nat
  <2>1. Dropped(whole, MaxInBox) = (IF Len(whole) > MaxInBox THEN Len(whole) - MaxInBox ELSE 0)
    BY DEF Dropped
  <2>2. CASE Len(whole) > MaxInBox
    BY <1>1, <1>4, <1>7, <2>1, <2>2
  <2>3. CASE ~ (Len(whole) > MaxInBox)
    BY <1>1, <1>4, <1>7, <2>1, <2>3
  <2>4. QED
    BY <2>2, <2>3
<1>9. ASSUME NEW i \in 1..Len(added) PROVE added[i].read => <<added[i].to, added[i].id>> \in Chosen
  <2>1. PICK p \in 1..Len(mailbox) + 1 : added[i] = whole[p]
    <3>1. Dropped(whole, MaxInBox) + i \in 1..Len(mailbox) + 1 /\ i \in 1..Len(whole) - Dropped(whole, MaxInBox)
      BY <1>4, <1>7
    <3>2. QED
      BY <1>7, <3>1
  <2>2. CASE p <= Len(mailbox)
    <3>1. p \in 1..Len(mailbox) /\ added[i] = mailbox[p]
      BY <1>4, <2>1, <2>2
    <3>2. QED
      BY <3>1 DEF MailIInv, OnlyOpened
  <2>3. CASE ~ (p <= Len(mailbox))
    BY <1>2, <1>4, <2>1, <2>3
  <2>4. QED
    BY <2>2, <2>3
<1>10. Unmarked(added) = W!Latest(Append(W!Latest(sent, j), x), MaxInBox)
  BY <1>1, <1>4, <1>5, <1>6, UnmarkedLatest
<1>11. Unmarked(added) = W!Latest(Append(sent, x), MaxInBox)
  BY <1>1, <1>2, <1>10, LatestAppend
<1>12. back \in Seq(Letters) /\ Len(back) = Len(added) - 1 /\ \A i \in 1..Len(added) - 1 : back[i] = added[i]
  BY <1>7, <1>8, FrontIs
<1>13. OnlyOpened(back)
  <2> HIDE DEF back
  <2>1. ASSUME NEW i \in 1..Len(back) PROVE back[i].read => <<back[i].to, back[i].id>> \in Chosen
    <3>1. i \in 1..Len(added) - 1 /\ i \in 1..Len(added)
      BY <1>8, <1>12
    <3>2. back[i] = added[i]
      BY <1>12, <3>1
    <3>3. QED
      BY <1>9, <3>1, <3>2
  <2>2. QED
    BY <2>1 DEF OnlyOpened
<1>14. EndOfSent(back)
  <2>1. Unmarked(back) = SubSeq(Unmarked(added), 1, Len(Unmarked(added)) - 1)
    BY <1>7, <1>8, UnmarkedFront
  <2> DEFINE kept == W!Latest(Append(W!Latest(sent, j), x), MaxInBox)
  <2>2. \E k \in {MaxInBox - 1, MaxInBox} : SubSeq(kept, 1, Len(kept) - 1) = W!Latest(sent, k)
    BY SMTT(40), <1>1, <1>2, TakenBack
  <2>3. QED
    BY <1>10, <2>1, <2>2 DEF EndOfSent
<1>15. OnlyOpened(added)
  BY <1>9 DEF OnlyOpened
<1>16. QED
  BY <1>2, <1>7, <1>11, <1>12, <1>13, <1>14, <1>15 DEF x, added

LEMMA MailSend ==
  ASSUME M!MailAssumption, MailIInv, NEW s \in Sessions, M!pmCompose(s)
  PROVE  MailIInv'
<1>1. PICK to \in M!Recipients(s) : M!Send(Me[s], to)
  BY DEF M!pmCompose
<1>2. Me[s] \in Members /\ to \in Members
  <2>1. Me[s] \in Members /\ shown[s] \in Letters \cup {M!NoMessage}
    BY DEF M!MailAssumption, MailIInv, MailTyped
  <2>2. QED
    BY <1>1, <2>1 DEF M!Recipients, Letters
<1> DEFINE x == M!New(Me[s], to)
           added == M!Trim(Append(mailbox, x))
           back == SubSeq(added, 1, Len(added) - 1)
<1>3. /\ attempts < MaxSends /\ attempts' = attempts + 1 /\ mailID' = mailID + 1
      /\ opened' = opened /\ cut' = cut
      /\ \/ /\ mailbox' = added /\ mailFile' = [next |-> mailID', messages |-> mailbox']
            /\ sent' = Append(sent, x)
         \/ mailbox' = back /\ UNCHANGED <<mailFile, sent>>
  BY <1>1 DEF M!Send, M!saved
<1>4. /\ x \in Letters /\ x.id = mailID
      /\ added \in Seq(Letters) /\ OnlyOpened(added)
      /\ Unmarked(added) = W!Latest(Append(sent, x), MaxInBox)
      /\ back \in Seq(Letters) /\ OnlyOpened(back) /\ EndOfSent(back)
  BY <1>2, <1>3, Sending
<1> HIDE DEF x, added, back
<1>5. /\ screen' \in [Sessions -> {"away", "inbox", "opening", "message", "compose"}]
      /\ box' = box /\ shown' \in [Sessions -> Letters \cup {M!NoMessage}]
      /\ \A q \in Sessions : screen'[q] = "opening" => shown'[q] \in Letters
  BY DEF M!pmCompose, M!Show, MailIInv, MailTyped
<1>11. Chosen \subseteq Chosen'
  <2>1. /\ \A q \in Sessions \ {s} : screen'[q] = screen[q] /\ shown'[q] = shown[q]
        /\ M!Opening(s) = {}
    BY DEF M!pmCompose, M!Show, M!Opening, MailIInv, MailTyped
  <2>2. QED
    BY <1>3, <2>1, ChosenStays DEF MailIInv
<1>6. MaxSends \in Nat /\ attempts \in 0..MaxSends /\ mailID \in 1..attempts + 1
  BY DEF M!MailAssumption, MailIInv, MailTyped
<1>7. attempts' \in 0..MaxSends /\ mailID' \in 1..attempts' + 1
  BY <1>3, <1>6
<1>8. CASE /\ mailbox' = added /\ mailFile' = [next |-> mailID', messages |-> mailbox']
           /\ sent' = Append(sent, x)
  <2>1. /\ Append(sent, x) \in Seq(Letters) /\ Len(Append(sent, x)) = Len(sent) + 1 /\ Len(sent) \in Nat
        /\ \A i \in 1..Len(sent) + 1 : Append(sent, x)[i] = (IF i <= Len(sent) THEN sent[i] ELSE x)
    <3>1. sent \in Seq(Letters) /\ x \in Letters
      BY <1>4 DEF MailIInv, MailTyped
    <3>2. QED
      BY ONLY <3>1, AppendIs, LenProperties
  <2>2. mailFile' \in [next : 0..MaxSends + 1, messages : Seq(Letters)]
    BY <1>4, <1>6, <1>7, <1>8
  <2>3. MailTyped'
    BY <1>3, <1>4, <1>5, <1>7, <1>8, <2>1, <2>2 DEF MailIInv, MailTyped
  <2>4. M!counterOf(mailFile)' = mailID + 1 /\ M!counterOf(mailFile) <= mailID /\ M!counterOf(mailFile) \in Int
    BY <1>3, <1>6, <1>8 DEF M!counterOf, MailIInv, Numbered, MailTyped
  <2>5. ASSUME NEW i \in 1..Len(sent) PROVE sent[i].id < mailID /\ sent[i].id \in Int
    <3>1. sent[i] \in Letters
      BY ElementOfSeq DEF MailIInv, MailTyped
    <3>2. sent[i].id \in Int
      BY <3>1 DEF Letters
    <3>3. QED
      BY SMTT(40), <1>6, <2>4, <3>2 DEF MailIInv, Numbered
  <2>6. ASSUME NEW i \in 1..Len(sent) + 1 PROVE sent'[i].id < mailID + 1
    <3>1. CASE i <= Len(sent)
      <4>1. i \in 1..Len(sent)
        BY <2>1, <3>1
      <4>2. sent'[i] = sent[i]
        BY <1>8, <2>1, <3>1
      <4>3. QED
        BY <1>6, <2>5, <4>1, <4>2
    <3>2. CASE ~ (i <= Len(sent))
      BY <1>4, <1>6, <1>8, <2>1, <3>2
    <3>3. QED
      BY <3>1, <3>2
  <2>7. ASSUME NEW i \in 1..Len(sent) + 1, NEW j \in 1..Len(sent) + 1, i < j
        PROVE  sent'[i].id < sent'[j].id
    <3>1. i \in 1..Len(sent) /\ sent'[i] = sent[i]
      BY <1>8, <2>1, <2>7
    <3>2. CASE j <= Len(sent)
      <4>1. j \in 1..Len(sent) /\ sent'[j] = sent[j]
        BY <1>8, <2>1, <3>2
      <4>2. QED
        BY <2>7, <3>1, <4>1 DEF MailIInv, Numbered
    <3>3. CASE ~ (j <= Len(sent))
      <4>1. sent'[j] = x
        BY <1>8, <2>1, <3>3
      <4>2. QED
        BY <1>4, <2>5, <3>1, <4>1
    <3>4. QED
      BY <3>2, <3>3
  <2>8. Len(sent') = Len(sent) + 1
    BY <1>8, <2>1
  <2>9. Numbered'
    BY <1>3, <1>6, <2>4, <2>6, <2>7, <2>8 DEF Numbered
  <2>10. EndOfSent(mailbox)' /\ EndOfSent(mailFile.messages)'
    BY <1>4, <1>8 DEF EndOfSent
  <2>11. OnlyOpened(mailbox)' /\ OnlyOpened(mailFile.messages)'
    BY <1>4, <1>8, <1>11 DEF OnlyOpened
  <2>12. QED
    BY <2>3, <2>9, <2>10, <2>11 DEF MailIInv
<1>9. CASE mailbox' = back /\ UNCHANGED <<mailFile, sent>>
  <2>1. MailTyped'
    BY <1>3, <1>4, <1>5, <1>7, <1>9 DEF MailIInv, MailTyped
  <2>2. M!counterOf(mailFile) <= mailID /\ M!counterOf(mailFile) \in Int
    BY DEF M!counterOf, MailIInv, Numbered, MailTyped
  <2>3. M!counterOf(mailFile)' = M!counterOf(mailFile) /\ M!counterOf(mailFile) <= mailID + 1
    BY <1>6, <1>9, <2>2 DEF M!counterOf
  <2>4. Numbered'
    BY <1>3, <1>9, <2>3 DEF MailIInv, Numbered
  <2>5. EndOfSent(mailbox)' /\ EndOfSent(mailFile.messages)'
    BY <1>4, <1>9 DEF MailIInv, EndOfSent
  <2>6. OnlyOpened(mailbox)' /\ OnlyOpened(mailFile.messages)'
    BY <1>4, <1>9, <1>11 DEF MailIInv, OnlyOpened
  <2>7. QED
    BY <2>1, <2>4, <2>5, <2>6 DEF MailIInv
<1>10. QED
  BY <1>3, <1>8, <1>9

(* The message marked is one of the inbox displayed, whatever the inbox of the
   store has become since, and the session holds it. *)
LEMMA MailRead ==
  ASSUME M!MailAssumption, MailIInv, NEW s \in Sessions, M!pmRead(s)
  PROVE  MailIInv'
<1>1. PICK i \in 1..Len(box[s]) :
        /\ shown' = [shown EXCEPT ![s] = box[s][i]]
        /\ M!MarkRead(Me[s], box[s][i].id)
  BY DEF M!pmRead
<1> DEFINE letter == box[s][i]
<1>2. letter \in Letters
  BY ElementOfSeq DEF MailIInv, MailTyped
<1> DEFINE marked == M!Marked(mailbox, Me[s], letter.id)
<1>3. /\ UNCHANGED <<box, sent, opened, cut, attempts, mailID>>
      /\ shown' = [shown EXCEPT ![s] = letter] /\ screen' = [screen EXCEPT ![s] = "opening"]
      /\ mailbox' = marked
      /\ mailFile' = [next |-> mailID, messages |-> marked] \/ mailFile' = mailFile
  BY <1>1 DEF M!pmRead, M!Show, M!MarkRead, M!saved, M!history
<1>4. mailbox \in Seq(Letters)
  BY DEF MailIInv, MailTyped
<1>5. /\ marked \in Seq(Letters) /\ Unmarked(marked) = Unmarked(mailbox) /\ Len(marked) = Len(mailbox)
      /\ \A p \in 1..Len(mailbox) :
           /\ marked[p].id = mailbox[p].id /\ marked[p].to = mailbox[p].to
           /\ marked[p].read =>
                mailbox[p].read \/ (mailbox[p].id = letter.id /\ mailbox[p].to = Me[s])
  BY <1>4, UnmarkedMarked
<1> HIDE DEF marked, letter
<1>19. Chosen \subseteq Chosen' /\ <<Me[s], letter.id>> \in Chosen'
  <2>1. /\ \A x \in Sessions \ {s} : screen'[x] = screen[x] /\ shown'[x] = shown[x]
        /\ M!Opening(s) = {} /\ screen'[s] = "opening" /\ shown'[s] = letter
    BY <1>3 DEF M!pmRead, M!Opening, MailIInv, MailTyped
  <2>2. Chosen \subseteq Chosen'
    BY <1>3, <2>1, ChosenStays DEF MailIInv
  <2>3. <<Me[s], letter.id>> \in M!Opening(s)'
    BY <2>1 DEF M!Opening
  <2>4. QED
    BY <2>2, <2>3 DEF Chosen
<1>6. ASSUME NEW p \in 1..Len(marked), marked[p].read
      PROVE  <<marked[p].to, marked[p].id>> \in Chosen'
  <2>1. p \in 1..Len(mailbox)
    BY <1>5
  <2>2. CASE mailbox[p].read
    BY <1>5, <1>19, <2>1, <2>2 DEF MailIInv, OnlyOpened
  <2>3. CASE mailbox[p].id = letter.id /\ mailbox[p].to = Me[s]
    BY <1>5, <1>19, <2>1, <2>3
  <2>4. QED
    BY <1>5, <1>6, <2>1, <2>2, <2>3
<1>7. \A p \in 1..Len(mailFile.messages) : mailFile.messages[p].read =>
        <<mailFile.messages[p].to, mailFile.messages[p].id>> \in Chosen'
  BY <1>19 DEF MailIInv, OnlyOpened
<1>8. OnlyOpened(mailbox)' /\ OnlyOpened(mailFile.messages)'
  <2>1. CASE mailFile' = [next |-> mailID, messages |-> marked]
    BY <1>3, <1>6, <2>1 DEF OnlyOpened
  <2>2. CASE mailFile' = mailFile
    BY <1>3, <1>6, <1>7, <2>2 DEF OnlyOpened
  <2>3. QED
    BY <1>3, <2>1, <2>2
<1>9. EndOfSent(mailbox)' /\ EndOfSent(mailFile.messages)'
  BY <1>3, <1>5 DEF MailIInv, EndOfSent
<1>10. MaxSends \in Nat /\ attempts \in 0..MaxSends /\ mailID \in 1..attempts + 1
  BY DEF M!MailAssumption, MailIInv, MailTyped
<1>11. mailFile' \in [next : 0..MaxSends + 1, messages : Seq(Letters)]
  BY <1>3, <1>5, <1>10 DEF MailIInv, MailTyped
<1>12. screen[s] = "inbox" /\ screen \in [Sessions -> {"away", "inbox", "opening", "message", "compose"}]
  BY DEF M!pmRead, MailIInv, MailTyped
<1>13. MailTyped'
  BY <1>2, <1>3, <1>5, <1>11, <1>12 DEF MailIInv, MailTyped
<1>14. M!counterOf(mailFile) <= mailID /\ M!counterOf(mailFile) \in Int
  BY DEF M!counterOf, MailIInv, Numbered, MailTyped
<1>15. M!counterOf(mailFile)' = M!counterOf(mailFile) \/ M!counterOf(mailFile)' = mailID
  BY <1>3, <1>10 DEF M!counterOf
<1>16. ASSUME NEW p \in 1..Len(sent) PROVE sent[p].id < M!counterOf(mailFile)'
  <2>1. sent[p] \in Letters
    BY ElementOfSeq DEF MailIInv, MailTyped
  <2>2. sent[p].id \in Int
    BY <2>1 DEF Letters
  <2>3. sent[p].id < M!counterOf(mailFile)
    BY DEF MailIInv, Numbered
  <2>4. QED
    BY <1>10, <1>14, <1>15, <2>2, <2>3
<1>17. Numbered'
  <2>1. M!counterOf(mailFile)' <= mailID
    BY <1>10, <1>14, <1>15
  <2>2. QED
    BY <1>3, <1>16, <2>1 DEF MailIInv, Numbered
<1>18. QED
  BY <1>8, <1>9, <1>13, <1>17 DEF MailIInv

(* A text about to be displayed is a member's, with a number given. *)
LEMMA MailTexts ==
  ASSUME M!MailAssumption, MailIInv, NEW s \in Sessions
  PROVE  M!Opening(s) \subseteq Members \X (1..MaxSends)
<1>1. CASE screen[s] = "opening"
  <2>1. shown[s] \in Letters /\ Me[s] \in Members
    BY <1>1 DEF M!MailAssumption, MailIInv, MailTyped
  <2>2. shown[s].id \in 1..MaxSends
    BY <2>1 DEF Letters
  <2>3. QED
    BY <1>1, <2>1, <2>2 DEF M!Opening
<1>2. CASE screen[s] # "opening"
  BY <1>2 DEF M!Opening
<1>3. QED
  BY <1>1, <1>2

LEMMA MailRestart == ASSUME M!MailAssumption, MailIInv, M!Restart PROVE MailIInv'
<1>1. /\ UNCHANGED <<mailFile, sent, opened, attempts>>
      /\ cut' = cut \cup ((UNION {M!Opening(s) : s \in Sessions}) \ opened)
      /\ mailbox' = M!Trim(mailFile.messages) /\ mailID' = M!counterOf(mailFile)
      /\ screen' = [s \in Sessions |-> "away"] /\ box' = [s \in Sessions |-> <<>>]
      /\ shown' = [s \in Sessions |-> M!NoMessage]
  BY DEF M!Restart
<1>2. MaxInBox \in Nat \ {0} /\ mailFile.messages \in Seq(Letters) /\ sent \in Seq(Letters)
  BY DEF M!MailAssumption, MailIInv, MailTyped
<1>3. M!Trim(mailFile.messages) = mailFile.messages
  <2>1. PICK k \in {MaxInBox - 1, MaxInBox} : Unmarked(mailFile.messages) = W!Latest(sent, k)
    BY DEF MailIInv, EndOfSent
  <2>2. k \in Nat /\ k <= MaxInBox
    BY <1>2
  <2>3. /\ Len(Unmarked(mailFile.messages)) = Len(mailFile.messages)
        /\ Len(W!Latest(sent, k)) = Len(sent) - Dropped(sent, k) /\ Len(sent) \in Nat
    BY <1>2, <2>2, UnmarkedIs, LatestIs, LenProperties
  <2>4. Dropped(sent, k) = (IF Len(sent) > k THEN Len(sent) - k ELSE 0)
    BY DEF Dropped
  <2>5. ~ (Len(mailFile.messages) > MaxInBox)
    BY <1>2, <2>1, <2>2, <2>3, <2>4
  <2>6. QED
    BY <2>5 DEF M!Trim
<1>4. <<>> \in Seq(Letters)
  BY EmptySeq
<1>5. mailID' \in 1..attempts' + 1
  BY <1>1 DEF M!counterOf, MailIInv, MailTyped, Numbered
<1>12. \A s \in Sessions : M!Opening(s) \subseteq Members \X (1..MaxSends)
  BY MailTexts
<1>13. cut' \subseteq Members \X (1..MaxSends)
  BY <1>1, <1>12 DEF MailIInv, MailTyped
<1>6. MailTyped'
  BY <1>1, <1>2, <1>3, <1>4, <1>5, <1>13 DEF MailIInv, MailTyped
<1>7. M!counterOf(mailFile)' = M!counterOf(mailFile) /\ M!counterOf(mailFile) \in Int
  BY <1>1 DEF M!counterOf, MailIInv, MailTyped
<1>8. Numbered'
  BY <1>1, <1>7 DEF MailIInv, Numbered
<1>9. EndOfSent(mailbox)' /\ EndOfSent(mailFile.messages)'
  BY <1>1, <1>3 DEF MailIInv, EndOfSent
<1>14. Chosen \subseteq Chosen'
  <2> DEFINE texts == UNION {M!Opening(s) : s \in Sessions}
  <2>1. Chosen \subseteq opened' \cup cut'
    <3>1. Chosen = opened \cup cut \cup texts
      BY DEF Chosen
    <3>2. opened' = opened /\ cut' = cut \cup (texts \ opened)
      BY <1>1
    <3> HIDE DEF texts
    <3>3. QED
      BY ONLY <3>1, <3>2
  <2>2. QED
    BY <2>1 DEF Chosen
<1>10. OnlyOpened(mailbox)' /\ OnlyOpened(mailFile.messages)'
  BY <1>1, <1>3, <1>14 DEF MailIInv, OnlyOpened
<1>11. QED
  BY <1>6, <1>8, <1>9, <1>10 DEF MailIInv

LEMMA MailStep ==
  ASSUME M!MailAssumption, MailIInv, M!Next \/ UNCHANGED mailVars
  PROVE  MailIInv'
<1>1. CASE UNCHANGED mailVars
  <2>1. Chosen' = Chosen
    BY <1>1 DEF mailVars, Chosen, M!Opening
  <2>2. QED
    BY <1>1, <2>1, ScreensAlone DEF mailVars, MailIInv, MailTyped
<1>2. ASSUME NEW s \in Sessions, M!pmInbox(s) PROVE MailIInv'
  <2>1. M!Inbox(Me[s]) \in Seq(Letters)
    BY InboxIs DEF MailIInv, MailTyped
  <2>2. /\ \A x \in Sessions \ {s} : screen'[x] = screen[x] /\ shown'[x] = shown[x]
        /\ opened' = opened /\ cut' = cut /\ M!Opening(s) = {}
    BY <1>2 DEF M!pmInbox, M!Show, M!history, M!Opening, MailIInv, MailTyped
  <2>3. Chosen \subseteq Chosen'
    BY <2>2, ChosenStays DEF MailIInv
  <2>4. QED
    BY <1>2, <2>1, <2>3, ScreensAlone DEF M!pmInbox, M!Show, M!history, MailIInv, MailTyped
<1>3. ASSUME NEW s \in Sessions, M!Reply(s) \/ M!WriteNew(s) PROVE MailIInv'
  <2>1. /\ \A x \in Sessions \ {s} : screen'[x] = screen[x] /\ shown'[x] = shown[x]
        /\ opened' = opened /\ cut' = cut /\ M!Opening(s) = {}
    BY <1>3 DEF M!Reply, M!WriteNew, M!Show, M!history, M!Opening, MailIInv, MailTyped
  <2>2. Chosen \subseteq Chosen'
    BY <2>1, ChosenStays DEF MailIInv
  <2>3. QED
    BY <1>3, <2>2, ScreensAlone DEF M!Reply, M!WriteNew, M!Show, M!history, MailIInv, MailTyped
<1>4. ASSUME NEW s \in Sessions, M!Back(s) PROVE MailIInv'
  <2>1. /\ \A x \in Sessions \ {s} : screen'[x] = screen[x] /\ shown'[x] = shown[x]
        /\ opened' = opened /\ cut' = cut \cup (M!Opening(s) \ opened)
    BY <1>4 DEF M!Back, M!Show, MailIInv, MailTyped
  <2>2. Chosen \subseteq Chosen'
    BY <2>1, ChosenStays DEF MailIInv
  <2>3. M!Opening(s) \subseteq Members \X (1..MaxSends) /\ <<>> \in Seq(Letters)
    BY MailTexts, EmptySeq
  <2>4. QED
    BY <1>4, <2>1, <2>2, <2>3, ScreensAlone DEF M!Back, M!Show, MailIInv, MailTyped
<1>5. ASSUME NEW s \in Sessions, M!WriteText(s) PROVE MailIInv'
  <2>1. /\ \A x \in Sessions \ {s} : screen'[x] = screen[x] /\ shown'[x] = shown[x]
        /\ opened' = opened \cup M!Opening(s) /\ cut' = cut \ M!Opening(s)
    BY <1>5 DEF M!WriteText, M!Show, M!Opening, MailIInv, MailTyped
  <2>2. Chosen \subseteq Chosen'
    BY <2>1, ChosenStays DEF MailIInv
  <2>3. M!Opening(s) \subseteq Members \X (1..MaxSends)
    BY MailTexts
  <2>4. QED
    BY <1>5, <2>1, <2>2, <2>3, ScreensAlone DEF M!WriteText, M!Show, MailIInv, MailTyped
<1>6. QED
  BY <1>1, <1>2, <1>3, <1>4, <1>5, MailSend, MailRead, MailRestart DEF M!Next

LEMMA MailInvariant == StoresSpec => [](explored = "mail" => MailIInv)
<1>1. StoresInit => (explored = "mail" => MailIInv)
  BY StoresAssumption, MailInit DEF StoresInit
<1>2. (explored = "mail" => MailIInv) /\ [StoresNext]_all => (explored = "mail" => MailIInv)'
  <2> SUFFICES ASSUME explored = "mail" => MailIInv, [StoresNext]_all, explored' = "mail"
               PROVE  MailIInv'
    OBVIOUS
  <2>1. explored = "mail" /\ (M!Next \/ UNCHANGED mailVars)
    BY DEF StoresNext, OthersStay, In, all
  <2>2. QED
    BY <2>1, StoresAssumption, MailStep
<1>3. QED
  BY <1>1, <1>2, PTL DEF StoresSpec

(* What is kept, position by position. *)
LEMMA KeptIs ==
  ASSUME M!MailAssumption, MailIInv, NEW q \in Seq(Letters), EndOfSent(q)
  PROVE  \E d \in 0..Len(sent) :
           /\ Len(q) = Len(sent) - d /\ Len(q) <= MaxInBox
           /\ d = 0 \/ Len(q) >= MaxInBox - 1
           /\ \A i \in 1..Len(q) : /\ d + i \in 1..Len(sent)
                                   /\ [q[i] EXCEPT !.read = FALSE] = sent[d + i]
                                   /\ q[i].id = sent[d + i].id
<1>1. PICK k \in {MaxInBox - 1, MaxInBox} : Unmarked(q) = W!Latest(sent, k)
  BY DEF EndOfSent
<1>2. k \in Nat /\ k <= MaxInBox /\ k >= MaxInBox - 1 /\ MaxInBox \in Nat
  BY DEF M!MailAssumption
<1>3. sent \in Seq(Letters) /\ Len(sent) \in Nat
  BY LenProperties DEF MailIInv, MailTyped
<1> DEFINE d == Dropped(sent, k)
<1>4. /\ d \in 0..Len(sent) /\ Len(W!Latest(sent, k)) = Len(sent) - d
      /\ \A i \in 1..Len(sent) - d : W!Latest(sent, k)[i] = sent[d + i]
  BY <1>2, <1>3, LatestIs
<1>5. /\ Len(Unmarked(q)) = Len(q)
      /\ \A i \in 1..Len(q) : Unmarked(q)[i] = [q[i] EXCEPT !.read = FALSE] /\ Unmarked(q)[i].id = q[i].id
  BY UnmarkedIs
<1>6. d = (IF Len(sent) > k THEN Len(sent) - k ELSE 0)
  BY DEF Dropped
<1> HIDE DEF d
<1>7. Len(q) = Len(sent) - d
  BY <1>1, <1>4, <1>5
<1>8. Len(q) <= MaxInBox /\ (d = 0 \/ Len(q) >= MaxInBox - 1)
  BY <1>2, <1>3, <1>6, <1>7
<1>9. ASSUME NEW i \in 1..Len(q)
      PROVE  /\ d + i \in 1..Len(sent)
             /\ [q[i] EXCEPT !.read = FALSE] = sent[d + i]
             /\ q[i].id = sent[d + i].id
  <2>1. d + i \in 1..Len(sent) /\ i \in 1..Len(sent) - d
    BY <1>3, <1>4, <1>7
  <2>2. Unmarked(q)[i] = sent[d + i]
    BY <1>1, <1>4, <2>1
  <2>3. QED
    BY <1>5, <2>1, <2>2
<1>10. QED
  BY <1>4, <1>7, <1>8, <1>9

(* For any bound, any number of members and sessions, and whatever is sent,
   evicted or lost in a crash in between: a message is marked read only if its
   recipient chose it, and had its text displayed unless the session ended on
   it. *)
THEOREM ReadByTheRecipient == StoresSpec => []ReadMeansOpened
<1>1. (explored = "mail" => MailIInv) => ReadMeansOpened
  <2> SUFFICES ASSUME MailIInv PROVE M!TypeOK /\ M!ReadMeansOpened
    BY DEF ReadMeansOpened
  <2>1. Letters \subseteq M!Message
    BY StoresAssumption DEF Letters, M!Message, M!MailAssumption
  <2>2. Seq(Letters) \subseteq Seq(M!Message)
    BY <2>1, SeqMonotonic
  <2>3. mailbox \in Seq(Letters) /\ Len(mailbox) <= MaxInBox
    <3>1. mailbox \in Seq(Letters) /\ EndOfSent(mailbox)
      BY DEF MailIInv, MailTyped
    <3>2. QED
      BY <3>1, KeptIs, StoresAssumption
  <2>4. mailID \in 1..MaxSends + 1
    BY StoresAssumption DEF MailIInv, MailTyped, M!MailAssumption
  <2>5. M!TypeOK
    BY <2>1, <2>2, <2>3, <2>4 DEF MailIInv, MailTyped, M!TypeOK
  <2>6. QED
    BY <2>5 DEF MailIInv, OnlyOpened, Chosen, M!ReadMeansOpened
<1>2. QED
  BY <1>1, MailInvariant, PTL

(* Whatever sends fail and wherever the server stops: numbers grow along the
   store, nothing is in it that was not delivered, and a delivery leaves it
   only when enough later ones have come. *)
THEOREM MailIsWhatWasDelivered == StoresSpec => []DeliveriesKept
<1>1. (explored = "mail" => MailIInv) => DeliveriesKept
  <2> SUFFICES ASSUME MailIInv PROVE M!DeliveriesKept
    BY DEF DeliveriesKept
  <2>1. /\ MaxInBox \in Nat /\ M!MailAssumption /\ Len(sent) \in Nat
        /\ mailbox \in Seq(Letters) /\ mailFile.messages \in Seq(Letters)
        /\ EndOfSent(mailbox) /\ EndOfSent(mailFile.messages)
    BY StoresAssumption, LenProperties DEF M!MailAssumption, MailIInv, MailTyped
  <2>2. ASSUME NEW q \in Seq(Letters), EndOfSent(q)
        PROVE  /\ \A i, j \in 1..Len(q) : i < j => q[i].id < q[j].id
               /\ \A i \in 1..Len(sent) : Len(sent) - i < MaxInBox - 1 => sent[i].id \in M!Numbers(q)
               /\ \A i \in 1..Len(q) : \E j \in 1..Len(sent) : sent[j] = [q[i] EXCEPT !.read = FALSE]
    <3>1. PICK d \in 0..Len(sent) :
            /\ Len(q) = Len(sent) - d /\ Len(q) <= MaxInBox
            /\ d = 0 \/ Len(q) >= MaxInBox - 1
            /\ \A i \in 1..Len(q) : /\ d + i \in 1..Len(sent)
                                    /\ [q[i] EXCEPT !.read = FALSE] = sent[d + i]
                                    /\ q[i].id = sent[d + i].id
      BY <2>1, <2>2, KeptIs
    <3>2. ASSUME NEW i \in 1..Len(q), NEW j \in 1..Len(q), i < j PROVE q[i].id < q[j].id
      <4>1. d + i \in 1..Len(sent) /\ d + j \in 1..Len(sent) /\ d + i < d + j
        BY <3>1, <3>2
      <4>2. sent[d + i].id < sent[d + j].id
        BY <4>1 DEF MailIInv, Numbered
      <4>3. QED
        BY <3>1, <4>2
    <3>3. ASSUME NEW i \in 1..Len(sent), Len(sent) - i < MaxInBox - 1
          PROVE  sent[i].id \in M!Numbers(q)
      <4>1. i - d \in 1..Len(q) /\ d + (i - d) = i
        BY <2>1, <3>1, <3>3
      <4> DEFINE p == i - d
      <4> HIDE DEF p
      <4>2. p \in 1..Len(q) /\ q[p].id = sent[i].id
        BY <3>1, <4>1 DEF p
      <4>3. QED
        BY <4>2 DEF M!Numbers
    <3>4. QED
      BY <3>1, <3>2, <3>3
  <2>3. \A i, j \in 1..Len(sent) : i < j => sent[i].id < sent[j].id
    BY DEF MailIInv, Numbered
  <2>4. QED
    BY <2>1, <2>2, <2>3 DEF M!DeliveriesKept
<1>2. QED
  BY <1>1, MailInvariant, PTL

-----------------------------------------------------------------------------
(* Studio: the copies *)

(* Nothing is owed of a file that holds no edition, or an excused one. *)
Excused(v) == v \in excused \/ v \notin K!Editions

Kept(v) == Excused(v) \/ \E t \in K!Seconds : copies[t] = v

(* What a request is about to replace is in a copy, or excused: either it has
   not changed since the request looked at it, or it was written since. *)
BackupsIInv ==
  /\ K!BackupsTypeOK
  /\ \A v \in replaced : Kept(v)
  /\ \A r \in Requests :
       /\ request[r].pc = "copy" => siteFile = request[r].saw \/ Excused(siteFile)
       /\ request[r].pc = "replace" => Kept(siteFile)

LEMMA StudioConstants ==
  ASSUME K!BackupsAssumption
  PROVE  /\ K!NoSite \in K!Content /\ K!Torn \in K!Content /\ K!Editions \subseteq K!Content
         /\ K!NoSite \notin K!Editions /\ 0 \in K!Seconds
         /\ 0..MaxVersions \subseteq K!Content
         /\ \A k \in 0..MaxVersions : k < MaxVersions => k + 1 \in 0..MaxVersions
         /\ \A k \in 0..MaxVersions : 1..k \subseteq K!Content
         /\ \A t \in K!Seconds : t < MaxSecond => t + 1 \in K!Seconds
BY DEF K!BackupsAssumption, K!NoSite, K!Torn, K!Editions, K!Content, K!Seconds

(* What a request can be. *)
RequestType == [pc : {"idle", "look", "copy", "replace"}, does : {"backup", "restore", "create", "deploy"},
                stamp : K!Seconds, data : K!Content, saw : K!Content]

LEMMA BackupsInit == ASSUME K!BackupsAssumption, K!BackupsInit PROVE BackupsIInv
<1>1. K!BackupsTypeOK
  <2>1. request \in [Requests -> RequestType]
    BY StudioConstants DEF K!BackupsInit, K!Idle, RequestType
  <2>2. edited \in 0..MaxVersions
    BY DEF K!BackupsInit, K!BackupsAssumption
  <2>3. siteFile \in K!Content /\ copies \in [K!Seconds -> K!Content]
    BY <2>2, StudioConstants DEF K!BackupsInit
  <2>4. QED
    BY <2>1, <2>2, <2>3, StudioConstants DEF K!BackupsInit, K!BackupsTypeOK, RequestType
<1>2. \A r \in Requests : request[r].pc = "idle"
  BY DEF K!BackupsInit, K!Idle
<1>3. QED
  BY <1>1, <1>2 DEF K!BackupsInit, BackupsIInv

(* Only the state of a request changes, and what it has seen is the file. *)
LEMMA RequestMoves ==
  ASSUME K!BackupsAssumption, BackupsIInv, NEW r \in Requests, NEW q \in RequestType,
         K!Becomes(r, q), UNCHANGED <<place, second, siteFile, copies, replaced, excused>>,
         edited' \in 0..MaxVersions,
         q.pc = "copy" => siteFile = q.saw \/ Excused(siteFile),
         q.pc = "replace" => Kept(siteFile)
  PROVE  BackupsIInv'
<1>1. /\ request \in [Requests -> RequestType] /\ request' = [request EXCEPT ![r] = q]
  BY DEF BackupsIInv, K!BackupsTypeOK, K!Becomes, RequestType
<1>2. request' \in [Requests -> RequestType] /\ request'[r] = q /\ \A o \in Requests \ {r} : request'[o] = request[o]
  BY <1>1
<1>3. K!BackupsTypeOK'
  BY <1>2 DEF BackupsIInv, K!BackupsTypeOK, RequestType
<1>4. QED
  BY <1>2, <1>3 DEF BackupsIInv, Kept, Excused

LEMMA BackupsAsk ==
  ASSUME K!BackupsAssumption, BackupsIInv, NEW r \in Requests,
         \/ K!AskBackup(r) \/ K!AskCreate(r) \/ K!AskDeploy(r) \/ \E t \in K!Seconds : K!AskRestore(r, t)
  PROVE  BackupsIInv'
<1>1. /\ edited \in 0..MaxVersions /\ copies \in [K!Seconds -> K!Content] /\ second \in K!Seconds
  BY DEF BackupsIInv, K!BackupsTypeOK
<1>2. \E does \in {"backup", "restore", "create", "deploy"}, data \in K!Content : K!Ask(r, does, data)
  <2>1. CASE K!AskBackup(r)
    BY <2>1, StudioConstants DEF K!AskBackup
  <2>2. CASE K!AskCreate(r)
    <3>1. K!Ask(r, "create", edited') /\ edited' \in 0..MaxVersions
      BY <1>1, <2>2, StudioConstants DEF K!AskCreate, K!Edit
    <3>2. QED
      BY <3>1, StudioConstants
  <2>3. CASE K!AskDeploy(r)
    <3>1. \/ \E v \in 1..edited : K!Ask(r, "deploy", v)
          \/ K!Ask(r, "deploy", edited') /\ edited' \in 0..MaxVersions
      BY <1>1, <2>3, StudioConstants DEF K!AskDeploy, K!Edit
    <3>2. QED
      BY <1>1, <3>1, StudioConstants
  <2>4. CASE \E t \in K!Seconds : K!AskRestore(r, t)
    BY <1>1, <2>4 DEF K!AskRestore
  <2>5. QED
    BY <2>1, <2>2, <2>3, <2>4
<1>3. PICK does \in {"backup", "restore", "create", "deploy"}, data \in K!Content : K!Ask(r, does, data)
  BY <1>2
<1>4. edited' \in 0..MaxVersions
  BY <1>1, StudioConstants
     DEF K!AskBackup, K!AskCreate, K!AskDeploy, K!AskRestore, K!Edit
<1> DEFINE q == [K!Idle EXCEPT !.pc = "look", !.does = does, !.stamp = second, !.data = data]
<1>5. q \in RequestType /\ q.pc = "look"
  BY <1>1, StudioConstants DEF K!Idle, RequestType
<1>6. K!Becomes(r, q) /\ UNCHANGED <<place, second, siteFile, copies, replaced, excused>>
  BY <1>3 DEF K!Ask
<1> HIDE DEF q
<1>7. QED
  BY <1>4, <1>5, <1>6, RequestMoves

LEMMA BackupsLook ==
  ASSUME K!BackupsAssumption, BackupsIInv, NEW r \in Requests,
         K!Look(r) \/ K!Fail(r)
  PROVE  BackupsIInv'
<1>1. request[r] \in RequestType /\ siteFile \in K!Content /\ edited \in 0..MaxVersions
  BY DEF BackupsIInv, K!BackupsTypeOK, RequestType
<1>2. UNCHANGED <<place, second, edited, siteFile, copies, replaced, excused>>
  BY DEF K!Look, K!Fail
<1>3. \/ K!Becomes(r, K!Idle)
      \/ K!Becomes(r, [request[r] EXCEPT !.pc = "copy", !.saw = siteFile])
      \/ siteFile = K!NoSite /\ K!Becomes(r, [request[r] EXCEPT !.pc = "replace"])
  BY DEF K!Look, K!Fail, K!Done, K!Goto
<1>4. CASE K!Becomes(r, K!Idle)
  <2>1. K!Idle \in RequestType /\ K!Idle.pc = "idle"
    BY StudioConstants DEF K!Idle, RequestType
  <2>2. QED
    BY <1>1, <1>2, <1>4, <2>1, RequestMoves
<1>5. CASE K!Becomes(r, [request[r] EXCEPT !.pc = "copy", !.saw = siteFile])
  <2> DEFINE q == [request[r] EXCEPT !.pc = "copy", !.saw = siteFile]
  <2>1. q \in RequestType /\ q.pc = "copy" /\ q.saw = siteFile
    BY <1>1 DEF RequestType
  <2> HIDE DEF q
  <2>2. QED
    BY <1>1, <1>2, <1>5, <2>1, RequestMoves DEF q
<1>6. CASE siteFile = K!NoSite /\ K!Becomes(r, [request[r] EXCEPT !.pc = "replace"])
  <2> DEFINE q == [request[r] EXCEPT !.pc = "replace"]
  <2>1. q \in RequestType /\ q.pc = "replace"
    BY <1>1 DEF RequestType
  <2>2. Kept(siteFile)
    BY <1>6, StudioConstants DEF Kept, Excused
  <2> HIDE DEF q
  <2>3. K!Becomes(r, q)
    BY <1>6 DEF q
  <2>4. QED
    BY <1>1, <1>2, <2>1, <2>2, <2>3, RequestMoves
<1>7. QED
  BY <1>3, <1>4, <1>5, <1>6

(* Looking at the file failed: what it holds is excused, and may be replaced. *)
LEMMA BackupsLookMissed ==
  ASSUME K!BackupsAssumption, BackupsIInv, NEW r \in Requests, K!LookMissed(r)
  PROVE  BackupsIInv'
<1> DEFINE q == [request[r] EXCEPT !.pc = "replace"]
<1>1. /\ request \in [Requests -> RequestType] /\ request[r] \in RequestType /\ siteFile \in K!Content
  BY DEF BackupsIInv, K!BackupsTypeOK, RequestType
<1>2. /\ UNCHANGED <<place, second, edited, siteFile, copies, replaced>>
      /\ excused' = excused \cup ({siteFile} \cap K!Editions) /\ request' = [request EXCEPT ![r] = q]
  BY DEF K!LookMissed, K!Goto, K!Becomes, K!Excuse
<1>3. q \in RequestType /\ q.pc = "replace"
  BY <1>1 DEF RequestType
<1> HIDE DEF q
<1>4. /\ request' \in [Requests -> RequestType] /\ request'[r] = q
      /\ \A o \in Requests \ {r} : request'[o] = request[o]
  BY <1>1, <1>2, <1>3
<1>5. \A w : (Excused(w) => Excused(w)') /\ (Kept(w) => Kept(w)')
  BY <1>2 DEF Kept, Excused
<1>6. Excused(siteFile)' /\ Kept(siteFile)'
  BY <1>2 DEF Kept, Excused
<1>7. K!BackupsTypeOK'
  BY <1>1, <1>2, <1>4 DEF BackupsIInv, K!BackupsTypeOK, RequestType
<1>8. \A v \in replaced' : Kept(v)'
  BY <1>2, <1>5 DEF BackupsIInv
<1>9. ASSUME NEW o \in Requests
      PROVE  /\ request'[o].pc = "copy" => siteFile' = request'[o].saw \/ Excused(siteFile)'
             /\ request'[o].pc = "replace" => Kept(siteFile)'
  BY <1>2, <1>3, <1>4, <1>6 DEF BackupsIInv
<1>10. QED
  BY <1>7, <1>8, <1>9 DEF BackupsIInv

(* A copy may replace another of the same second, which is then excused: what
   was kept stays kept. *)
LEMMA KeptStays ==
  ASSUME BackupsIInv, NEW t \in K!Seconds, NEW v, NEW lost,
         copies' = [copies EXCEPT ![t] = v],
         excused' = excused \cup ((lost \cup ({copies[t]} \ {v})) \cap K!Editions)
  PROVE  /\ \A w : Kept(w) => Kept(w)'
         /\ copies'[t] = v
<1>1. copies \in [K!Seconds -> K!Content]
  BY DEF BackupsIInv, K!BackupsTypeOK
<1>2. /\ copies'[t] = v /\ \A o \in K!Seconds \ {t} : copies'[o] = copies[o]
  BY <1>1
<1>3. ASSUME NEW w, Kept(w) PROVE Kept(w)'
  <2>1. CASE Excused(w)
    BY <2>1 DEF Kept, Excused
  <2>2. CASE \E o \in K!Seconds : copies[o] = w
    <3>1. PICK o \in K!Seconds : copies[o] = w
      BY <2>2
    <3>2. CASE o = t /\ w # v
      BY <3>1, <3>2 DEF Kept, Excused
    <3>3. CASE o = t /\ w = v
      BY <1>2, <3>3 DEF Kept
    <3>4. CASE o # t
      BY <1>2, <3>1, <3>4 DEF Kept
    <3>5. QED
      BY <3>2, <3>3, <3>4
  <2>3. QED
    BY <1>3, <2>1, <2>2 DEF Kept
<1>4. QED
  BY <1>2, <1>3

LEMMA BackupsCopy ==
  ASSUME K!BackupsAssumption, BackupsIInv, NEW r \in Requests,
         K!Copy(r) \/ K!CopyIgnored(r) \/ K!CopyCut(r)
  PROVE  BackupsIInv'
<1>0. PICK t \in K!Seconds, saw \in K!Content : t = request[r].stamp /\ saw = request[r].saw
  BY DEF BackupsIInv, K!BackupsTypeOK
<1>1. /\ request \in [Requests -> RequestType]
      /\ request[r] \in RequestType /\ copies \in [K!Seconds -> K!Content]
  BY DEF BackupsIInv, K!BackupsTypeOK, RequestType
<1>2. /\ UNCHANGED <<place, second, edited, siteFile, replaced>>
      /\ siteFile = saw \/ Excused(siteFile)
  BY <1>0 DEF K!Copy, K!CopyIgnored, K!CopyCut, K!At, BackupsIInv
<1>3. PICK q \in {K!Idle, [request[r] EXCEPT !.pc = "replace"]} : request' = [request EXCEPT ![r] = q]
  BY DEF K!Copy, K!CopyIgnored, K!CopyCut, K!Done, K!Goto, K!Becomes
<1>4. /\ q \in RequestType /\ q.pc \in {"idle", "replace"}
      /\ request' \in [Requests -> RequestType] /\ request'[r] = q
      /\ \A o \in Requests \ {r} : request'[o] = request[o]
  BY <1>1, <1>3, StudioConstants DEF K!Idle, RequestType
<1>5. /\ \A w : Kept(w) => Kept(w)'
      /\ copies' \in [K!Seconds -> K!Content] /\ excused' \subseteq K!Editions /\ \A w : Excused(w) => Excused(w)'
      /\ q.pc = "replace" => Kept(saw)'
  <2>1. excused \subseteq K!Editions /\ K!Torn \in K!Content
    BY StudioConstants DEF BackupsIInv, K!BackupsTypeOK
  <2>2. CASE \E v \in {saw, K!Torn}, lost \in {{}, {saw}} :
               /\ K!Keep(r, v, lost)
               /\ v = saw \/ saw \in lost \/ q.pc = "idle"
    <3>1. PICK v \in {saw, K!Torn}, lost \in {{}, {saw}} :
            /\ K!Keep(r, v, lost)
            /\ v = saw \/ saw \in lost \/ q.pc = "idle"
      BY <2>2
    <3>2. /\ copies' = [copies EXCEPT ![t] = v]
          /\ excused' = excused \cup ((lost \cup ({copies[t]} \ {v})) \cap K!Editions)
      BY <1>0, <3>1 DEF K!Keep, K!Excuse
    <3>3. (\A w : Kept(w) => Kept(w)') /\ copies'[t] = v
      BY <1>1, <3>2, KeptStays
    <3>4. copies' \in [K!Seconds -> K!Content] /\ excused' \subseteq K!Editions
      BY <1>1, <2>1, <3>1, <3>2
    <3>5. q.pc = "replace" => Kept(saw)'
      <4>1. CASE v = saw
        BY <1>1, <3>3, <4>1 DEF Kept
      <4>2. CASE saw \in lost
        BY <3>2, <4>2 DEF Kept, Excused
      <4>3. QED
        BY <3>1, <4>1, <4>2
    <3>6. \A w : Excused(w) => Excused(w)'
      BY <3>2 DEF Excused
    <3>7. QED
      BY <3>3, <3>4, <3>5, <3>6
  <2>3. CASE UNCHANGED copies /\ excused' = excused \cup ({saw} \cap K!Editions)
    BY <1>1, <2>1, <2>3 DEF Kept, Excused
  <2>4. \/ K!Keep(r, saw, {})
        \/ K!Keep(r, K!Torn, {saw})
        \/ K!Keep(r, K!Torn, {}) /\ q.pc = "idle"
        \/ UNCHANGED copies /\ excused' = excused \cup ({saw} \cap K!Editions)
    <3>1. CASE K!Copy(r)
      BY <1>0, <3>1 DEF K!Copy
    <3>2. CASE K!CopyIgnored(r)
      BY <1>0, <3>2 DEF K!CopyIgnored, K!Excuse
    <3>3. CASE K!CopyCut(r)
      <4>1. K!Keep(r, K!Torn, {}) /\ request' = [request EXCEPT ![r] = K!Idle]
        BY <3>3 DEF K!CopyCut, K!Done, K!Becomes
      <4>2. q = K!Idle
        BY <1>1, <1>4, <4>1
      <4>3. QED
        BY <4>1, <4>2 DEF K!Idle
    <3>4. QED
      BY <3>1, <3>2, <3>3
  <2>5. QED
    BY <2>2, <2>3, <2>4
<1>6. K!BackupsTypeOK'
  BY <1>2, <1>4, <1>5 DEF BackupsIInv, K!BackupsTypeOK, RequestType
<1>7. \A v \in replaced' : Kept(v)'
  BY <1>2, <1>5 DEF BackupsIInv
<1>8. ASSUME NEW o \in Requests
      PROVE  /\ request'[o].pc = "copy" => siteFile' = request'[o].saw \/ Excused(siteFile)'
             /\ request'[o].pc = "replace" => Kept(siteFile)'
  <2>1. CASE o = r
    <3>1. q.pc = "replace" => Kept(siteFile)'
      <4>1. CASE siteFile = saw
        <5>1. siteFile' = saw
          BY <1>2, <4>1
        <5>2. QED
          BY <1>5, <5>1 DEF Kept
      <4>2. CASE Excused(siteFile)
        BY <1>2, <1>5, <4>2 DEF Kept, Excused
      <4>3. QED
        BY <1>2, <4>1, <4>2
    <3>2. QED
      BY <1>4, <2>1, <3>1
  <2>2. CASE o # r
    <3>1. Kept(siteFile) => Kept(siteFile)'
      BY <1>2, <1>5 DEF Kept, Excused
    <3>2. Excused(siteFile) => Excused(siteFile)'
      BY <1>2, <1>5 DEF Excused
    <3>3. QED
      BY <1>2, <1>4, <2>2, <3>1, <3>2 DEF BackupsIInv
  <2>3. QED
    BY <2>1, <2>2
<1>9. QED
  BY <1>6, <1>7, <1>8 DEF BackupsIInv

(* A version put into the file is excused from the copies of those that have
   looked at the file before. *)
LEMMA PutExcuses ==
  ASSUME BackupsIInv, NEW v \in K!Content, NEW S, K!Put(v, S), UNCHANGED copies
  PROVE  /\ siteFile' = v /\ excused' \subseteq K!Editions
         /\ \A w : Kept(w) => Kept(w)'
         /\ \A o \in Requests \ S : request[o].pc \in {"copy", "replace"} => Excused(v)'
<1>1. /\ siteFile' = v
      /\ IF \E o \in Requests \ S : request[o].pc \in {"copy", "replace"}
         THEN excused' = excused \cup ({v} \cap K!Editions) ELSE excused' = excused
  BY DEF K!Put, K!Excuse
<1>2. excused \subseteq excused' /\ excused' \subseteq K!Editions
  BY <1>1 DEF BackupsIInv, K!BackupsTypeOK
<1>3. \A w : Kept(w) => Kept(w)'
  BY <1>2 DEF Kept, Excused
<1>4. ASSUME NEW o \in Requests \ S, request[o].pc \in {"copy", "replace"} PROVE Excused(v)'
  BY <1>1, <1>4 DEF Excused
<1>5. QED
  BY <1>1, <1>2, <1>3, <1>4

LEMMA BackupsSave == ASSUME K!BackupsAssumption, BackupsIInv, K!Save PROVE BackupsIInv'
<1>1. PICK v \in K!Content : v = edited'
  BY StudioConstants DEF K!Save, K!Edit, BackupsIInv, K!BackupsTypeOK
<1>2. /\ UNCHANGED <<place, second, copies, request, replaced>> /\ K!Put(v, {})
      /\ edited' \in 0..MaxVersions
  BY <1>1, StudioConstants DEF K!Save, K!Edit, BackupsIInv, K!BackupsTypeOK
<1>3. /\ siteFile' = v /\ excused' \subseteq K!Editions
      /\ \A w : Kept(w) => Kept(w)'
      /\ \A o \in Requests \ {} : request[o].pc \in {"copy", "replace"} => Excused(v)'
  BY <1>2, PutExcuses
<1>4. K!BackupsTypeOK'
  BY <1>2, <1>3 DEF BackupsIInv, K!BackupsTypeOK
<1>5. \A o \in Requests : request[o].pc \in {"copy", "replace"} => Excused(siteFile)' /\ Kept(siteFile)'
  BY <1>3 DEF Kept, Excused
<1>6. QED
  BY <1>2, <1>3, <1>4, <1>5 DEF BackupsIInv

LEMMA BackupsReplace ==
  ASSUME K!BackupsAssumption, BackupsIInv, NEW r \in Requests, K!Replace(r) \/ K!Scp(r)
  PROVE  BackupsIInv'
<1>1. PICK v \in K!Content : K!Written(r, v)
  BY StudioConstants DEF K!Replace, K!Scp, BackupsIInv, K!BackupsTypeOK
<1>2. /\ UNCHANGED <<place, second, edited, copies>> /\ K!Put(v, {r}) /\ replaced' = replaced \cup ({siteFile} \cap K!Editions)
      /\ request' = [request EXCEPT ![r] = K!Idle] /\ Kept(siteFile)
  BY <1>1 DEF K!Written, K!Done, K!Becomes, K!At, BackupsIInv
<1>3. /\ siteFile' = v /\ excused' \subseteq K!Editions
      /\ \A w : Kept(w) => Kept(w)'
      /\ \A o \in Requests \ {r} : request[o].pc \in {"copy", "replace"} => Excused(v)'
  BY <1>2, PutExcuses
<1>4. /\ request \in [Requests -> RequestType] /\ siteFile \in K!Content /\ replaced \subseteq K!Editions
  BY DEF BackupsIInv, K!BackupsTypeOK, RequestType
<1>5. /\ request' \in [Requests -> RequestType] /\ request'[r].pc = "idle"
      /\ \A o \in Requests \ {r} : request'[o] = request[o]
  BY <1>2, <1>4, StudioConstants DEF K!Idle, RequestType
<1>6. K!BackupsTypeOK'
  BY <1>2, <1>3, <1>4, <1>5 DEF BackupsIInv, K!BackupsTypeOK, RequestType
<1>7. \A w \in replaced' : Kept(w)'
  BY <1>2, <1>3 DEF BackupsIInv
<1>8. \A o \in Requests : request'[o].pc \in {"copy", "replace"} => Excused(siteFile)' /\ Kept(siteFile)'
  BY <1>3, <1>5 DEF Kept, Excused
<1>9. QED
  BY <1>6, <1>7, <1>8 DEF BackupsIInv

LEMMA BackupsStep ==
  ASSUME K!BackupsAssumption, BackupsIInv, K!BackupsNext \/ UNCHANGED studioVars
  PROVE  BackupsIInv'
<1>1. CASE UNCHANGED studioVars
  BY <1>1 DEF studioVars, BackupsIInv, K!BackupsTypeOK, Kept, Excused
<1>2. CASE K!Tick
  <2>1. /\ second' \in K!Seconds
        /\ UNCHANGED <<place, edited, siteFile, copies, request, replaced, excused>>
    BY <1>2, StudioConstants DEF K!Tick, BackupsIInv, K!BackupsTypeOK
  <2>2. QED
    BY <2>1 DEF BackupsIInv, K!BackupsTypeOK, Kept, Excused
<1>3. ASSUME NEW r \in Requests, K!Handling(r) PROVE BackupsIInv'
  BY <1>3, BackupsAsk, BackupsLook, BackupsLookMissed, BackupsCopy, BackupsReplace DEF K!Handling
<1>4. QED
  BY <1>1, <1>2, <1>3, BackupsSave DEF K!BackupsNext

(* Whatever requests of the studio run side by side, and at whatever seconds:
   the version that one of them replaces can be restored, but for those the
   property names. *)
THEOREM CopiesAreKept == StoresSpec => []ReplacedIsKept
<1>1. StoresInit => (explored = "studio" => BackupsIInv)
  BY StoresAssumption, BackupsInit DEF StoresInit
<1>2. (explored = "studio" => BackupsIInv) /\ [StoresNext]_all => (explored = "studio" => BackupsIInv)'
  <2> SUFFICES ASSUME explored = "studio" => BackupsIInv, [StoresNext]_all, explored' = "studio"
               PROVE  BackupsIInv'
    OBVIOUS
  <2>1. explored = "studio" /\ (K!BackupsNext \/ UNCHANGED studioVars)
    BY DEF StoresNext, OthersStay, In, all
  <2>2. QED
    BY <2>1, StoresAssumption, BackupsStep
<1>3. (explored = "studio" => BackupsIInv) => ReplacedIsKept
  BY StoresAssumption, StudioConstants DEF ReplacedIsKept, K!ReplacedIsKept, K!BackupsTypeOK, BackupsIInv, Kept, Excused
<1>4. QED
  BY <1>1, <1>2, <1>3, PTL DEF StoresSpec

-----------------------------------------------------------------------------
(* The lists of an API *)

LEMMA ApiConstants ==
  ASSUME A!ApiSourceAssumption
  PROVE  /\ IsFiniteSet(Sessions) /\ Cardinality(Sessions) \in Nat /\ A!Ids = 1..Cardinality(Sessions) + 2
         /\ A!Rows \subseteq Nat /\ Answer \in Seq(A!Rows) /\ Wanted \subseteq A!Rows
         /\ TTL \in Nat \ {0} /\ Timeout \in Nat /\ MaxTime \in Nat
<1>1. /\ IsFiniteSet(Sessions) /\ A!Ids = 1..Cardinality(Sessions) + 2 /\ Answer \in Seq(Nat)
  BY DEF A!ApiSourceAssumption, A!IsFiniteSet, IsFiniteSet, A!Ids, A!Cardinality, Cardinality
<1>2. A!Rows \subseteq Nat /\ Answer \in Seq(A!Rows)
  BY <1>1 DEF A!Rows
<1>3. QED
  BY <1>1, <1>2, FS_CardinalityType DEF A!ApiSourceAssumption

(* A set of naturals that is not empty has a least element. *)
LEMMA Least ==
  ASSUME NEW T \in SUBSET Nat, T # {}
  PROVE  \E x \in T : \A y \in T : x <= y
<1> DEFINE Below == {p \in Nat \X Nat : p[1] < p[2]}
<1>1. IsWellFoundedOn(Below, Nat)
  BY NatLessThanWellFounded DEF OpToRel
<1>2. \E x \in T : \A y \in T : ~ (<<y, x>> \in Below)
  <2> HIDE DEF Below
  <2>1. QED
    BY <1>1, WFMin
<1>3. \A x, y \in T : ~ (<<y, x>> \in Below) => x <= y
  OBVIOUS
<1>4. QED
  BY <1>2, <1>3

ArrayType == [rows : Seq(A!Rows), asOf : 0..MaxTime]

(* What a session may be doing with its list at instant t, with arrays ids. *)
ListingOK(l, ids, t) ==
  /\ DOMAIN l = DOMAIN A!Away /\ l.pc \in A!Places
  /\ l.array \in {0} \cup ids
  /\ l.age \in Int /\ l.age < TTL + Timeout
  /\ l.pc \in {"load", "request", "answer"} => l.array = 0 /\ l.drawn = <<>>
  /\ l.pc \in {"filter", "compare", "low", "high", "draw"} => l.array # 0
  /\ l.pc \in {"request", "answer"} => l.since \in 0..t /\ t - l.since <= Timeout
  /\ l.pc = "answer" => l.asOf \in l.since..t
  /\ l.pc = "filter" => l.i \in Nat \ {0} /\ l.drawn \in Seq(A!Rows)
  /\ l.pc \in {"compare", "low", "high"} => l.i \in Nat /\ l.j \in 1..l.i
  /\ l.pc \in {"low", "high"} => l.j > 1 /\ l.low \in A!Rows /\ l.high \in A!Rows
  /\ l.pc = "shown" /\ l.array = 0 => l.drawn = <<>>

(* What the arrays are, and how old the one in the cache may be. *)
ArraysOK ==
  /\ now \in 0..MaxTime
  /\ DOMAIN arrays \subseteq A!Ids
  /\ \A k \in DOMAIN arrays : arrays[k] \in ArrayType /\ arrays[k].asOf <= now
  /\ cache.array \in {0} \cup DOMAIN arrays /\ cache.fetched \in 0..now
  /\ cache.array # 0 => cache.fetched <= arrays[cache.array].asOf + Timeout

Used == {cache.array} \cup {listing[t].array : t \in Sessions}

ApiIInv ==
  /\ ArraysOK
  /\ DOMAIN arrays \subseteq Used
  /\ DOMAIN listing = Sessions
  /\ \A s \in Sessions : ListingOK(listing[s], DOMAIN arrays, now)

LEMMA ApiImplies ==
  ASSUME A!ApiSourceAssumption, ApiIInv
  PROVE  A!ApiTypeOK /\ A!FreshEnough
<1>1. \A k \in DOMAIN arrays : arrays[k].rows \in Seq(A!Rows) /\ arrays[k].asOf \in 0..MaxTime
  BY DEF ApiIInv, ArraysOK, ArrayType
<1>2. cache.fetched \in 0..MaxTime
  BY ApiConstants DEF ApiIInv, ArraysOK
<1>3. \A s \in Sessions :
        /\ DOMAIN listing[s] = DOMAIN A!Away /\ listing[s].pc \in A!Places
        /\ listing[s].array \in {0} \cup DOMAIN arrays /\ listing[s].age < TTL + Timeout
  BY DEF ApiIInv, ListingOK
<1>4. QED
  BY <1>1, <1>2, <1>3 DEF ApiIInv, ArraysOK, A!ApiTypeOK, A!FreshEnough

LEMMA ApiInitial == ASSUME A!ApiSourceAssumption, A!ApiInit PROVE ApiIInv
<1>1. DOMAIN arrays = {}
  BY DEF A!ApiInit
<1>2. ListingOK(A!Away, {}, 0)
  BY ApiConstants DEF ListingOK, A!Away, A!Places
<1>3. DOMAIN listing = Sessions /\ \A s \in Sessions : listing[s] = A!Away
  BY DEF A!ApiInit
<1>4. now = 0 /\ cache.array = 0 /\ cache.fetched = 0 /\ MaxTime \in Nat
  BY ApiConstants DEF A!ApiInit
<1>5. ArraysOK
  BY <1>1, <1>4 DEF ArraysOK
<1>6. QED
  BY <1>1, <1>2, <1>3, <1>4, <1>5 DEF ApiIInv

(* There is always an array for the next answer. *)
LEMMA UnusedIsFree ==
  ASSUME A!ApiSourceAssumption, ApiIInv
  PROVE  A!Unused \in A!Ids \ DOMAIN arrays
<1> DEFINE Hands == {listing[t].array : t \in Sessions}
           f == [t \in Sessions |-> listing[t].array]
           k == Cardinality(Sessions)
           Free == A!Ids \ DOMAIN arrays
<1>1. f \in Surjection(Sessions, Hands)
  BY DEF Surjection
<1>2. IsFiniteSet(Hands) /\ Cardinality(Hands) \in Nat /\ Cardinality(Hands) <= k
  <2> HIDE DEF Hands, f
  <2>1. QED
    BY <1>1, ApiConstants, FS_Surjection, FS_CardinalityType
<1>3. IsFiniteSet(Hands \cup {cache.array}) /\ Cardinality(Hands \cup {cache.array}) <= k + 1
  <2> HIDE DEF Hands
  <2>1. /\ IsFiniteSet(Hands \cup {cache.array})
        /\ Cardinality(Hands \cup {cache.array})
             = IF cache.array \in Hands THEN Cardinality(Hands) ELSE Cardinality(Hands) + 1
    BY <1>2, FS_AddElement
  <2>2. QED
    BY <1>2, <2>1, ApiConstants
<1>4. Free # {}
  <2> SUFFICES ASSUME A!Ids \subseteq DOMAIN arrays PROVE FALSE
    OBVIOUS
  <2>1. A!Ids \in SUBSET (Hands \cup {cache.array})
    BY DEF ApiIInv, Used
  <2> HIDE DEF Hands
  <2>2. Cardinality(A!Ids) <= Cardinality(Hands \cup {cache.array})
    BY <1>3, <2>1, FS_Subset
  <2>3. Cardinality(A!Ids) = k + 2
    BY ApiConstants, FS_Interval
  <2>4. Cardinality(Hands \cup {cache.array}) \in Nat /\ k \in Nat
    BY <1>3, ApiConstants, FS_CardinalityType
  <2>5. QED
    BY <1>3, <2>2, <2>3, <2>4
<1>5. Free \in SUBSET Nat
  BY ApiConstants
<1>6. \E x \in Free : \A y \in Free : x <= y
  <2> HIDE DEF Free
  <2>1. QED
    BY <1>4, <1>5, Least
<1>7. QED
  BY <1>6 DEF A!Unused

(* A step of one session: its own state and the arrays that remain. *)
LEMMA ThenKeeps ==
  ASSUME A!ApiSourceAssumption, ApiIInv, NEW s \in Sessions, NEW l, NEW c, NEW every,
         A!Then(s, l, c, every),
         DOMAIN arrays \subseteq DOMAIN every, DOMAIN every \subseteq A!Ids,
         \A k \in DOMAIN every : every[k] \in ArrayType /\ every[k].asOf <= now,
         \A k \in DOMAIN arrays : every[k] = arrays[k],
         c.array \in {0} \cup DOMAIN every, c.fetched \in 0..now,
         c.array # 0 => c.fetched <= every[c.array].asOf + Timeout,
         ListingOK(l, DOMAIN every, now)
  PROVE  ApiIInv'
<1>1. /\ listing' = [listing EXCEPT ![s] = l] /\ cache' = c /\ now' = now
      /\ arrays' = [k \in DOMAIN every \cap ({c.array} \cup {listing'[t].array : t \in Sessions}) |-> every[k]]
  BY DEF A!Then, A!Becomes
<1>2. /\ DOMAIN listing' = Sessions /\ listing'[s] = l
      /\ \A t \in Sessions \ {s} : listing'[t] = listing[t]
  BY <1>1 DEF ApiIInv
<1>3. DOMAIN arrays' = DOMAIN every \cap Used'
  BY <1>1 DEF Used
<1>4. \A k \in DOMAIN arrays' : arrays'[k] = every[k]
  BY <1>1
<1>5. ArraysOK'
  <2>1. now' \in 0..MaxTime /\ cache'.fetched \in 0..now'
    BY <1>1 DEF ApiIInv, ArraysOK
  <2>2. c.array \in Used'
    BY <1>1 DEF Used
  <2>3. cache'.array \in {0} \cup DOMAIN arrays'
    BY <1>1, <1>3, <2>2
  <2>4. cache'.array # 0 => cache'.fetched <= arrays'[cache'.array].asOf + Timeout
    BY <1>1, <1>4, <2>3
  <2>5. QED
    BY <1>1, <1>3, <1>4, <2>1, <2>3, <2>4 DEF ArraysOK
<1>6. ASSUME NEW t \in Sessions PROVE ListingOK(listing'[t], DOMAIN arrays', now')
  <2>1. ListingOK(listing'[t], DOMAIN every, now)
    <3>1. CASE t = s
      BY <1>2, <3>1
    <3>2. CASE t # s
      <4>1. ListingOK(listing[t], DOMAIN arrays, now)
        BY DEF ApiIInv
      <4>2. QED
        BY <1>2, <3>2, <4>1 DEF ListingOK
    <3>3. QED
      BY <3>1, <3>2
  <2>2. listing'[t].array \in Used'
    BY <1>2 DEF Used
  <2>3. listing'[t].array \in {0} \cup DOMAIN arrays'
    BY <1>3, <2>1, <2>2 DEF ListingOK
  <2>4. QED
    BY <1>1, <2>1, <2>3 DEF ListingOK
<1>7. QED
  BY <1>2, <1>3, <1>5, <1>6 DEF ApiIInv

(* A step of one session that leaves the cache and the arrays in use alone. *)
LEMMA BecomesKeeps ==
  ASSUME ApiIInv, NEW s \in Sessions, NEW l, A!Becomes(s, l), UNCHANGED <<now, cache>>,
         DOMAIN arrays' = DOMAIN arrays,
         \A k \in DOMAIN arrays : arrays'[k] \in ArrayType /\ arrays'[k].asOf = arrays[k].asOf,
         ListingOK(l, DOMAIN arrays, now),
         listing[s].array = 0 \/ l.array = listing[s].array
  PROVE  ApiIInv'
<1>1. /\ DOMAIN listing' = Sessions /\ listing'[s] = l
      /\ \A t \in Sessions \ {s} : listing'[t] = listing[t]
  BY DEF A!Becomes, ApiIInv
<1>2. ArraysOK'
  BY DEF ApiIInv, ArraysOK
<1>3. \A t \in Sessions : ListingOK(listing'[t], DOMAIN arrays', now')
  BY <1>1 DEF ApiIInv
<1>4. ASSUME NEW k \in DOMAIN arrays PROVE k \in Used'
  <2>1. k \in Used /\ k # 0
    BY DEF ApiIInv, ArraysOK, A!Ids
  <2>2. CASE k = cache.array
    BY <2>2 DEF Used
  <2>3. CASE \E t \in Sessions : k = listing[t].array
    <3>1. PICK t \in Sessions : k = listing[t].array
      BY <2>3
    <3>2. k = listing'[t].array
      BY <1>1, <2>1, <3>1
    <3>3. QED
      BY <3>2 DEF Used
  <2>4. QED
    BY <2>1, <2>2, <2>3 DEF Used
<1>5. QED
  BY <1>1, <1>2, <1>3, <1>4 DEF ApiIInv

LEMMA OwnListing ==
  ASSUME ApiIInv, NEW s \in Sessions
  PROVE  ListingOK(listing[s], DOMAIN arrays, now)
BY DEF ApiIInv

(* A step that changes nothing but what one session does. *)
LEMMA AloneKeeps ==
  ASSUME ApiIInv, NEW s \in Sessions, NEW l, A!Becomes(s, l), UNCHANGED <<now, arrays, cache>>,
         ListingOK(l, DOMAIN arrays, now),
         listing[s].array = 0 \/ l.array = listing[s].array
  PROVE  ApiIInv'
<1>1. \A k \in DOMAIN arrays : arrays[k] \in ArrayType
  BY DEF ApiIInv, ArraysOK
<1>2. QED
  BY <1>1, BecomesKeeps

(* A step that begins another list: what is in the cache stays. *)
LEMMA AwayKeeps ==
  ASSUME A!ApiSourceAssumption, ApiIInv, NEW s \in Sessions, NEW l, A!Then(s, l, cache, arrays),
         ListingOK(l, DOMAIN arrays, now)
  PROVE  ApiIInv'
BY ThenKeeps DEF ApiIInv, ArraysOK

LEMMA ApiAsk ==
  ASSUME A!ApiSourceAssumption, ApiIInv, NEW s \in Sessions, NEW order, NEW filter, A!Ask(s, order, filter)
  PROVE  ApiIInv'
<1> DEFINE l == [A!Away EXCEPT !.pc = "load", !.order = order, !.filter = filter]
<1>1. ListingOK(l, DOMAIN arrays, now)
  BY ApiConstants DEF ListingOK, A!Away, A!Places
<1>2. A!Then(s, l, cache, arrays)
  BY DEF A!Ask
<1> HIDE DEF l
<1>3. QED
  BY <1>1, <1>2, AwayKeeps

LEMMA ApiLeave ==
  ASSUME A!ApiSourceAssumption, ApiIInv, NEW s \in Sessions, A!Leave(s)
  PROVE  ApiIInv'
<1>1. ListingOK(A!Away, DOMAIN arrays, now)
  BY ApiConstants DEF ListingOK, A!Away, A!Places
<1>2. QED
  BY <1>1, AwayKeeps DEF A!Leave

(* The list begun with an array: to be filtered or sorted. *)
LEMMA BegunOK ==
  ASSUME A!ApiSourceAssumption, NEW l, DOMAIN l = DOMAIN A!Away, NEW ids, NEW array \in ids, 0 \notin ids,
         now \in Nat, NEW asOf \in 0..now, now - asOf < TTL + Timeout, NEW t,
         l.drawn = <<>>
  PROVE  ListingOK(A!Begun(l, array, asOf), ids, t) /\ A!Begun(l, array, asOf).array = array
<1> DEFINE m == A!Begun(l, array, asOf)
<1>1. /\ DOMAIN m = DOMAIN A!Away /\ m.pc = (IF l.filter THEN "filter" ELSE "compare")
      /\ m.array = array /\ m.age = now - asOf
      /\ m.i = (IF l.filter THEN 1 ELSE 2) /\ m.j = (IF l.filter THEN 0 ELSE 2)
      /\ m.drawn = l.drawn
  BY DEF A!Begun, A!Away
<1> HIDE DEF m
<1>2. now - asOf \in Int /\ array # 0
  OBVIOUS
<1>3. m.pc = "filter" => m.i \in Nat \ {0} /\ m.drawn \in Seq(A!Rows)
  BY <1>1
<1>4. m.pc = "compare" => m.i \in Nat /\ m.j \in 1..m.i
  BY <1>1
<1>5. QED
  BY <1>1, <1>2, <1>3, <1>4 DEF ListingOK, A!Places, m

LEMMA ApiFromCache ==
  ASSUME A!ApiSourceAssumption, ApiIInv, NEW s \in Sessions, A!FromCache(s)
  PROVE  ApiIInv'
<1> DEFINE k == cache.array
           asOf == arrays[k].asOf
           m == A!Begun(listing[s], k, asOf)
<1>1. /\ A!Becomes(s, m) /\ UNCHANGED <<now, arrays, cache>>
      /\ listing[s].pc = "load" /\ k # 0 /\ now - cache.fetched < TTL
  BY DEF A!FromCache, A!Fresh, A!At
<1>2. /\ DOMAIN listing[s] = DOMAIN A!Away /\ listing[s].array = 0 /\ listing[s].drawn = <<>>
  BY <1>1, OwnListing DEF ListingOK
<1>3. /\ k \in DOMAIN arrays /\ 0 \notin DOMAIN arrays /\ now \in Nat /\ cache.fetched \in 0..now
      /\ asOf \in 0..now /\ cache.fetched <= asOf + Timeout
  BY <1>1, ApiConstants DEF ApiIInv, ArraysOK, ArrayType
<1>4. now - asOf < TTL + Timeout
  BY SMTT(40), <1>1, <1>3, ApiConstants
<1> HIDE DEF k, asOf
<1>5. ListingOK(m, DOMAIN arrays, now)
  BY <1>2, <1>3, <1>4, BegunOK
<1> HIDE DEF m
<1>6. QED
  BY <1>1, <1>2, <1>5, AloneKeeps

LEMMA ApiAsks ==
  ASSUME A!ApiSourceAssumption, ApiIInv, NEW s \in Sessions, A!Request(s) \/ A!Answers(s) \/ A!Fail(s)
  PROVE  ApiIInv'
<1>1. now \in Nat /\ Timeout \in Nat /\ TTL \in Nat \ {0}
  BY ApiConstants DEF ApiIInv, ArraysOK
<1>2. ListingOK(listing[s], DOMAIN arrays, now)
  BY OwnListing
<1>3. CASE A!Request(s)
  <2> DEFINE m == [listing[s] EXCEPT !.pc = "request", !.since = now]
  <2>1. A!Becomes(s, m) /\ UNCHANGED <<now, arrays, cache>> /\ listing[s].array = 0
    BY <1>2, <1>3 DEF A!Request, A!At, ListingOK
  <2>2. ListingOK(m, DOMAIN arrays, now)
    BY <1>1, <1>2, <1>3 DEF ListingOK, A!Request, A!At, A!Away, A!Places
  <2> HIDE DEF m
  <2>3. QED
    BY <2>1, <2>2, AloneKeeps
<1>4. CASE A!Answers(s)
  <2> DEFINE m == [listing[s] EXCEPT !.pc = "answer", !.asOf = now]
  <2>1. A!Becomes(s, m) /\ UNCHANGED <<now, arrays, cache>> /\ listing[s].array = 0
    BY <1>2, <1>4 DEF A!Answers, A!At, ListingOK
  <2>2. ListingOK(m, DOMAIN arrays, now)
    BY <1>1, <1>2, <1>4 DEF ListingOK, A!Answers, A!At, A!Away, A!Places
  <2> HIDE DEF m
  <2>3. QED
    BY <2>1, <2>2, AloneKeeps
<1>5. CASE A!Fail(s)
  <2> DEFINE m == [A!Away EXCEPT !.pc = "shown"]
  <2>1. A!Becomes(s, m) /\ UNCHANGED <<now, arrays, cache>> /\ listing[s].array = 0
    BY <1>2, <1>5 DEF A!Fail, ListingOK
  <2>2. ListingOK(m, DOMAIN arrays, now)
    BY <1>1 DEF ListingOK, A!Away, A!Places
  <2> HIDE DEF m
  <2>3. QED
    BY <2>1, <2>2, AloneKeeps
<1>6. QED
  BY <1>3, <1>4, <1>5

(* What arrays are with one more. *)
Extended(every, id, asOf) ==
  /\ DOMAIN every = DOMAIN arrays \cup {id} /\ DOMAIN every \subseteq A!Ids
  /\ \A k \in DOMAIN every : every[k] \in ArrayType /\ every[k].asOf <= now
  /\ \A k \in DOMAIN arrays : every[k] = arrays[k]
  /\ every[id].asOf = asOf

LEMMA WithArrayIs ==
  ASSUME A!ApiSourceAssumption, ApiIInv
  PROVE  \A id, rows, asOf :
           id \in A!Ids \ DOMAIN arrays /\ rows \in Seq(A!Rows) /\ asOf \in 0..now
             => Extended(A!WithArray(id, rows, asOf), id, asOf)
<1> SUFFICES ASSUME NEW id \in A!Ids \ DOMAIN arrays, NEW rows \in Seq(A!Rows), NEW asOf \in 0..now
             PROVE  Extended(A!WithArray(id, rows, asOf), id, asOf)
  OBVIOUS
<1>1. asOf \in 0..MaxTime /\ asOf <= now
  BY ApiConstants DEF ApiIInv, ArraysOK
<1>2. \A k \in DOMAIN arrays : arrays[k] \in ArrayType /\ arrays[k].asOf <= now
  BY DEF ApiIInv, ArraysOK
<1>3. DOMAIN arrays \subseteq A!Ids
  BY DEF ApiIInv, ArraysOK
<1>4. [rows |-> rows, asOf |-> asOf] \in ArrayType
  BY <1>1 DEF ArrayType
<1>5. QED
  BY <1>1, <1>2, <1>3, <1>4 DEF A!WithArray, Extended

LEMMA ApiStore ==
  ASSUME A!ApiSourceAssumption, ApiIInv, NEW s \in Sessions, A!Store(s)
  PROVE  ApiIInv'
<1> DEFINE id == A!Unused
           asOf == listing[s].asOf
           every == A!WithArray(id, Answer, asOf)
           c == [array |-> id, fetched |-> now]
           m == A!Begun(listing[s], id, asOf)
<1>1. A!Then(s, m, c, every) /\ listing[s].pc = "answer"
  BY DEF A!Store, A!At
<1>2. id \in A!Ids \ DOMAIN arrays
  BY UnusedIsFree
<1>3. now \in Nat /\ Answer \in Seq(A!Rows) /\ TTL \in Nat \ {0} /\ Timeout \in Nat
  BY ApiConstants DEF ApiIInv, ArraysOK
<1>4. /\ DOMAIN listing[s] = DOMAIN A!Away /\ listing[s].drawn = <<>>
      /\ listing[s].since \in 0..now /\ now - listing[s].since <= Timeout /\ asOf \in listing[s].since..now
  BY <1>1, OwnListing DEF ListingOK
<1>5. asOf \in 0..now /\ now <= asOf + Timeout /\ now - asOf < TTL + Timeout
  BY <1>3, <1>4
<1> HIDE DEF asOf, id
<1>6. /\ DOMAIN every = DOMAIN arrays \cup {id} /\ DOMAIN every \subseteq A!Ids
      /\ \A k \in DOMAIN every : every[k] \in ArrayType /\ every[k].asOf <= now
      /\ \A k \in DOMAIN arrays : every[k] = arrays[k]
      /\ every[id].asOf = asOf
  <2>1. Answer \in Seq(A!Rows) /\ asOf \in 0..now
    BY <1>3, <1>5
  <2>2. Extended(A!WithArray(id, Answer, asOf), id, asOf)
    BY ONLY A!ApiSourceAssumption, ApiIInv, <1>2, <2>1, WithArrayIs, Zenon
  <2>3. QED
    BY <2>2 DEF Extended
<1> HIDE DEF every
<1>7. ListingOK(m, DOMAIN every, now)
  <2>1. id \in DOMAIN every /\ 0 \notin DOMAIN every
    BY <1>6, ApiConstants
  <2>2. QED
    BY <1>3, <1>4, <1>5, <2>1, BegunOK
<1>8. c.array = id /\ c.fetched = now /\ now \in 0..now
  BY <1>3
<1> HIDE DEF m, c
<1>9. QED
  BY <1>1, <1>5, <1>6, <1>7, <1>8, ThenKeeps

LEMMA RowsInHand ==
  ASSUME ApiIInv, NEW s \in Sessions, listing[s].array # 0
  PROVE  /\ listing[s].array \in DOMAIN arrays /\ arrays[listing[s].array] \in ArrayType
         /\ A!RowsOf(s) \in Seq(A!Rows)
<1>1. listing[s].array \in DOMAIN arrays
  BY OwnListing DEF ListingOK
<1>2. arrays[listing[s].array] \in ArrayType
  BY <1>1 DEF ApiIInv, ArraysOK
<1>3. QED
  BY <1>1, <1>2 DEF A!RowsOf, ArrayType

LEMMA ApiFilter ==
  ASSUME A!ApiSourceAssumption, ApiIInv, NEW s \in Sessions, A!Filter(s)
  PROVE  ApiIInv'
<1> DEFINE l == listing[s]
           rows == A!RowsOf(s)
           r == rows[l.i]
           m == [l EXCEPT !.i = @ + 1, !.drawn = IF r \in Wanted THEN Append(@, r) ELSE @]
<1>1. A!Becomes(s, m) /\ UNCHANGED <<now, arrays, cache>> /\ l.pc = "filter" /\ l.i <= Len(rows)
  BY DEF A!Filter, A!At
<1>2. ListingOK(l, DOMAIN arrays, now)
  BY OwnListing
<1>3. l.i \in Nat \ {0} /\ l.drawn \in Seq(A!Rows) /\ l.array # 0
  BY <1>1, <1>2 DEF ListingOK
<1>4. rows \in Seq(A!Rows)
  BY <1>3, RowsInHand
<1> HIDE DEF rows
<1>5. r \in A!Rows
  BY <1>1, <1>3, <1>4
<1>6. Append(l.drawn, r) \in Seq(A!Rows)
  BY <1>3, <1>5
<1> HIDE DEF r
<1>7. DOMAIN l = DOMAIN A!Away
  BY <1>2 DEF ListingOK
<1>8. /\ m.pc = "filter" /\ m.array = l.array /\ m.age = l.age /\ DOMAIN m = DOMAIN A!Away
      /\ m.i \in Nat \ {0} /\ m.drawn \in Seq(A!Rows)
  BY <1>1, <1>3, <1>6, <1>7 DEF A!Away
<1> HIDE DEF m
<1>9. ListingOK(m, DOMAIN arrays, now)
  BY <1>2, <1>3, <1>8 DEF ListingOK, A!Places
<1>10. QED
  BY <1>1, <1>8, <1>9, AloneKeeps

LEMMA ApiFiltered ==
  ASSUME A!ApiSourceAssumption, ApiIInv, NEW s \in Sessions, A!Filtered(s)
  PROVE  ApiIInv'
<1> DEFINE l == listing[s]
           id == A!Unused
           asOf == arrays[l.array].asOf
           every == A!WithArray(id, l.drawn, asOf)
           m == [l EXCEPT !.pc = "compare", !.array = id, !.i = 2, !.j = 2, !.drawn = <<>>]
<1>1. A!Then(s, m, cache, every) /\ l.pc = "filter"
  BY DEF A!Filtered, A!At
<1>2. ListingOK(l, DOMAIN arrays, now)
  BY OwnListing
<1>3. l.drawn \in Seq(A!Rows) /\ l.array # 0
  BY <1>1, <1>2 DEF ListingOK
<1>4. id \in A!Ids \ DOMAIN arrays /\ id # 0
  BY UnusedIsFree, ApiConstants
<1>5. asOf \in 0..now
  BY <1>3, RowsInHand DEF ApiIInv, ArraysOK, ArrayType
<1> HIDE DEF asOf, id
<1>6. /\ DOMAIN every = DOMAIN arrays \cup {id} /\ DOMAIN every \subseteq A!Ids
      /\ \A k \in DOMAIN every : every[k] \in ArrayType /\ every[k].asOf <= now
      /\ \A k \in DOMAIN arrays : every[k] = arrays[k]
  <2>1. l.drawn \in Seq(A!Rows) /\ id \in A!Ids \ DOMAIN arrays
    BY <1>3, <1>4
  <2>2. Extended(A!WithArray(id, l.drawn, asOf), id, asOf)
    BY ONLY A!ApiSourceAssumption, ApiIInv, <1>5, <2>1, WithArrayIs, Zenon
  <2>3. QED
    BY <2>2 DEF Extended
<1> HIDE DEF every
<1>7. DOMAIN l = DOMAIN A!Away
  BY <1>2 DEF ListingOK
<1>8. /\ m.pc = "compare" /\ m.array = id /\ m.age = l.age /\ DOMAIN m = DOMAIN A!Away
      /\ m.i = 2 /\ m.j = 2
  BY <1>7 DEF A!Away
<1> HIDE DEF m
<1>9. ListingOK(m, DOMAIN every, now)
  BY <1>2, <1>4, <1>6, <1>8 DEF ListingOK, A!Places
<1>10. /\ cache.array \in {0} \cup DOMAIN every /\ cache.fetched \in 0..now
       /\ cache.array # 0 => cache.fetched <= every[cache.array].asOf + Timeout
  BY <1>6 DEF ApiIInv, ArraysOK
<1>11. QED
  BY <1>1, <1>6, <1>9, <1>10, ThenKeeps

LEMMA ApiCompare ==
  ASSUME A!ApiSourceAssumption, ApiIInv, NEW s \in Sessions, A!Compare(s)
  PROVE  ApiIInv'
<1> DEFINE l == listing[s]
           rows == A!RowsOf(s)
           swap == [l EXCEPT !.pc = "low", !.low = rows[l.j], !.high = rows[l.j - 1]]
           onward == [l EXCEPT !.i = @ + 1, !.j = l.i + 1]
<1>1. /\ UNCHANGED <<now, arrays, cache>> /\ l.pc = "compare" /\ l.i <= Len(rows)
      /\ (l.j > 1 /\ A!Becomes(s, swap)) \/ A!Becomes(s, onward)
  BY DEF A!Compare, A!At
<1>2. ListingOK(l, DOMAIN arrays, now)
  BY OwnListing
<1>3. l.i \in Nat /\ l.j \in 1..l.i /\ l.array # 0 /\ DOMAIN l = DOMAIN A!Away
  BY <1>1, <1>2 DEF ListingOK
<1>4. rows \in Seq(A!Rows)
  BY <1>3, RowsInHand
<1> HIDE DEF rows
<1>5. CASE l.j > 1 /\ A!Becomes(s, swap)
  <2>1. l.j \in 1..Len(rows) /\ l.j - 1 \in 1..Len(rows)
    BY <1>1, <1>3, <1>4, <1>5
  <2>2. rows[l.j] \in A!Rows /\ rows[l.j - 1] \in A!Rows
    BY <1>4, <2>1
  <2>3. /\ swap.pc = "low" /\ swap.array = l.array /\ swap.age = l.age /\ DOMAIN swap = DOMAIN A!Away
        /\ swap.i = l.i /\ swap.j = l.j /\ swap.low = rows[l.j] /\ swap.high = rows[l.j - 1]
    BY <1>3 DEF A!Away
  <2> HIDE DEF swap
  <2>4. ListingOK(swap, DOMAIN arrays, now)
    BY <1>2, <1>3, <1>5, <2>2, <2>3 DEF ListingOK, A!Places
  <2>5. QED
    BY <1>1, <1>5, <2>3, <2>4, AloneKeeps
<1>6. CASE A!Becomes(s, onward)
  <2>1. /\ onward.pc = "compare" /\ onward.array = l.array /\ onward.age = l.age
        /\ DOMAIN onward = DOMAIN A!Away /\ onward.i = l.i + 1 /\ onward.j = l.i + 1
    BY <1>1, <1>3 DEF A!Away
  <2> HIDE DEF onward
  <2>2. onward.i \in Nat /\ onward.j \in 1..onward.i
    BY <1>3, <2>1
  <2>3. ListingOK(onward, DOMAIN arrays, now)
    BY <1>2, <1>3, <2>1, <2>2 DEF ListingOK, A!Places
  <2>4. QED
    BY <1>1, <1>6, <2>1, <2>3, AloneKeeps
<1>7. QED
  BY <1>1, <1>5, <1>6

(* A row written into the array in hand changes neither its length nor its age. *)
LEMMA WrittenIs ==
  ASSUME ApiIInv, NEW s \in Sessions, listing[s].array # 0, NEW spot, NEW row \in A!Rows,
         arrays' = A!Written(s, spot, row)
  PROVE  /\ DOMAIN arrays' = DOMAIN arrays
         /\ \A k \in DOMAIN arrays : arrays'[k] \in ArrayType /\ arrays'[k].asOf = arrays[k].asOf
<1> DEFINE id == listing[s].array
           one == arrays[id]
           after == [one EXCEPT !.rows[spot] = row]
<1>1. id \in DOMAIN arrays /\ one \in ArrayType
  BY RowsInHand
<1>2. after \in ArrayType /\ after.asOf = one.asOf
  <2>1. one.rows \in Seq(A!Rows)
    BY <1>1 DEF ArrayType
  <2>2. [one.rows EXCEPT ![spot] = row] \in Seq(A!Rows)
    <3>1. Len(one.rows) \in Nat /\ one.rows \in [1..Len(one.rows) -> A!Rows]
      BY <2>1, LenProperties
    <3>2. [one.rows EXCEPT ![spot] = row] \in [1..Len(one.rows) -> A!Rows]
      BY <3>1
    <3>3. QED
      BY <3>1, <3>2, FunctionIsSeq
  <2>3. after = [one EXCEPT !.rows = [one.rows EXCEPT ![spot] = row]]
    OBVIOUS
  <2>4. ASSUME NEW x \in ArrayType, NEW y \in Seq(A!Rows)
        PROVE  [x EXCEPT !.rows = y] \in ArrayType /\ [x EXCEPT !.rows = y].asOf = x.asOf
    BY DEF ArrayType
  <2> HIDE DEF one, after
  <2>5. QED
    BY <1>1, <2>2, <2>3, <2>4
<1>3. arrays' = [arrays EXCEPT ![id] = after]
  BY DEF A!Written
<1>4. \A k \in DOMAIN arrays : arrays[k] \in ArrayType
  BY DEF ApiIInv, ArraysOK
<1> HIDE DEF id, after
<1>5. QED
  BY <1>1, <1>2, <1>3, <1>4

LEMMA ApiSwap ==
  ASSUME A!ApiSourceAssumption, ApiIInv, NEW s \in Sessions, A!StoreLow(s) \/ A!StoreHigh(s)
  PROVE  ApiIInv'
<1> DEFINE l == listing[s]
<1>1. l.pc \in {"low", "high"} /\ UNCHANGED <<now, cache>>
  BY DEF A!StoreLow, A!StoreHigh, A!At
<1>2. ListingOK(l, DOMAIN arrays, now)
  BY OwnListing
<1>3. /\ l.array # 0 /\ l.low \in A!Rows /\ l.high \in A!Rows /\ DOMAIN l = DOMAIN A!Away
      /\ l.i \in Nat /\ l.j \in 1..l.i /\ l.j > 1
  BY <1>1, <1>2 DEF ListingOK
<1>4. CASE A!StoreLow(s)
  <2> DEFINE m == [l EXCEPT !.pc = "high"]
  <2>1. A!Becomes(s, m) /\ arrays' = A!Written(s, l.j - 1, l.low)
    BY <1>4 DEF A!StoreLow
  <2>2. /\ m.pc = "high" /\ m.array = l.array /\ m.age = l.age /\ DOMAIN m = DOMAIN A!Away
        /\ m.i = l.i /\ m.j = l.j /\ m.low = l.low /\ m.high = l.high
    BY <1>3 DEF A!Away
  <2> HIDE DEF m
  <2>3. ListingOK(m, DOMAIN arrays, now)
    BY <1>2, <1>3, <2>2 DEF ListingOK, A!Places
  <2>4. /\ DOMAIN arrays' = DOMAIN arrays
        /\ \A k \in DOMAIN arrays : arrays'[k] \in ArrayType /\ arrays'[k].asOf = arrays[k].asOf
    BY <1>3, <2>1, WrittenIs
  <2>5. QED
    BY <1>1, <2>1, <2>2, <2>3, <2>4, BecomesKeeps
<1>5. CASE A!StoreHigh(s)
  <2> DEFINE m == [l EXCEPT !.pc = "compare", !.j = @ - 1, !.low = 0, !.high = 0]
  <2>1. A!Becomes(s, m) /\ arrays' = A!Written(s, l.j, l.high)
    BY <1>5 DEF A!StoreHigh
  <2>2. /\ m.pc = "compare" /\ m.array = l.array /\ m.age = l.age /\ DOMAIN m = DOMAIN A!Away
        /\ m.i = l.i /\ m.j = l.j - 1
    BY <1>3 DEF A!Away
  <2> HIDE DEF m
  <2>3. m.i \in Nat /\ m.j \in 1..m.i
    BY <1>3, <2>2
  <2>4. ListingOK(m, DOMAIN arrays, now)
    BY <1>2, <1>3, <2>2, <2>3 DEF ListingOK, A!Places
  <2>5. /\ DOMAIN arrays' = DOMAIN arrays
        /\ \A k \in DOMAIN arrays : arrays'[k] \in ArrayType /\ arrays'[k].asOf = arrays[k].asOf
    BY <1>3, <2>1, WrittenIs
  <2>6. QED
    BY <1>1, <2>1, <2>2, <2>4, <2>5, BecomesKeeps
<1>6. QED
  BY <1>4, <1>5

LEMMA ApiDraw ==
  ASSUME A!ApiSourceAssumption, ApiIInv, NEW s \in Sessions,
         A!Sorted(s) \/ A!Draw(s) \/ \E k \in DOMAIN Answer : A!OpenRow(s, k)
  PROVE  ApiIInv'
<1> DEFINE l == listing[s]
<1>1. ListingOK(l, DOMAIN arrays, now)
  BY OwnListing
<1>2. PICK m : /\ A!Becomes(s, m) /\ UNCHANGED <<now, arrays, cache>>
               /\ m.array = l.array /\ m.age = l.age /\ DOMAIN m = DOMAIN A!Away
               /\ m.pc \in {"draw", "shown"} /\ l.array # 0
  <2>1. DOMAIN l = DOMAIN A!Away /\ l.array \in {0} \cup DOMAIN arrays
    BY <1>1 DEF ListingOK
  <2>2. CASE A!Sorted(s)
    <3> DEFINE m == [l EXCEPT !.pc = "draw", !.i = 0, !.j = 0]
    <3>1. A!Becomes(s, m) /\ UNCHANGED <<now, arrays, cache>> /\ l.array # 0
      BY <1>1, <2>2 DEF A!Sorted, A!At, ListingOK
    <3>2. m.array = l.array /\ m.age = l.age /\ DOMAIN m = DOMAIN A!Away /\ m.pc = "draw"
      BY <2>1 DEF A!Away
    <3> HIDE DEF m
    <3>3. QED
      BY <3>1, <3>2
  <2>3. CASE A!Draw(s)
    <3> DEFINE m == [l EXCEPT !.pc = "shown", !.drawn = A!RowsOf(s), !.opened = <<>>]
    <3>1. A!Becomes(s, m) /\ UNCHANGED <<now, arrays, cache>> /\ l.array # 0
      BY <1>1, <2>3 DEF A!Draw, A!At, ListingOK
    <3>2. m.array = l.array /\ m.age = l.age /\ DOMAIN m = DOMAIN A!Away /\ m.pc = "shown"
      BY <2>1 DEF A!Away
    <3> HIDE DEF m
    <3>3. QED
      BY <3>1, <3>2
  <2>4. ASSUME NEW k \in DOMAIN Answer, A!OpenRow(s, k)
        PROVE  \E m : /\ A!Becomes(s, m) /\ UNCHANGED <<now, arrays, cache>>
                      /\ m.array = l.array /\ m.age = l.age /\ DOMAIN m = DOMAIN A!Away
                      /\ m.pc \in {"draw", "shown"} /\ l.array # 0
    <3> DEFINE m == [l EXCEPT !.pc = "draw", !.opened = <<l.drawn[k], A!RowsOf(s)[k]>>]
    <3>1. /\ A!Becomes(s, m) /\ UNCHANGED <<now, arrays, cache>>
          /\ k \in DOMAIN l.drawn /\ l.pc = "shown"
      BY <2>4 DEF A!OpenRow, A!At
    <3>2. l.array # 0
      <4>1. DOMAIN <<>> = {}
        OBVIOUS
      <4>2. QED
        BY <1>1, <3>1, <4>1 DEF ListingOK
    <3>3. m.array = l.array /\ m.age = l.age /\ DOMAIN m = DOMAIN A!Away /\ m.pc = "draw"
      BY <2>1 DEF A!Away
    <3> HIDE DEF m, l
    <3>4. QED
      BY <3>1, <3>2, <3>3
  <2>5. QED
    BY <2>2, <2>3, <2>4
<1>3. ListingOK(m, DOMAIN arrays, now)
  BY <1>1, <1>2 DEF ListingOK, A!Places
<1>4. QED
  BY <1>2, <1>3, AloneKeeps

LEMMA ApiTick == ASSUME A!ApiSourceAssumption, ApiIInv, A!Tick PROVE ApiIInv'
<1>1. /\ now' = now + 1 /\ now < MaxTime /\ UNCHANGED <<arrays, cache, listing>>
      /\ \A s \in Sessions : /\ listing[s].pc \in {"away", "request", "answer", "shown"}
                             /\ listing[s].pc \in {"request", "answer"} => now - listing[s].since < Timeout
  BY DEF A!Tick
<1>2. /\ now \in 0..MaxTime /\ MaxTime \in Nat /\ Timeout \in Nat
      /\ now' \in 0..MaxTime /\ 0..now \subseteq 0..now'
  BY <1>1, ApiConstants DEF ApiIInv, ArraysOK
<1>3. ArraysOK'
  <2>1. \A k \in DOMAIN arrays : arrays[k] \in ArrayType /\ arrays[k].asOf <= now'
    BY <1>1, <1>2 DEF ApiIInv, ArraysOK, ArrayType
  <2>2. QED
    BY <1>1, <1>2, <2>1 DEF ApiIInv, ArraysOK
<1>4. ASSUME NEW s \in Sessions PROVE ListingOK(listing[s], DOMAIN arrays, now')
  <2>1. ListingOK(listing[s], DOMAIN arrays, now)
    BY OwnListing
  <2>2. QED
    BY <1>1, <1>2, <2>1 DEF ListingOK
<1>5. QED
  BY <1>1, <1>3, <1>4 DEF ApiIInv, Used

LEMMA ApiStep ==
  ASSUME A!ApiSourceAssumption, ApiIInv, A!ApiNext \/ UNCHANGED apiVars
  PROVE  ApiIInv'
<1>1. CASE UNCHANGED apiVars
  BY <1>1 DEF apiVars, ApiIInv, ArraysOK, Used
<1>2. ASSUME NEW s \in Sessions, A!Listing(s) PROVE ApiIInv'
  BY <1>2, ApiAsk, ApiFromCache, ApiAsks, ApiStore, ApiFilter, ApiFiltered, ApiCompare, ApiSwap,
     ApiDraw, ApiLeave DEF A!Listing
<1>3. QED
  BY <1>1, <1>2, ApiTick DEF A!ApiNext

(* Whatever answers replace each other in the cache, and however late they
   come: no list that a session has in hand is older than the time an answer
   is kept and the time a request may take, together. *)
THEOREM ListsAreFresh == StoresSpec => []FreshEnough
<1>1. StoresInit => (explored = "api" => ApiIInv)
  BY StoresAssumption, ApiInitial DEF StoresInit
<1>2. (explored = "api" => ApiIInv) /\ [StoresNext]_all => (explored = "api" => ApiIInv)'
  <2> SUFFICES ASSUME explored = "api" => ApiIInv, [StoresNext]_all, explored' = "api"
               PROVE  ApiIInv'
    OBVIOUS
  <2>1. explored = "api" /\ (A!ApiNext \/ UNCHANGED apiVars)
    BY DEF StoresNext, OthersStay, In, all
  <2>2. QED
    BY <2>1, StoresAssumption, ApiStep
<1>3. (explored = "api" => ApiIInv) => FreshEnough
  BY StoresAssumption, ApiImplies DEF FreshEnough
<1>4. QED
  BY <1>1, <1>2, <1>3, PTL DEF StoresSpec

-----------------------------------------------------------------------------
(* Forum: the order of activity *)

LEMMA ForumSets == \A S : F!Cardinality(S) = Cardinality(S)
BY DEF F!Cardinality, Cardinality

(* Things with distinct keys are ranked by how many have a greater key. *)
Above(key, k, i) == {j \in 1..k : key[j] > key[i]}
Rank(key, k, i) == Cardinality(Above(key, k, i))

LEMMA RankRange ==
  ASSUME NEW k \in Nat, NEW key \in [1..k -> Int], NEW i \in 1..k
  PROVE  IsFiniteSet(Above(key, k, i)) /\ Rank(key, k, i) \in 0..k - 1
<1>1. Above(key, k, i) \in SUBSET ((1..k) \ {i})
  BY DEF Above
<1>2. IsFiniteSet(1..k) /\ Cardinality(1..k) = k
  BY FS_Interval
<1>3. IsFiniteSet((1..k) \ {i}) /\ Cardinality((1..k) \ {i}) = k - 1
  BY <1>2, FS_RemoveElement
<1>4. IsFiniteSet(Above(key, k, i)) /\ Cardinality(Above(key, k, i)) <= k - 1
  BY <1>1, <1>3, FS_Subset
<1>5. Cardinality(Above(key, k, i)) \in Nat
  BY <1>4, FS_CardinalityType
<1>6. QED
  BY <1>4, <1>5 DEF Rank

LEMMA RankOrder ==
  ASSUME NEW k \in Nat, NEW key \in [1..k -> Int], NEW i \in 1..k, NEW j \in 1..k, key[i] > key[j]
  PROVE  Rank(key, k, i) < Rank(key, k, j)
<1>1. Above(key, k, i) \in SUBSET Above(key, k, j) /\ i \in Above(key, k, j) /\ i \notin Above(key, k, i)
  BY DEF Above
<1>2. IsFiniteSet(Above(key, k, j)) /\ Rank(key, k, i) \in Int /\ Rank(key, k, j) \in Int
  BY RankRange
<1>3. Rank(key, k, i) <= Rank(key, k, j) /\ Rank(key, k, i) # Rank(key, k, j)
  BY <1>1, <1>2, FS_Subset DEF Rank
<1>4. QED
  BY <1>2, <1>3

(* Every rank is taken once. *)
LEMMA RankOnto ==
  ASSUME NEW k \in Nat, NEW key \in [1..k -> Int], \A i, j \in 1..k : key[i] = key[j] => i = j
  PROVE  /\ \A m \in 1..k : \E i \in 1..k : Rank(key, k, i) = m - 1
         /\ \A i, j \in 1..k : Rank(key, k, i) = Rank(key, k, j) => i = j
<1> DEFINE f == [i \in 1..k |-> Rank(key, k, i) + 1]
<1>1. \A i \in 1..k : Rank(key, k, i) \in 0..k - 1
  BY RankRange
<1>2. ASSUME NEW i \in 1..k, NEW j \in 1..k, Rank(key, k, i) = Rank(key, k, j)
      PROVE  i = j
  <2>1. Rank(key, k, i) \in Int /\ key[i] \in Int /\ key[j] \in Int
    BY <1>1
  <2>2. key[i] > key[j] => Rank(key, k, i) < Rank(key, k, j)
    BY RankOrder
  <2>3. key[j] > key[i] => Rank(key, k, j) < Rank(key, k, i)
    BY RankOrder
  <2>4. key[i] = key[j]
    BY ONLY <1>2, <2>1, <2>2, <2>3
  <2>5. QED
    BY <2>4
<1>3. f \in [1..k -> 1..k]
  <2>1. \A i \in 1..k : Rank(key, k, i) + 1 \in 1..k
    BY <1>1
  <2>2. QED
    BY <2>1
<1>4. \A i, j \in 1..k : f[i] = f[j] => i = j
  <2>1. \A i \in 1..k : f[i] = Rank(key, k, i) + 1 /\ Rank(key, k, i) \in Int
    BY <1>1
  <2> HIDE DEF f
  <2>2. \A i, j \in 1..k : f[i] = f[j] => Rank(key, k, i) = Rank(key, k, j)
    BY <2>1
  <2>3. QED
    BY <1>2, <2>2
<1>5. f \in Injection(1..k, 1..k)
  <2> HIDE DEF f
  <2>1. \A g \in [1..k -> 1..k] : (\A i, j \in 1..k : g[i] = g[j] => i = j) => g \in Injection(1..k, 1..k)
    BY Zenon DEF Injection, IsInjective
  <2>2. QED
    BY <1>3, <1>4, <2>1
<1>6. IsFiniteSet(1..k)
  BY FS_Interval
<1>7. f \in Surjection(1..k, 1..k)
  <2> HIDE DEF f
  <2>1. QED
    BY <1>5, <1>6, FS_Injection
<1>8. ASSUME NEW m \in 1..k PROVE \E i \in 1..k : Rank(key, k, i) = m - 1
  <2>1. PICK i \in 1..k : f[i] = m
    BY <1>7 DEF Surjection
  <2>2. Rank(key, k, i) \in Int /\ Rank(key, k, i) + 1 = m
    BY <1>1, <2>1
  <2>3. QED
    BY <2>2
<1>9. QED
  BY <1>2, <1>8

(* Taken by rank, they come from the greatest key to the least. *)
InOrder(key, k) == [m \in 1..k |-> CHOOSE i \in 1..k : Rank(key, k, i) = m - 1]

Arranged(p, key, k) ==
  /\ p \in [1..k -> 1..k]
  /\ \A i \in 1..k : \E m \in 1..k : p[m] = i
  /\ \A i, j \in 1..k : i < j => key[p[i]] > key[p[j]]

LEMMA ByRank ==
  ASSUME NEW k \in Nat, NEW key \in [1..k -> Int], \A i, j \in 1..k : key[i] = key[j] => i = j
  PROVE  Arranged(InOrder(key, k), key, k)
<1> DEFINE p == InOrder(key, k)
<1>1. \A m \in 1..k : p[m] \in 1..k /\ Rank(key, k, p[m]) = m - 1
  BY RankOnto DEF InOrder
<1>0. p = InOrder(key, k) /\ p = [m \in 1..k |-> p[m]]
  BY DEF InOrder
<1> HIDE DEF p
<1>2. \A i \in 1..k : Rank(key, k, i) \in 0..k - 1
  BY RankRange
<1>3. ASSUME NEW i \in 1..k PROVE \E m \in 1..k : p[m] = i
  <2> DEFINE m == Rank(key, k, i) + 1
  <2>1. m \in 1..k /\ m - 1 = Rank(key, k, i)
    BY <1>2
  <2>2. p[m] \in 1..k /\ Rank(key, k, p[m]) = Rank(key, k, i)
    BY <1>1, <2>1
  <2>3. QED
    BY <2>1, <2>2, RankOnto
<1>4. ASSUME NEW i \in 1..k, NEW j \in 1..k, i < j
      PROVE  key[p[i]] > key[p[j]]
  <2>1. p[i] \in 1..k /\ p[j] \in 1..k /\ Rank(key, k, p[i]) = i - 1 /\ Rank(key, k, p[j]) = j - 1
    BY <1>1
  <2>2. Rank(key, k, p[i]) < Rank(key, k, p[j])
    BY <1>4, <2>1
  <2>3. key[p[i]] \in Int /\ key[p[j]] \in Int /\ Rank(key, k, p[i]) \in Int /\ Rank(key, k, p[j]) \in Int
    <3>1. \A x \in 1..k : key[x] \in Int /\ Rank(key, k, x) \in Int
      BY <1>2
    <3>2. p[i] \in 1..k /\ p[j] \in 1..k
      BY <2>1
    <3>3. QED
      BY ONLY <3>1, <3>2
  <2>4. ~ (key[p[j]] > key[p[i]])
    <3>1. key[p[j]] > key[p[i]] => Rank(key, k, p[j]) < Rank(key, k, p[i])
      BY <2>1, RankOrder
    <3>2. QED
      BY <2>2, <2>3, <3>1
  <2>5. key[p[i]] # key[p[j]]
    <3>1. key[p[i]] = key[p[j]] => p[i] = p[j]
      BY <2>1
    <3>2. QED
      BY <2>1, <2>2, <2>3, <3>1
  <2>6. QED
    BY ONLY <2>3, <2>4, <2>5
<1>5. p \in [1..k -> 1..k]
  BY <1>0, <1>1
<1>6. QED
  BY <1>0, <1>3, <1>4, <1>5 DEF Arranged

(* Threads that all have posts, no two with the same last one. *)
Ordered(q) ==
  /\ q \in Seq(F!Thread)
  /\ \A i \in 1..Len(q) : q[i].posts # <<>>
  /\ \A i, j \in 1..Len(q) : F!LastActivity(q[i]) = F!LastActivity(q[j]) => i = j

LEMMA ActivityIsADate ==
  ASSUME NEW t \in F!Thread, t.posts # <<>>
  PROVE  /\ Len(t.posts) \in Nat \ {0} /\ F!LastActivity(t) \in Int
         /\ F!LastActivity(t) \in F!PostsOf(t)
<1>1. t.posts \in Seq(1..MaxClock)
  BY DEF F!Thread
<1>2. Len(t.posts) \in 1..Len(t.posts)
  BY <1>1, EmptySeq, LenProperties
<1>3. t.posts[Len(t.posts)] \in 1..MaxClock
  BY <1>1, <1>2, ElementOfSeq
<1>4. QED
  BY <1>2, <1>3 DEF F!LastActivity, F!PostsOf

(* ByActivity moves the threads, and puts the liveliest first. *)
LEMMA ByActivityIs ==
  ASSUME NEW q, Ordered(q)
  PROVE  \E p \in [1..Len(q) -> 1..Len(q)] :
           /\ F!ByActivity(q) = [k \in 1..Len(q) |-> q[p[k]]]
           /\ \A i \in 1..Len(q) : \E k \in 1..Len(q) : p[k] = i
           /\ \A i, j \in 1..Len(q) : i < j => F!LastActivity(q[p[i]]) > F!LastActivity(q[p[j]])
<1> DEFINE m == Len(q)
           key == [i \in 1..m |-> F!LastActivity(q[i])]
           p == InOrder(key, m)
<1>1. m \in Nat /\ \A i \in 1..m : q[i] \in F!Thread /\ F!LastActivity(q[i]) \in Int
  BY ActivityIsADate DEF Ordered
<1>2. key \in [1..m -> Int] /\ \A i, j \in 1..m : key[i] = key[j] => i = j
  BY <1>1 DEF Ordered
<1>3. ASSUME NEW i \in 1..m PROVE F!Livelier(q, i) = Above(key, m, i)
  BY <1>3 DEF F!Livelier, Above
<1>4. \A i \in 1..m : F!Cardinality(F!Livelier(q, i)) = Rank(key, m, i)
  BY <1>3, ForumSets DEF Rank
<1>5. F!ByActivity(q) = [k \in 1..m |-> q[p[k]]]
  <2> DEFINE Told(k) == CHOOSE i \in 1..m : F!Cardinality(F!Livelier(q, i)) = k - 1
             Placed(k) == CHOOSE i \in 1..m : Rank(key, m, i) = k - 1
  <2> HIDE DEF key
  <2>1. ASSUME NEW k PROVE Told(k) = Placed(k)
    BY <1>4, Zenon
  <2>2. F!ByActivity(q) = [k \in 1..m |-> q[Told(k)]]
    BY DEF F!ByActivity
  <2>3. p = [k \in 1..m |-> Placed(k)]
    BY DEF InOrder
  <2> HIDE DEF Told, Placed, p
  <2>4. QED
    BY <2>1, <2>2, <2>3
<1>6. /\ p \in [1..m -> 1..m]
      /\ \A i \in 1..m : \E k \in 1..m : p[k] = i
      /\ \A i, j \in 1..m : i < j => key[p[i]] > key[p[j]]
  <2>1. m \in Nat
    BY <1>1
  <2> HIDE DEF m, key
  <2>2. Arranged(p, key, m)
    BY <1>2, <2>1, ByRank
  <2>3. QED
    BY <2>2 DEF Arranged
<1> HIDE DEF p
<1>7. \A i, j \in 1..m : i < j => F!LastActivity(q[p[i]]) > F!LastActivity(q[p[j]])
  BY <1>6
<1>8. QED
  BY <1>5, <1>6, <1>7

-----------------------------------------------------------------------------
(* Forum: threads as they were written *)

(* A thread whose posts are in order of date and were written under its
   number, when the latest post of all has the date c. *)
Written(t, c, un) ==
  /\ t \in F!Thread /\ t.posts # <<>>
  /\ \A j \in 1..Len(t.posts) : t.posts[j] <= c /\ un[t.posts[j]] = t.id
  /\ \A j, k \in 1..Len(t.posts) : j < k => t.posts[j] < t.posts[k]

(* Threads so written, no two with the same number, all numbered before next. *)
Loose(q, next, c, un) ==
  /\ q \in Seq(F!Thread)
  /\ \A i \in 1..Len(q) : Written(q[i], c, un) /\ q[i].id < next
  /\ \A i, j \in 1..Len(q) : i # j => q[i].id # q[j].id

(* Within the bounds of the store. *)
Tidy(q, next, c, un) ==
  /\ Loose(q, next, c, un)
  /\ Len(q) <= MaxThreads
  /\ \A i \in 1..Len(q) : Len(q[i].posts) <= MaxPostsPerThread

LEMMA WrittenThread ==
  ASSUME NEW t, NEW c, NEW un, Written(t, c, un)
  PROVE  /\ t.id \in 1..MaxClock /\ t.posts \in Seq(1..MaxClock) /\ Len(t.posts) \in Nat \ {0}
         /\ \A j \in 1..Len(t.posts) : t.posts[j] \in 1..MaxClock
         /\ F!LastActivity(t) \in Int /\ F!LastActivity(t) = t.posts[Len(t.posts)]
         /\ un[F!LastActivity(t)] = t.id
<1>1. t \in F!Thread /\ t.posts # <<>>
  BY DEF Written
<1>2. t.id \in 1..MaxClock /\ t.posts \in Seq(1..MaxClock)
  BY <1>1 DEF F!Thread
<1>3. Len(t.posts) \in Nat \ {0} /\ F!LastActivity(t) \in Int
  BY <1>1, ActivityIsADate
<1>4. \A j \in 1..Len(t.posts) : t.posts[j] \in 1..MaxClock
  BY <1>2, ElementOfSeq
<1>5. Len(t.posts) \in 1..Len(t.posts)
  BY <1>3
<1>6. F!LastActivity(t) = t.posts[Len(t.posts)]
  BY DEF F!LastActivity
<1>7. un[t.posts[Len(t.posts)]] = t.id
  BY <1>5 DEF Written
<1>8. QED
  BY <1>2, <1>3, <1>4, <1>6, <1>7

(* Two threads with the same last post are one. *)
LEMMA LooseIsOrdered ==
  ASSUME NEW q, NEW next, NEW c, NEW un, Loose(q, next, c, un)
  PROVE  Ordered(q)
<1>1. q \in Seq(F!Thread) /\ \A i \in 1..Len(q) : Written(q[i], c, un)
  BY DEF Loose
<1>2. \A i \in 1..Len(q) : q[i].posts # <<>>
  BY <1>1 DEF Written
<1>3. \A i \in 1..Len(q) : un[F!LastActivity(q[i])] = q[i].id
  BY <1>1, WrittenThread
<1>4. ASSUME NEW i \in 1..Len(q), NEW j \in 1..Len(q), F!LastActivity(q[i]) = F!LastActivity(q[j])
      PROVE  i = j
  <2>1. q[i].id = q[j].id
    BY <1>3, <1>4
  <2>2. QED
    BY <2>1 DEF Loose
<1>5. QED
  BY <1>1, <1>2, <1>4 DEF Ordered

(* The posts of a thread from one to another, after its first d. *)
PartOf(ps, d, t) ==
  /\ ps \in Seq(1..MaxClock) /\ Len(ps) # 0
  /\ d \in Nat /\ d + Len(ps) <= Len(t.posts)
  /\ \A i \in 1..Len(ps) : ps[i] = t.posts[d + i]

With(t, ps) == [t EXCEPT !.posts = ps]

(* The thread t with no other posts than those. *)
Shortened(u, ps, d, t, c, un) ==
  /\ Written(u, c, un) /\ u.id = t.id /\ u.posts = ps
  /\ d + Len(ps) = Len(t.posts) => F!LastActivity(u) = F!LastActivity(t)

LEMMA PartWritten ==
  ASSUME NEW t, NEW c, NEW un, Written(t, c, un), NEW ps, NEW d, PartOf(ps, d, t)
  PROVE  Shortened(With(t, ps), ps, d, t, c, un)
<1> DEFINE u == [t EXCEPT !.posts = ps]
<1>0. /\ ps \in Seq(1..MaxClock) /\ Len(ps) # 0 /\ d \in Nat /\ d + Len(ps) <= Len(t.posts)
      /\ \A i \in 1..Len(ps) : ps[i] = t.posts[d + i]
  BY DEF PartOf
<1>1. t \in [id : 1..MaxClock, posts : Seq(1..MaxClock)] /\ Len(t.posts) \in Nat
  BY WrittenThread DEF Written, F!Thread
<1>2. u \in F!Thread /\ u.id = t.id /\ u.posts = ps
  BY <1>0, <1>1 DEF F!Thread
<1>3. Len(ps) \in Nat /\ ps # <<>>
  BY <1>0, LenProperties
<1> HIDE DEF u
<1>4. \A i \in 1..Len(ps) : d + i \in 1..Len(t.posts) /\ ps[i] = t.posts[d + i]
  BY <1>0, <1>1, <1>3
<1>5. \A i \in 1..Len(u.posts) : u.posts[i] <= c /\ un[u.posts[i]] = u.id
  BY <1>2, <1>4 DEF Written
<1>6. ASSUME NEW j \in 1..Len(ps), NEW k \in 1..Len(ps), j < k PROVE ps[j] < ps[k]
  <2>1. d + j \in 1..Len(t.posts) /\ d + k \in 1..Len(t.posts) /\ d + j < d + k
    BY <1>0, <1>1, <1>3, <1>4, <1>6
  <2>2. t.posts[d + j] < t.posts[d + k]
    BY <2>1 DEF Written
  <2>3. QED
    BY <1>4, <2>2
<1>7. Written(u, c, un)
  BY <1>2, <1>3, <1>5, <1>6 DEF Written
<1>8. d + Len(ps) = Len(t.posts) => F!LastActivity(u) = F!LastActivity(t)
  <2>1. Len(ps) \in 1..Len(ps)
    BY <1>3
  <2>2. ps[Len(ps)] = t.posts[d + Len(ps)]
    BY <1>0, <2>1
  <2>3. QED
    BY <1>0, <1>2, <2>2 DEF F!LastActivity
<1>9. QED
  BY <1>2, <1>7, <1>8 DEF u, Shortened, With

(* The end of a sequence, of k elements if it has as many. *)
EndOf(e, s, S, k) ==
  /\ e \in Seq(S) /\ Len(e) \in 1..k
  /\ \E d \in Nat : /\ d + Len(e) = Len(s)
                    /\ \A i \in 1..Len(e) : e[i] = s[d + i]
                    /\ IF Len(s) <= k THEN d = 0 ELSE Len(e) = k

LEMMA ForumLatest ==
  ASSUME NEW S, NEW s \in Seq(S), NEW k \in Nat \ {0}, s # <<>>
  PROVE  EndOf(F!Latest(s, k), s, S, k)
<1>1. F!Latest(s, k) = W!Latest(s, k)
  BY DEF F!Latest, W!Latest
<1>2. Len(s) \in Nat \ {0}
  BY LenProperties, EmptySeq
<1>3. /\ Dropped(s, k) \in 0..Len(s) /\ W!Latest(s, k) \in Seq(S)
      /\ Len(W!Latest(s, k)) = Len(s) - Dropped(s, k)
      /\ \A i \in 1..Len(s) - Dropped(s, k) : W!Latest(s, k)[i] = s[Dropped(s, k) + i]
  BY LatestIs
<1>4. Dropped(s, k) \in Nat /\ Dropped(s, k) + Len(W!Latest(s, k)) = Len(s)
      /\ (IF Len(s) <= k THEN Dropped(s, k) = 0 ELSE Len(W!Latest(s, k)) = k) /\ Len(W!Latest(s, k)) \in 1..k
  BY <1>2, <1>3 DEF Dropped
<1>5. QED
  BY <1>1, <1>3, <1>4 DEF EndOf

(* Later posts of other threads change nothing. *)
LEMMA StaysWritten ==
  ASSUME NEW t, NEW c \in Nat, NEW un, un \in [1..c -> 0..MaxClock], NEW x \in 0..MaxClock, Written(t, c, un)
  PROVE  Written(t, c + 1, Append(un, x))
<1>1. un \in Seq(0..MaxClock) /\ Len(un) = c
  BY FunctionIsSeq
<1>2. \A j \in 1..c : Append(un, x)[j] = un[j]
  BY <1>1
<1>3. \A j \in 1..Len(t.posts) : t.posts[j] \in 1..MaxClock /\ t.posts[j] <= c /\ un[t.posts[j]] = t.id
  BY WrittenThread DEF Written
<1>4. \A j \in 1..Len(t.posts) : t.posts[j] \in 1..c
  BY <1>3
<1>5. \A j \in 1..Len(t.posts) : t.posts[j] <= c + 1 /\ Append(un, x)[t.posts[j]] = t.id
  BY <1>2, <1>3, <1>4
<1>6. QED
  BY <1>5 DEF Written

(* The threads of q cut to their latest posts. *)
Cut(q) == [i \in 1..Len(q) |-> [q[i] EXCEPT !.posts = F!Latest(@, MaxPostsPerThread)]]

LEMMA CutIs ==
  ASSUME F!ForumAssumption, NEW q, NEW next, NEW c, NEW un, Loose(q, next, c, un)
  PROVE  /\ Loose(Cut(q), next, c, un) /\ Len(Cut(q)) = Len(q)
         /\ \A i \in 1..Len(q) : /\ Cut(q)[i].id = q[i].id
                                 /\ Len(Cut(q)[i].posts) <= MaxPostsPerThread
                                 /\ F!LastActivity(Cut(q)[i]) = F!LastActivity(q[i])
<1> DEFINE e == Cut(q)
<1>1. q \in Seq(F!Thread) /\ Len(q) \in Nat /\ MaxPostsPerThread \in Nat \ {0}
  BY LenProperties DEF Loose, F!ForumAssumption
<1>2. \A i \in 1..Len(q) : e[i] = [q[i] EXCEPT !.posts = F!Latest(q[i].posts, MaxPostsPerThread)]
  BY DEF Cut
<1>3. ASSUME NEW i \in 1..Len(q)
      PROVE  /\ Written(e[i], c, un) /\ e[i].id = q[i].id
             /\ Len(e[i].posts) \in 1..MaxPostsPerThread
             /\ F!LastActivity(e[i]) = F!LastActivity(q[i])
  <2> DEFINE t == q[i]
             ps == F!Latest(t.posts, MaxPostsPerThread)
  <2>1. Written(t, c, un)
    BY DEF Loose
  <2> HIDE DEF e
  <2>2. t.posts \in Seq(1..MaxClock) /\ t.posts # <<>>
    BY ZenonT(40), <2>1, WrittenThread DEF Written
  <2>3. e[i] = [t EXCEPT !.posts = ps]
    BY <1>2
  <2> HIDE DEF t
  <2>4. EndOf(ps, t.posts, 1..MaxClock, MaxPostsPerThread)
    BY <1>1, <2>2, ForumLatest
  <2> HIDE DEF ps
  <2>5. PICK d \in Nat : /\ ps \in Seq(1..MaxClock) /\ Len(ps) \in 1..MaxPostsPerThread
                         /\ d + Len(ps) = Len(t.posts)
                         /\ \A j \in 1..Len(ps) : ps[j] = t.posts[d + j]
    BY <2>4 DEF EndOf
  <2>6. PartOf(ps, d, t)
    BY <2>2, <2>5, LenProperties DEF PartOf
  <2>7. /\ Written(e[i], c, un) /\ e[i].id = t.id /\ e[i].posts = ps
        /\ F!LastActivity(e[i]) = F!LastActivity(t)
    <3>1. Shortened(With(t, ps), ps, d, t, c, un)
      BY <2>1, <2>6, PartWritten
    <3>2. e[i] = With(t, ps)
      BY <2>3 DEF With
    <3>3. Shortened(e[i], ps, d, t, c, un)
      BY <3>1, <3>2
    <3>4. QED
      BY <2>5, <3>3 DEF Shortened
  <2>8. QED
    BY <2>5, <2>7 DEF t
<1>4. e \in Seq(F!Thread) /\ Len(e) = Len(q)
  <2>1. e = [i \in 1..Len(q) |-> e[i]] /\ \A i \in 1..Len(q) : e[i] \in F!Thread
    BY <1>3 DEF Cut, Written
  <2> HIDE DEF e
  <2>2. e \in [1..Len(q) -> F!Thread]
    BY <2>1
  <2>3. QED
    BY <1>1, <2>2, FunctionIsSeq
<1> HIDE DEF e
<1>5. Loose(e, next, c, un)
  BY <1>3, <1>4 DEF Loose
<1>6. QED
  BY <1>1, <1>3, <1>4, <1>5 DEF e

(* What is kept is within the bounds; what is not was active less lately than
   all that is. *)
LEMMA CapsKeep ==
  ASSUME F!ForumAssumption, NEW q, NEW next, NEW c, NEW un, Loose(q, next, c, un)
  PROVE  /\ Tidy(F!enforceCaps(q), next, c, un)
         /\ \A i \in 1..Len(q) : q[i].id \notin F!IDs(F!enforceCaps(q)) =>
              /\ Len(F!enforceCaps(q)) = MaxThreads
              /\ \A j \in 1..Len(F!enforceCaps(q)) :
                   F!LastActivity(F!enforceCaps(q)[j]) > F!LastActivity(q[i])
<1> DEFINE e == Cut(q)
           b == F!ByActivity(e)
           r == SubSeq(b, 1, MaxThreads)
           m == Len(e)
<1>1. /\ Loose(e, next, c, un) /\ Len(e) = Len(q)
      /\ \A i \in 1..Len(q) : /\ e[i].id = q[i].id
                              /\ Len(e[i].posts) <= MaxPostsPerThread
                              /\ F!LastActivity(e[i]) = F!LastActivity(q[i])
  BY CutIs
<1>2. F!enforceCaps(q) = IF m <= MaxThreads THEN e ELSE r
  BY DEF F!enforceCaps, Cut
<1> HIDE DEF e
<1>3. e \in Seq(F!Thread) /\ m \in Nat /\ MaxThreads \in Nat
  BY <1>1, LenProperties DEF Loose, F!ForumAssumption
<1>4. CASE m <= MaxThreads
  <2>1. F!enforceCaps(q) = e
    BY <1>2, <1>4
  <2>2. Tidy(e, next, c, un)
    BY <1>1, <1>4 DEF Tidy
  <2>3. \A i \in 1..Len(q) : q[i].id \in F!IDs(e)
    BY <1>1 DEF F!IDs
  <2>4. QED
    BY <2>1, <2>2, <2>3
<1>5. CASE ~ (m <= MaxThreads)
  <2>1. F!enforceCaps(q) = r
    BY <1>2, <1>5
  <2>2. PICK p \in [1..m -> 1..m] :
          /\ b = [k \in 1..m |-> e[p[k]]]
          /\ \A i \in 1..m : \E k \in 1..m : p[k] = i
          /\ \A i, j \in 1..m : i < j => F!LastActivity(e[p[i]]) > F!LastActivity(e[p[j]])
    BY <1>1, LooseIsOrdered, ByActivityIs
  <2> HIDE DEF b
  <2>3. \A k \in 1..m : p[k] \in 1..m /\ b[k] = e[p[k]] /\ b[k] \in F!Thread
    <3>1. \A k \in 1..m : p[k] \in 1..m /\ b[k] = e[p[k]]
      BY <2>2
    <3>2. \A k \in 1..m : e[k] \in F!Thread
      BY <1>3, ElementOfSeq
    <3>3. QED
      BY <3>1, <3>2
  <2>4. 1 \in Int /\ MaxThreads \in Int /\ \A k \in 1..MaxThreads : b[k] \in F!Thread
    BY <1>3, <1>5, <2>3
  <2>5. /\ r \in Seq(F!Thread) /\ Len(r) = MaxThreads
        /\ \A k \in 1..MaxThreads : r[k] = b[k]
    <3>1. /\ SubSeq(b, 1, MaxThreads) \in Seq(F!Thread)
          /\ Len(SubSeq(b, 1, MaxThreads)) = (IF 1 <= MaxThreads THEN MaxThreads - 1 + 1 ELSE 0)
          /\ \A i \in 1..MaxThreads - 1 + 1 : SubSeq(b, 1, MaxThreads)[i] = b[1 + i - 1]
      BY <2>4, SubSeqProperties
    <3>2. Len(SubSeq(b, 1, MaxThreads)) = MaxThreads
      BY <1>3, <3>1
    <3>3. ASSUME NEW k \in 1..MaxThreads PROVE r[k] = b[k]
      <4>1. k \in 1..MaxThreads - 1 + 1 /\ 1 + k - 1 = k
        BY <1>3
      <4>2. QED
        BY <3>1, <4>1
    <3>4. QED
      BY <3>1, <3>2, <3>3
  <2> HIDE DEF r
  <2>6. \A k \in 1..MaxThreads : k \in 1..m /\ r[k] = e[p[k]] /\ p[k] \in 1..m
    BY <1>3, <1>5, <2>3, <2>5
  <2>7. \A i, j \in 1..m : i # j => p[i] # p[j]
    <3>1. \A i \in 1..m : F!LastActivity(e[p[i]]) \in Int
      BY <1>1, <2>3, WrittenThread DEF Loose
    <3>2. ASSUME NEW i \in 1..m, NEW j \in 1..m, i < j PROVE p[i] # p[j]
      <4>1. F!LastActivity(e[p[i]]) > F!LastActivity(e[p[j]])
        BY <2>2, <3>2
      <4>2. F!LastActivity(e[p[i]]) # F!LastActivity(e[p[j]])
        BY <3>1, <4>1
      <4>3. QED
        BY <4>2
    <3>3. QED
      BY <1>3, <3>2
  <2>8. Tidy(r, next, c, un)
    <3>1. \A i \in 1..Len(r) : Written(r[i], c, un) /\ r[i].id < next /\ Len(r[i].posts) <= MaxPostsPerThread
      BY <1>1, <2>5, <2>6 DEF Loose
    <3>2. ASSUME NEW i \in 1..Len(r), NEW j \in 1..Len(r), i # j PROVE r[i].id # r[j].id
      <4>1. p[i] # p[j] /\ p[i] \in 1..m /\ p[j] \in 1..m /\ r[i] = e[p[i]] /\ r[j] = e[p[j]]
        BY <2>5, <2>6, <2>7, <3>2
      <4>2. QED
        BY <1>1, <4>1 DEF Loose
    <3>3. QED
      BY <1>3, <2>5, <3>1, <3>2 DEF Tidy, Loose
  <2>9. ASSUME NEW i \in 1..Len(q), q[i].id \notin F!IDs(r), NEW j \in 1..Len(r)
        PROVE  F!LastActivity(r[j]) > F!LastActivity(q[i])
    <3>1. PICK k \in 1..m : p[k] = i
      BY <1>1, <2>2
    <3>2. ~ (k \in 1..MaxThreads)
      <4>1. k \in 1..MaxThreads => r[k].id = q[i].id
        BY <1>1, <2>6, <3>1
      <4>2. QED
        BY <2>5, <2>9, <4>1 DEF F!IDs
    <3>3. j \in 1..m /\ j < k /\ r[j] = e[p[j]]
      BY <1>3, <2>5, <2>6, <3>2
    <3>4. F!LastActivity(e[p[j]]) > F!LastActivity(e[p[k]])
      BY <2>2, <3>3
    <3>5. QED
      BY <1>1, <3>1, <3>3, <3>4
  <2>10. QED
    BY <2>1, <2>5, <2>8, <2>9
<1>6. QED
  BY <1>4, <1>5

LEMMA TidyStays ==
  ASSUME NEW q, NEW next, NEW c \in Nat, NEW un, un \in [1..c -> 0..MaxClock], NEW x \in 0..MaxClock,
         Tidy(q, next, c, un)
  PROVE  Tidy(q, next, c + 1, Append(un, x))
<1>1. \A i \in 1..Len(q) : Written(q[i], c + 1, Append(un, x))
  BY StaysWritten DEF Tidy, Loose
<1>2. QED
  BY <1>1 DEF Tidy, Loose

(* The thread u in the place of t. *)
Replaces(u, t, c, un) == Written(u, c, un) /\ u.id = t.id /\ Len(u.posts) <= MaxPostsPerThread

LEMMA OneReplaced ==
  ASSUME NEW q, NEW next, NEW c, NEW un, Tidy(q, next, c, un), NEW i \in 1..Len(q),
         NEW t, Replaces(t, q[i], c, un)
  PROVE  /\ Tidy([q EXCEPT ![i] = t], next, c, un)
         /\ F!IDs([q EXCEPT ![i] = t]) = F!IDs(q)
<1> DEFINE r == [q EXCEPT ![i] = t]
<1>1. q \in Seq(F!Thread) /\ t \in F!Thread /\ Len(q) \in Nat
  BY LenProperties DEF Tidy, Loose, Written, Replaces
<1>2. r \in Seq(F!Thread) /\ Len(r) = Len(q) /\ \A j \in 1..Len(q) : r[j] = IF j = i THEN t ELSE q[j]
  BY <1>1
<1> HIDE DEF r
<1>3. \A j \in 1..Len(q) : r[j].id = q[j].id /\ Written(r[j], c, un) /\ Len(r[j].posts) <= MaxPostsPerThread
  BY <1>2 DEF Tidy, Loose, Replaces
<1>4. Loose(r, next, c, un)
  BY <1>2, <1>3 DEF Tidy, Loose
<1>5. F!IDs(r) = F!IDs(q)
  BY <1>2, <1>3 DEF F!IDs
<1>6. QED
  BY <1>2, <1>3, <1>4, <1>5 DEF r, Tidy

(* A thread with a later post. *)
LEMMA LaterPost ==
  ASSUME NEW t, NEW c \in Nat, c + 1 <= MaxClock, MaxClock \in Nat, NEW un, un \in [1..c -> 0..MaxClock],
         Written(t, c, un)
  PROVE  /\ Written([t EXCEPT !.posts = Append(t.posts, c + 1)], c + 1, Append(un, t.id))
         /\ [t EXCEPT !.posts = Append(t.posts, c + 1)].id = t.id
         /\ [t EXCEPT !.posts = Append(t.posts, c + 1)].posts = Append(t.posts, c + 1)
<1> DEFINE u == [t EXCEPT !.posts = Append(t.posts, c + 1)]
           after == Append(un, t.id)
           ps == Append(t.posts, c + 1)
<1>1. /\ t.id \in 1..MaxClock /\ t.posts \in Seq(1..MaxClock) /\ Len(t.posts) \in Nat \ {0}
      /\ \A j \in 1..Len(t.posts) : t.posts[j] \in 1..MaxClock
  BY WrittenThread
<1>2. t \in [id : 1..MaxClock, posts : Seq(1..MaxClock)] /\ c + 1 \in 1..MaxClock
  BY DEF Written, F!Thread
<1>3. /\ ps \in Seq(1..MaxClock) /\ Len(ps) = Len(t.posts) + 1
      /\ \A i \in 1..Len(t.posts) + 1 : ps[i] = (IF i <= Len(t.posts) THEN t.posts[i] ELSE c + 1)
  BY <1>1, <1>2, AppendIs
<1>4. u \in F!Thread /\ u.id = t.id /\ u.posts = ps
  BY <1>2, <1>3 DEF F!Thread
<1>5. un \in Seq(0..MaxClock) /\ Len(un) = c
  BY FunctionIsSeq
<1>6. after[c + 1] = t.id /\ \A j \in 1..c : after[j] = un[j]
  BY <1>1, <1>5
<1> HIDE DEF ps, u, after
<1>7. \A j \in 1..Len(t.posts) : t.posts[j] \in 1..c /\ un[t.posts[j]] = t.id
  BY <1>1 DEF Written
<1>8. \A j \in 1..Len(ps) : ps[j] <= c + 1 /\ after[ps[j]] = t.id
  <2>1. ASSUME NEW j \in 1..Len(ps) PROVE ps[j] <= c + 1 /\ after[ps[j]] = t.id
    <3>1. CASE j <= Len(t.posts)
      <4>1. j \in 1..Len(t.posts) /\ ps[j] = t.posts[j]
        BY <1>1, <1>3, <3>1
      <4>2. QED
        BY <1>6, <1>7, <4>1
    <3>2. CASE ~ (j <= Len(t.posts))
      BY <1>3, <1>6, <3>2
    <3>3. QED
      BY <3>1, <3>2
  <2>2. QED
    BY <2>1
<1>9. ASSUME NEW j \in 1..Len(ps), NEW k \in 1..Len(ps), j < k PROVE ps[j] < ps[k]
  <2>0. j \in 1..Len(t.posts)
    BY <1>1, <1>3, <1>9
  <2>1. j \in 1..Len(t.posts) /\ ps[j] = t.posts[j] /\ ps[j] \in 1..c
    BY SMTT(40), <1>3, <1>7, <2>0
  <2>2. CASE k <= Len(t.posts)
    <3>1. k \in 1..Len(t.posts) /\ ps[k] = t.posts[k]
      BY <1>3, <2>2
    <3>2. t.posts[j] < t.posts[k]
      BY <1>9, <2>1, <3>1 DEF Written
    <3>3. QED
      BY <2>1, <3>1, <3>2
  <2>3. CASE ~ (k <= Len(t.posts))
    <3>1. ps[k] = c + 1
      BY <1>3, <2>3
    <3>2. QED
      BY <2>1, <3>1
  <2>4. QED
    BY <2>2, <2>3
<1>10. ps # <<>>
  BY <1>1, <1>3, EmptySeq
<1>11. Written(u, c + 1, after)
  BY <1>4, <1>8, <1>9, <1>10 DEF Written
<1>12. QED
  BY <1>4, <1>11 DEF u, after, ps

(* What a reply leaves of a thread: with it, or without if it is taken back. *)
LEMMA ReplyKeeps ==
  ASSUME F!ForumAssumption, NEW t, NEW c \in Nat, c + 1 <= MaxClock, NEW un, un \in [1..c -> 0..MaxClock],
         Written(t, c, un), NEW added, added = F!Latest(Append(t.posts, c + 1), MaxPostsPerThread)
  PROVE  Replaces(With(t, added), t, c + 1, Append(un, t.id))
<1> DEFINE u == [t EXCEPT !.posts = Append(t.posts, c + 1)]
           ps == Append(t.posts, c + 1)
<1>1. t \in [id : 1..MaxClock, posts : Seq(1..MaxClock)]
  BY DEF Written, F!Thread
<1>2. Written(u, c + 1, Append(un, t.id)) /\ u.id = t.id /\ u.posts = ps
  BY LaterPost DEF F!ForumAssumption
<1>3. With(u, added) = With(t, added)
  BY <1>1 DEF With
<1> HIDE DEF u
<1>4. ps \in Seq(1..MaxClock) /\ ps # <<>> /\ MaxPostsPerThread \in Nat \ {0}
  <2>1. ps = u.posts
    BY <1>2
  <2> HIDE DEF ps
  <2>2. u.posts \in Seq(1..MaxClock) /\ u.posts # <<>>
    BY ZenonT(40), <1>2, WrittenThread DEF Written
  <2>3. QED
    BY <2>1, <2>2 DEF F!ForumAssumption
<1>0. ps = Append(t.posts, c + 1)
  OBVIOUS
<1> HIDE DEF ps
<1>5. EndOf(added, ps, 1..MaxClock, MaxPostsPerThread)
  <2>1. EndOf(F!Latest(ps, MaxPostsPerThread), ps, 1..MaxClock, MaxPostsPerThread)
    BY <1>4, ForumLatest
  <2>2. QED
    BY <1>0, <2>1
<1>6. PICK d \in Nat : /\ added \in Seq(1..MaxClock) /\ Len(added) \in 1..MaxPostsPerThread
                       /\ d + Len(added) = Len(ps)
                       /\ \A i \in 1..Len(added) : added[i] = ps[d + i]
  BY <1>5 DEF EndOf
<1>7. PartOf(added, d, u)
  BY <1>2, <1>4, <1>6, LenProperties DEF PartOf
<1>8. Shortened(With(u, added), added, d, u, c + 1, Append(un, t.id))
  BY <1>2, <1>7, PartWritten
<1>9. QED
  BY <1>2, <1>3, <1>6, <1>8 DEF Replaces, Shortened

LEMMA ReplyTakenBack ==
  ASSUME F!ForumAssumption, NEW t, NEW c \in Nat, c + 1 <= MaxClock, NEW un,
         Written(t, c, un), Len(t.posts) <= MaxPostsPerThread,
         NEW added, added = F!Latest(Append(t.posts, c + 1), MaxPostsPerThread),
         NEW front, front = SubSeq(added, 1, Len(added) - 1)
  PROVE  Replaces(With(t, front), t, c, un)
<1> DEFINE ps == Append(t.posts, c + 1)
           m == Len(t.posts)
<1>1. t.posts \in Seq(1..MaxClock) /\ m \in Nat \ {0}
  BY WrittenThread
<1>2. c + 1 \in 1..MaxClock /\ MaxPostsPerThread \in Nat \ {0, 1}
  BY DEF F!ForumAssumption
<1>3. /\ ps \in Seq(1..MaxClock) /\ Len(ps) = m + 1
      /\ \A i \in 1..m + 1 : ps[i] = (IF i <= m THEN t.posts[i] ELSE c + 1)
  BY <1>1, <1>2, AppendIs
<1>4. ps # <<>>
  BY <1>1, <1>3, EmptySeq
<1>0. ps = Append(t.posts, c + 1)
  OBVIOUS
<1> HIDE DEF ps
<1>5. EndOf(added, ps, 1..MaxClock, MaxPostsPerThread)
  <2>1. EndOf(F!Latest(ps, MaxPostsPerThread), ps, 1..MaxClock, MaxPostsPerThread)
    BY <1>2, <1>3, <1>4, ForumLatest
  <2>2. QED
    BY <1>0, <2>1
<1>6. PICK d \in Nat : /\ added \in Seq(1..MaxClock) /\ Len(added) \in 1..MaxPostsPerThread
                       /\ d + Len(added) = Len(ps)
                       /\ \A i \in 1..Len(added) : added[i] = ps[d + i]
                       /\ IF Len(ps) <= MaxPostsPerThread THEN d = 0 ELSE Len(added) = MaxPostsPerThread
  BY <1>5 DEF EndOf
<1>7. /\ front \in Seq(1..MaxClock) /\ Len(front) = Len(added) - 1
      /\ \A i \in 1..Len(added) - 1 : front[i] = added[i]
  <2>1. Len(added) >= 1
    BY <1>2, <1>6
  <2>2. QED
    BY <1>6, <2>1, FrontIs
<1>8. Len(front) \in 1..MaxPostsPerThread /\ d + Len(front) = m
  BY SMTT(40), <1>1, <1>2, <1>3, <1>6, <1>7
<1>9. \A i \in 1..Len(front) : i \in 1..Len(added) /\ d + i \in 1..m /\ d + i \in 1..m + 1
  BY SMTT(40), <1>1, <1>6, <1>7, <1>8
<1>10. \A i \in 1..Len(front) : front[i] = t.posts[d + i]
  BY SMTT(40), <1>3, <1>6, <1>7, <1>9
<1>11. PartOf(front, d, t)
  <2>1. \A k \in 1..MaxPostsPerThread : k # 0
    BY <1>2
  <2>2. d + Len(front) <= Len(t.posts)
    BY ONLY <1>1, <1>8
  <2>3. d \in Nat
    OBVIOUS
  <2>4. QED
    BY ONLY <1>7, <1>8, <1>10, <2>1, <2>2, <2>3 DEF PartOf
<1>12. Shortened(With(t, front), front, d, t, c, un)
  BY <1>11, PartWritten
<1>13. QED
  BY <1>8, <1>12 DEF Replaces, Shortened

LEMMA ThreadAdded ==
  ASSUME NEW q, NEW next, NEW c \in Nat, c + 1 <= MaxClock, MaxClock \in Nat, next \in 1..c + 1,
         NEW un, un \in [1..c -> 0..MaxClock], Loose(q, next, c, un),
         NEW t, t = [id |-> next, posts |-> <<c + 1>>]
  PROVE  Loose(Append(q, t), next + 1, c + 1, Append(un, next))
<1> DEFINE after == Append(un, next)
           r == Append(q, t)
<1>1. next \in 1..MaxClock /\ next \in 0..MaxClock /\ c + 1 \in 1..MaxClock
  OBVIOUS
<1>2. un \in Seq(0..MaxClock) /\ Len(un) = c
  BY FunctionIsSeq
<1>3. after[c + 1] = next
  BY <1>1, <1>2
<1>4. t \in F!Thread /\ t.id = next /\ t.posts = <<c + 1>> /\ t.posts # <<>> /\ Len(t.posts) = 1 /\ t.posts[1] = c + 1
  BY <1>1 DEF F!Thread
<1> HIDE DEF after
<1>5. Written(t, c + 1, after)
  <2>1. \A j \in 1..Len(t.posts) : j = 1
    BY <1>4
  <2>2. QED
    BY <1>3, <1>4, <2>1 DEF Written
<1>6. \A i \in 1..Len(q) : Written(q[i], c + 1, after) /\ q[i].id < next
  BY <1>1, StaysWritten DEF Loose, after
<1>7. /\ r \in Seq(F!Thread) /\ Len(r) = Len(q) + 1 /\ Len(q) \in Nat
      /\ \A i \in 1..Len(q) + 1 : r[i] = (IF i <= Len(q) THEN q[i] ELSE t)
  BY SMTT(40), <1>4, AppendIs, LenProperties DEF Loose
<1> HIDE DEF r
<1>8. \A i \in 1..Len(r) : Written(r[i], c + 1, after) /\ r[i].id < next + 1
  <2>1. ASSUME NEW i \in 1..Len(r) PROVE Written(r[i], c + 1, after) /\ r[i].id < next + 1
    <3>1. CASE i <= Len(q)
      <4>1. i \in 1..Len(q) /\ r[i] = q[i] /\ q[i].id \in 1..MaxClock
        BY <1>6, <1>7, <3>1, WrittenThread
      <4>2. QED
        BY <1>1, <1>6, <4>1
    <3>2. CASE ~ (i <= Len(q))
      BY <1>1, <1>4, <1>5, <1>7, <3>2
    <3>3. QED
      BY <3>1, <3>2
  <2>2. QED
    BY <2>1
<1>9. ASSUME NEW i \in 1..Len(r), NEW j \in 1..Len(r), i # j PROVE r[i].id # r[j].id
  <2>1. \A k \in 1..Len(q) : q[k].id \in 1..MaxClock /\ q[k].id # next
    BY <1>1, <1>6, WrittenThread
  <2>2. \A k \in 1..Len(r) : IF k \in 1..Len(q) THEN r[k] = q[k] ELSE r[k] = t /\ k = Len(q) + 1
    BY <1>7
  <2>3. CASE i \in 1..Len(q) /\ j \in 1..Len(q)
    BY <1>9, <2>2, <2>3 DEF Loose
  <2>4. CASE ~ (i \in 1..Len(q) /\ j \in 1..Len(q))
    BY <1>4, <1>9, <2>1, <2>2, <2>4
  <2>5. QED
    BY <2>3, <2>4
<1>10. QED
  BY <1>7, <1>8, <1>9 DEF Loose, r, after

-----------------------------------------------------------------------------
(* Forum: what its actions preserve *)

ScreensTyped ==
  /\ forumPc \in [Sessions -> F!Steps] /\ listed \in [Sessions -> Seq(1..MaxClock)]
  /\ thread \in [Sessions -> 0..MaxClock] /\ count \in [Sessions -> 0..MaxPostsPerThread]
  /\ page \in [Sessions -> Nat]

(* In memory as in the file the threads are as they were written, and the
   counter is past the number of each: the file may be older, its threads and
   its counter are of the same date. *)
ForumStored ==
  /\ clock \in 0..MaxClock /\ under \in [1..clock -> 0..MaxClock]
  /\ threadID \in 1..clock + 1 /\ forumFile.next \in 0..clock + 1
  /\ Tidy(threads, threadID, clock, under)
  /\ Tidy(forumFile.threads, F!counterOf(forumFile), clock, under)

ForumIInv == ScreensTyped /\ ForumStored

LEMMA ForumInit == ASSUME F!ForumAssumption, F!Init PROVE ForumIInv
<1>1. MaxClock \in Nat /\ MaxThreads \in Nat /\ MaxPostsPerThread \in Nat
  BY DEF F!ForumAssumption
<1>2. /\ threads = <<>> /\ threadID = 1 /\ forumFile.next = 0 /\ forumFile.threads = <<>>
      /\ clock = 0 /\ under = <<>>
  BY DEF F!Init
<1>3. ScreensTyped
  <2>1. <<>> \in Seq(1..MaxClock) /\ "away" \in F!Steps /\ 0 \in 0..MaxClock /\ 0 \in 0..MaxPostsPerThread
    BY <1>1 DEF F!Steps
  <2>2. QED
    BY <2>1 DEF F!Init, F!Away, ScreensTyped
<1>4. \A next, c, un : Tidy(<<>>, next, c, un)
  BY <1>1 DEF Tidy, Loose
<1>5. under \in [1..clock -> 0..MaxClock]
  BY <1>2
<1>6. ForumStored
  BY <1>1, <1>2, <1>4, <1>5 DEF ForumStored
<1>7. QED
  BY <1>3, <1>6 DEF ForumIInv

LEMMA PagesAreNaturals ==
  ASSUME F!ForumAssumption, NEW k \in Nat
  PROVE  /\ F!pageCount(k) \in Nat \ {0}
         /\ \A p \in Nat : F!clampPage(p, F!pageCount(k)) \in Nat
<1>1. F!pageCount(k) \in Nat \ {0}
  <2>1. CASE k = 0
    BY <2>1 DEF F!pageCount
  <2>2. CASE k # 0
    <3>1. PerPage \in Nat \ {0} /\ F!pageCount(k) = (k + PerPage - 1) \div PerPage
      BY <2>2 DEF F!ForumAssumption, F!pageCount
    <3>2. (k + PerPage - 1) \div PerPage \in Nat \ {0}
      BY <2>2, <3>1
    <3>3. QED
      BY <3>1, <3>2
  <2>3. QED
    BY <2>1, <2>2
<1>2. QED
  BY <1>1 DEF F!clampPage

LEMMA ThreadsOfFile ==
  ASSUME F!ForumAssumption, ForumStored
  PROVE  /\ threads \in Seq(F!Thread) /\ Len(threads) \in Nat
         /\ MaxClock \in Nat /\ MaxThreads \in Nat /\ MaxPostsPerThread \in Nat
         /\ \A i \in 1..Len(threads) : /\ Written(threads[i], clock, under)
                                       /\ Len(threads[i].posts) \in 1..MaxPostsPerThread
                                       /\ threads[i].id \in 1..MaxClock
<1>1. threads \in Seq(F!Thread) /\ Len(threads) \in Nat
  BY LenProperties DEF ForumStored, Tidy, Loose
<1>2. \A i \in 1..Len(threads) : Written(threads[i], clock, under) /\ Len(threads[i].posts) <= MaxPostsPerThread
  BY DEF ForumStored, Tidy, Loose
<1>3. MaxClock \in Nat /\ MaxThreads \in Nat /\ MaxPostsPerThread \in Nat
  BY DEF F!ForumAssumption
<1>4. \A i \in 1..Len(threads) : threads[i].id \in 1..MaxClock /\ Len(threads[i].posts) \in Nat \ {0}
  BY <1>2, WrittenThread
<1>5. QED
  BY <1>1, <1>2, <1>3, <1>4

(* What is displayed changes nothing that is stored. *)
LEMMA ForumScreens ==
  ASSUME F!ForumAssumption, ForumIInv, NEW s \in Sessions,
         \/ F!forumList(s) \/ F!Choose(s) \/ F!forumThread(s) \/ F!Turn(s) \/ F!AskReply(s)
         \/ F!AskTitle(s) \/ F!Back(s)
  PROVE  ForumIInv' /\ UNCHANGED threads
<1>1. UNCHANGED <<threads, threadID, forumFile, clock, under>>
  BY DEF F!forumList, F!Choose, F!forumThread, F!Turn, F!AskReply, F!AskTitle, F!Back, F!store
<1>2. ForumStored'
  BY <1>1 DEF ForumIInv, ForumStored, F!counterOf
<1>3. SUFFICES ScreensTyped'
  BY <1>1, <1>2 DEF ForumIInv
<1>4. /\ forumPc \in [Sessions -> F!Steps] /\ listed \in [Sessions -> Seq(1..MaxClock)]
      /\ thread \in [Sessions -> 0..MaxClock] /\ count \in [Sessions -> 0..MaxPostsPerThread]
      /\ page \in [Sessions -> Nat]
  BY DEF ForumIInv, ScreensTyped
<1>5. /\ {"away", "list", "open", "thread", "replying", "writing"} \subseteq F!Steps
      /\ \A step \in F!Steps : F!Goto(s, step) => forumPc' \in [Sessions -> F!Steps]
  BY <1>4 DEF F!Steps, F!Goto
<1>6. CASE F!forumList(s)
  <2> DEFINE numbers == LET q == F!ByActivity(threads) IN [i \in 1..Len(q) |-> q[i].id]
  <2>1. numbers \in Seq(1..MaxClock)
    <3> DEFINE m == Len(threads)
    <3>1. Ordered(threads)
      BY LooseIsOrdered DEF ForumIInv, ForumStored, Tidy
    <3>2. m \in Nat /\ \A i \in 1..m : threads[i].id \in 1..MaxClock
      BY ThreadsOfFile DEF ForumIInv
    <3>3. PICK p \in [1..m -> 1..m] : F!ByActivity(threads) = [k \in 1..m |-> threads[p[k]]]
      BY <3>1, ByActivityIs
    <3> DEFINE b == [k \in 1..m |-> threads[p[k]]]
    <3>4. threads \in Seq(F!Thread)
      BY ThreadsOfFile DEF ForumIInv
    <3>5. \A k \in 1..m : threads[p[k]] \in F!Thread /\ threads[p[k]].id \in 1..MaxClock
      BY <3>2, <3>4, ElementOfSeq
    <3>6. b \in Seq(F!Thread) /\ Len(b) = m
      <4>1. b \in [1..m -> F!Thread]
        BY <3>5
      <4> HIDE DEF b, m
      <4>2. QED
        BY <3>2, <4>1, FunctionIsSeq
    <3>7. \A k \in 1..m : b[k].id \in 1..MaxClock
      BY <3>5
    <3>8. numbers = [i \in 1..Len(b) |-> b[i].id]
      BY <3>3
    <3> HIDE DEF b, m, numbers
    <3>9. numbers \in [1..m -> 1..MaxClock]
      BY <3>6, <3>7, <3>8
    <3>10. QED
      BY <3>2, <3>9, FunctionIsSeq
  <2>2. listed' = [listed EXCEPT ![s] = numbers] /\ UNCHANGED <<thread, count, page>>
    BY <1>6 DEF F!forumList
  <2>3. forumPc' \in [Sessions -> F!Steps]
    BY <1>5, <1>6 DEF F!forumList
  <2> HIDE DEF numbers
  <2>4. QED
    BY <1>4, <2>1, <2>2, <2>3 DEF ScreensTyped
<1>7. CASE F!Choose(s)
  <2>1. PICK i \in 1..Len(listed[s]) : thread' = [thread EXCEPT ![s] = listed[s][i]]
    BY <1>7 DEF F!Choose
  <2>2. listed[s][i] \in 0..MaxClock
    <3>1. listed[s] \in Seq(1..MaxClock)
      BY <1>4
    <3>2. listed[s][i] \in 1..MaxClock
      BY <3>1, ElementOfSeq
    <3>3. QED
      BY <3>2
  <2>3. page' \in [Sessions -> Nat] /\ UNCHANGED <<listed, count>>
    BY <1>4, <1>7 DEF F!Choose
  <2>4. forumPc' \in [Sessions -> F!Steps]
    BY <1>5, <1>7 DEF F!Choose
  <2>5. QED
    BY <1>4, <2>1, <2>2, <2>3, <2>4 DEF ScreensTyped
<1>8. CASE F!forumThread(s)
  <2>1. UNCHANGED <<listed, thread>>
    BY <1>8 DEF F!forumThread
  <2>2. forumPc' \in [Sessions -> F!Steps]
    BY <1>5, <1>8 DEF F!forumThread
  <2>3. count' \in [Sessions -> 0..MaxPostsPerThread] /\ page' \in [Sessions -> Nat]
    <3>1. CASE UNCHANGED <<count, page>>
      BY <1>4, <3>1
    <3>2. CASE /\ \E i \in F!Position(thread[s]) : count' = [count EXCEPT ![s] = Len(threads[i].posts)]
               /\ page' = [page EXCEPT ![s] = F!clampPage(@, F!pageCount(count'[s]))]
      <4>1. PICK i \in F!Position(thread[s]) : count' = [count EXCEPT ![s] = Len(threads[i].posts)]
        BY <3>2
      <4>2. Len(threads[i].posts) \in 0..MaxPostsPerThread
        <5>1. Len(threads[i].posts) \in 1..MaxPostsPerThread
          BY ThreadsOfFile DEF F!Position, ForumIInv
        <5>2. QED
          BY <5>1
      <4>3. count' \in [Sessions -> 0..MaxPostsPerThread]
        BY <1>4, <4>1, <4>2
      <4>4. PICK k : k = count'[s]
        OBVIOUS
      <4>5. k \in Nat
        <5>1. k \in 0..MaxPostsPerThread
          BY <4>3, <4>4
        <5>2. QED
          BY <5>1
      <4>6. \A p \in Nat : F!clampPage(p, F!pageCount(k)) \in Nat
        BY <4>5, PagesAreNaturals
      <4>7. page' = [page EXCEPT ![s] = F!clampPage(page[s], F!pageCount(k))]
        BY <3>2, <4>4
      <4>8. page[s] \in Nat
        BY <1>4
      <4>9. QED
        BY <1>4, <4>3, <4>6, <4>7, <4>8
    <3>3. QED
      BY <1>8, <3>1, <3>2 DEF F!forumThread
  <2>4. QED
    BY <1>4, <2>1, <2>2, <2>3 DEF ScreensTyped
<1>9. CASE F!Turn(s)
  <2>1. UNCHANGED <<listed, thread, count>>
    BY <1>9 DEF F!Turn
  <2>2. forumPc' \in [Sessions -> F!Steps]
    BY <1>5, <1>9 DEF F!Turn
  <2>3. page[s] + 1 \in Nat /\ (page[s] > 0 => page[s] - 1 \in Nat)
    BY <1>4
  <2>4. page' \in [Sessions -> Nat]
    BY <1>4, <1>9, <2>3 DEF F!Turn
  <2>5. QED
    BY <1>4, <2>1, <2>2, <2>4 DEF ScreensTyped
<1>10. CASE F!AskReply(s) \/ F!AskTitle(s)
  <2>1. UNCHANGED <<listed, thread, count, page>>
    BY <1>10 DEF F!AskReply, F!AskTitle, F!view
  <2>2. forumPc' \in [Sessions -> F!Steps]
    BY <1>5, <1>10 DEF F!AskReply, F!AskTitle
  <2>3. QED
    BY <1>4, <2>1, <2>2 DEF ScreensTyped
<1>11. CASE F!Back(s)
  <2>1. UNCHANGED <<listed, thread, count, page>>
    BY <1>11 DEF F!Back, F!view
  <2>2. forumPc' \in [Sessions -> F!Steps]
    BY <1>5, <1>11 DEF F!Back
  <2>3. QED
    BY <1>4, <2>1, <2>2 DEF ScreensTyped
<1>12. QED
  BY <1>6, <1>7, <1>8, <1>9, <1>10, <1>11

(* Unless the server restarts, the numbers that disappear are those of threads
   that were active before all those that stay, when the store is full. *)
EvictedWell ==
  \A i \in 1..Len(threads) : threads[i].id \notin F!IDs(threads') =>
    /\ Len(threads') = MaxThreads
    /\ \A j \in 1..Len(threads') : F!LastActivity(threads'[j]) > F!LastActivity(threads[i])

LEMMA NobodyEvicted ==
  ASSUME F!IDs(threads') = F!IDs(threads)
  PROVE  EvictedWell
<1>1. \A i \in 1..Len(threads) : threads[i].id \in F!IDs(threads)
  BY DEF F!IDs
<1>2. QED
  BY <1>1 DEF EvictedWell

(* A step that leaves the store as it is but dates a post that went nowhere. *)
LEMMA ForumNewThread ==
  ASSUME F!ForumAssumption, ForumIInv, NEW s \in Sessions, F!forumNewThread(s)
  PROVE  ForumIInv' /\ EvictedWell
<1> DEFINE c == clock
           t == [id |-> threadID, posts |-> <<clock + 1>>]
           q == Append(threads, t)
           after == Append(under, threadID)
<1>1. /\ clock < MaxClock /\ clock' = clock + 1 /\ threadID' = threadID + 1
      /\ threads' = F!enforceCaps(q) /\ under' = after
      /\ \/ forumFile' = [next |-> threadID + 1, threads |-> threads']
         \/ forumFile' = forumFile
  BY DEF F!forumNewThread, F!NewThread, F!Date, F!saved
<1>2. /\ clock \in 0..MaxClock /\ under \in [1..clock -> 0..MaxClock]
      /\ threadID \in 1..clock + 1 /\ forumFile.next \in 0..clock + 1
      /\ Tidy(threads, threadID, clock, under)
      /\ Tidy(forumFile.threads, F!counterOf(forumFile), clock, under)
      /\ MaxClock \in Nat
  BY DEF ForumIInv, ForumStored, F!ForumAssumption
<1>3. clock \in Nat /\ clock + 1 <= MaxClock /\ threadID \in 0..MaxClock
  BY <1>1, <1>2
<1>4. Loose(q, threadID + 1, clock + 1, after)
  BY <1>2, <1>3, ThreadAdded DEF Tidy
<1>5. /\ Tidy(F!enforceCaps(q), threadID + 1, clock + 1, after)
      /\ \A i \in 1..Len(q) : q[i].id \notin F!IDs(F!enforceCaps(q)) =>
           /\ Len(F!enforceCaps(q)) = MaxThreads
           /\ \A j \in 1..Len(F!enforceCaps(q)) :
                F!LastActivity(F!enforceCaps(q)[j]) > F!LastActivity(q[i])
  <2> HIDE DEF q, after
  <2>1. QED
    BY <1>4, CapsKeep
<1>6. after \in [1..clock + 1 -> 0..MaxClock]
  <2>1. under \in Seq(0..MaxClock) /\ Len(under) = clock
    BY <1>2, <1>3, FunctionIsSeq
  <2>2. after \in Seq(0..MaxClock) /\ Len(after) = clock + 1
    BY <1>3, <2>1
  <2> HIDE DEF after
  <2>3. QED
    BY <2>2, LenProperties
<1>7. Tidy(forumFile.threads, F!counterOf(forumFile), clock + 1, after)
  BY <1>2, <1>3, TidyStays
<1>8. EvictedWell
  <2>1. \A i \in 1..Len(threads) : i \in 1..Len(q) /\ q[i] = threads[i]
    <3>1. threads \in Seq(F!Thread) /\ t \in F!Thread
      <4>1. threadID \in 1..MaxClock /\ <<clock + 1>> \in Seq(1..MaxClock)
        BY <1>2, <1>3
      <4>2. QED
        BY <1>2, <4>1 DEF Tidy, Loose, F!Thread
    <3> HIDE DEF t
    <3>2. /\ Len(q) = Len(threads) + 1 /\ Len(threads) \in Nat
          /\ \A i \in 1..Len(threads) + 1 : q[i] = (IF i <= Len(threads) THEN threads[i] ELSE t)
      BY <3>1, AppendIs, LenProperties
    <3> HIDE DEF q
    <3>3. QED
      BY <3>2
  <2> HIDE DEF q
  <2>2. QED
    BY <1>1, <1>5, <2>1 DEF EvictedWell
<1> HIDE DEF q, after
<1>9. Tidy(threads', threadID', clock', under')
  BY <1>1, <1>5
<1>10. forumFile'.next \in 0..clock' + 1 /\ Tidy(forumFile'.threads, F!counterOf(forumFile'), clock', under')
  <2>1. CASE forumFile' = forumFile
    BY <1>1, <1>2, <1>3, <1>7, <2>1
  <2>2. CASE forumFile' = [next |-> threadID + 1, threads |-> threads']
    <3>1. F!counterOf(forumFile') = threadID' /\ forumFile'.threads = threads' /\ forumFile'.next = threadID + 1
      BY <1>1, <1>2, <2>2 DEF F!counterOf
    <3>2. threadID + 1 \in 0..clock' + 1
      BY <1>1, <1>2, <1>3
    <3>3. QED
      BY <1>9, <3>1, <3>2
  <2>3. QED
    BY <1>1, <2>1, <2>2
<1>11. clock' \in 0..MaxClock /\ threadID' \in 1..clock' + 1 /\ under' \in [1..clock' -> 0..MaxClock]
  BY <1>1, <1>2, <1>3, <1>6
<1>12. ForumStored'
  BY <1>9, <1>10, <1>11 DEF ForumStored, F!counterOf
<1>13. ScreensTyped'
  BY DEF ForumIInv, ScreensTyped, F!Steps, F!forumNewThread, F!Goto, F!view
<1>14. QED
  BY <1>8, <1>12, <1>13 DEF ForumIInv

(* A reply is added to the thread that has the number, or nowhere. *)
LEMMA ForumReply ==
  ASSUME F!ForumAssumption, ForumIInv, NEW s \in Sessions, F!SendReply(s)
  PROVE  ForumIInv' /\ EvictedWell
<1> DEFINE id == thread[s]
<1>1. clock < MaxClock /\ clock' = clock + 1 /\ threadID' = threadID /\ F!Reply(s, id)
  BY DEF F!SendReply, F!Reply, F!Date
<1>2. /\ clock \in 0..MaxClock /\ under \in [1..clock -> 0..MaxClock]
      /\ threadID \in 1..clock + 1 /\ forumFile.next \in 0..clock + 1
      /\ Tidy(threads, threadID, clock, under)
      /\ Tidy(forumFile.threads, F!counterOf(forumFile), clock, under)
      /\ MaxClock \in Nat /\ id \in 0..MaxClock
  BY DEF ForumIInv, ForumStored, ScreensTyped, F!ForumAssumption
<1>3. clock \in Nat /\ clock + 1 <= MaxClock /\ 0 \in 0..MaxClock
  BY <1>1, <1>2
<1>4. clock' \in 0..MaxClock /\ threadID' \in 1..clock' + 1
  BY <1>1, <1>2, <1>3
<1>5. ASSUME NEW x \in 0..MaxClock
      PROVE  /\ Append(under, x) \in [1..clock + 1 -> 0..MaxClock]
             /\ Tidy(threads, threadID, clock + 1, Append(under, x))
             /\ Tidy(forumFile.threads, F!counterOf(forumFile), clock + 1, Append(under, x))
  <2>1. under \in Seq(0..MaxClock) /\ Len(under) = clock
    BY <1>2, <1>3, FunctionIsSeq
  <2>2. Append(under, x) \in Seq(0..MaxClock) /\ Len(Append(under, x)) = clock + 1
    BY <1>3, <2>1
  <2>3. Append(under, x) \in [1..clock + 1 -> 0..MaxClock]
    BY <2>2, LenProperties
  <2>4. Tidy(threads, threadID, clock + 1, Append(under, x))
    BY <1>2, <1>3, TidyStays
  <2>5. Tidy(forumFile.threads, F!counterOf(forumFile), clock + 1, Append(under, x))
    BY <1>2, <1>3, TidyStays
  <2>6. QED
    BY <2>3, <2>4, <2>5
<1>6. page' \in [Sessions -> Nat] => ScreensTyped'
  BY DEF ForumIInv, ScreensTyped, F!Steps, F!SendReply, F!Goto
<1>7. page \in [Sessions -> Nat] /\ count \in [Sessions -> 0..MaxPostsPerThread]
  BY DEF ForumIInv, ScreensTyped
<1>8. CASE F!Position(id) = {} /\ under' = Append(under, 0) /\ UNCHANGED <<threads, forumFile, page>>
  <2> DEFINE after == Append(under, 0)
  <2>0. /\ after \in [1..clock + 1 -> 0..MaxClock]
        /\ Tidy(threads, threadID, clock + 1, after)
        /\ Tidy(forumFile.threads, F!counterOf(forumFile), clock + 1, after)
    BY <1>3, <1>5
  <2>4. under' = after /\ forumFile.next \in 0..clock' + 1
    BY <1>1, <1>2, <1>3, <1>8
  <2> HIDE DEF after
  <2>1. ForumStored'
    BY <1>1, <1>4, <1>8, <2>0, <2>4 DEF ForumStored, F!counterOf
  <2>2. F!IDs(threads') = F!IDs(threads)
    BY <1>8
  <2>3. QED
    BY <1>6, <1>7, <1>8, <2>1, <2>2, NobodyEvicted DEF ForumIInv
<1>9. ASSUME NEW i \in F!Position(id),
             NEW added, added = F!Latest(Append(threads[i].posts, clock + 1), MaxPostsPerThread),
             \/ /\ threads' = [threads EXCEPT ![i].posts = added]
                /\ forumFile' = [next |-> threadID', threads |-> threads']
                /\ under' = Append(under, id)
                /\ page' = [page EXCEPT ![s] = F!pageCount(count[s] + 1) - 1]
             \/ /\ threads' = [threads EXCEPT ![i].posts = SubSeq(added, 1, Len(added) - 1)]
                /\ under' = Append(under, 0)
                /\ UNCHANGED <<forumFile, page>>
      PROVE  ForumIInv' /\ EvictedWell
  <2> DEFINE t == threads[i]
             front == SubSeq(added, 1, Len(added) - 1)
  <2>1. i \in 1..Len(threads) /\ t.id = id /\ Written(t, clock, under) /\ Len(t.posts) <= MaxPostsPerThread
    BY <1>2 DEF F!Position, Tidy, Loose
  <2>2. CASE /\ threads' = [threads EXCEPT ![i].posts = added]
             /\ forumFile' = [next |-> threadID', threads |-> threads']
             /\ under' = Append(under, id)
             /\ page' = [page EXCEPT ![s] = F!pageCount(count[s] + 1) - 1]
    <3> DEFINE u == With(t, added)
               after == Append(under, id)
    <3>1. Replaces(u, t, clock + 1, after)
      <4>1. Replaces(With(t, added), t, clock + 1, Append(under, t.id))
        BY <1>2, <1>3, <1>9, <2>1, ReplyKeeps
      <4>2. QED
        BY <2>1, <4>1
    <3>2. threads' = [threads EXCEPT ![i] = u]
      BY <2>2 DEF With
    <3> HIDE DEF u
    <3>3. /\ after \in [1..clock + 1 -> 0..MaxClock]
          /\ Tidy(threads, threadID, clock + 1, after)
      BY <1>2, <1>5
    <3> HIDE DEF after
    <3>4. Tidy(threads', threadID, clock + 1, after) /\ F!IDs(threads') = F!IDs(threads)
      <4>1. Replaces(u, threads[i], clock + 1, after)
        BY <3>1
      <4>2. /\ Tidy([threads EXCEPT ![i] = u], threadID, clock + 1, after)
            /\ F!IDs([threads EXCEPT ![i] = u]) = F!IDs(threads)
        BY <2>1, <3>3, <4>1, OneReplaced
      <4>3. QED
        BY <3>2, <4>2
    <3>5. under' = after
      BY <2>2 DEF after
    <3>6. F!counterOf(forumFile') = threadID /\ forumFile'.threads = threads' /\ forumFile'.next = threadID
      BY <1>1, <1>2, <2>2 DEF F!counterOf
    <3>7. threadID \in 0..clock' + 1
      BY <1>1, <1>2, <1>3
    <3>8. ForumStored'
      BY <1>1, <1>4, <3>3, <3>4, <3>5, <3>6, <3>7 DEF ForumStored, F!counterOf
    <3>9. page' \in [Sessions -> Nat]
      <4>1. count[s] \in 0..MaxPostsPerThread /\ MaxPostsPerThread \in Nat
        BY <1>7 DEF F!ForumAssumption
      <4>2. count[s] + 1 \in Nat
        BY <4>1
      <4>3. F!pageCount(count[s] + 1) \in Nat \ {0}
        BY <4>2, PagesAreNaturals
      <4>4. F!pageCount(count[s] + 1) - 1 \in Nat
        BY <4>3
      <4>5. QED
        BY <1>7, <2>2, <4>4
    <3>10. QED
      BY <1>6, <3>4, <3>8, <3>9, NobodyEvicted DEF ForumIInv
  <2>3. CASE /\ threads' = [threads EXCEPT ![i].posts = front]
             /\ under' = Append(under, 0)
             /\ UNCHANGED <<forumFile, page>>
    <3> DEFINE u == With(t, front)
               after == Append(under, 0)
    <3>1. Replaces(u, t, clock, under)
      BY <1>2, <1>3, <1>9, <2>1, ReplyTakenBack
    <3>2. threads' = [threads EXCEPT ![i] = u]
      BY <2>3 DEF With
    <3> HIDE DEF u
    <3>3. /\ after \in [1..clock + 1 -> 0..MaxClock]
          /\ Tidy(threads, threadID, clock + 1, after)
          /\ Tidy(forumFile.threads, F!counterOf(forumFile), clock + 1, after)
      BY <1>3, <1>5
    <3>4. Written(u, clock + 1, after)
      BY <1>2, <1>3, <3>1, StaysWritten DEF Replaces
    <3> HIDE DEF after
    <3>5. Tidy(threads', threadID, clock + 1, after) /\ F!IDs(threads') = F!IDs(threads)
      <4>1. Replaces(u, threads[i], clock + 1, after)
        BY <3>1, <3>4 DEF Replaces
      <4>2. /\ Tidy([threads EXCEPT ![i] = u], threadID, clock + 1, after)
            /\ F!IDs([threads EXCEPT ![i] = u]) = F!IDs(threads)
        BY <2>1, <3>3, <4>1, OneReplaced
      <4>3. QED
        BY <3>2, <4>2
    <3>6. under' = after /\ forumFile' = forumFile
      BY <2>3 DEF after
    <3>7. forumFile.next \in 0..clock' + 1
      BY <1>1, <1>2, <1>3
    <3>8. ForumStored'
      BY <1>1, <1>4, <3>3, <3>5, <3>6, <3>7 DEF ForumStored, F!counterOf
    <3>9. QED
      BY <1>6, <1>7, <2>3, <3>5, <3>8, NobodyEvicted DEF ForumIInv
  <2>4. QED
    BY <1>9, <2>2, <2>3
<1>10. QED
  BY <1>1, <1>8, <1>9 DEF F!Reply, F!saved

(* The file is read back, within bounds that may have changed: whatever was
   not saved is forgotten, and its numbers are given again. *)
LEMMA ForumRestart == ASSUME F!ForumAssumption, ForumIInv, F!Restart PROVE ForumIInv'
<1>1. /\ threads' = F!enforceCaps(forumFile.threads) /\ threadID' = F!counterOf(forumFile)
      /\ UNCHANGED <<forumFile, clock, under>>
  BY DEF F!Restart
<1>2. Tidy(threads', threadID', clock, under)
  <2> DEFINE q == forumFile.threads
             next == F!counterOf(forumFile)
  <2>1. Loose(q, next, clock, under)
    BY DEF ForumIInv, ForumStored, Tidy
  <2> HIDE DEF q, next
  <2>2. Tidy(F!enforceCaps(q), next, clock, under)
    BY <2>1, CapsKeep
  <2>3. QED
    BY <1>1, <2>2 DEF q, next
<1>3. threadID' \in 1..clock + 1
  BY <1>1 DEF F!counterOf, ForumIInv, ForumStored
<1>4. ForumStored'
  BY <1>1, <1>2, <1>3 DEF ForumIInv, ForumStored, F!counterOf
<1>5. ScreensTyped'
  <2>1. <<>> \in Seq(1..MaxClock) /\ "away" \in F!Steps /\ 0 \in 0..MaxClock /\ 0 \in 0..MaxPostsPerThread
    BY DEF F!Steps, F!ForumAssumption
  <2>2. QED
    BY <2>1 DEF F!Restart, ScreensTyped
<1>6. QED
  BY <1>4, <1>5 DEF ForumIInv

LEMMA ForumStep ==
  ASSUME F!ForumAssumption, ForumIInv, F!Next \/ UNCHANGED forumVars
  PROVE  ForumIInv' /\ (F!Restart \/ EvictedWell)
<1>1. CASE UNCHANGED forumVars
  <2>1. ForumIInv'
    BY <1>1 DEF forumVars, ForumIInv, ForumStored, ScreensTyped, F!counterOf
  <2>2. F!IDs(threads') = F!IDs(threads)
    BY <1>1 DEF forumVars
  <2>3. QED
    BY <2>1, <2>2, NobodyEvicted
<1>2. CASE F!Restart
  BY <1>2, ForumRestart
<1>3. ASSUME NEW s \in Sessions,
             \/ F!forumList(s) \/ F!Choose(s) \/ F!forumThread(s) \/ F!Turn(s) \/ F!AskReply(s)
             \/ F!AskTitle(s) \/ F!Back(s)
      PROVE  ForumIInv' /\ EvictedWell
  <2>1. ForumIInv' /\ threads' = threads
    BY <1>3, ForumScreens
  <2>2. F!IDs(threads') = F!IDs(threads)
    BY <2>1
  <2>3. QED
    BY <2>1, <2>2, NobodyEvicted
<1>4. ASSUME NEW s \in Sessions, F!SendReply(s) \/ F!forumNewThread(s)
      PROVE  ForumIInv' /\ EvictedWell
  BY <1>4, ForumReply, ForumNewThread
<1>5. QED
  BY <1>1, <1>2, <1>3, <1>4 DEF F!Next

LEMMA ForumInvariant == StoresSpec => [](explored = "forum" => ForumIInv)
<1>1. StoresInit => (explored = "forum" => ForumIInv)
  BY StoresAssumption, ForumInit DEF StoresInit
<1>2. (explored = "forum" => ForumIInv) /\ [StoresNext]_all => (explored = "forum" => ForumIInv)'
  <2> SUFFICES ASSUME explored = "forum" => ForumIInv, [StoresNext]_all, explored' = "forum"
               PROVE  ForumIInv'
    OBVIOUS
  <2>1. explored = "forum" /\ (F!Next \/ UNCHANGED forumVars)
    BY DEF StoresNext, OthersStay, In, all
  <2>2. QED
    BY <2>1, StoresAssumption, ForumStep
<1>3. QED
  BY <1>1, <1>2, PTL DEF StoresSpec

(* For any bounds and any number of sessions: whatever the threads that move,
   are evicted or are forgotten by a restart while a session reads one of them
   and writes, a post is in the thread its author had on the screen or in
   none, the posts of a thread are in order of date and no number names two
   threads. *)
THEOREM PostsStayInTheirThread == StoresSpec => []PostsWhereWritten
<1>1. (explored = "forum" => ForumIInv) => PostsWhereWritten
  <2> SUFFICES ASSUME ForumIInv PROVE F!TypeOK /\ F!PostsWhereWritten
    BY DEF PostsWhereWritten
  <2>1. F!ForumAssumption
    BY StoresAssumption DEF StoresAssumption
  <2>2. ForumStored /\ ScreensTyped /\ MaxClock \in Nat
    BY <2>1 DEF ForumIInv, F!ForumAssumption
  <2>3. ASSUME NEW q \in {threads, forumFile.threads}
        PROVE  /\ \A i, j \in 1..Len(q) : i # j => q[i].id # q[j].id
               /\ \A i \in 1..Len(q) :
                    /\ \A p \in F!PostsOf(q[i]) : under[p] = q[i].id
                    /\ \A j, k \in 1..Len(q[i].posts) : j < k => q[i].posts[j] < q[i].posts[k]
    <3>1. PICK next : Tidy(q, next, clock, under)
      BY <2>2 DEF ForumStored
    <3>2. \A i \in 1..Len(q) : Written(q[i], clock, under)
      BY <3>1 DEF Tidy, Loose
    <3>3. \A i, j \in 1..Len(q) : i # j => q[i].id # q[j].id
      BY <3>1 DEF Tidy, Loose
    <3>4. QED
      BY <3>2, <3>3 DEF Written, F!PostsOf
  <2>4. F!TypeOK
    <3>1. /\ threads \in Seq(F!Thread) /\ Len(threads) <= MaxThreads
          /\ \A i \in 1..Len(threads) : Len(threads[i].posts) \in 1..MaxPostsPerThread
          /\ forumFile.threads \in Seq(F!Thread)
      BY <2>1, <2>2, ThreadsOfFile DEF ForumStored, Tidy, Loose
    <3>2. /\ threadID \in 1..MaxClock + 1 /\ forumFile.next \in 0..MaxClock + 1
          /\ clock \in 0..MaxClock /\ under \in [1..clock -> 0..MaxClock]
      BY <2>2 DEF ForumStored
    <3>3. QED
      BY <2>2, <3>1, <3>2 DEF F!TypeOK, ScreensTyped
  <2>5. QED
    BY <2>3, <2>4 DEF F!PostsWhereWritten
<1>2. QED
  BY <1>1, ForumInvariant, PTL

(* For any bounds: a thread leaves the store only to make room for a new one,
   and every thread that stays was active after it, whatever order they have
   in the store. *)
THEOREM IdleThreadsGoFirst == StoresSpec => LeastActiveEvicted
<1> DEFINE Goes == \A i \in 1..Len(threads) :
                     threads[i].id \notin F!IDs(threads') =>
                       \/ F!Restart
                       \/ /\ Len(threads') = MaxThreads
                          /\ \A j \in 1..Len(threads') : F!LastActivity(threads'[j]) > F!LastActivity(threads[i])
<1>1. (explored = "forum" => ForumIInv) /\ [StoresNext]_all => [Goes]_(F!vars)
  <2> SUFFICES ASSUME explored = "forum" => ForumIInv, [StoresNext]_all
               PROVE  Goes \/ UNCHANGED F!vars
    OBVIOUS
  <2>1. UNCHANGED forumVars => UNCHANGED F!vars
    BY DEF forumVars, F!vars, F!store, F!view
  <2>2. CASE explored = "forum"
    <3>1. ForumIInv /\ (F!Next \/ UNCHANGED forumVars)
      BY <2>2 DEF StoresNext, OthersStay, In, all
    <3>2. F!Restart \/ EvictedWell
      BY <3>1, StoresAssumption, ForumStep
    <3>3. QED
      BY <3>2 DEF EvictedWell
  <2>3. CASE explored # "forum"
    <3>1. UNCHANGED forumVars
      BY <2>3 DEF StoresNext, OthersStay, In, all
    <3>2. QED
      BY <2>1, <3>1
  <2>4. QED
    BY <2>2, <2>3
<1>2. QED
  BY <1>1, ForumInvariant, PTL DEF StoresSpec, LeastActiveEvicted, F!LeastActiveEvicted

-----------------------------------------------------------------------------
(* Personal files: the bytes of a directory *)

LEMMA UserSets == \A S : U!Cardinality(S) = Cardinality(S) /\ (U!IsFiniteSet(S) <=> IsFiniteSet(S))
BY DEF U!Cardinality, Cardinality, U!IsFiniteSet, IsFiniteSet

(* Finitely many entries, each with a size: a directory, or what sessions have
   still to write. *)
Sized(d) == IsFiniteSet(DOMAIN d) /\ \A e \in DOMAIN d : d[e].size \in Nat

Weight(d) == Cardinality(U!Bytes(d))

LEMMA BytesOfOne ==
  ASSUME NEW e, NEW z \in Nat
  PROVE  IsFiniteSet({e} \X (1..z)) /\ Cardinality({e} \X (1..z)) = z
<1>1. IsFiniteSet({e}) /\ Cardinality({e}) = 1
  BY FS_Singleton
<1>2. IsFiniteSet(1..z) /\ Cardinality(1..z) = z
  BY FS_Interval
<1>3. /\ IsFiniteSet({e} \X (1..z))
      /\ Cardinality({e} \X (1..z)) = Cardinality({e}) * Cardinality(1..z)
  BY <1>1, <1>2, FS_Product
<1>4. QED
  BY <1>1, <1>2, <1>3

LEMMA BytesAre ==
  ASSUME NEW d
  PROVE  \A p : p \in U!Bytes(d) <=> \E e \in DOMAIN d : p \in {e} \X (1..d[e].size)
BY DEF U!Bytes

LEMMA WeightIsNatural ==
  ASSUME NEW d, Sized(d)
  PROVE  IsFiniteSet(U!Bytes(d)) /\ Weight(d) \in Nat
<1> DEFINE f == [e \in DOMAIN d |-> {e} \X (1..d[e].size)]
           parts == {{e} \X (1..d[e].size) : e \in DOMAIN d}
<1>1. IsFiniteSet(DOMAIN d) /\ \A e \in DOMAIN d : d[e].size \in Nat
  BY DEF Sized
<1>2. f \in [DOMAIN d -> parts] /\ \A x \in parts : \E e \in DOMAIN d : f[e] = x
  OBVIOUS
<1>3. f \in Surjection(DOMAIN d, parts)
  <2> HIDE DEF f, parts
  <2>1. \A S, T : \A g \in [S -> T] : (\A x \in T : \E e \in S : g[e] = x) => g \in Surjection(S, T)
    BY DEF Surjection
  <2>2. QED
    BY <1>2, <2>1
<1>4. IsFiniteSet(parts)
  <2> HIDE DEF f, parts
  <2>1. QED
    BY <1>1, <1>3, FS_Surjection
<1>5. \A x \in parts : IsFiniteSet(x)
  BY ZenonT(40), <1>1, BytesOfOne
<1>6. U!Bytes(d) = UNION parts
  BY DEF U!Bytes
<1> HIDE DEF parts
<1>7. IsFiniteSet(U!Bytes(d))
  BY <1>4, <1>5, <1>6, FS_UNION
<1>8. QED
  BY <1>7, FS_CardinalityType DEF Weight

LEMMA WeightSame ==
  ASSUME NEW d, NEW f, DOMAIN f = DOMAIN d, \A e \in DOMAIN d : f[e].size = d[e].size
  PROVE  Weight(f) = Weight(d) /\ (Sized(d) => Sized(f))
<1>1. \A p : p \in U!Bytes(f) <=> p \in U!Bytes(d)
  <2>1. \A p : (\E e \in DOMAIN f : p \in {e} \X (1..f[e].size)) <=> (\E e \in DOMAIN d : p \in {e} \X (1..d[e].size))
    OBVIOUS
  <2>2. QED
    BY ONLY <2>1, BytesAre, Zenon
<1>3. U!Bytes(f) = U!Bytes(d)
  BY <1>1
<1>2. QED
  BY <1>3 DEF Weight, Sized

LEMMA WeightWithout ==
  ASSUME NEW d, Sized(d), NEW e
  PROVE  /\ Sized(U!Without(d, e))
         /\ Weight(U!Without(d, e)) = Weight(d) - (IF e \in DOMAIN d THEN d[e].size ELSE 0)
<1> DEFINE w == U!Without(d, e)
           own == {e} \X (1..d[e].size)
<1>1. DOMAIN w = DOMAIN d \ {e} /\ \A x \in DOMAIN d \ {e} : w[x] = d[x]
  BY DEF U!Without
<1>2. IsFiniteSet(DOMAIN d) /\ \A x \in DOMAIN d : d[x].size \in Nat
  BY DEF Sized
<1> HIDE DEF w
<1>3. Sized(w)
  <2>1. IsFiniteSet(DOMAIN d \ {e})
    BY <1>2, FS_RemoveElement
  <2>2. QED
    BY <1>1, <1>2, <2>1 DEF Sized
<1>4. Weight(w) \in Nat /\ IsFiniteSet(U!Bytes(w)) /\ Weight(d) \in Nat
  BY <1>3, WeightIsNatural
<1>5. CASE e \notin DOMAIN d
  <2>1. Weight(w) = Weight(d)
    <3>1. DOMAIN w = DOMAIN d /\ \A x \in DOMAIN d : w[x].size = d[x].size
      BY <1>1, <1>5
    <3>2. QED
      BY <3>1, WeightSame
  <2>2. QED
    BY <1>3, <1>4, <1>5, <2>1 DEF w, Weight
<1>6. CASE e \in DOMAIN d
  <2>1. U!Bytes(d) = U!Bytes(w) \cup own
    <3>1. ASSUME NEW p \in U!Bytes(d) PROVE p \in U!Bytes(w) \cup own
      <4>1. PICK x \in DOMAIN d : p \in {x} \X (1..d[x].size)
        BY BytesAre
      <4>2. CASE x = e
        BY <4>1, <4>2
      <4>3. CASE x # e
        <5>1. x \in DOMAIN w /\ w[x].size = d[x].size
          BY <1>1, <4>3
        <5>2. p \in {x} \X (1..w[x].size)
          BY <4>1, <5>1
        <5>3. QED
          BY <5>1, <5>2, BytesAre
      <4>4. QED
        BY <4>2, <4>3
    <3>2. own \subseteq U!Bytes(d)
      BY <1>6, BytesAre
    <3>3. ASSUME NEW p \in U!Bytes(w) PROVE p \in U!Bytes(d)
      <4>1. PICK x \in DOMAIN w : p \in {x} \X (1..w[x].size)
        BY BytesAre
      <4>2. x \in DOMAIN d /\ p \in {x} \X (1..d[x].size)
        BY <1>1, <4>1
      <4>3. QED
        BY <4>2, BytesAre
    <3> HIDE DEF own
    <3>4. QED
      BY <3>1, <3>2, <3>3
  <2>2. U!Bytes(w) \cap own = {}
    <3>1. ASSUME NEW p \in U!Bytes(w), p \in own PROVE FALSE
      <4>1. PICK x \in DOMAIN w : p \in {x} \X (1..w[x].size)
        BY <3>1, BytesAre
      <4>2. p[1] = x /\ p[1] = e /\ x # e
        BY <1>1, <3>1, <4>1
      <4>3. QED
        BY <4>2
    <3> HIDE DEF own
    <3>2. QED
      BY <3>1
  <2>3. IsFiniteSet(own) /\ Cardinality(own) = d[e].size /\ d[e].size \in Nat
    BY <1>2, <1>6, BytesOfOne
  <2> HIDE DEF own
  <2>4. Cardinality(U!Bytes(d)) = Cardinality(U!Bytes(w)) + Cardinality(own) - Cardinality(U!Bytes(w) \cap own)
    BY <1>4, <2>1, <2>3, FS_Union
  <2>5. Cardinality(U!Bytes(w) \cap own) = 0
    BY <2>2, FS_EmptySet
  <2>6. Weight(d) = Weight(w) + d[e].size
    BY <1>4, <2>3, <2>4, <2>5 DEF Weight
  <2>7. Weight(w) = Weight(d) - (IF e \in DOMAIN d THEN d[e].size ELSE 0)
    BY <1>4, <1>6, <2>3, <2>6
  <2>8. QED
    BY <1>3, <2>7 DEF w
<1>7. QED
  BY <1>5, <1>6

LEMMA WeightWith ==
  ASSUME NEW d, Sized(d), NEW e, NEW x, x.size \in Nat
  PROVE  /\ Sized(U!With(d, e, x))
         /\ Weight(U!With(d, e, x)) = Weight(U!Without(d, e)) + x.size
<1> DEFINE w == U!With(d, e, x)
           v == U!Without(d, e)
<1>1. /\ DOMAIN w = DOMAIN d \cup {e} /\ w[e] = x
      /\ \A y \in DOMAIN d \ {e} : w[y] = d[y]
  BY DEF U!With
<1>2. IsFiniteSet(DOMAIN d) /\ \A y \in DOMAIN d : d[y].size \in Nat
  BY DEF Sized
<1> HIDE DEF w
<1>3. Sized(w)
  <2>1. IsFiniteSet(DOMAIN d \cup {e})
    BY <1>2, FS_AddElement
  <2>2. QED
    BY <1>1, <1>2, <2>1 DEF Sized
<1>4. /\ Weight(U!Without(w, e)) = Weight(w) - (IF e \in DOMAIN w THEN w[e].size ELSE 0)
      /\ Sized(U!Without(w, e))
  BY <1>3, WeightWithout
<1>5. Weight(w) \in Nat
  BY <1>3, WeightIsNatural
<1>6. Weight(U!Without(w, e)) = Weight(v)
  <2>1. DOMAIN U!Without(w, e) = DOMAIN v /\ \A y \in DOMAIN v : U!Without(w, e)[y].size = v[y].size
    BY <1>1 DEF U!Without
  <2> HIDE DEF v
  <2>2. QED
    BY <2>1, WeightSame
<1>7. Weight(w) = Weight(v) + x.size
  BY <1>1, <1>4, <1>5, <1>6
<1>8. QED
  BY <1>3, <1>7 DEF w

(* A renaming adds nothing: the target goes, the file stays. *)
LEMMA WeightRenamed ==
  ASSUME NEW d, Sized(d), NEW old \in DOMAIN d, NEW new
  PROVE  /\ Sized(U!Renamed(d, old, new)) /\ Weight(U!Renamed(d, old, new)) <= Weight(d)
         /\ DOMAIN U!Renamed(d, old, new) = (DOMAIN d \ {old}) \cup {new}
<1> DEFINE v == U!Without(d, old)
           w == U!Without(v, new)
<1>1. d[old].size \in Nat /\ Weight(d) \in Nat
  BY WeightIsNatural DEF Sized
<1>2. Sized(v) /\ Weight(v) = Weight(d) - d[old].size
  BY WeightWithout
<1> HIDE DEF v
<1>3. Sized(w) /\ Weight(w) = Weight(v) - (IF new \in DOMAIN v THEN v[new].size ELSE 0)
  BY <1>2, WeightWithout
<1>4. Weight(w) <= Weight(v) /\ Weight(w) \in Nat /\ Weight(v) \in Nat
  BY <1>2, <1>3, WeightIsNatural DEF Sized
<1>5. /\ Sized(U!With(v, new, d[old]))
      /\ Weight(U!With(v, new, d[old])) = Weight(w) + d[old].size
  BY <1>1, <1>2, WeightWith
<1>6. U!Renamed(d, old, new) = U!With(v, new, d[old])
  BY DEF U!Renamed, v
<1>7. DOMAIN U!With(v, new, d[old]) = (DOMAIN d \ {old}) \cup {new}
  BY DEF U!With, U!Without, v
<1>8. QED
  BY <1>1, <1>2, <1>4, <1>5, <1>6, <1>7

(* Entries of a set, each of k at most. *)
LEMMA WeightBound ==
  ASSUME NEW d, Sized(d), NEW S, IsFiniteSet(S), DOMAIN d \subseteq S,
         NEW k \in Nat, \A e \in DOMAIN d : d[e].size <= k
  PROVE  Weight(d) <= Cardinality(S) * k
<1>1. U!Bytes(d) \subseteq S \X (1..k)
  <2>1. ASSUME NEW p \in U!Bytes(d) PROVE p \in S \X (1..k)
    <3>1. PICK e \in DOMAIN d : p \in {e} \X (1..d[e].size)
      BY BytesAre
    <3>2. e \in S /\ d[e].size \in Nat /\ d[e].size <= k
      BY DEF Sized
    <3>3. 1..d[e].size \subseteq 1..k
      BY <3>2
    <3>4. QED
      BY <3>1, <3>2, <3>3
  <2>2. QED
    BY <2>1
<1>2. IsFiniteSet(1..k) /\ Cardinality(1..k) = k
  BY FS_Interval
<1>3. IsFiniteSet(S \X (1..k)) /\ Cardinality(S \X (1..k)) = Cardinality(S) * k
  BY <1>2, FS_Product
<1>4. QED
  BY <1>1, <1>3, FS_Subset DEF Weight

-----------------------------------------------------------------------------
(* Personal files: what every step preserves *)

(* A directory of the member: each session writes one file of it at most. *)
Directory(d) ==
  /\ Sized(d) /\ DOMAIN d \subseteq U!Entries
  /\ \A e \in DOMAIN d : d[e] \in U!Entry
  /\ \A e, f \in DOMAIN d : d[e].by = d[f].by /\ d[e].by # NoOne => e = f
  /\ MaxUpload > 0 => \A e \in DOMAIN d : d[e].size <= MaxUpload

(* What a session at each step knows: the name and the size of what it has to
   write passed the check, and what it renames has a name to come to. *)
JobFits(j) ==
  /\ j \in U!Jobs
  /\ j.step \in {"check", "create", "write", "rename"} => j.name \in Names /\ j.size \in Sizes
  /\ j.step \in {"create", "write"} /\ MaxUpload > 0 => j.size <= MaxUpload
  /\ j.step \in {"stat", "move"} => j.name \in U!Entries /\ j.to \in Names

(* The sessions that have passed the check and not yet created their file; what
   they and those that write have still to write. *)
Creating(jobs) == {s \in Sessions : jobs[s].step = "create"}
Passed(jobs) == {s \in Sessions : jobs[s].step \in {"create", "write"}}
Owed(jobs) == [s \in Passed(jobs) |-> jobs[s]]

(* With what sessions owe, the quota is exceeded by their number at most: a
   check passes only when nothing of it is. *)
Within(d, jobs) ==
  /\ MaxFiles > 0 =>
       Cardinality(DOMAIN d) + Cardinality(Creating(jobs)) <= MaxFiles + Cardinality(Sessions)
  /\ MaxBytes > 0 /\ MaxUpload > 0 =>
       Weight(d) + Weight(Owed(jobs)) <= MaxBytes + Cardinality(Sessions) * MaxUpload

FilesIInv ==
  /\ Directory(dir)
  /\ job \in [Sessions -> U!Jobs] /\ \A s \in Sessions : JobFits(job[s])
  /\ \A e \in DOMAIN dir : dir[e].by # NoOne => job[dir[e].by].step = "write"
  /\ Within(dir, job)

LEMMA FilesConstants ==
  ASSUME U!UserFilesAssumption
  PROVE  /\ IsFiniteSet(Sessions) /\ Cardinality(Sessions) \in Nat /\ NoOne \notin Sessions
         /\ MaxFiles \in Nat /\ MaxBytes \in Nat /\ MaxUpload \in Nat
         /\ Sizes \subseteq Nat \ {0} /\ \A z \in Sizes \cup {0} : z \in Nat
BY UserSets, FS_CardinalityType DEF U!UserFilesAssumption

(* The numbers that the bounds relate. *)
LEMMA FilesCounted ==
  ASSUME U!UserFilesAssumption, NEW d, Directory(d), NEW jobs \in [Sessions -> U!Jobs]
  PROVE  /\ IsFiniteSet(DOMAIN d) /\ Cardinality(DOMAIN d) \in Nat /\ Weight(d) \in Nat
         /\ IsFiniteSet(Creating(jobs)) /\ Cardinality(Creating(jobs)) \in Nat
         /\ Sized(Owed(jobs)) /\ Weight(Owed(jobs)) \in Nat
<1>1. IsFiniteSet(DOMAIN d) /\ Weight(d) \in Nat
  BY WeightIsNatural DEF Directory, Sized
<1>2. IsFiniteSet(Creating(jobs)) /\ IsFiniteSet(Passed(jobs))
  <2>1. Creating(jobs) \in SUBSET Sessions /\ Passed(jobs) \in SUBSET Sessions
    BY DEF Creating, Passed
  <2>2. QED
    BY <2>1, FilesConstants, FS_Subset
<1>3. Sized(Owed(jobs))
  <2>1. \A s \in Sessions : jobs[s].size \in Nat
    BY FilesConstants DEF U!Jobs
  <2>2. QED
    BY <1>2, <2>1 DEF Sized, Owed, Passed
<1>4. QED
  BY <1>1, <1>2, <1>3, WeightIsNatural, FS_CardinalityType

LEMMA FilesInit == ASSUME U!UserFilesAssumption, U!Init PROVE FilesIInv
<1>1. dir = [e \in {} |-> 0] /\ DOMAIN dir = {} /\ job = [s \in Sessions |-> U!Idle("away")]
  BY DEF U!Init
<1>2. U!Idle("away") \in U!Jobs /\ U!Idle("away").step = "away"
  BY DEF U!Idle, U!Jobs
<1>3. Directory(dir)
  BY <1>1, FS_EmptySet DEF Directory, Sized
<1>4. job \in [Sessions -> U!Jobs] /\ \A s \in Sessions : JobFits(job[s]) /\ job[s].step = "away"
  BY <1>1, <1>2 DEF JobFits
<1>5. Creating(job) = {} /\ Passed(job) = {}
  BY <1>4 DEF Creating, Passed
<1>6. Weight(dir) = 0 /\ Weight(Owed(job)) = 0
  <2>1. ASSUME NEW d, DOMAIN d = {} PROVE Weight(d) = 0
    <3>1. U!Bytes(d) = {}
      BY <2>1, BytesAre
    <3>2. QED
      BY <3>1, FS_EmptySet DEF Weight
  <2>2. DOMAIN Owed(job) = {}
    BY <1>5 DEF Owed
  <2>3. QED
    BY <1>1, <2>1, <2>2
<1>7. Within(dir, job)
  <2>1. Cardinality(DOMAIN dir) = 0 /\ Cardinality(Creating(job)) = 0
    BY <1>1, <1>5, FS_EmptySet
  <2>2. Cardinality(Sessions) * MaxUpload \in Nat
    BY FilesConstants
  <2>3. QED
    BY <1>6, <2>1, <2>2, FilesConstants DEF Within
<1>8. QED
  BY <1>1, <1>3, <1>4, <1>7 DEF FilesIInv

(* One session goes to the step of j. *)
Follows(after, jobs, s, j) ==
  /\ after[s] = j /\ \A r \in Sessions : r # s => after[r] = jobs[r]
  /\ Creating(after) = (Creating(jobs) \ {s}) \cup (IF j.step = "create" THEN {s} ELSE {})
  /\ Owed(after) = IF j.step \in {"create", "write"} THEN U!With(Owed(jobs), s, j)
                   ELSE U!Without(Owed(jobs), s)

LEMMA JobMoves ==
  ASSUME U!UserFilesAssumption, NEW jobs \in [Sessions -> U!Jobs], \A s \in Sessions : JobFits(jobs[s]),
         NEW s \in Sessions, NEW j, JobFits(j), NEW after, after = [jobs EXCEPT ![s] = j]
  PROVE  /\ after \in [Sessions -> U!Jobs] /\ \A r \in Sessions : JobFits(after[r])
         /\ Follows(after, jobs, s, j)
<1>1. /\ after \in [Sessions -> U!Jobs] /\ after[s] = j
      /\ \A r \in Sessions : r # s => after[r] = jobs[r]
  BY DEF JobFits
<1>2. \A r \in Sessions : JobFits(after[r])
  BY <1>1
<1>3. Creating(after) = (Creating(jobs) \ {s}) \cup (IF j.step = "create" THEN {s} ELSE {})
  BY <1>1 DEF Creating
<1>4. Passed(after) = (Passed(jobs) \ {s}) \cup (IF j.step \in {"create", "write"} THEN {s} ELSE {})
  BY <1>1 DEF Passed
<1>5. \A r \in Passed(jobs) : r \in Sessions
  BY DEF Passed
<1>6. CASE j.step \in {"create", "write"}
  <2>1. Passed(after) = Passed(jobs) \cup {s}
    BY <1>4, <1>6
  <2>2. \A r \in Passed(jobs) \cup {s} : after[r] = IF r = s THEN j ELSE jobs[r]
    BY <1>1, <1>5
  <2>3. \A r \in Passed(jobs) \cup {s} : after[r] = IF r = s THEN j ELSE Owed(jobs)[r]
    BY <2>2 DEF Owed
  <2>4. DOMAIN Owed(jobs) = Passed(jobs)
    BY DEF Owed
  <2>5. Owed(after) = U!With(Owed(jobs), s, j)
    BY <2>1, <2>3, <2>4 DEF Owed, U!With
  <2>6. QED
    BY <1>1, <1>2, <1>3, <1>6, <2>5 DEF Follows
<1>7. CASE ~ (j.step \in {"create", "write"})
  <2>1. Passed(after) = Passed(jobs) \ {s}
    BY <1>4, <1>7
  <2>2. \A r \in Passed(jobs) \ {s} : after[r] = Owed(jobs)[r]
    BY <1>1, <1>5 DEF Owed
  <2>3. DOMAIN Owed(jobs) = Passed(jobs)
    BY DEF Owed
  <2>4. Owed(after) = U!Without(Owed(jobs), s)
    BY <2>1, <2>2, <2>3 DEF Owed, U!Without
  <2>5. QED
    BY <1>1, <1>2, <1>3, <1>7, <2>4 DEF Follows
<1>8. QED
  BY <1>6, <1>7

(* The directory w has nothing that v had not, but for the names. *)
Smaller(w, v) ==
  /\ Directory(w) /\ Weight(w) <= Weight(v) /\ Cardinality(DOMAIN w) <= Cardinality(DOMAIN v)
  /\ \A x \in DOMAIN w : \E y \in DOMAIN v : w[x].by = v[y].by

LEMMA DirectoryCounted ==
  ASSUME NEW d, Directory(d)
  PROVE  IsFiniteSet(DOMAIN d) /\ Cardinality(DOMAIN d) \in Nat /\ Weight(d) \in Nat
BY WeightIsNatural, FS_CardinalityType DEF Directory, Sized

LEMMA SmallerSame == ASSUME NEW d, Directory(d) PROVE Smaller(d, d)
BY DirectoryCounted DEF Smaller

LEMMA SmallerWithout ==
  ASSUME NEW d, Directory(d), NEW e
  PROVE  Smaller(U!Without(d, e), d)
<1> DEFINE w == U!Without(d, e)
<1>1. DOMAIN w = DOMAIN d \ {e} /\ \A x \in DOMAIN w : x \in DOMAIN d /\ w[x] = d[x]
  BY DEF U!Without
<1>2. /\ Sized(w) /\ Weight(w) = Weight(d) - (IF e \in DOMAIN d THEN d[e].size ELSE 0)
  BY WeightWithout DEF Directory
<1> HIDE DEF w
<1>3. IsFiniteSet(DOMAIN d) /\ Cardinality(DOMAIN d) \in Nat /\ Weight(d) \in Nat
  BY DirectoryCounted
<1>4. e \in DOMAIN d => d[e].size \in Nat
  BY DEF Directory, Sized
<1>5. Weight(w) <= Weight(d)
  BY <1>2, <1>3, <1>4
<1>6. Cardinality(DOMAIN w) <= Cardinality(DOMAIN d)
  BY <1>1, <1>3, FS_RemoveElement
<1>7. Directory(w)
  <2>1. DOMAIN w \subseteq U!Entries /\ \A x \in DOMAIN w : w[x] \in U!Entry
    BY <1>1 DEF Directory
  <2>2. \A x, y \in DOMAIN w : w[x].by = w[y].by /\ w[x].by # NoOne => x = y
    BY <1>1 DEF Directory
  <2>3. MaxUpload > 0 => \A x \in DOMAIN w : w[x].size <= MaxUpload
    BY <1>1 DEF Directory
  <2>4. QED
    BY <1>2, <2>1, <2>2, <2>3 DEF Directory
<1>8. QED
  BY <1>1, <1>5, <1>6, <1>7 DEF Smaller, w

LEMMA SmallerRenamed ==
  ASSUME NEW d, Directory(d), NEW old \in DOMAIN d, NEW new \in U!Entries
  PROVE  Smaller(U!Renamed(d, old, new), d)
<1> DEFINE w == U!Renamed(d, old, new)
<1>1. /\ Sized(w) /\ Weight(w) <= Weight(d)
      /\ DOMAIN w = (DOMAIN d \ {old}) \cup {new}
  BY ZenonT(40), WeightRenamed DEF Directory
<1>2. \A x \in DOMAIN w : w[x] = IF x = new THEN d[old] ELSE d[x]
  BY DEF U!Renamed, U!With, U!Without
<1> HIDE DEF w
<1>3. \A x \in DOMAIN w : x # new => x \in DOMAIN d /\ x # old
  BY <1>1
<1>4. Cardinality(DOMAIN w) <= Cardinality(DOMAIN d)
  <2>1. IsFiniteSet(DOMAIN d) /\ Cardinality(DOMAIN d) \in Nat
    BY DirectoryCounted
  <2>2. IsFiniteSet(DOMAIN d \ {old}) /\ Cardinality(DOMAIN d \ {old}) = Cardinality(DOMAIN d) - 1
    BY <2>1, FS_RemoveElement
  <2>3. Cardinality((DOMAIN d \ {old}) \cup {new}) = IF new \in DOMAIN d \ {old} THEN Cardinality(DOMAIN d \ {old})
                                                     ELSE Cardinality(DOMAIN d \ {old}) + 1
    BY <2>2, FS_AddElement
  <2>4. QED
    BY <1>1, <2>1, <2>2, <2>3
<1>5. Directory(w)
  <2>1. DOMAIN w \subseteq U!Entries /\ \A x \in DOMAIN w : w[x] \in U!Entry
    BY <1>1, <1>2, <1>3 DEF Directory
  <2>2. \A x, y \in DOMAIN w : w[x].by = w[y].by /\ w[x].by # NoOne => x = y
    <3>1. \A x, y \in DOMAIN d : d[x].by = d[y].by /\ d[x].by # NoOne => x = y
      BY DEF Directory
    <3>2. QED
      BY <1>2, <1>3, <3>1
  <2>3. MaxUpload > 0 => \A x \in DOMAIN w : w[x].size <= MaxUpload
    BY <1>2, <1>3 DEF Directory
  <2>4. QED
    BY <1>1, <2>1, <2>2, <2>3 DEF Directory
<1>6. \A x \in DOMAIN w : \E y \in DOMAIN d : w[x].by = d[y].by
  BY <1>2, <1>3
<1>7. QED
  BY <1>1, <1>4, <1>5, <1>6 DEF Smaller, w

(* A session that had nothing open goes to a step where it owes nothing. *)
LEMMA Owing ==
  ASSUME U!UserFilesAssumption, FilesIInv, NEW s \in Sessions, NEW j, JobFits(j),
         j.step \notin {"create", "write"}, NEW after, after = [job EXCEPT ![s] = j]
  PROVE  /\ Cardinality(Creating(after)) <= Cardinality(Creating(job))
         /\ Weight(Owed(after)) = Weight(Owed(job)) - (IF s \in Passed(job) THEN job[s].size ELSE 0)
<1>1. job \in [Sessions -> U!Jobs] /\ (\A r \in Sessions : JobFits(job[r])) /\ Directory(dir)
  BY DEF FilesIInv
<1>2. /\ Creating(after) = Creating(job) \ {s}
      /\ Owed(after) = U!Without(Owed(job), s)
  <2>1. Follows(after, job, s, j)
    BY <1>1, JobMoves
  <2>2. QED
    BY <2>1 DEF Follows
<1>3. IsFiniteSet(Creating(job)) /\ Sized(Owed(job))
  BY <1>1, FilesCounted
<1>4. Cardinality(Creating(after)) <= Cardinality(Creating(job))
  <2>1. Creating(after) \in SUBSET Creating(job)
    BY <1>2
  <2>2. QED
    BY <1>3, <2>1, FS_Subset
<1>5. /\ Weight(U!Without(Owed(job), s))
           = Weight(Owed(job)) - (IF s \in DOMAIN Owed(job) THEN Owed(job)[s].size ELSE 0)
  BY <1>3, WeightWithout
<1>6. DOMAIN Owed(job) = Passed(job) /\ (s \in Passed(job) => Owed(job)[s] = job[s])
  BY DEF Owed
<1>7. QED
  BY <1>2, <1>4, <1>5, <1>6

LEMMA FilesLeave ==
  ASSUME U!UserFilesAssumption, FilesIInv, NEW s \in Sessions, job[s].step # "write",
         NEW j, JobFits(j), j.step \notin {"create", "write"}, job' = [job EXCEPT ![s] = j],
         Smaller(dir', dir)
  PROVE  FilesIInv'
<1>1. job \in [Sessions -> U!Jobs] /\ (\A r \in Sessions : JobFits(job[r])) /\ Directory(dir)
  BY DEF FilesIInv
<1>2. PICK after : after = job'
  OBVIOUS
<1>3. /\ after \in [Sessions -> U!Jobs] /\ \A r \in Sessions : JobFits(after[r])
      /\ after[s] = j /\ \A r \in Sessions : r # s => after[r] = job[r]
  BY <1>1, <1>2, JobMoves DEF Follows
<1>4. PICK d : d = dir'
  OBVIOUS
<1>5. /\ Directory(d) /\ Weight(d) <= Weight(dir) /\ Cardinality(DOMAIN d) <= Cardinality(DOMAIN dir)
      /\ \A x \in DOMAIN d : \E y \in DOMAIN dir : d[x].by = dir[y].by
  BY <1>4 DEF Smaller
<1>6. ASSUME NEW x \in DOMAIN d, d[x].by # NoOne PROVE after[d[x].by].step = "write"
  <2>1. PICK y \in DOMAIN dir : d[x].by = dir[y].by
    BY <1>5
  <2>2. dir[y].by \in Sessions \cup {NoOne}
    BY <1>1 DEF Directory, U!Entry
  <2>3. job[dir[y].by].step = "write" /\ dir[y].by \in Sessions
    BY <1>6, <2>1, <2>2 DEF FilesIInv
  <2>4. QED
    BY <1>3, <2>1, <2>3
<1>7. Within(d, after)
  <2>1. /\ Cardinality(DOMAIN dir) \in Nat /\ Weight(dir) \in Nat
        /\ Cardinality(Creating(job)) \in Nat /\ Weight(Owed(job)) \in Nat
    BY <1>1, FilesCounted
  <2>2. /\ Cardinality(DOMAIN d) \in Nat /\ Weight(d) \in Nat
        /\ Cardinality(Creating(after)) \in Nat /\ Weight(Owed(after)) \in Nat
    BY <1>3, <1>5, FilesCounted
  <2>3. /\ Cardinality(Creating(after)) <= Cardinality(Creating(job))
        /\ Weight(Owed(after)) = Weight(Owed(job)) - (IF s \in Passed(job) THEN job[s].size ELSE 0)
    BY <1>2, Owing
  <2>4. job[s].size \in Nat
    BY <1>1, FilesConstants DEF U!Jobs
  <2>5. Weight(Owed(after)) <= Weight(Owed(job))
    BY <2>1, <2>3, <2>4
  <2>6. Cardinality(Sessions) \in Nat /\ Cardinality(Sessions) * MaxUpload \in Nat /\ MaxFiles \in Nat /\ MaxBytes \in Nat
    BY FilesConstants
  <2>7. MaxFiles > 0 => Cardinality(DOMAIN dir) + Cardinality(Creating(job)) <= MaxFiles + Cardinality(Sessions)
    BY DEF FilesIInv, Within
  <2>8. MaxBytes > 0 /\ MaxUpload > 0 =>
          Weight(dir) + Weight(Owed(job)) <= MaxBytes + Cardinality(Sessions) * MaxUpload
    BY DEF FilesIInv, Within
  <2>9. MaxFiles > 0 => Cardinality(DOMAIN d) + Cardinality(Creating(after)) <= MaxFiles + Cardinality(Sessions)
    BY <1>5, <2>1, <2>2, <2>3, <2>6, <2>7
  <2>10. MaxBytes > 0 /\ MaxUpload > 0 =>
          Weight(d) + Weight(Owed(after)) <= MaxBytes + Cardinality(Sessions) * MaxUpload
    BY <1>5, <2>1, <2>2, <2>5, <2>6, <2>8
  <2>11. QED
    BY <2>9, <2>10 DEF Within
<1>8. QED
  BY <1>2, <1>3, <1>4, <1>5, <1>6, <1>7 DEF FilesIInv

(* What the session has open is closed with z bytes in it. *)
LEMMA ClosedIs ==
  ASSUME U!UserFilesAssumption, FilesIInv, NEW s \in Sessions, NEW z \in Sizes \cup {0},
         MaxUpload > 0 => z <= MaxUpload
  PROVE  /\ Directory(U!Closed(s, z)) /\ Weight(U!Closed(s, z)) <= Weight(dir) + z
         /\ DOMAIN U!Closed(s, z) = DOMAIN dir
         /\ \A x \in DOMAIN dir : U!Closed(s, z)[x].by = IF dir[x].by = s THEN NoOne ELSE dir[x].by
<1> DEFINE w == U!Closed(s, z)
           shut == [size |-> z, by |-> NoOne]
<1>1. DOMAIN w = DOMAIN dir /\ \A x \in DOMAIN dir : w[x] = IF dir[x].by = s THEN shut ELSE dir[x]
  BY DEF U!Closed
<1>2. shut \in U!Entry /\ shut.size = z /\ shut.by = NoOne /\ z \in Nat /\ NoOne # s
  BY FilesConstants DEF U!Entry
<1> HIDE DEF w, shut
<1>3. Directory(dir) /\ Sized(dir) /\ Weight(dir) \in Nat /\ \A x \in DOMAIN dir : dir[x].size \in Nat
  BY WeightIsNatural DEF FilesIInv, Directory, Sized
<1>4. Directory(w)
  <2>1. Sized(w)
    BY <1>1, <1>2, <1>3 DEF Sized
  <2>2. DOMAIN w \subseteq U!Entries /\ \A x \in DOMAIN w : w[x] \in U!Entry
    BY <1>1, <1>2, <1>3 DEF Directory
  <2>3. \A x, y \in DOMAIN w : w[x].by = w[y].by /\ w[x].by # NoOne => x = y
    BY <1>1, <1>2, <1>3 DEF Directory
  <2>4. MaxUpload > 0 => \A x \in DOMAIN w : w[x].size <= MaxUpload
    BY <1>1, <1>2, <1>3 DEF Directory
  <2>5. QED
    BY <2>1, <2>2, <2>3, <2>4 DEF Directory
<1>5. Weight(w) <= Weight(dir) + z
  <2>1. CASE \A x \in DOMAIN dir : dir[x].by # s
    <3>1. \A x \in DOMAIN dir : w[x].size = dir[x].size
      BY <1>1, <2>1
    <3>2. Weight(w) = Weight(dir)
      BY <1>1, <3>1, WeightSame
    <3>3. QED
      BY <1>2, <1>3, <3>2
  <2>2. ASSUME NEW e \in DOMAIN dir, dir[e].by = s PROVE Weight(w) <= Weight(dir) + z
    <3> DEFINE u == U!With(dir, e, shut)
    <3>1. DOMAIN u = DOMAIN dir /\ \A x \in DOMAIN dir : u[x] = IF x = e THEN shut ELSE dir[x]
      BY DEF U!With
    <3>2. \A x \in DOMAIN dir : dir[x].by = s => x = e
      BY <1>2, <1>3, <2>2 DEF Directory
    <3>3. Weight(u) = Weight(U!Without(dir, e)) + z
      BY <1>2, <1>3, WeightWith
    <3> HIDE DEF u
    <3>4. DOMAIN w = DOMAIN u /\ \A x \in DOMAIN u : w[x].size = u[x].size
      BY <1>1, <2>2, <3>1, <3>2
    <3>5. Weight(w) = Weight(u)
      BY <3>4, WeightSame
    <3>6. Weight(U!Without(dir, e)) = Weight(dir) - (IF e \in DOMAIN dir THEN dir[e].size ELSE 0)
      BY <1>3, WeightWithout
    <3>7. dir[e].size \in Nat
      BY <1>3
    <3>8. QED
      BY <1>2, <1>3, <3>3, <3>5, <3>6, <3>7
  <2>3. QED
    BY <2>1, <2>2
<1>6. QED
  BY <1>1, <1>2, <1>4, <1>5 DEF w

(* A session has written what it owed, or less. *)
LEMMA FilesFinish ==
  ASSUME U!UserFilesAssumption, FilesIInv, NEW s \in Sessions, job[s].step = "write",
         NEW z \in Sizes \cup {0}, z <= job[s].size,
         NEW j, JobFits(j), j.step \notin {"create", "write"}, job' = [job EXCEPT ![s] = j],
         Smaller(dir', U!Closed(s, z))
  PROVE  FilesIInv'
<1>1. job \in [Sessions -> U!Jobs] /\ (\A r \in Sessions : JobFits(job[r])) /\ Directory(dir)
  BY DEF FilesIInv
<1>2. PICK after : after = job'
  OBVIOUS
<1>3. /\ after \in [Sessions -> U!Jobs] /\ \A r \in Sessions : JobFits(after[r])
      /\ after[s] = j /\ \A r \in Sessions : r # s => after[r] = job[r]
  BY <1>1, <1>2, JobMoves DEF Follows
<1>4. PICK d : d = dir'
  OBVIOUS
<1>5. z \in Nat /\ job[s].size \in Nat /\ (MaxUpload > 0 => z <= MaxUpload)
  <2>1. z \in Nat /\ job[s].size \in Nat /\ MaxUpload \in Nat
    BY <1>1, FilesConstants DEF U!Jobs
  <2>2. MaxUpload > 0 => job[s].size <= MaxUpload
    BY <1>1 DEF JobFits
  <2>3. QED
    BY <2>1, <2>2
<1>6. PICK c : c = U!Closed(s, z)
  OBVIOUS
<1>7. /\ Directory(c) /\ Weight(c) <= Weight(dir) + z /\ DOMAIN c = DOMAIN dir
      /\ \A x \in DOMAIN dir : c[x].by = IF dir[x].by = s THEN NoOne ELSE dir[x].by
  BY <1>5, <1>6, ClosedIs
<1>8. /\ Directory(d) /\ Weight(d) <= Weight(c) /\ Cardinality(DOMAIN d) <= Cardinality(DOMAIN dir)
      /\ \A x \in DOMAIN d : \E y \in DOMAIN dir : d[x].by = c[y].by
  BY <1>4, <1>6, <1>7 DEF Smaller
<1>9. ASSUME NEW x \in DOMAIN d, d[x].by # NoOne PROVE after[d[x].by].step = "write"
  <2>1. PICK y \in DOMAIN dir : d[x].by = c[y].by
    BY <1>8
  <2>2. dir[y].by \in Sessions \cup {NoOne}
    BY <1>1 DEF Directory, U!Entry
  <2>3. dir[y].by # s /\ d[x].by = dir[y].by
    BY <1>7, <1>9, <2>1
  <2>4. job[dir[y].by].step = "write" /\ dir[y].by \in Sessions
    BY <1>9, <2>2, <2>3 DEF FilesIInv
  <2>5. QED
    BY <1>3, <2>3, <2>4
<1>10. Within(d, after)
  <2>1. /\ Cardinality(DOMAIN dir) \in Nat /\ Weight(dir) \in Nat
        /\ Cardinality(Creating(job)) \in Nat /\ Weight(Owed(job)) \in Nat
    BY <1>1, FilesCounted
  <2>2. /\ Cardinality(DOMAIN d) \in Nat /\ Weight(d) \in Nat /\ Weight(c) \in Nat
        /\ Cardinality(Creating(after)) \in Nat /\ Weight(Owed(after)) \in Nat
    BY <1>3, <1>7, <1>8, FilesCounted
  <2>3. /\ Cardinality(Creating(after)) <= Cardinality(Creating(job))
        /\ Weight(Owed(after)) = Weight(Owed(job)) - (IF s \in Passed(job) THEN job[s].size ELSE 0)
    BY <1>2, Owing
  <2>4. s \in Passed(job)
    BY DEF Passed
  <2>5. Weight(Owed(after)) = Weight(Owed(job)) - job[s].size
    BY <2>3, <2>4
  <2>6. Cardinality(Sessions) \in Nat /\ Cardinality(Sessions) * MaxUpload \in Nat /\ MaxFiles \in Nat /\ MaxBytes \in Nat
    BY FilesConstants
  <2>7. MaxFiles > 0 => Cardinality(DOMAIN dir) + Cardinality(Creating(job)) <= MaxFiles + Cardinality(Sessions)
    BY DEF FilesIInv, Within
  <2>8. MaxBytes > 0 /\ MaxUpload > 0 =>
          Weight(dir) + Weight(Owed(job)) <= MaxBytes + Cardinality(Sessions) * MaxUpload
    BY DEF FilesIInv, Within
  <2>9. MaxFiles > 0 => Cardinality(DOMAIN d) + Cardinality(Creating(after)) <= MaxFiles + Cardinality(Sessions)
    BY <1>8, <2>1, <2>2, <2>3, <2>6, <2>7
  <2>10. Weight(d) + Weight(Owed(after)) <= Weight(dir) + Weight(Owed(job))
    BY <1>5, <1>7, <1>8, <2>1, <2>2, <2>5
  <2>11. MaxBytes > 0 /\ MaxUpload > 0 =>
          Weight(d) + Weight(Owed(after)) <= MaxBytes + Cardinality(Sessions) * MaxUpload
    BY <2>1, <2>2, <2>6, <2>8, <2>10
  <2>12. QED
    BY <2>9, <2>11 DEF Within
<1>11. QED
  BY <1>2, <1>3, <1>4, <1>8, <1>9, <1>10 DEF FilesIInv

(* The check passes: the directory is within the quota, and each of the other
   sessions owes one file at most. *)
LEMMA FilesCheck ==
  ASSUME U!UserFilesAssumption, FilesIInv, NEW s \in Sessions, U!At(s, "check"),
         U!WithinQuota(dir, job[s].name, job[s].size), MaxUpload > 0 => job[s].size <= MaxUpload,
         job' = [job EXCEPT ![s] = [job[s] EXCEPT !.step = "create"]], UNCHANGED dir
  PROVE  FilesIInv'
<1> DEFINE j == [job[s] EXCEPT !.step = "create"]
           others == U!Without(Owed(job), s)
           k == Cardinality(Sessions)
<1>1. job \in [Sessions -> U!Jobs] /\ (\A r \in Sessions : JobFits(job[r])) /\ Directory(dir)
  BY DEF FilesIInv
<1>2. JobFits(j) /\ j.step = "create" /\ j.size = job[s].size /\ j.name = job[s].name
  <2>1. job[s].step = "check" /\ job[s] \in U!Jobs
    BY <1>1 DEF U!At
  <2>2. j \in U!Jobs /\ j.step = "create" /\ j.size = job[s].size /\ j.name = job[s].name
    BY <2>1 DEF U!Jobs
  <2>3. job[s].name \in Names /\ job[s].size \in Sizes
    BY <1>1, <2>1 DEF JobFits
  <2> HIDE DEF j
  <2>4. QED
    BY <2>2, <2>3 DEF JobFits
<1>3. PICK after : after = job'
  OBVIOUS
<1> HIDE DEF j
<1>4. after = [job EXCEPT ![s] = j]
  BY <1>3 DEF j
<1>5. /\ after \in [Sessions -> U!Jobs] /\ (\A r \in Sessions : JobFits(after[r]))
      /\ Follows(after, job, s, j)
  BY <1>1, <1>2, <1>4, JobMoves
<1>6. /\ after[s] = j /\ (\A r \in Sessions : r # s => after[r] = job[r])
      /\ Owed(after) = U!With(Owed(job), s, j)
  BY <1>2, <1>5 DEF Follows
<1>7. /\ Cardinality(DOMAIN dir) \in Nat /\ Weight(dir) \in Nat /\ IsFiniteSet(DOMAIN dir)
      /\ Sized(Owed(job)) /\ Cardinality(Creating(after)) \in Nat /\ Weight(Owed(after)) \in Nat
  BY <1>1, <1>5, FilesCounted
<1>8. k \in Nat /\ IsFiniteSet(Sessions) /\ MaxUpload \in Nat /\ MaxBytes \in Nat /\ MaxFiles \in Nat
  BY FilesConstants
<1>9. Cardinality(Creating(after)) <= k
  <2>1. Creating(after) \in SUBSET Sessions
    BY DEF Creating
  <2>2. QED
    BY <1>8, <2>1, FS_Subset
<1>10. MaxFiles > 0 => Cardinality(DOMAIN dir) + Cardinality(Creating(after)) <= MaxFiles + k
  <2>1. MaxFiles > 0 => Cardinality(DOMAIN dir \cup {job[s].name}) <= MaxFiles
    BY UserSets DEF U!WithinQuota
  <2>2. Cardinality(DOMAIN dir \cup {job[s].name}) \in Nat /\ Cardinality(DOMAIN dir) <= Cardinality(DOMAIN dir \cup {job[s].name})
    <3>1. PICK x : x = job[s].name
      OBVIOUS
    <3>2. /\ IsFiniteSet(DOMAIN dir \cup {x})
          /\ Cardinality(DOMAIN dir \cup {x}) = IF x \in DOMAIN dir THEN Cardinality(DOMAIN dir)
                                                ELSE Cardinality(DOMAIN dir) + 1
      BY <1>7, FS_AddElement
    <3>3. /\ Cardinality(DOMAIN dir \cup {x}) \in Nat
          /\ Cardinality(DOMAIN dir) <= Cardinality(DOMAIN dir \cup {x})
      BY <1>7, <3>2
    <3>4. QED
      BY <3>1, <3>3
  <2> HIDE DEF k
  <2>3. QED
    BY <1>7, <1>8, <1>9, <2>1, <2>2
<1>11. ASSUME MaxBytes > 0, MaxUpload > 0
       PROVE  Weight(dir) + Weight(Owed(after)) <= MaxBytes + k * MaxUpload
  <2> DEFINE size == job[s].size
             old == IF job[s].name \in DOMAIN dir THEN dir[job[s].name].size ELSE 0
  <2>1. size \in Nat
    BY <1>1, FilesConstants DEF U!Jobs
  <2>2. old \in Nat /\ old <= MaxUpload
    BY <1>1, <1>8, <1>11 DEF Directory, Sized
  <2>3. Weight(dir) + size - old <= MaxBytes
    <3>1. U!Used(dir) = Weight(dir)
      BY UserSets DEF U!Used, Weight
    <3>2. U!Used(dir) + size - old <= MaxBytes
      BY <1>11 DEF U!WithinQuota
    <3>3. QED
      BY <3>1, <3>2
  <2>4. Weight(Owed(after)) = Weight(others) + size
    <3>1. Weight(U!With(Owed(job), s, j)) = Weight(U!Without(Owed(job), s)) + j.size
      BY <1>2, <1>7, <2>1, WeightWith
    <3>2. QED
      BY <1>2, <1>6, <3>1
  <2>5. Weight(others) <= (k - 1) * MaxUpload /\ Weight(others) \in Nat
    <3>1. Sized(others)
      BY <1>7, WeightWithout
    <3>2. DOMAIN others \subseteq Sessions \ {s}
      BY DEF U!Without, Owed, Passed
    <3>3. \A r \in DOMAIN others : others[r].size <= MaxUpload
      BY <1>1, <1>11 DEF U!Without, Owed, Passed, JobFits
    <3>4. IsFiniteSet(Sessions \ {s}) /\ Cardinality(Sessions \ {s}) = k - 1
      BY <1>8, FS_RemoveElement
    <3> HIDE DEF others
    <3>5. Weight(others) <= Cardinality(Sessions \ {s}) * MaxUpload
      BY <1>8, <3>1, <3>2, <3>3, <3>4, WeightBound
    <3>6. Weight(others) \in Nat
      BY <3>1, WeightIsNatural
    <3>7. QED
      BY <3>4, <3>5, <3>6
  <2> HIDE DEF k, size, old, others
  <2>6. k * MaxUpload \in Nat /\ (k - 1) * MaxUpload = k * MaxUpload - MaxUpload
    BY <1>8
  <2>7. QED
    BY <1>7, <1>8, <2>1, <2>2, <2>3, <2>4, <2>5, <2>6
<1>12. Within(dir, after)
  BY <1>10, <1>11 DEF Within
<1>13. \A e \in DOMAIN dir : dir[e].by # NoOne => after[dir[e].by].step = "write"
  <2>1. ASSUME NEW e \in DOMAIN dir, dir[e].by # NoOne PROVE after[dir[e].by].step = "write"
    <3>1. dir[e].by \in Sessions /\ job[dir[e].by].step = "write"
      BY <1>1, <2>1 DEF FilesIInv, Directory, U!Entry
    <3>2. dir[e].by # s
      BY <3>1 DEF U!At
    <3>3. QED
      BY <1>6, <3>1, <3>2
  <2>2. QED
    BY <2>1
<1>14. QED
  BY <1>1, <1>3, <1>5, <1>12, <1>13 DEF FilesIInv

LEMMA FilesCreate ==
  ASSUME U!UserFilesAssumption, FilesIInv, NEW s \in Sessions, U!At(s, "create"),
         NEW t \in Temps, t \notin DOMAIN dir,
         dir' = U!With(dir, t, [size |-> 0, by |-> s]),
         job' = [job EXCEPT ![s] = [job[s] EXCEPT !.step = "write", !.to = t]]
  PROVE  FilesIInv'
<1> DEFINE j == [job[s] EXCEPT !.step = "write", !.to = t]
           entry == [size |-> 0, by |-> s]
           k == Cardinality(Sessions)
<1>1. job \in [Sessions -> U!Jobs] /\ (\A r \in Sessions : JobFits(job[r])) /\ Directory(dir)
  BY DEF FilesIInv
<1>2. job[s].step = "create" /\ job[s] \in U!Jobs /\ s \in Passed(job) /\ s \in Creating(job)
  BY <1>1 DEF U!At, Passed, Creating
<1>3. JobFits(j) /\ j.step = "write" /\ j.size = job[s].size
  <2>1. t \in U!Entries
    BY DEF U!Entries
  <2>2. j \in U!Jobs /\ j.step = "write" /\ j.size = job[s].size /\ j.name = job[s].name
    BY <1>2, <2>1 DEF U!Jobs
  <2>3. /\ job[s].name \in Names /\ job[s].size \in Sizes
        /\ MaxUpload > 0 => job[s].size <= MaxUpload
    BY <1>1, <1>2 DEF JobFits
  <2> HIDE DEF j
  <2>4. QED
    BY <2>2, <2>3 DEF JobFits
<1>4. PICK after : after = job'
  OBVIOUS
<1>5. PICK d : d = dir'
  OBVIOUS
<1> HIDE DEF j
<1>6. after = [job EXCEPT ![s] = j]
  BY <1>4 DEF j
<1>7. /\ after \in [Sessions -> U!Jobs] /\ (\A r \in Sessions : JobFits(after[r]))
      /\ Follows(after, job, s, j)
  BY <1>1, <1>3, <1>6, JobMoves
<1>8. /\ after[s] = j /\ (\A r \in Sessions : r # s => after[r] = job[r])
      /\ Owed(after) = U!With(Owed(job), s, j)
      /\ Creating(after) = Creating(job) \ {s}
  BY <1>3, <1>7 DEF Follows
<1>9. /\ Cardinality(DOMAIN dir) \in Nat /\ Weight(dir) \in Nat /\ IsFiniteSet(DOMAIN dir)
      /\ Sized(Owed(job)) /\ Weight(Owed(job)) \in Nat
      /\ IsFiniteSet(Creating(job)) /\ Cardinality(Creating(job)) \in Nat
  BY <1>1, FilesCounted
<1>10. entry \in U!Entry /\ entry.size = 0 /\ entry.by = s /\ s # NoOne
  BY FilesConstants DEF U!Entry
<1> HIDE DEF entry
<1>11. d = U!With(dir, t, entry)
  BY <1>5 DEF entry
<1>12. /\ DOMAIN d = DOMAIN dir \cup {t}
       /\ \A x \in DOMAIN d : d[x] = IF x = t THEN entry ELSE dir[x]
  BY <1>11 DEF U!With
<1>13. Sized(d) /\ Weight(d) = Weight(dir)
  <2>1. Sized(dir)
    BY <1>1 DEF Directory
  <2>2. Sized(U!With(dir, t, entry)) /\ Weight(U!With(dir, t, entry)) = Weight(U!Without(dir, t)) + entry.size
    BY <1>10, <2>1, WeightWith
  <2>3. Weight(U!Without(dir, t)) = Weight(dir) - (IF t \in DOMAIN dir THEN dir[t].size ELSE 0)
    BY <2>1, WeightWithout
  <2>4. QED
    BY <1>9, <1>10, <1>11, <2>2, <2>3
<1>14. \A x \in DOMAIN dir : dir[x].by # s
  <2>1. \A x \in DOMAIN dir : dir[x].by = s => job[s].step = "write"
    BY <1>10 DEF FilesIInv
  <2>2. QED
    BY <1>2, <2>1
<1>15. Directory(d)
  <2>1. t \in U!Entries
    BY DEF U!Entries
  <2>2. DOMAIN d \subseteq U!Entries /\ \A x \in DOMAIN d : d[x] \in U!Entry
    BY <1>1, <1>10, <1>12, <2>1 DEF Directory
  <2>3. \A x, y \in DOMAIN d : d[x].by = d[y].by /\ d[x].by # NoOne => x = y
    <3>1. \A x, y \in DOMAIN dir : dir[x].by = dir[y].by /\ dir[x].by # NoOne => x = y
      BY <1>1 DEF Directory
    <3>2. QED
      BY <1>10, <1>12, <1>14, <3>1
  <2>4. ASSUME MaxUpload > 0, NEW x \in DOMAIN d PROVE d[x].size <= MaxUpload
    <3>1. MaxUpload \in Nat
      BY FilesConstants
    <3>2. CASE x = t
      <4>1. d[x].size = 0
        BY <1>10, <1>12, <3>2
      <4>2. QED
        BY <3>1, <4>1
    <3>3. CASE x # t
      <4>1. x \in DOMAIN dir /\ d[x] = dir[x]
        BY <1>12, <3>3
      <4>2. QED
        BY <1>1, <2>4, <4>1 DEF Directory
    <3>4. QED
      BY <3>2, <3>3
  <2>5. QED
    BY <1>13, <2>2, <2>3, <2>4 DEF Directory
<1>16. Weight(Owed(after)) = Weight(Owed(job))
  <2>1. Weight(U!With(Owed(job), s, j)) = Weight(U!Without(Owed(job), s)) + j.size
    <3>1. j.size \in Nat
      BY <1>1, <1>3, FilesConstants DEF U!Jobs
    <3>2. QED
      BY <1>9, <3>1, WeightWith
  <2>2. Weight(U!Without(Owed(job), s)) = Weight(Owed(job)) - (IF s \in DOMAIN Owed(job) THEN Owed(job)[s].size ELSE 0)
    BY <1>9, WeightWithout
  <2>3. s \in DOMAIN Owed(job) /\ Owed(job)[s].size = job[s].size
    BY <1>2 DEF Owed
  <2>4. job[s].size \in Nat
    BY <1>1, FilesConstants DEF U!Jobs
  <2>5. QED
    BY <1>3, <1>8, <1>9, <2>1, <2>2, <2>3, <2>4
<1>17. Cardinality(DOMAIN d) + Cardinality(Creating(after)) = Cardinality(DOMAIN dir) + Cardinality(Creating(job))
  <2>1. Cardinality(DOMAIN d) = Cardinality(DOMAIN dir) + 1
    BY <1>9, <1>12, FS_AddElement
  <2>2. Cardinality(Creating(after)) = Cardinality(Creating(job)) - 1
    BY <1>2, <1>8, <1>9, FS_RemoveElement
  <2>3. QED
    BY <1>9, <2>1, <2>2
<1>18. Within(d, after)
  BY <1>13, <1>16, <1>17 DEF FilesIInv, Within
<1>19. \A x \in DOMAIN d : d[x].by # NoOne => after[d[x].by].step = "write"
  <2>1. ASSUME NEW x \in DOMAIN d, d[x].by # NoOne PROVE after[d[x].by].step = "write"
    <3>1. CASE x = t
      BY <1>3, <1>8, <1>10, <1>12, <3>1
    <3>2. CASE x # t
      <4>1. x \in DOMAIN dir /\ d[x] = dir[x] /\ dir[x].by # s
        BY <1>12, <1>14, <3>2
      <4>2. dir[x].by \in Sessions /\ job[dir[x].by].step = "write"
        BY <1>1, <2>1, <4>1 DEF FilesIInv, Directory, U!Entry
      <4>3. QED
        BY <1>8, <4>1, <4>2
    <3>3. QED
      BY <3>1, <3>2
  <2>2. QED
    BY <2>1
<1>20. QED
  BY <1>4, <1>5, <1>7, <1>15, <1>18, <1>19 DEF FilesIInv

LEMMA FilesCrash == ASSUME U!UserFilesAssumption, FilesIInv, U!Crash PROVE FilesIInv'
<1>1. PICK d : d = dir'
  OBVIOUS
<1>2. PICK after : after = job'
  OBVIOUS
<1>3. /\ DOMAIN d = DOMAIN dir /\ \A x \in DOMAIN d : d[x] = [dir[x] EXCEPT !.by = NoOne]
      /\ after = [s \in Sessions |-> U!Idle("away")]
  BY <1>1, <1>2 DEF U!Crash
<1>4. Directory(dir) /\ job \in [Sessions -> U!Jobs]
  BY DEF FilesIInv
<1>5. \A x \in DOMAIN d : d[x] \in U!Entry /\ d[x].by = NoOne /\ d[x].size = dir[x].size
  BY <1>3, <1>4 DEF Directory, U!Entry
<1>6. Weight(d) = Weight(dir) /\ Sized(d)
  BY <1>3, <1>4, <1>5, WeightSame DEF Directory
<1>7. Directory(d)
  BY <1>3, <1>4, <1>5, <1>6 DEF Directory
<1>8. U!Idle("away") \in U!Jobs /\ U!Idle("away").step = "away"
  BY DEF U!Idle, U!Jobs
<1>9. after \in [Sessions -> U!Jobs] /\ \A s \in Sessions : JobFits(after[s]) /\ after[s].step = "away"
  BY <1>3, <1>8 DEF JobFits
<1>10. Creating(after) = {} /\ Passed(after) = {}
  BY <1>9 DEF Creating, Passed
<1>11. Cardinality(Creating(after)) = 0 /\ Weight(Owed(after)) = 0
  <2>1. U!Bytes(Owed(after)) = {}
    <3>1. DOMAIN Owed(after) = {}
      BY <1>10 DEF Owed
    <3>2. QED
      BY <3>1, BytesAre
  <2>2. QED
    BY <1>10, <2>1, FS_EmptySet DEF Weight
<1>12. Within(d, after)
  <2>1. /\ Cardinality(DOMAIN dir) \in Nat /\ Weight(dir) \in Nat
        /\ Cardinality(Creating(job)) \in Nat /\ Weight(Owed(job)) \in Nat
    BY <1>4, FilesCounted
  <2>2. Cardinality(Sessions) \in Nat /\ Cardinality(Sessions) * MaxUpload \in Nat /\ MaxFiles \in Nat /\ MaxBytes \in Nat
    BY FilesConstants
  <2>3. MaxFiles > 0 => Cardinality(DOMAIN dir) + Cardinality(Creating(job)) <= MaxFiles + Cardinality(Sessions)
    BY DEF FilesIInv, Within
  <2>4. MaxBytes > 0 /\ MaxUpload > 0 =>
          Weight(dir) + Weight(Owed(job)) <= MaxBytes + Cardinality(Sessions) * MaxUpload
    BY DEF FilesIInv, Within
  <2>5. MaxFiles > 0 => Cardinality(DOMAIN d) + Cardinality(Creating(after)) <= MaxFiles + Cardinality(Sessions)
    BY <1>3, <1>11, <2>1, <2>2, <2>3
  <2>6. MaxBytes > 0 /\ MaxUpload > 0 =>
          Weight(d) + Weight(Owed(after)) <= MaxBytes + Cardinality(Sessions) * MaxUpload
    BY <1>6, <1>11, <2>1, <2>2, <2>4
  <2>7. QED
    BY <2>5, <2>6 DEF Within
<1>13. QED
  BY <1>1, <1>2, <1>5, <1>7, <1>9, <1>12 DEF FilesIInv

(* A step of one session. *)
LEMMA FilesSession ==
  ASSUME U!UserFilesAssumption, FilesIInv, NEW s \in Sessions, U!Session(s)
  PROVE  FilesIInv'
<1>1. /\ job \in [Sessions -> U!Jobs] /\ (\A r \in Sessions : JobFits(job[r])) /\ Directory(dir)
      /\ job[s] \in U!Jobs /\ JobFits(job[s])
  BY DEF FilesIInv
<1>2. \A step \in {"away", "list", "menu"} : JobFits(U!Idle(step)) /\ U!Idle(step).step = step
  BY DEF JobFits, U!Idle, U!Jobs
<1>3. UNCHANGED dir => Smaller(dir', dir)
  BY <1>1, SmallerSame
<1>4. ASSUME job[s].step # "write", U!Back(s), Smaller(dir', dir) PROVE FilesIInv'
  <2>1. job' = [job EXCEPT ![s] = U!Idle("list")]
    BY <1>4 DEF U!Back, U!Do
  <2>2. PICK j : j = U!Idle("list")
    OBVIOUS
  <2>3. QED
    BY <1>2, <1>4, <2>1, <2>2, FilesLeave
<1>5. ASSUME job[s].step # "write", UNCHANGED dir, NEW j, JobFits(j),
             j.step \notin {"create", "write"}, U!Do(s, j)
      PROVE  FilesIInv'
  BY <1>3, <1>5, FilesLeave DEF U!Do
<1>6. CASE U!Open(s)
  BY <1>3, <1>4, <1>6 DEF U!Open, U!At
<1>7. CASE U!List(s)
  <2> DEFINE j == [U!Idle("menu") EXCEPT !.shown = DOMAIN dir]
  <2>1. JobFits(j) /\ j.step = "menu"
    <3>1. DOMAIN dir \subseteq U!Entries
      BY <1>1 DEF Directory
    <3>2. QED
      BY <3>1 DEF JobFits, U!Idle, U!Jobs
  <2>2. job[s].step # "write" /\ UNCHANGED dir /\ U!Do(s, j)
    BY <1>7 DEF U!List, U!At
  <2> HIDE DEF j
  <2>3. QED
    BY <1>5, <2>1, <2>2
<1>8. CASE U!Receive(s)
  <2>1. PICK nm \in Names, z \in Sizes : U!Do(s, [U!Idle("check") EXCEPT !.name = nm, !.size = z])
    BY <1>8 DEF U!Receive
  <2> DEFINE j == [U!Idle("check") EXCEPT !.name = nm, !.size = z]
  <2>2. JobFits(j) /\ j.step = "check"
    BY DEF JobFits, U!Idle, U!Jobs, U!Entries
  <2>3. job[s].step # "write" /\ UNCHANGED dir /\ U!Do(s, j)
    BY <1>8, <2>1 DEF U!Receive, U!At
  <2> HIDE DEF j
  <2>4. QED
    BY <1>5, <2>2, <2>3
<1>9. CASE U!CheckQuota(s)
  <2>1. job[s].step # "write" /\ UNCHANGED dir
    BY <1>9 DEF U!CheckQuota, U!At
  <2>2. CASE U!Back(s)
    BY <1>3, <1>4, <2>1, <2>2
  <2>3. CASE /\ U!WithinQuota(dir, job[s].name, job[s].size) /\ (MaxUpload > 0 => job[s].size <= MaxUpload)
             /\ U!Do(s, [job[s] EXCEPT !.step = "create"])
    BY <1>9, <2>1, <2>3, FilesCheck DEF U!CheckQuota, U!Do
  <2>4. QED
    BY <1>9, <2>2, <2>3 DEF U!CheckQuota
<1>10. CASE U!CreateTemp(s)
  <2>1. U!At(s, "create") /\ job[s].step # "write"
    BY <1>10 DEF U!CreateTemp, U!At
  <2>2. CASE U!Back(s) /\ UNCHANGED dir
    BY <1>3, <1>4, <2>1, <2>2
  <2>3. ASSUME NEW t \in Temps \ (DOMAIN dir \cup {job[r].to : r \in Sessions}),
               dir' = U!With(dir, t, [size |-> 0, by |-> s]),
               U!Do(s, [job[s] EXCEPT !.step = "write", !.to = t])
        PROVE  FilesIInv'
    <3>1. t \in Temps /\ t \notin DOMAIN dir
      OBVIOUS
    <3>2. QED
      BY <2>1, <2>3, <3>1, FilesCreate DEF U!Do
  <2>4. QED
    BY <1>10, <2>2, <2>3 DEF U!CreateTemp
<1>11. CASE U!WriteTemp(s)
  <2>1. job[s].step = "write" /\ job[s].name \in Names /\ job[s].size \in Sizes
        /\ (MaxUpload > 0 => job[s].size <= MaxUpload)
    BY <1>1, <1>11 DEF U!WriteTemp, U!At, JobFits
  <2>2. MaxUpload \in Nat /\ \A z \in Sizes \cup {0} : z \in Nat
    BY FilesConstants
  <2>3. \A z \in Sizes \cup {0} : z <= job[s].size => Directory(U!Closed(s, z))
    <3>1. ASSUME NEW z \in Sizes \cup {0}, z <= job[s].size PROVE Directory(U!Closed(s, z))
      <4>1. MaxUpload > 0 => z <= MaxUpload
        BY <2>1, <2>2, <3>1
      <4>2. QED
        BY <4>1, ClosedIs
    <3>2. QED
      BY <3>1
  <2>4. CASE dir' = U!Closed(s, job[s].size) /\ U!Do(s, [job[s] EXCEPT !.step = "rename"])
    <3> DEFINE j == [job[s] EXCEPT !.step = "rename"]
    <3>1. JobFits(j) /\ j.step = "rename"
      BY <1>1, <2>1 DEF JobFits, U!Jobs
    <3>2. job' = [job EXCEPT ![s] = j]
      BY <2>4 DEF U!Do
    <3> HIDE DEF j
    <3>3. PICK z \in Sizes \cup {0} : z = job[s].size
      BY <2>1
    <3>4. z <= job[s].size
      BY <2>2, <3>3
    <3>5. Smaller(U!Closed(s, z), U!Closed(s, z))
      BY <2>3, <3>4, SmallerSame
    <3>6. Smaller(dir', U!Closed(s, z))
      BY <2>4, <3>3, <3>5
    <3>7. QED
      BY <2>1, <3>1, <3>2, <3>4, <3>6, FilesFinish
  <2>5. ASSUME NEW z \in Sizes \cup {0}, z <= job[s].size, U!RemoveTemp(s, U!Closed(s, z))
        PROVE  FilesIInv'
    <3>1. dir' = U!Without(U!Closed(s, z), job[s].to) /\ job' = [job EXCEPT ![s] = U!Idle("list")]
      BY <2>5 DEF U!RemoveTemp, U!Back, U!Do
    <3>2. Smaller(U!Without(U!Closed(s, z), job[s].to), U!Closed(s, z))
      BY <2>3, <2>5, SmallerWithout
    <3>3. Smaller(dir', U!Closed(s, z))
      BY <3>1, <3>2
    <3>4. PICK j : j = U!Idle("list")
      OBVIOUS
    <3>5. QED
      BY <1>2, <2>1, <2>5, <3>1, <3>3, <3>4, FilesFinish
  <2>6. QED
    BY <1>11, <2>4, <2>5 DEF U!WriteTemp
<1>12. CASE U!RenameTemp(s)
  <2>1. job[s].step = "rename" /\ job[s].name \in U!Entries
    BY <1>1, <1>12 DEF U!RenameTemp, U!At, JobFits, U!Entries
  <2>2. CASE /\ job[s].to \in DOMAIN dir /\ dir' = U!Renamed(dir, job[s].to, job[s].name)
             /\ U!Back(s)
    <3>1. Smaller(U!Renamed(dir, job[s].to, job[s].name), dir)
      BY <1>1, <2>1, <2>2, SmallerRenamed
    <3>2. QED
      BY <1>4, <2>1, <2>2, <3>1
  <2>3. CASE U!RemoveTemp(s, dir)
    <3>1. Smaller(U!Without(dir, job[s].to), dir)
      BY <1>1, SmallerWithout
    <3>2. QED
      BY <1>4, <2>1, <2>3, <3>1 DEF U!RemoveTemp
  <2>4. QED
    BY <1>12, <2>2, <2>3 DEF U!RenameTemp
<1>13. CASE U!Delete(s)
  <2>1. PICK e : dir' = U!Without(dir, e)
    BY <1>13 DEF U!Delete
  <2>2. Smaller(U!Without(dir, e), dir)
    BY <1>1, SmallerWithout
  <2>3. job[s].step # "write" /\ U!Back(s)
    BY <1>13 DEF U!Delete, U!At
  <2>4. QED
    BY <1>4, <2>1, <2>2, <2>3
<1>14. CASE U!StartRename(s)
  <2>1. PICK e \in job[s].shown, nm \in Names : U!Do(s, [U!Idle("stat") EXCEPT !.name = e, !.to = nm])
    BY <1>14 DEF U!StartRename
  <2> DEFINE j == [U!Idle("stat") EXCEPT !.name = e, !.to = nm]
  <2>2. e \in U!Entries /\ nm \in U!Entries
    BY <1>1 DEF U!Jobs, U!Entries
  <2>3. JobFits(j) /\ j.step = "stat"
    BY <2>2 DEF JobFits, U!Idle, U!Jobs
  <2>4. job[s].step # "write" /\ UNCHANGED dir /\ U!Do(s, j)
    BY <1>14, <2>1 DEF U!StartRename, U!At
  <2> HIDE DEF j
  <2>5. QED
    BY <1>5, <2>3, <2>4
<1>15. CASE U!StatTarget(s)
  <2>1. job[s].step = "stat" /\ UNCHANGED dir
    BY <1>15 DEF U!StatTarget, U!At
  <2>2. CASE U!Back(s)
    BY <1>3, <1>4, <2>1, <2>2
  <2>3. CASE U!Do(s, [job[s] EXCEPT !.step = "move"])
    <3> DEFINE j == [job[s] EXCEPT !.step = "move"]
    <3>1. JobFits(j) /\ j.step = "move"
      BY <1>1, <2>1 DEF JobFits, U!Jobs
    <3>2. U!Do(s, j)
      BY <2>3
    <3> HIDE DEF j
    <3>3. QED
      BY <1>5, <2>1, <3>1, <3>2
  <2>4. QED
    BY <1>15, <2>2, <2>3 DEF U!StatTarget
<1>16. CASE U!RenameFile(s)
  <2>1. /\ job[s].step = "move" /\ job[s].to \in U!Entries /\ U!Back(s)
        /\ dir' = IF job[s].name \in DOMAIN dir THEN U!Renamed(dir, job[s].name, job[s].to) ELSE dir
    BY <1>1, <1>16 DEF U!RenameFile, U!At, JobFits, U!Entries
  <2>2. CASE job[s].name \in DOMAIN dir
    <3>1. Smaller(U!Renamed(dir, job[s].name, job[s].to), dir)
      BY <1>1, <2>1, <2>2, SmallerRenamed
    <3>2. QED
      BY <1>4, <2>1, <2>2, <3>1
  <2>3. CASE job[s].name \notin DOMAIN dir
    BY <1>3, <1>4, <2>1, <2>3
  <2>4. QED
    BY <2>2, <2>3
<1>17. CASE U!Leave(s)
  <2>1. job[s].step # "write" /\ UNCHANGED dir /\ U!Do(s, U!Idle("away"))
    BY <1>17 DEF U!Leave, U!At
  <2>2. PICK j : j = U!Idle("away")
    OBVIOUS
  <2>3. QED
    BY <1>2, <1>5, <2>1, <2>2
<1>18. QED
  BY <1>6, <1>7, <1>8, <1>9, <1>10, <1>11, <1>12, <1>13, <1>14, <1>15, <1>16, <1>17 DEF U!Session

LEMMA FilesStep ==
  ASSUME U!UserFilesAssumption, FilesIInv, U!Next \/ UNCHANGED userVars
  PROVE  FilesIInv'
<1>1. CASE U!Crash
  BY <1>1, FilesCrash
<1>2. ASSUME NEW s \in Sessions, U!Session(s) PROVE FilesIInv'
  BY <1>2, FilesSession
<1>3. CASE UNCHANGED userVars
  <2>1. dir' = dir /\ job' = job
    BY <1>3 DEF userVars
  <2>2. QED
    BY <2>1 DEF FilesIInv
<1>4. QED
  BY <1>1, <1>2, <1>3 DEF U!Next

LEMMA FilesInvariant == StoresSpec => [](explored = "userfiles" => FilesIInv)
<1>1. StoresInit => (explored = "userfiles" => FilesIInv)
  BY StoresAssumption, FilesInit DEF StoresInit
<1>2. (explored = "userfiles" => FilesIInv) /\ [StoresNext]_all => (explored = "userfiles" => FilesIInv)'
  <2> SUFFICES ASSUME explored = "userfiles" => FilesIInv, [StoresNext]_all, explored' = "userfiles"
               PROVE  FilesIInv'
    OBVIOUS
  <2>1. explored = "userfiles" /\ (U!Next \/ UNCHANGED userVars)
    BY DEF StoresNext, OthersStay, In, all
  <2>2. QED
    BY <2>1, StoresAssumption, FilesStep
<1>3. QED
  BY <1>1, <1>2, PTL DEF StoresSpec

(* The files written as a whole and the grids keep their invariants there. *)
LEMMA FileAndGridInvariant ==
  StoresSpec => []((explored = "atomicfile" => FileIInv) /\ (explored = "grid" => GridIInv))
<1>1. StoresInit => (explored = "atomicfile" => FileIInv) /\ (explored = "grid" => GridIInv)
  BY StoresAssumption, InitIInv, InitInv DEF StoresInit
<1>2. (explored = "atomicfile" => FileIInv) /\ [StoresNext]_all => (explored = "atomicfile" => FileIInv)'
  <2> SUFFICES ASSUME explored = "atomicfile" => FileIInv, [StoresNext]_all, explored' = "atomicfile"
               PROVE  FileIInv'
    OBVIOUS
  <2>1. explored = "atomicfile" /\ (Next \/ UNCHANGED vars)
    BY DEF StoresNext, OthersStay, In, all
  <2>2. QED
    BY <2>1, Inductive
<1>3. (explored = "grid" => GridIInv) /\ [StoresNext]_all => (explored = "grid" => GridIInv)'
  <2> SUFFICES ASSUME explored = "grid" => GridIInv, [StoresNext]_all, explored' = "grid"
               PROVE  GridIInv'
    OBVIOUS
  <2>1. explored = "grid" /\ (GridNext \/ UNCHANGED gridVars)
    BY DEF StoresNext, OthersStay, In, all
  <2>2. QED
    BY <2>1, StoresAssumption, StepInv
<1>4. QED
  BY <1>1, <1>2, <1>3, PTL DEF StoresSpec

(* For any quota, any sizes and any number of sessions of a member: whatever
   the checks and the writes that cross, the files renamed or deleted while
   they are written and the times the server dies in the middle, the quota is
   exceeded by one file for each session at most. *)
THEOREM QuotaHoldsButForRacers == StoresSpec => []QuotaWithinRacers
<1>1. ASSUME FilesIInv PROVE U!TypeOK /\ U!QuotaWithinRacers
  <2>1. U!UserFilesAssumption
    BY StoresAssumption DEF StoresAssumption
  <2>2. U!TypeOK
    BY <1>1 DEF FilesIInv, Directory, U!TypeOK
  <2>3. /\ Cardinality(DOMAIN dir) \in Nat /\ Weight(dir) \in Nat
        /\ Cardinality(Creating(job)) \in Nat /\ Weight(Owed(job)) \in Nat
    BY <1>1, <2>1, FilesCounted DEF FilesIInv
  <2>4. /\ Cardinality(Sessions) \in Nat /\ Cardinality(Sessions) * MaxUpload \in Nat
        /\ MaxFiles \in Nat /\ MaxBytes \in Nat
    BY <2>1, FilesConstants
  <2>5. MaxFiles > 0 => Cardinality(DOMAIN dir) <= MaxFiles + Cardinality(Sessions)
    <3>1. MaxFiles > 0 =>
            Cardinality(DOMAIN dir) + Cardinality(Creating(job)) <= MaxFiles + Cardinality(Sessions)
      BY <1>1 DEF FilesIInv, Within
    <3>2. QED
      BY <2>3, <2>4, <3>1
  <2>6. MaxBytes > 0 /\ MaxUpload > 0 => Weight(dir) <= MaxBytes + Cardinality(Sessions) * MaxUpload
    <3>1. MaxBytes > 0 /\ MaxUpload > 0 =>
            Weight(dir) + Weight(Owed(job)) <= MaxBytes + Cardinality(Sessions) * MaxUpload
      BY <1>1 DEF FilesIInv, Within
    <3>2. QED
      BY <2>3, <2>4, <3>1
  <2>7. /\ U!Used(dir) = Weight(dir) /\ U!Cardinality(Sessions) = Cardinality(Sessions)
        /\ U!Cardinality(DOMAIN dir) = Cardinality(DOMAIN dir)
    BY UserSets DEF U!Used, Weight
  <2>8. U!QuotaWithinRacers
    BY <2>5, <2>6, <2>7 DEF U!QuotaWithinRacers
  <2>9. QED
    BY <2>2, <2>8
<1>2. /\ explored = "userfiles" => FilesIInv
      /\ explored = "atomicfile" => FileIInv
      /\ explored = "grid" => GridIInv
      => QuotaWithinRacers
  BY <1>1 DEF QuotaWithinRacers, FileIInv, GridIInv
<1>3. QED
  BY <1>2, FilesInvariant, FileAndGridInvariant, PTL
=============================================================================
