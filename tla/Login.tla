-------------------------------- MODULE Login --------------------------------
(***************************************************************************)
(* Identification: the accounts, in memory and on disk, the limiter of     *)
(* failed attempts per address, and the sessions that go through the login *)
(* and registration screens, either the applets or the forms of the site.  *)
(* Each operation of a store runs under its mutex; sessions interleave     *)
(* between asking the limiter, verifying and recording the outcome.        *)
(***************************************************************************)
EXTENDS Integers, FiniteSets, Sequences

CONSTANTS
  Sessions, IPs, IPOf,   (* concurrent sessions and their addresses          *)
  Handles,               (* normalised names                                 *)
  MaxFailures,           (* failures allowed in a window (5)                 *)
  Window,                (* length of the sliding window, in ticks (5 min)   *)
  maxLoginAttempts,      (* attempts of one pass through a screen (3)        *)
  NoUser,
  MaxCalls               (* bound of the exploration: calls of an account    *)

LoginAssumption ==
  /\ IsFiniteSet(Sessions)
  /\ IPOf \in [Sessions -> IPs]
  /\ NoUser \notin Handles
  /\ MaxFailures \in Nat \ {0} /\ Window \in Nat \ {0} /\ maxLoginAttempts \in Nat \ {0}
  /\ MaxCalls \in Nat

VARIABLES
  users, file,   (* the accounts in memory and on disk: name -> account      *)
  fails,         (* the age of the recent failures of each address           *)
  pc,            (* where each session is                                    *)
  attempt,       (* its attempt in the current screen                        *)
  user,          (* the account it is identified as (SessionState.User)      *)
  greeted,       (* highest call number shown for each name (history)        *)
  quiet          (* ticks since an address failed last (history)             *)

store == <<users, file>>
vars == <<store, fails, pc, attempt, user, greeted, quiet>>

Account == [calls : 0..MaxCalls, admin : BOOLEAN]
Accounts == UNION {[H -> Account] : H \in SUBSET Handles}

Steps == {"menu", "screen", "through", "failed", "accepted"}

TypeOK ==
  /\ users \in Accounts /\ file \in Accounts
  /\ \A ip \in IPs : fails[ip] \in Seq(0..Window - 1)
  /\ pc \in [Sessions -> [at : Steps, form : BOOLEAN]]
  /\ attempt \in [Sessions -> 0..maxLoginAttempts]
  /\ user \in [Sessions -> Handles \cup {NoUser}]
  /\ greeted \in [Handles -> 0..MaxCalls]
  /\ quiet \in [IPs -> 0..Window]

Nobody ==
  /\ pc = [s \in Sessions |-> [at |-> "menu", form |-> FALSE]]
  /\ attempt = [s \in Sessions |-> 0]
  /\ user = [s \in Sessions |-> NoUser]

Init ==
  /\ users = <<>> /\ file = <<>>
  /\ fails = [ip \in IPs |-> <<>>]
  /\ Nobody
  /\ greeted = [h \in Handles |-> 0]
  /\ quiet = [ip \in IPs |-> Window]

-----------------------------------------------------------------------------
(* Limiter *)

Allowed(ip) == Len(fails[ip]) < MaxFailures

(* Mutant: the failure is recorded twice. *)
FailTwice(ip) == fails' = [fails EXCEPT ![ip] = @ \o <<0, 0>>]

Fail(ip) == fails' = [fails EXCEPT ![ip] = Append(@, 0)]

Reset(ip) == fails' = [fails EXCEPT ![ip] = <<>>]

(* Time passes: what leaves the window no longer counts.  A failure is
   appended at its instant, so those that leave are the first. *)
Expired(ages, first) == {i \in 1..Len(ages) : ages[i] + 1 >= first}

Aged(ages, gone) == [i \in 1..Len(ages) - gone |-> ages[gone + i] + 1]

(* Mutant: a failure counts one tick too long. *)
recentInclusive(ages) == Aged(ages, Cardinality(Expired(ages, Window + 1)))

recent(ages) == Aged(ages, Cardinality(Expired(ages, Window)))

Tick ==
  /\ fails' = [ip \in IPs |-> recent(fails[ip])]
  /\ quiet' = [ip \in IPs |-> IF quiet[ip] < Window THEN quiet[ip] + 1 ELSE Window]
  /\ UNCHANGED <<store, pc, attempt, user, greeted>>

-----------------------------------------------------------------------------
(* Screens.  The applet asks the limiter before it prompts, the form after. *)

At(s, step) == pc[s].at = step
Goto(s, step) == pc' = [pc EXCEPT ![s].at = step]

OpenScreen(s) ==
  /\ At(s, "menu")
  /\ \E form \in BOOLEAN : pc' = [pc EXCEPT ![s] = [at |-> "screen", form |-> form]]
  /\ attempt' = [attempt EXCEPT ![s] = 1]
  /\ UNCHANGED <<store, fails, user, greeted, quiet>>

(* The next attempt, or back to the menu after the last. *)
Again(s) ==
  IF attempt[s] < maxLoginAttempts
  THEN attempt' = [attempt EXCEPT ![s] = @ + 1] /\ Goto(s, "screen")
  ELSE attempt' = [attempt EXCEPT ![s] = 0] /\ Goto(s, "menu")

BackToMenu(s) == attempt' = [attempt EXCEPT ![s] = 0] /\ Goto(s, "menu")

Typing(s) == At(s, IF pc[s].form THEN "screen" ELSE "through")

(* An empty name. *)
CancelScreen(s) ==
  /\ Typing(s) /\ BackToMenu(s)
  /\ UNCHANGED <<store, fails, user, greeted, quiet>>

LetThrough(s) ==
  /\ At(s, "screen") /\ Allowed(IPOf[s])
  /\ Goto(s, "through")
  /\ UNCHANGED <<store, fails, attempt, user, greeted, quiet>>

(* A throttled applet fails at once, a throttled form spends an attempt. *)
Throttled(s) ==
  /\ At(s, "screen") /\ ~ Allowed(IPOf[s])
  /\ IF pc[s].form THEN Again(s) ELSE BackToMenu(s)
  /\ UNCHANGED <<store, fails, user, greeted, quiet>>

(* Verified, then counted and saved under the same lock; a save that fails
   is an error like a wrong password, but the call stays counted. *)
Authenticate(s) ==
  /\ At(s, "through")
  /\ \/ Goto(s, "failed") /\ UNCHANGED <<store, user, greeted>>
     \/ \E h \in DOMAIN users :
          /\ users[h].calls < MaxCalls
          /\ users' = [users EXCEPT ![h].calls = @ + 1]
          /\ \/ /\ file' = users'
                /\ Goto(s, "accepted")
                /\ user' = [user EXCEPT ![s] = h]
                /\ greeted' = [greeted EXCEPT ![h] = users'[h].calls]
             \/ Goto(s, "failed") /\ UNCHANGED <<file, user, greeted>>
  /\ UNCHANGED <<fails, attempt, quiet>>

RecordFailure(s) ==
  /\ At(s, "failed")
  /\ Fail(IPOf[s]) /\ Again(s)
  /\ quiet' = [quiet EXCEPT ![IPOf[s]] = 0]
  /\ UNCHANGED <<store, user, greeted>>

RecordSuccess(s) ==
  /\ At(s, "accepted")
  /\ Reset(IPOf[s]) /\ BackToMenu(s)
  /\ UNCHANGED <<store, user, greeted, quiet>>

(* Mutants: the error of the save is ignored; the account that cannot be
   saved stays in memory, and the first account is looked for in the file. *)
RegisterUnsaved(s) ==
  /\ At(s, "menu")
  /\ \E h \in Handles \ DOMAIN users :
       LET new == [calls |-> 0, admin |-> DOMAIN users = {}] IN
       /\ users' = [g \in DOMAIN users \cup {h} |-> IF g = h THEN new ELSE users[g]]
       /\ file' = users' \/ UNCHANGED file
       /\ user' = [user EXCEPT ![s] = h]
  /\ UNCHANGED <<fails, pc, attempt, greeted, quiet>>

RegisterRefusedStays(s) ==
  /\ At(s, "menu")
  /\ \E h \in Handles \ DOMAIN users :
       LET new == [calls |-> 0, admin |-> DOMAIN file = {}] IN
       /\ users' = [g \in DOMAIN users \cup {h} |-> IF g = h THEN new ELSE users[g]]
       /\ \/ file' = users' /\ user' = [user EXCEPT ![s] = h]
          \/ UNCHANGED <<file, user>>
  /\ UNCHANGED <<fails, pc, attempt, greeted, quiet>>

(* Registration asks the limiter nothing.  The very first account is the
   sysop's; an account that cannot be saved is taken back. *)
Register(s) ==
  /\ At(s, "menu")
  /\ \E h \in Handles \ DOMAIN users :
       LET new == [calls |-> 0, admin |-> DOMAIN users = {}] IN
       \/ /\ users' = [g \in DOMAIN users \cup {h} |-> IF g = h THEN new ELSE users[g]]
          /\ file' = users'
          /\ user' = [user EXCEPT ![s] = h]
       \/ UNCHANGED <<store, user>>
  /\ UNCHANGED <<fails, pc, attempt, greeted, quiet>>

(* The session ends and its place is taken by another caller's. *)
Disconnect(s) ==
  /\ At(s, "menu") \/ Typing(s)
  /\ BackToMenu(s)
  /\ user' = [user EXCEPT ![s] = NoUser]
  /\ UNCHANGED <<store, fails, greeted, quiet>>

(* A crash and a restart: sessions and failures are forgotten. *)
Crash ==
  /\ users' = file
  /\ fails' = [ip \in IPs |-> <<>>] /\ quiet' = [ip \in IPs |-> Window]
  /\ pc' = [s \in Sessions |-> [at |-> "menu", form |-> FALSE]]
  /\ attempt' = [s \in Sessions |-> 0]
  /\ user' = [s \in Sessions |-> NoUser]
  /\ UNCHANGED <<file, greeted>>

Next ==
  \/ Tick \/ Crash
  \/ \E s \in Sessions :
       \/ OpenScreen(s) \/ CancelScreen(s) \/ LetThrough(s) \/ Throttled(s)
       \/ Authenticate(s) \/ RecordFailure(s) \/ RecordSuccess(s)
       \/ Register(s) \/ Disconnect(s)

Spec == Init /\ [][Next]_vars

-----------------------------------------------------------------------------
(* Properties *)

Sharing(ip) == Cardinality({s \in Sessions : IPOf[s] = ip})

(* The types hold.  Asking and recording are apart, so sessions of one
   address may together pass the limit: by one failure each, beyond the
   first, and never more. *)
FailuresBounded ==
  /\ TypeOK
  /\ \A ip \in IPs : Len(fails[ip]) <= MaxFailures + (Sharing(ip) - 1)

Sysops(accounts) == {h \in DOMAIN accounts : accounts[h].admin}

(* There is one automatic sysop as soon as there is an account, in memory
   and on disk, whichever registrations raced, failed or were lost. *)
OneSysop ==
  \A accounts \in {users, file} :
    accounts # <<>> => Cardinality(Sysops(accounts)) = 1

(* Whoever is identified has an account a restart would find again, with the
   same rights; a call number that was shown is on the disk, so that no crash
   and no failed save makes it shown again. *)
IdentifiedAreDurable ==
  /\ \A s \in Sessions : user[s] # NoUser =>
       /\ user[s] \in DOMAIN users /\ user[s] \in DOMAIN file
       /\ users[user[s]].admin = file[user[s]].admin
  /\ \A h \in Handles : greeted[h] > 0 =>
       h \in DOMAIN file /\ greeted[h] <= file[h].calls /\ file[h].calls <= users[h].calls

(* An address that used up its attempts gets new ones a window after its last
   failure, however eagerly its sessions go on trying in the meantime. *)
QuotaComesBack == \A ip \in IPs : quiet[ip] = Window => Allowed(ip)
=============================================================================
