------------------------------ MODULE Presence ------------------------------
(***************************************************************************)
(* The registry of connected callers and its chat: one session per caller  *)
(* process, which joins, enters and leaves the chat and disconnects.  Each *)
(* operation of the registry runs under its mutex and is one step; the     *)
(* sessions interleave between them.  A message is its number in the order *)
(* of publication.                                                         *)
(***************************************************************************)
EXTENDS Integers, Sequences, FiniteSets

CONSTANTS
  Callers,       (* sessions that may be connected at the same time         *)
  BacklogSize,   (* messages recalled to a newcomer (12)                    *)
  SubBuffer,     (* capacity of the channel of a subscriber (32)            *)
  MaxSeq,        (* bound of the exploration: sessions that may be opened   *)
  MaxLog         (* bound of the exploration: no new text or entry after it *)

ASSUME PresenceAssumption ==
  /\ BacklogSize \in Nat \ {0} /\ SubBuffer \in Nat \ {0}
  /\ MaxSeq \in Nat /\ MaxLog \in Nat

VARIABLES
  seq,           (* last identifier given                                   *)
  members,       (* identifiers in the registry                             *)
  named,         (* those whose handle has been set by a login              *)
  sub,           (* the channel of each subscribed identifier: its contents *)
  backlog,       (* the latest messages                                     *)
  log,           (* author and kind of every message (history)              *)
  phase,         (* where the session of each caller is                     *)
  id,            (* the identifier Join gave it                             *)
  heard,         (* messages received since it entered the chat (history)   *)
  missed         (* messages its full channel refused (history)             *)

registry == <<seq, members, named, sub, backlog, log>>
session == <<phase, id, heard>>
vars == <<registry, session, missed>>

InChat == {"entering", "chatting", "leaving", "unsubscribing"}
Phases == InChat \cup {"gone", "menu"}
Kinds == {"joined", "text", "left"}

Messages == 1..Len(log)
Subscribed == DOMAIN sub

TypeOK ==
  /\ seq \in Nat
  /\ members \subseteq 1..seq
  /\ named \subseteq 1..seq
  /\ Subscribed \subseteq 1..seq
  /\ \A m \in Subscribed : sub[m] \in Seq(Messages)
  /\ backlog \in Seq(Messages)
  /\ log \in Seq([from : 1..seq, kind : Kinds])
  /\ phase \in [Callers -> Phases]
  /\ id \in [Callers -> 0..seq]
  /\ heard \in [Callers -> Seq(Messages)]
  /\ missed \in [Callers -> SUBSET Messages]

Init ==
  /\ seq = 0 /\ members = {} /\ named = {}
  /\ sub = <<>> /\ backlog = <<>> /\ log = <<>>
  /\ phase = [c \in Callers |-> "gone"]
  /\ id = [c \in Callers |-> 0]
  /\ heard = [c \in Callers |-> <<>>]
  /\ missed = [c \in Callers |-> {}]

-----------------------------------------------------------------------------
(* Registry *)

(* The last n elements of s. *)
Latest(s, n) == SubSeq(s, Len(s) - n + 1, Len(s))

Trim(s) == IF Len(s) > BacklogSize THEN Latest(s, BacklogSize) ELSE s

Full(m) == Len(sub[m]) >= SubBuffer

(* Mutants: the author is left out; a full channel is waited for. *)
PublishToOthers(from, kind) ==
  LET n == Len(log) + 1 IN
  /\ log' = Append(log, [from |-> from, kind |-> kind])
  /\ backlog' = Trim(Append(backlog, n))
  /\ sub' = [m \in Subscribed |-> IF Full(m) \/ m = from THEN sub[m] ELSE Append(sub[m], n)]
  /\ missed' = [c \in Callers |->
       IF phase[c] \in InChat /\ id[c] \in Subscribed /\ Full(id[c])
       THEN missed[c] \cup {n} ELSE missed[c]]
  /\ UNCHANGED <<seq, members, named>>

PublishWaiting(from, kind) ==
  LET n == Len(log) + 1 IN
  /\ \A m \in Subscribed : ~ Full(m)
  /\ log' = Append(log, [from |-> from, kind |-> kind])
  /\ backlog' = Trim(Append(backlog, n))
  /\ sub' = [m \in Subscribed |-> Append(sub[m], n)]
  /\ UNCHANGED <<seq, members, named, missed>>

(* Record, then send to every subscriber, the author included; a full
   channel is skipped, never waited for. *)
Publish(from, kind) ==
  LET n == Len(log) + 1 IN
  /\ log' = Append(log, [from |-> from, kind |-> kind])
  /\ backlog' = Trim(Append(backlog, n))
  /\ sub' = [m \in Subscribed |-> IF Full(m) THEN sub[m] ELSE Append(sub[m], n)]
  /\ missed' = [c \in Callers |->
       IF phase[c] \in InChat /\ id[c] \in Subscribed /\ Full(id[c])
       THEN missed[c] \cup {n} ELSE missed[c]]
  /\ UNCHANGED <<seq, members, named>>

(* A new empty channel for m, and a copy of the backlog, in one step. *)
Subscribe(c) ==
  /\ sub' = [m \in Subscribed \cup (members \cap {id[c]}) |-> IF m = id[c] THEN <<>> ELSE sub[m]]
  /\ heard' = [heard EXCEPT ![c] = backlog]
  /\ missed' = [missed EXCEPT ![c] = {}]
  /\ UNCHANGED <<seq, members, named, backlog, log>>

Unsubscribe(c) ==
  /\ sub' = [m \in Subscribed \ {id[c]} |-> sub[m]]
  /\ UNCHANGED <<seq, members, named, backlog, log>>

-----------------------------------------------------------------------------
(* Sessions *)

Move(c, from, to) == phase[c] = from /\ phase' = [phase EXCEPT ![c] = to]

Join(c) ==
  /\ seq < MaxSeq
  /\ Move(c, "gone", "menu")
  /\ seq' = seq + 1
  /\ members' = members \cup {seq'}
  /\ id' = [id EXCEPT ![c] = seq']
  /\ UNCHANGED <<named, sub, backlog, log, heard, missed>>

(* The login, guest and registration applets give the session its handle;
   a departed member is not brought back. *)
SetHandle(c) ==
  /\ phase[c] = "menu" /\ id[c] \notin named
  /\ named' = IF id[c] \in members THEN named \cup {id[c]} ELSE named
  /\ UNCHANGED <<seq, members, sub, backlog, log, session, missed>>

EnterChat(c) ==
  /\ Len(log) < MaxLog
  /\ Move(c, "menu", "entering")
  /\ Subscribe(c)
  /\ UNCHANGED id

(* The recall has been written to the client; the arrival is published. *)
AnnounceArrival(c) ==
  /\ Move(c, "entering", "chatting")
  /\ Publish(id[c], "joined")
  /\ UNCHANGED <<id, heard>>

(* Mutant: the message stays in the channel. *)
DrainWithoutReceiving(c) ==
  /\ phase[c] = "chatting" /\ sub[id[c]] # <<>> /\ Len(heard[c]) < MaxLog
  /\ heard' = [heard EXCEPT ![c] = Append(@, Head(sub[id[c]]))]
  /\ UNCHANGED <<registry, phase, id, missed>>

(* One turn of the draining loop. *)
Drain(c) ==
  /\ phase[c] = "chatting" /\ sub[id[c]] # <<>>
  /\ heard' = [heard EXCEPT ![c] = Append(@, Head(sub[id[c]]))]
  /\ sub' = [sub EXCEPT ![id[c]] = Tail(@)]
  /\ UNCHANGED <<seq, members, named, backlog, log, phase, id, missed>>

Say(c) ==
  /\ phase[c] = "chatting"
  /\ Len(log) < MaxLog
  /\ Publish(id[c], "text")
  /\ UNCHANGED session

(* Mutant: the departure is not announced. *)
QuitSilently(c) ==
  /\ Move(c, "chatting", "unsubscribing")
  /\ UNCHANGED <<registry, id, heard, missed>>

(* /q, a lost connection or the shutdown: the deferred calls begin. *)
QuitChat(c) ==
  /\ Move(c, "chatting", "leaving")
  /\ UNCHANGED <<registry, id, heard, missed>>

AnnounceDeparture(c) ==
  /\ Move(c, "leaving", "unsubscribing")
  /\ Publish(id[c], "left")
  /\ UNCHANGED <<id, heard>>

LeaveChat(c) ==
  /\ Move(c, "unsubscribing", "menu")
  /\ Unsubscribe(c)
  /\ heard' = [heard EXCEPT ![c] = <<>>]
  /\ missed' = [missed EXCEPT ![c] = {}]
  /\ UNCHANGED id

(* Mutant: the member stays listed. *)
LeaveListed(c) ==
  /\ Move(c, "menu", "gone")
  /\ sub' = [m \in Subscribed \ {id[c]} |-> sub[m]]
  /\ UNCHANGED <<seq, members, named, backlog, log, id, heard, missed>>

(* The member is deleted with its handle and any channel it had. *)
Leave(c) ==
  /\ Move(c, "menu", "gone")
  /\ members' = members \ {id[c]}
  /\ named' = named \ {id[c]}
  /\ sub' = [m \in Subscribed \ {id[c]} |-> sub[m]]
  /\ UNCHANGED <<seq, backlog, log, id, heard, missed>>

Next ==
  \E c \in Callers :
    \/ Join(c) \/ SetHandle(c) \/ EnterChat(c) \/ AnnounceArrival(c) \/ Drain(c)
    \/ Say(c) \/ QuitChat(c) \/ AnnounceDeparture(c) \/ LeaveChat(c) \/ Leave(c)

Spec == Init /\ [][Next]_vars

(***************************************************************************)
(* A session whose applet is returning goes on by itself: it only calls    *)
(* the registry, under its mutex.  The loop of a chatting session comes    *)
(* round every 250 ms to drain its channel.  Nothing is assumed of clients.*)
(***************************************************************************)
FairSpec ==
  /\ Spec
  /\ \A c \in Callers : WF_vars(AnnounceArrival(c) \/ AnnounceDeparture(c) \/ LeaveChat(c))
  /\ \A c \in Callers : WF_vars(Drain(c))

-----------------------------------------------------------------------------
(* Properties *)

(* The types hold and the registry agrees with the sessions, whichever enter, leave and
   disconnect: it lists exactly the connected ones, who has a channel is
   exactly who is in the chat (nothing is sent to a session that has left, no
   channel outlives its session), and no identifier is shared. *)
RegistryAgrees ==
  /\ TypeOK
  /\ Subscribed = {id[c] : c \in {d \in Callers : phase[d] \in InChat}}
  /\ members = {id[c] : c \in {d \in Callers : phase[d] # "gone"}}
  /\ \A c, d \in Callers : c # d /\ phase[c] # "gone" /\ phase[d] # "gone" => id[c] # id[d]

(* The recall is the end of the log, and from the first message recalled to
   a caller up to the last published, every message has been shown to it,
   waits in its channel, or was refused by its full channel: subscribing
   leaves no gap between recall and channel. *)
NothingSlipsThrough ==
  /\ backlog = Trim([i \in Messages |-> i])
  /\ \A c \in Callers : phase[c] \in InChat /\ heard[c] # <<>> =>
       heard[c][1] .. Len(log) =
         {heard[c][i] : i \in 1..Len(heard[c])} \cup missed[c]
           \cup {sub[id[c]][i] : i \in 1..Len(sub[id[c]])}

(* In the log every session's arrival and departure alternate, and a session
   has announced its arrival and not its departure exactly while it chats. *)
Announced(m, kind) == Cardinality({i \in Messages : log[i].from = m /\ log[i].kind = kind})
ArrivalsMatchDepartures ==
  \A m \in 1..seq :
    Announced(m, "joined") - Announced(m, "left") =
      IF \E c \in Callers : id[c] = m /\ phase[c] \in {"chatting", "leaving"} THEN 1 ELSE 0

(* The registry implements the broadcast. *)
B == INSTANCE Broadcast WITH published <- Len(log)
ImplementsBroadcast == B!BSpec

(* A session that leaves the chat is through in the end, whether or not the
   other sessions read: publishing never waits for a slow subscriber. *)
LeavingCompletes == \A c \in Callers : phase[c] = "leaving" ~> phase[c] = "menu"
=============================================================================
