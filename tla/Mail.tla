-------------------------------- MODULE Mail --------------------------------
(***************************************************************************)
(* Private mail: the store of messages, its file, and the members who read *)
(* and write from the screens of the applet.  A screen works on the copy   *)
(* of the inbox it displayed last, while other sessions send messages,     *)
(* mark them read and push old ones out of the store.  A message is marked *)
(* read, and saved, before its text is written: the session may end in     *)
(* between.  A text is displayed when writing it to the connection succeeds.*)
(***************************************************************************)
EXTENDS Integers, Sequences, FiniteSets

CONSTANTS
  Sessions,      (* sessions using the mail at a time                    *)
  Members, Me,   (* the accounts, and the account of each session        *)
  MaxMessages,   (* messages kept for all members together (1000)        *)
  MaxSends       (* bound of the exploration: messages that are sent     *)

MailAssumption ==
  /\ Me \in [Sessions -> Members]
  /\ MaxMessages \in Nat \ {0} /\ MaxSends \in Nat

VARIABLES
  msgs, nextID,  (* the store in memory, oldest message first            *)
  file,          (* what the file holds of both                          *)
  screen,        (* the screen of each session                           *)
  box,           (* the inbox it displayed last, newest message first    *)
  shown,         (* the message it is reading, or replying to            *)
  sent,          (* every message that reached the file (history)        *)
  opened,        (* <<member, identifier>> of texts displayed (history)  *)
  cut,           (* of those whose session ended first (history)         *)
  attempts       (* calls of Send so far                                 *)

sessions == <<screen, box, shown>>
history == <<sent, opened, cut, attempts>>
vars == <<msgs, nextID, file, sessions, history>>

NoMessage == [id |-> 0]
Message == [id : 1..MaxSends + 1, from : Members, to : Members, read : BOOLEAN]

TypeOK ==
  /\ msgs \in Seq(Message) /\ Len(msgs) <= MaxMessages
  /\ nextID \in 1..MaxSends + 1
  /\ file.messages \in Seq(Message) /\ file.next \in 0..MaxSends + 1
  /\ screen \in [Sessions -> {"away", "inbox", "opening", "message", "compose"}]
  /\ \A s \in Sessions : box[s] \in Seq(Message)
  /\ shown \in [Sessions -> Message \cup {NoMessage}]
  /\ sent \in Seq(Message)
  /\ opened \subseteq Members \X (1..MaxSends) /\ cut \subseteq Members \X (1..MaxSends)
  /\ attempts \in 0..MaxSends

Away ==
  /\ screen = [s \in Sessions |-> "away"]
  /\ box = [s \in Sessions |-> <<>>]
  /\ shown = [s \in Sessions |-> NoMessage]

Init ==
  /\ msgs = <<>> /\ nextID = 1
  /\ file = [next |-> 0, messages |-> <<>>]
  /\ Away
  /\ sent = <<>> /\ opened = {} /\ cut = {} /\ attempts = 0

-----------------------------------------------------------------------------
(* Store *)

Trim(q) == IF Len(q) > MaxMessages THEN SubSeq(q, Len(q) - MaxMessages + 1, Len(q)) ELSE q

Received(m) == {i \in 1..Len(msgs) : msgs[i].to = m}

(* The k-th from the end of the messages to m. *)
KthLast(m, k) ==
  CHOOSE i \in Received(m) : Cardinality({j \in Received(m) : j >= i}) = k

Inbox(m) == [k \in 1..Cardinality(Received(m)) |-> msgs[KthLast(m, k)]]

saved == file' = [next |-> nextID', messages |-> msgs']

New(m, to) == [id |-> nextID, from |-> m, to |-> to, read |-> FALSE]

(* Mutant: no rollback. *)
SendKeeping(m, to) ==
  /\ attempts < MaxSends /\ attempts' = attempts + 1
  /\ nextID' = nextID + 1
  /\ msgs' = Trim(Append(msgs, New(m, to)))
  /\ \/ saved /\ sent' = Append(sent, New(m, to))
     \/ UNCHANGED <<file, sent>>
  /\ UNCHANGED <<opened, cut>>

(* A number is used up even if the message cannot be saved. *)
Send(m, to) ==
  /\ attempts < MaxSends /\ attempts' = attempts + 1
  /\ nextID' = nextID + 1
  /\ LET added == Trim(Append(msgs, New(m, to))) IN
       \/ msgs' = added /\ saved /\ sent' = Append(sent, New(m, to))
       \/ msgs' = SubSeq(added, 1, Len(added) - 1) /\ UNCHANGED <<file, sent>>
  /\ UNCHANGED <<opened, cut>>

(* Mutant: every message of the inbox is marked. *)
MarkedAll(q, m, id) ==
  [i \in 1..Len(q) |-> IF q[i].to = m THEN [q[i] EXCEPT !.read = TRUE] ELSE q[i]]

Marked(q, m, id) ==
  [i \in 1..Len(q) |-> IF q[i].id = id /\ q[i].to = m THEN [q[i] EXCEPT !.read = TRUE] ELSE q[i]]

(* Saved if it changes something; the caller ignores a failure. *)
MarkRead(m, id) ==
  /\ msgs' = Marked(msgs, m, id)
  /\ UNCHANGED nextID
  /\ (msgs' # msgs /\ saved) \/ UNCHANGED file

-----------------------------------------------------------------------------
(* Screens *)

Show(s, name) == screen' = [screen EXCEPT ![s] = name]

(* One turn of pmInbox: the inbox is read again and displayed. *)
pmInbox(s) ==
  /\ screen[s] \in {"away", "inbox"} /\ Show(s, "inbox")
  /\ box' = [box EXCEPT ![s] = Inbox(Me[s])]
  /\ UNCHANGED <<msgs, nextID, file, shown, history>>

(* A message of the displayed inbox is chosen: it is marked, and saved. *)
pmRead(s) ==
  /\ screen[s] = "inbox" /\ Show(s, "opening")
  /\ \E i \in 1..Len(box[s]) :
       /\ shown' = [shown EXCEPT ![s] = box[s][i]]
       /\ MarkRead(Me[s], box[s][i].id)
  /\ UNCHANGED <<box, history>>

(* Chosen and marked, its text not yet written. *)
Opening(s) == IF screen[s] = "opening" THEN {<<Me[s], shown[s].id>>} ELSE {}

(* Only then its text is written.  If that fails the session ends (Back). *)
WriteText(s) ==
  /\ screen[s] = "opening" /\ Show(s, "message")
  /\ opened' = opened \cup Opening(s) /\ cut' = cut \ Opening(s)
  /\ UNCHANGED <<msgs, nextID, file, box, shown, sent, attempts>>

Reply(s) ==
  /\ screen[s] = "message" /\ Show(s, "compose")
  /\ UNCHANGED <<msgs, nextID, file, box, shown, history>>

WriteNew(s) ==
  /\ screen[s] = "inbox" /\ Show(s, "compose")
  /\ shown' = [shown EXCEPT ![s] = NoMessage]
  /\ UNCHANGED <<msgs, nextID, file, box, history>>

Recipients(s) == IF shown[s] = NoMessage THEN Members ELSE {shown[s].from}

(* The text is entered and sent; the inbox is displayed again either way. *)
pmCompose(s) ==
  /\ screen[s] = "compose" /\ Show(s, "away")
  /\ \E to \in Recipients(s) : Send(Me[s], to)
  /\ shown' = [shown EXCEPT ![s] = NoMessage]
  /\ UNCHANGED box

(* Back from a screen, a text left empty, an unknown recipient, or the end
   of the session. *)
Back(s) ==
  /\ screen[s] # "away" /\ Show(s, "away")
  /\ box' = [box EXCEPT ![s] = <<>>]
  /\ shown' = [shown EXCEPT ![s] = NoMessage]
  /\ cut' = cut \cup (Opening(s) \ opened)
  /\ UNCHANGED <<msgs, nextID, file, sent, opened, attempts>>

counterOf(f) == IF f.next = 0 THEN 1 ELSE f.next

(* A crash, and the server opens the file again. *)
Restart ==
  /\ msgs' = Trim(file.messages)
  /\ nextID' = counterOf(file)
  /\ screen' = [s \in Sessions |-> "away"]
  /\ box' = [s \in Sessions |-> <<>>]
  /\ shown' = [s \in Sessions |-> NoMessage]
  /\ cut' = cut \cup ((UNION {Opening(s) : s \in Sessions}) \ opened)
  /\ UNCHANGED <<file, sent, opened, attempts>>

Next ==
  \/ Restart
  \/ \E s \in Sessions :
       \/ pmInbox(s) \/ pmRead(s) \/ WriteText(s)
       \/ Reply(s) \/ WriteNew(s) \/ pmCompose(s) \/ Back(s)

Spec == Init /\ [][Next]_vars

-----------------------------------------------------------------------------
(* Properties *)

(* A message is marked read only if its recipient in person chose it from an
   inbox, and its text was displayed then or is about to be, or the session
   ended on it: nothing else marks a message, whatever was sent, saved, lost
   or evicted since that inbox was displayed. *)
ReadMeansOpened ==
  \A q \in {msgs, file.messages} : \A i \in 1..Len(q) :
    q[i].read => <<q[i].to, q[i].id>> \in opened \cup cut \cup UNION {Opening(s) : s \in Sessions}

Numbers(q) == {q[i].id : i \in 1..Len(q)}

(* The store holds what was delivered and nothing else: numbers grow along
   it and along the deliveries, failed sends and restarts included; a message
   leaves it only when enough later ones, from and to anyone, have been
   delivered (one less than it holds); a message whose author was told of a
   failure is in nobody's inbox. *)
DeliveriesKept ==
  /\ \A q \in {msgs, file.messages, sent} :
       \A i, j \in 1..Len(q) : i < j => q[i].id < q[j].id
  /\ \A i \in 1..Len(sent) :
       Len(sent) - i < MaxMessages - 1 =>
         sent[i].id \in Numbers(msgs) /\ sent[i].id \in Numbers(file.messages)
  /\ \A i \in 1..Len(msgs) : \E j \in 1..Len(sent) :
       sent[j] = [msgs[i] EXCEPT !.read = FALSE]
=============================================================================
