--------------------------- MODULE Presence_proofs ---------------------------
(***************************************************************************)
(* The registry and the chat, for any number of callers and any sizes of   *)
(* the recall and of the channels: the registry agrees with the sessions,  *)
(* no message slips between recall and channel, and what each caller reads *)
(* is what the broadcast promises.                                         *)
(***************************************************************************)
EXTENDS Presence, SequenceTheorems, FiniteSetTheorems, TLAPS

Elements(s) == {s[i] : i \in 1..Len(s)}

Increasing(s) == \A i, j \in 1..Len(s) : i < j => s[i] < s[j]

(* What a caller in the chat has read, followed by what waits for it. *)
Queue(c) == heard[c] \o sub[id[c]]

(* A sequence q of messages goes, in order, from where it starts to message
   n, all there but for those of ms; it is empty only before the first. *)
Covers(q, n, ms) ==
  /\ Increasing(q)
  /\ q = <<>> => n = 0 /\ ms = {}
  /\ q # <<>> => q[1] .. n = Elements(q) \cup ms

Follows(c) == Covers(Queue(c), Len(log), missed[c])

Following == \A c \in Callers : phase[c] \in InChat => Follows(c)

RecallIsLatest == backlog = Trim([i \in Messages |-> i])

IInv == RegistryAgrees /\ RecallIsLatest /\ Following /\ ArrivalsMatchDepartures

-----------------------------------------------------------------------------
(* Sequences *)

LEMMA ElementsOfAppend ==
  ASSUME NEW S, NEW s \in Seq(S), NEW e \in S
  PROVE  Elements(Append(s, e)) = Elements(s) \cup {e}
<1> DEFINE t == Append(s, e)
<1>1. /\ Len(t) = Len(s) + 1 /\ Len(s) \in Nat /\ t[Len(s) + 1] = e
      /\ \A i \in 1..Len(s) : t[i] = s[i]
  BY AppendProperties, LenProperties
<1> HIDE DEF t
<1>2. 1..Len(t) = 1..Len(s) \cup {Len(s) + 1}
  BY <1>1
<1>3. Elements(t) = Elements(s) \cup {e}
  BY <1>1, <1>2 DEF Elements
<1>4. QED
  BY <1>3 DEF t

LEMMA ElementsOfConcat ==
  ASSUME NEW S, NEW s \in Seq(S), NEW t \in Seq(S)
  PROVE  Elements(s \o t) = Elements(s) \cup Elements(t)
<1>1. s \o t \in Seq(S)
  BY ConcatProperties
<1>2. Range(s) = Elements(s) /\ Range(t) = Elements(t)
  BY RangeEquality DEF Elements
<1>3. Range(s \o t) = Elements(s \o t)
  BY <1>1, RangeEquality DEF Elements
<1>4. QED
  BY <1>2, <1>3, RangeConcatenation

LEMMA FirstOfConcat ==
  ASSUME NEW S, NEW s \in Seq(S), NEW t \in Seq(S), s # <<>>
  PROVE  (s \o t)[1] = s[1]
<1>1. Len(s) \in Nat /\ Len(s) >= 1 /\ Len(t) \in Nat
  BY EmptySeq, LenProperties
<1>2. QED
  BY <1>1, ConcatProperties

(* Receiving moves the first message of the channel to the end of what has
   been read. *)
LEMMA ReceivingKeepsQueue ==
  ASSUME NEW S, NEW h \in Seq(S), NEW s \in Seq(S), s # <<>>
  PROVE  Append(h, Head(s)) \o Tail(s) = h \o s
<1>1. Head(s) \in S /\ Tail(s) \in Seq(S)
  BY HeadTailProperties
<1>2. s = <<Head(s)>> \o Tail(s)
  BY SubSeqRecursiveFirst, SubSeqFull, TailIsSubSeq, EmptySeq
<1>3. Append(h, Head(s)) = h \o <<Head(s)>>
  BY <1>1, AppendIsConcat
<1>4. <<Head(s)>> \in Seq(S)
  BY <1>1
<1>5. QED
  BY <1>1, <1>2, <1>3, <1>4, ConcatAssociative

LEMMA AppendToQueue ==
  ASSUME NEW S, NEW h \in Seq(S), NEW s \in Seq(S), NEW e \in S
  PROVE  h \o Append(s, e) = Append(h \o s, e)
<1>1. Append(s, e) = s \o <<e>> /\ h \o s \in Seq(S) /\ <<e>> \in Seq(S)
  BY AppendIsConcat, ConcatProperties
<1>2. Append(h \o s, e) = (h \o s) \o <<e>>
  BY <1>1, AppendIsConcat
<1>3. QED
  BY <1>1, <1>2, ConcatAssociative

LEMMA IncreasingAppend ==
  ASSUME NEW n \in Nat, NEW s \in Seq(1..n), Increasing(s)
  PROVE  Increasing(Append(s, n + 1))
<1> DEFINE t == Append(s, n + 1)
<1>0. s \in Seq(1..n + 1) /\ n + 1 \in 1..n + 1
  BY SeqMonotonic
<1>1. /\ Len(t) = Len(s) + 1 /\ Len(s) \in Nat /\ t[Len(s) + 1] = n + 1
      /\ \A i \in 1..Len(s) : t[i] = s[i] /\ s[i] \in 1..n
  BY <1>0, AppendProperties, LenProperties
<1> HIDE DEF t
<1>2. ASSUME NEW i \in 1..Len(t), NEW j \in 1..Len(t), i < j
      PROVE  t[i] < t[j]
  <2>1. i \in 1..Len(s) /\ t[i] = s[i] /\ s[i] \in 1..n
    BY <1>1, <1>2
  <2>2. CASE j = Len(s) + 1
    BY <1>1, <2>1, <2>2
  <2>3. CASE j # Len(s) + 1
    <3>1. j \in 1..Len(s) /\ t[j] = s[j]
      BY <1>1, <2>3
    <3>2. QED
      BY <1>2, <2>1, <3>1 DEF Increasing
  <2>4. QED
    BY <2>2, <2>3
<1>3. QED
  BY <1>2 DEF t, Increasing

LEMMA OneMoreMessage ==
  ASSUME NEW n \in Nat, NEW s \in Seq(1..n)
  PROVE  /\ n + 1 \in 1..n + 1
         /\ s \in Seq(1..n + 1)
         /\ Append(s, n + 1) \in Seq(1..n + 1)
<1>1. 1..n \subseteq 1..n + 1 /\ n + 1 \in 1..n + 1
  OBVIOUS
<1>2. s \in Seq(1..n + 1)
  BY <1>1, SeqMonotonic
<1>3. QED
  BY <1>1, <1>2, AppendProperties

(* The recall of n messages, as the broadcast gives it. *)
LEMMA RecallAsBroadcast ==
  ASSUME NEW n \in Nat
  PROVE  /\ Trim([i \in 1..n |-> i]) = B!Recall(n)
         /\ B!Recall(n) \in Seq(1..n)
         /\ Increasing(B!Recall(n))
         /\ B!Recall(n) = <<>> <=> n = 0
         /\ n # 0 => B!Recall(n)[1] .. n = Elements(B!Recall(n))
<1> DEFINE s == [i \in 1..n |-> i]
           k == IF n < BacklogSize THEN n ELSE BacklogSize
<1> USE PresenceAssumption
<1>1. s \in Seq(1..n) /\ Len(s) = n
  OBVIOUS
<1>2. k \in 0..n /\ B!Recall(n) = [i \in 1..k |-> n - k + i] /\ (k = 0 <=> n = 0)
  BY DEF B!Recall
<1>3. Trim(s) = B!Recall(n)
  <2>1. CASE n > BacklogSize
    <3>1. k = BacklogSize /\ n - k + 1 \in Int
      BY <2>1
    <3>2. \A i \in 1..n : s[i] = i
      OBVIOUS
    <3> HIDE DEF s, k
    <3>3. Trim(s) = SubSeq(s, n - k + 1, n)
      BY <1>1, <2>1, <3>1 DEF Trim, Latest
    <3>4. Trim(s) = [i \in 1..k |-> s[i + (n - k + 1) - 1]]
      BY <1>2, <3>1, <3>3
    <3>5. \A i \in 1..k : s[i + (n - k + 1) - 1] = n - k + i
      BY <1>2, <3>1, <3>2
    <3>6. QED
      BY <1>2, <3>4, <3>5
  <2>2. CASE ~ (n > BacklogSize)
    BY <1>1, <1>2, <2>2 DEF Trim
  <2>3. QED
    BY <2>1, <2>2
<1> HIDE DEF k
<1>4. \A i \in 1..k : n - k + i \in 1..n
  BY <1>2
<1>5. B!Recall(n) \in Seq(1..n) /\ Len(B!Recall(n)) = k /\ \A i \in 1..k : B!Recall(n)[i] = n - k + i
  BY <1>2, <1>4
<1>6. Increasing(B!Recall(n))
  BY <1>2, <1>5 DEF Increasing
<1>7. B!Recall(n) = <<>> <=> n = 0
  BY <1>2, <1>5, EmptySeq
<1>8. ASSUME n # 0
      PROVE  B!Recall(n)[1] .. n = Elements(B!Recall(n))
  <2>1. B!Recall(n)[1] = n - k + 1
    BY <1>2, <1>8
  <2>2. Elements(B!Recall(n)) = {n - k + i : i \in 1..k}
    BY <1>2, <1>5 DEF Elements
  <2>3. ASSUME NEW x \in n - k + 1 .. n PROVE x \in {n - k + i : i \in 1..k}
    <3>1. x - (n - k) \in 1..k /\ x = n - k + (x - (n - k))
      BY <1>2
    <3>2. QED
      BY <3>1
  <2>4. n - k + 1 .. n = {n - k + i : i \in 1..k}
    <3>1. \A i \in 1..k : n - k + i \in n - k + 1 .. n
      BY <1>2
    <3>2. QED
      BY <2>3, <3>1, Zenon
  <2>5. QED
    BY <2>1, <2>2, <2>4
<1>9. QED
  BY <1>3, <1>5, <1>6, <1>7, <1>8

(* Recording one more message keeps the recall the latest ones. *)
LEMMA RecordKeepsRecall ==
  ASSUME NEW n \in Nat
  PROVE  Trim(Append(B!Recall(n), n + 1)) = B!Recall(n + 1)
<1> DEFINE r == B!Recall(n)
           t == Append(r, n + 1)
           k == IF n < BacklogSize THEN n ELSE BacklogSize
<1> USE PresenceAssumption
<1>1. r \in Seq(1..n + 1) /\ n + 1 \in 1..n + 1
  BY RecallAsBroadcast, OneMoreMessage
<1>2. k \in Nat /\ Len(r) = k /\ \A i \in 1..k : r[i] = n - k + i
  BY DEF B!Recall
<1> HIDE DEF r
<1>3. t \in Seq(1..n + 1) /\ Len(t) = k + 1
  BY <1>1, <1>2, AppendProperties
<1>4. \A i \in 1..k + 1 : t[i] = n - k + i
  BY <1>1, <1>2, AppendProperties
<1> HIDE DEF t
<1>5. CASE n < BacklogSize
  <2>1. Trim(t) = t /\ B!Recall(n + 1) = [i \in 1..k + 1 |-> i]
    BY <1>3, <1>5 DEF Trim, B!Recall
  <2>2. t = [i \in 1..k + 1 |-> i]
    BY <1>3, <1>4, <1>5
  <2>3. QED
    BY <2>1, <2>2 DEF t, r
<1>6. CASE ~ (n < BacklogSize)
  <2>1. k = BacklogSize /\ B!Recall(n + 1) = [i \in 1..k |-> n + 1 - k + i]
    BY <1>6 DEF B!Recall
  <2>2. Trim(t) = SubSeq(t, 2, k + 1)
    BY <1>3, <2>1 DEF Trim, Latest
  <2>3. Trim(t) = [i \in 1..k |-> t[i + 1]]
    BY <1>2, <1>3, <2>2
  <2>4. \A i \in 1..k : t[i + 1] = n + 1 - k + i
    BY <1>2, <1>4
  <2>5. QED
    BY <2>1, <2>3, <2>4 DEF t, r
<1>7. QED
  BY <1>5, <1>6

-----------------------------------------------------------------------------
(* The registry *)

(* A caller in the chat has a channel of its own. *)
LEMMA ChannelOf ==
  ASSUME RegistryAgrees, NEW c \in Callers
  PROVE  /\ phase[c] # "gone" => id[c] \in members /\ id[c] \in 1..seq
         /\ phase[c] \in InChat =>
              /\ id[c] \in Subscribed /\ sub[id[c]] \in Seq(Messages)
              /\ \A d \in Callers \ {c} : phase[d] # "gone" => id[d] # id[c]
BY DEF RegistryAgrees, TypeOK, InChat

LEMMA MessageNumbers ==
  ASSUME TypeOK
  PROVE  Len(log) \in Nat /\ Len(log) + 1 \in Nat
BY LenProperties DEF TypeOK

LEMMA RecallSteps ==
  ASSUME TypeOK, RecallIsLatest, NEW from \in 1..seq, NEW kind \in Kinds, Publish(from, kind)
  PROVE  /\ Len(log)' = Len(log) + 1
         /\ log' \in Seq([from : 1..seq, kind : Kinds])
         /\ \A i \in Messages : log'[i] = log[i]
         /\ log'[Len(log) + 1] = [from |-> from, kind |-> kind]
         /\ backlog' = B!Recall(Len(log) + 1)
         /\ RecallIsLatest'
<1> DEFINE n == Len(log)
           m == [from |-> from, kind |-> kind]
<1>1. n \in Nat /\ backlog = B!Recall(n)
  BY MessageNumbers, RecallAsBroadcast DEF RecallIsLatest, Messages
<1>2. m \in [from : 1..seq, kind : Kinds] /\ log' = Append(log, m)
  BY DEF Publish
<1>3. /\ Len(log)' = n + 1 /\ log' \in Seq([from : 1..seq, kind : Kinds])
      /\ \A i \in Messages : log'[i] = log[i]
      /\ log'[n + 1] = m
  BY <1>2, AppendProperties DEF TypeOK, Messages
<1>4. backlog' = B!Recall(n + 1)
  BY <1>1, RecordKeepsRecall DEF Publish
<1>5. RecallIsLatest'
  <2>1. Trim([i \in 1..n + 1 |-> i]) = B!Recall(n + 1)
    BY <1>1, RecallAsBroadcast
  <2>2. Trim([i \in Messages |-> i])' = Trim([i \in 1..n + 1 |-> i])
    BY <1>3 DEF Messages, Trim, Latest
  <2>3. QED
    BY <1>4, <2>1, <2>2 DEF RecallIsLatest
<1>6. QED
  BY <1>3, <1>4, <1>5

(* Publishing, from a step that keeps every session in or out of the chat. *)
LEMMA PublishKeepsRegistry ==
  ASSUME RegistryAgrees, RecallIsLatest, NEW from \in 1..seq, NEW kind \in Kinds,
         Publish(from, kind), UNCHANGED <<id, heard>>,
         phase' \in [Callers -> Phases],
         \A d \in Callers : phase'[d] \in InChat <=> phase[d] \in InChat,
         \A d \in Callers : phase'[d] = "gone" <=> phase[d] = "gone"
  PROVE  RegistryAgrees'
<1> DEFINE n == Len(log)
<1>1. TypeOK /\ n \in Nat
  BY MessageNumbers DEF RegistryAgrees
<1>2. Messages = 1..n /\ Messages' = 1..n + 1
  BY <1>1, RecallSteps DEF Messages
<1>3. Messages \subseteq Messages' /\ n + 1 \in Messages'
  BY <1>1, <1>2
<1>4. /\ Subscribed' = Subscribed
      /\ \A m \in Subscribed : sub'[m] = IF Full(m) THEN sub[m] ELSE Append(sub[m], n + 1)
  BY DEF Publish, Subscribed
<1>5. ASSUME NEW m \in Subscribed PROVE sub'[m] \in Seq(Messages')
  <2>1. sub[m] \in Seq(1..n)
    BY <1>1, <1>2 DEF TypeOK
  <2>2. sub[m] \in Seq(1..n + 1) /\ Append(sub[m], n + 1) \in Seq(1..n + 1)
    BY <1>1, <2>1, OneMoreMessage
  <2>3. QED
    BY <1>2, <1>4, <2>2
<1>6. backlog' \in Seq(Messages')
  <2>1. n + 1 \in Nat
    BY <1>1
  <2>2. B!Recall(n + 1) \in Seq(1..n + 1)
    BY <2>1, RecallAsBroadcast
  <2>3. QED
    BY <1>1, <1>2, <2>2, RecallSteps
<1>7. heard' \in [Callers -> Seq(Messages')]
  <2>1. \A d \in Callers : heard[d] \in Seq(Messages')
    BY <1>1, <1>3, SeqMonotonic DEF TypeOK
  <2>2. QED
    BY <1>1, <2>1 DEF TypeOK
<1>8. missed' \in [Callers -> SUBSET Messages']
  BY <1>1, <1>3 DEF TypeOK, Publish
<1>9. TypeOK'
  BY <1>1, <1>4, <1>5, <1>6, <1>7, <1>8, RecallSteps DEF TypeOK, Publish
<1>10. QED
  BY <1>4, <1>9 DEF RegistryAgrees, Publish

-----------------------------------------------------------------------------
(* What each caller follows *)

LEMMA CoversRecall ==
  ASSUME NEW n \in Nat
  PROVE  Covers(B!Recall(n), n, {})
BY RecallAsBroadcast DEF Covers

LEMMA CoversOneMore ==
  ASSUME NEW n \in Nat, NEW q \in Seq(1..n), NEW ms, Covers(q, n, ms)
  PROVE  Covers(Append(q, n + 1), n + 1, ms)
<1> DEFINE t == Append(q, n + 1)
<1>1. q \in Seq(1..n + 1) /\ n + 1 \in 1..n + 1
  BY OneMoreMessage
<1>2. Elements(t) = Elements(q) \cup {n + 1}
  BY <1>1, ElementsOfAppend
<1>3. t # <<>> /\ Len(t) = Len(q) + 1 /\ t[Len(q) + 1] = n + 1
      /\ \A i \in 1..Len(q) : t[i] = q[i]
  BY SMTT(40), <1>1, AppendProperties
<1>4. Increasing(t)
  BY IncreasingAppend DEF Covers
<1> HIDE DEF t
<1>5. CASE q = <<>>
  <2>1. Elements(q) = {} /\ n = 0 /\ ms = {} /\ t[1] = 1
    BY <1>3, <1>5 DEF Covers, Elements
  <2>2. t[1] .. n + 1 = Elements(t) \cup ms
    BY <1>2, <2>1
  <2>3. QED
    BY <1>3, <1>4, <2>2 DEF Covers, t
<1>6. CASE q # <<>>
  <2>1. Len(q) \in Nat /\ Len(q) # 0
    BY <1>6, EmptySeq
  <2>2. t[1] = q[1] /\ q[1] \in 1..n
    BY <1>3, <2>1
  <2>3. t[1] .. n + 1 = (q[1] .. n) \cup {n + 1}
    BY <2>2
  <2>4. q[1] .. n = Elements(q) \cup ms
    BY <1>6 DEF Covers
  <2>5. QED
    BY <1>2, <1>3, <1>4, <2>3, <2>4 DEF Covers, t
<1>7. QED
  BY <1>5, <1>6

LEMMA CoversRefused ==
  ASSUME NEW n \in Nat, NEW q \in Seq(1..n), NEW ms, Covers(q, n, ms), q # <<>>
  PROVE  Covers(q, n + 1, ms \cup {n + 1})
<1>1. q[1] \in 1..n
  BY EmptySeq
<1>2. q[1] .. n + 1 = (q[1] .. n) \cup {n + 1}
  BY <1>1
<1>3. QED
  BY <1>2 DEF Covers

LEMMA QueueType ==
  ASSUME RegistryAgrees, NEW c \in Callers, phase[c] \in InChat
  PROVE  /\ heard[c] \in Seq(1..Len(log))
         /\ sub[id[c]] \in Seq(1..Len(log))
         /\ Queue(c) \in Seq(1..Len(log))
<1>1. heard[c] \in Seq(1..Len(log)) /\ sub[id[c]] \in Seq(1..Len(log))
  BY ChannelOf DEF RegistryAgrees, TypeOK, Messages
<1>2. QED
  BY <1>1, ConcatProperties DEF Queue

LEMMA PublishKeepsFollowing ==
  ASSUME RegistryAgrees, RecallIsLatest, Following, NEW from \in 1..seq, NEW kind \in Kinds,
         Publish(from, kind), UNCHANGED <<id, heard>>,
         \A d \in Callers : phase'[d] \in InChat => phase[d] \in InChat
  PROVE  Following'
<1> SUFFICES ASSUME NEW c \in Callers, phase'[c] \in InChat PROVE Follows(c)'
  BY DEF Following
<1> DEFINE n == Len(log)
           q == Queue(c)
<1>1. n \in Nat /\ Len(log)' = n + 1
  BY MessageNumbers, RecallSteps DEF RegistryAgrees
<1>2. phase[c] \in InChat /\ id[c] \in Subscribed
  BY ChannelOf
<1>3. heard[c] \in Seq(1..n) /\ sub[id[c]] \in Seq(1..n) /\ q \in Seq(1..n)
  BY <1>2, QueueType
<1>4. Covers(q, n, missed[c])
  BY <1>2 DEF Following, Follows
<1>5. CASE Full(id[c])
  <2>1. Queue(c)' = q /\ missed'[c] = missed[c] \cup {n + 1}
    BY <1>2, <1>5 DEF Publish, Queue
  <2>2. sub[id[c]] # <<>>
    BY <1>5, PresenceAssumption DEF Full
  <2>3. q # <<>>
    BY <1>3, <2>2, ConcatEqualIffEmpty DEF Queue
  <2>4. Covers(q, n + 1, missed[c] \cup {n + 1})
    BY <1>1, <1>3, <1>4, <2>3, CoversRefused
  <2>5. QED
    BY <1>1, <2>1, <2>4 DEF Follows
<1>6. CASE ~ Full(id[c])
  <2>1. Queue(c)' = heard[c] \o Append(sub[id[c]], n + 1) /\ missed'[c] = missed[c]
    BY <1>2, <1>6 DEF Publish, Queue, Subscribed
  <2>2. /\ heard[c] \in Seq(1..n + 1) /\ sub[id[c]] \in Seq(1..n + 1)
        /\ n + 1 \in 1..n + 1
    BY <1>1, <1>3, OneMoreMessage
  <2>3. Queue(c)' = Append(q, n + 1)
    <3>1. \A h, s \in Seq(1..n + 1) : h \o Append(s, n + 1) = Append(h \o s, n + 1)
      BY SMTT(40), <2>2, AppendToQueue
    <3>2. QED
      BY <2>1, <2>2, <3>1 DEF Queue
  <2>4. Covers(Append(q, n + 1), n + 1, missed[c])
    BY <1>1, <1>3, <1>4, CoversOneMore
  <2>5. QED
    BY <1>1, <2>1, <2>3, <2>4 DEF Follows
<1>7. QED
  BY <1>5, <1>6

-----------------------------------------------------------------------------
(* Arrivals and departures *)

Marked(m, kind) == {i \in Messages : log[i].from = m /\ log[i].kind = kind}

Present(m) == \E c \in Callers : id[c] = m /\ phase[c] \in {"chatting", "leaving"}

LEMMA AnnouncedType ==
  ASSUME TypeOK, NEW m, NEW kind
  PROVE  IsFiniteSet(Marked(m, kind)) /\ Announced(m, kind) \in Nat
<1>1. IsFiniteSet(Messages)
  BY MessageNumbers, FS_Interval DEF Messages
<1>2. IsFiniteSet(Marked(m, kind))
  BY <1>1, FS_Subset DEF Marked
<1>3. QED
  BY <1>2, FS_CardinalityType DEF Announced, Marked

(* A message counts for its author and its kind, and for nothing else. *)
LEMMA PublishCounts ==
  ASSUME TypeOK, RecallIsLatest, NEW from \in 1..seq, NEW kind \in Kinds, Publish(from, kind),
         NEW m, NEW k
  PROVE  Announced(m, k)' = IF m = from /\ k = kind THEN Announced(m, k) + 1 ELSE Announced(m, k)
<1> DEFINE n == Len(log)
<1>0. n \in Nat /\ Len(log)' = n + 1
  BY MessageNumbers, RecallSteps
<1>1. /\ Messages = 1..n /\ Messages' = 1..n \cup {n + 1} /\ n + 1 \notin Messages
      /\ \A i \in 1..n : log'[i] = log[i]
      /\ log'[n + 1].from = from /\ log'[n + 1].kind = kind
  <2>1. Messages = 1..n /\ Messages' = 1..n \cup {n + 1} /\ n + 1 \notin Messages
    BY <1>0 DEF Messages
  <2>2. (\A i \in Messages : log'[i] = log[i]) /\ log'[n + 1] = [from |-> from, kind |-> kind]
    BY RecallSteps
  <2>3. QED
    BY <2>1, <2>2
<1>2. CASE m = from /\ k = kind
  <2>1. Marked(m, k)' = Marked(m, k) \cup {n + 1} /\ n + 1 \notin Marked(m, k)
    BY <1>1, <1>2 DEF Marked
  <2>2. Cardinality(Marked(m, k)') = Cardinality(Marked(m, k)) + 1
    BY <2>1, AnnouncedType, FS_AddElement
  <2>3. QED
    BY <1>2, <2>2 DEF Announced, Marked
<1>3. CASE ~ (m = from /\ k = kind)
  <2>1. Marked(m, k)' = Marked(m, k)
    BY <1>1, <1>3 DEF Marked
  <2>2. QED
    BY <1>3, <2>1 DEF Announced, Marked
<1>4. QED
  BY <1>2, <1>3

LEMMA AnnouncedArrival ==
  ASSUME RegistryAgrees, RecallIsLatest, ArrivalsMatchDepartures,
         NEW c \in Callers, AnnounceArrival(c)
  PROVE  ArrivalsMatchDepartures'
<1>1. /\ phase[c] = "entering" /\ phase' = [phase EXCEPT ![c] = "chatting"]
      /\ Publish(id[c], "joined") /\ id' = id /\ seq' = seq /\ TypeOK
  BY DEF AnnounceArrival, Move, Publish, RegistryAgrees
<1>2. id[c] \in 1..seq /\ \A d \in Callers \ {c} : phase[d] # "gone" => id[d] # id[c]
  BY <1>1, ChannelOf DEF InChat
<1>3. \A m : Present(m)' <=> Present(m) \/ m = id[c]
  BY <1>1 DEF Present, TypeOK
<1>4. ~ Present(id[c])
  BY <1>1, <1>2 DEF Present
<1>5. \A m : /\ Announced(m, "joined")'
                   = (IF m = id[c] THEN Announced(m, "joined") + 1 ELSE Announced(m, "joined"))
              /\ Announced(m, "left")' = Announced(m, "left")
              /\ Announced(m, "joined") \in Nat /\ Announced(m, "left") \in Nat
  BY <1>1, <1>2, PublishCounts, AnnouncedType DEF Kinds
<1>6. \A m \in 1..seq : Announced(m, "joined") - Announced(m, "left") = IF Present(m) THEN 1 ELSE 0
  BY DEF ArrivalsMatchDepartures, Present
<1>7. \A m \in 1..seq : Announced(m, "joined")' - Announced(m, "left")' = IF Present(m)' THEN 1 ELSE 0
  BY <1>3, <1>4, <1>5, <1>6
<1>8. QED
  BY <1>1, <1>7 DEF ArrivalsMatchDepartures, Present

LEMMA AnnouncedDeparture ==
  ASSUME RegistryAgrees, RecallIsLatest, ArrivalsMatchDepartures,
         NEW c \in Callers, AnnounceDeparture(c)
  PROVE  ArrivalsMatchDepartures'
<1>1. /\ phase[c] = "leaving" /\ phase' = [phase EXCEPT ![c] = "unsubscribing"]
      /\ Publish(id[c], "left") /\ id' = id /\ seq' = seq /\ TypeOK
  BY DEF AnnounceDeparture, Move, Publish, RegistryAgrees
<1>2. id[c] \in 1..seq /\ \A d \in Callers \ {c} : phase[d] # "gone" => id[d] # id[c]
  BY <1>1, ChannelOf DEF InChat
<1>3. \A m : Present(m)' <=> Present(m) /\ m # id[c]
  BY <1>1, <1>2 DEF Present, TypeOK
<1>4. Present(id[c])
  BY <1>1 DEF Present
<1>5. \A m : /\ Announced(m, "left")'
                   = (IF m = id[c] THEN Announced(m, "left") + 1 ELSE Announced(m, "left"))
              /\ Announced(m, "joined")' = Announced(m, "joined")
              /\ Announced(m, "joined") \in Nat /\ Announced(m, "left") \in Nat
  BY <1>1, <1>2, PublishCounts, AnnouncedType DEF Kinds
<1>6. \A m \in 1..seq : Announced(m, "joined") - Announced(m, "left") = IF Present(m) THEN 1 ELSE 0
  BY DEF ArrivalsMatchDepartures, Present
<1>7. \A m \in 1..seq : Announced(m, "joined")' - Announced(m, "left")' = IF Present(m)' THEN 1 ELSE 0
  BY <1>3, <1>4, <1>5, <1>6
<1>8. QED
  BY <1>1, <1>7 DEF ArrivalsMatchDepartures, Present

LEMMA SayingAnnouncesNothing ==
  ASSUME RegistryAgrees, RecallIsLatest, ArrivalsMatchDepartures,
         NEW c \in Callers, Say(c)
  PROVE  ArrivalsMatchDepartures'
<1>1. /\ phase[c] = "chatting" /\ phase' = phase
      /\ Publish(id[c], "text") /\ id' = id /\ seq' = seq /\ TypeOK
  BY DEF Say, session, Publish, RegistryAgrees
<1>2. id[c] \in 1..seq
  BY <1>1, ChannelOf
<1>3. \A m : /\ Announced(m, "left")' = Announced(m, "left")
              /\ Announced(m, "joined")' = Announced(m, "joined")
  BY <1>1, <1>2, PublishCounts DEF Kinds
<1>4. QED
  BY <1>1, <1>3 DEF ArrivalsMatchDepartures

(* A step that publishes nothing and brings no session into or out of the
   part of the chat between the two announcements. *)
LEMMA NothingAnnounced ==
  ASSUME TypeOK, ArrivalsMatchDepartures, log' = log, seq' = seq,
         \A m \in 1..seq : Present(m)' <=> Present(m)
  PROVE  ArrivalsMatchDepartures'
<1>1. \A m, k : Announced(m, k)' = Announced(m, k)
  BY DEF Announced, Messages
<1>2. \A m \in 1..seq :
        Announced(m, "joined") - Announced(m, "left") = IF Present(m) THEN 1 ELSE 0
  BY DEF ArrivalsMatchDepartures, Present
<1>3. \A m \in 1..seq :
        Announced(m, "joined")' - Announced(m, "left")' = IF Present(m)' THEN 1 ELSE 0
  BY <1>1, <1>2
<1>4. QED
  BY <1>3 DEF ArrivalsMatchDepartures, Present

-----------------------------------------------------------------------------
(* Steps *)

(* A caller whom a step leaves alone follows as before. *)
LEMMA LeftAlone ==
  ASSUME NEW c \in Callers, Follows(c), log' = log, id'[c] = id[c], heard'[c] = heard[c],
         missed'[c] = missed[c], sub'[id[c]] = sub[id[c]]
  PROVE  Follows(c)'
BY DEF Follows, Covers, Queue, Increasing, Elements

LEMMA JoinStep ==
  ASSUME IInv, NEW c \in Callers, Join(c)
  PROVE  IInv'
<1> USE DEF Join, Move
<1>1. TypeOK /\ seq \in Nat /\ phase[c] = "gone" /\ seq' = seq + 1 /\ 1..seq \subseteq 1..seq'
  BY DEF IInv, RegistryAgrees, TypeOK
<1>2. /\ phase' \in [Callers -> Phases] /\ phase'[c] = "menu" /\ id'[c] = seq + 1
      /\ \A d \in Callers \ {c} : phase'[d] = phase[d] /\ id'[d] = id[d]
      /\ \A d \in Callers : id[d] \in 0..seq
  BY <1>1 DEF TypeOK, Phases
<1>3. TypeOK'
  <2>1. log' \in Seq([from : 1..seq', kind : Kinds])
    <3>1. [from : 1..seq, kind : Kinds] \subseteq [from : 1..seq', kind : Kinds]
      BY <1>1
    <3>2. QED
      BY <1>1, <3>1, SeqMonotonic DEF TypeOK
  <2>2. id' \in [Callers -> 0..seq']
    BY <1>1 DEF TypeOK
  <2>3. members' \subseteq 1..seq'
    BY <1>1 DEF TypeOK
  <2>4. QED
    BY <1>1, <1>2, <2>1, <2>2, <2>3 DEF TypeOK, Messages, Subscribed
<1>4. RegistryAgrees'
  <2>1. \A d \in Callers : phase'[d] \in InChat <=> phase[d] \in InChat
    BY <1>1, <1>2 DEF InChat
  <2>2. Subscribed' = {id[d] : d \in {e \in Callers : phase[e] \in InChat}}'
    BY <1>1, <1>2, <2>1 DEF IInv, RegistryAgrees, Subscribed, InChat
  <2>3. members' = {id[d] : d \in {e \in Callers : phase[e] # "gone"}}'
    <3>1. members = {id[d] : d \in {e \in Callers : phase[e] # "gone"}}
      BY DEF IInv, RegistryAgrees
    <3>2. members' = members \cup {seq + 1}
      BY <1>1
    <3>3. QED
      BY <1>1, <1>2, <3>1, <3>2
  <2>4. \A d, e \in Callers : d # e /\ phase'[d] # "gone" /\ phase'[e] # "gone" => id'[d] # id'[e]
    BY <1>1, <1>2 DEF IInv, RegistryAgrees
  <2>5. QED
    BY <1>3, <2>2, <2>3, <2>4 DEF RegistryAgrees
<1>5. RecallIsLatest'
  BY DEF IInv, RecallIsLatest, Messages, Trim, Latest
<1>6. Following'
  <2>1. \A d \in Callers : phase'[d] \in InChat => phase[d] \in InChat /\ id'[d] = id[d]
    BY <1>2 DEF InChat
  <2>2. QED
    BY <2>1, LeftAlone DEF IInv, Following
<1>7. ArrivalsMatchDepartures'
  <2>0. PICK new \in Nat : new = seq + 1
    BY <1>1
  <2>1. \A m, k : Announced(m, k)' = Announced(m, k)
    BY DEF Announced, Messages
  <2>2. \A m : m # new => (Present(m)' <=> Present(m))
    BY <1>1, <1>2, <2>0 DEF Present
  <2>3. ~ Present(new)'
    BY <1>1, <1>2, <2>0 DEF Present
  <2>4. \A k : Announced(new, k) = 0
    <3>1. \A i \in Messages : log[i].from # new
      <4>1. log \in Seq([from : 1..seq, kind : Kinds])
        BY <1>1 DEF TypeOK
      <4>2. \A i \in 1..Len(log) : log[i] \in [from : 1..seq, kind : Kinds]
        BY <4>1, ElementOfSeq
      <4>3. QED
        BY <1>1, <2>0, <4>2 DEF Messages
    <3>2. \A k : Marked(new, k) = {}
      BY <3>1 DEF Marked
    <3>3. QED
      BY <3>2, FS_EmptySet DEF Announced, Marked
  <2>5. \A m \in 1..seq :
          Announced(m, "joined") - Announced(m, "left") = IF Present(m) THEN 1 ELSE 0
    BY DEF IInv, ArrivalsMatchDepartures, Present
  <2>6. \A m \in 1..seq' :
          Announced(m, "joined")' - Announced(m, "left")' = IF Present(m)' THEN 1 ELSE 0
    <3>1. (\A m \in 1..seq' : m \in 1..seq \/ m = new) /\ \A m \in 1..seq : m # new
      BY <1>1, <2>0
    <3>2. ASSUME NEW m \in 1..seq
          PROVE  Announced(m, "joined")' - Announced(m, "left")' = IF Present(m)' THEN 1 ELSE 0
      BY <2>1, <2>2, <2>5, <3>1
    <3>3. Announced(new, "joined")' - Announced(new, "left")' = 0
      <4>1. /\ Announced(new, "joined")' = 0
            /\ Announced(new, "left")' = 0
        BY <2>1, <2>4
      <4>2. QED
        BY <4>1
    <3>4. QED
      BY <2>3, <3>1, <3>2, <3>3
  <2>7. QED
    BY <2>6 DEF ArrivalsMatchDepartures, Present
<1>8. QED
  BY <1>4, <1>5, <1>6, <1>7 DEF IInv

LEMMA EnterChatStep ==
  ASSUME IInv, NEW c \in Callers, EnterChat(c)
  PROVE  IInv'
<1> USE DEF EnterChat, Move, Subscribe
<1>1. TypeOK /\ phase[c] = "menu" /\ Len(log) \in Nat
  BY MessageNumbers DEF IInv, RegistryAgrees
<1>2. /\ phase' \in [Callers -> Phases] /\ phase'[c] = "entering"
      /\ \A d \in Callers \ {c} : phase'[d] = phase[d]
  BY <1>1 DEF TypeOK, Phases, InChat
<1>3. /\ id[c] \in members /\ id[c] \in 1..seq
      /\ \A d \in Callers \ {c} : phase[d] # "gone" => id[d] # id[c]
  BY <1>1, ChannelOf DEF IInv, RegistryAgrees
<1>4. /\ Subscribed' = Subscribed \cup {id[c]} /\ sub'[id[c]] = <<>>
      /\ \A m \in Subscribed \ {id[c]} : sub'[m] = sub[m]
  BY <1>3 DEF Subscribed
<1>5. RegistryAgrees'
  <2>1. \A m \in Subscribed' : sub'[m] \in Seq(Messages)
    <3>1. sub'[id[c]] \in Seq(Messages)
      BY <1>4, EmptySeq
    <3>2. \A m \in Subscribed : sub[m] \in Seq(Messages)
      BY <1>1 DEF TypeOK
    <3>3. QED
      BY <1>4, <3>1, <3>2
  <2>2. TypeOK'
    BY <1>1, <1>2, <1>3, <1>4, <2>1 DEF TypeOK, Messages
  <2>3. Subscribed' = {id[d] : d \in {e \in Callers : phase[e] \in InChat}}'
    <3>1. Subscribed = {id[d] : d \in {e \in Callers : phase[e] \in InChat}}
      BY DEF IInv, RegistryAgrees
    <3>2. {e \in Callers : phase[e] \in InChat}' = {e \in Callers : phase[e] \in InChat} \cup {c}
      BY <1>1, <1>2 DEF InChat
    <3>3. QED
      BY <1>4, <3>1, <3>2
  <2>4. {e \in Callers : phase[e] # "gone"}' = {e \in Callers : phase[e] # "gone"}
    BY <1>1, <1>2
  <2>5. QED
    BY <1>1, <1>2, <2>2, <2>3, <2>4 DEF IInv, RegistryAgrees
<1>6. RecallIsLatest'
  BY DEF IInv, RecallIsLatest, Messages, Trim, Latest
<1>7. Follows(c)'
  <2>1. backlog = B!Recall(Len(log)) /\ backlog \in Seq(1..Len(log))
    BY <1>1, RecallAsBroadcast DEF IInv, RecallIsLatest, Messages
  <2>2. heard'[c] = backlog /\ missed'[c] = {} /\ id'[c] = id[c]
    BY <1>1 DEF TypeOK
  <2>3. Queue(c)' = backlog
    <3>1. backlog \o <<>> = backlog
      BY <2>1, ConcatEmptySeq
    <3>2. QED
      BY <1>4, <2>2, <3>1 DEF Queue
  <2>4. Covers(backlog, Len(log), {})
    BY <1>1, <2>1, CoversRecall
  <2>5. QED
    BY <2>2, <2>3, <2>4 DEF Follows
<1>8. Following'
  <2>1. ASSUME NEW d \in Callers \ {c}, phase'[d] \in InChat PROVE Follows(d)'
    <3>1. phase[d] \in InChat /\ id[d] \in Subscribed \ {id[c]}
      BY <1>2, <1>3, <2>1, ChannelOf DEF IInv, InChat
    <3>2. heard'[d] = heard[d] /\ missed'[d] = missed[d]
      BY <1>1, <2>1 DEF TypeOK
    <3>3. QED
      BY <1>4, <3>1, <3>2, LeftAlone DEF IInv, Following
  <2>2. QED
    BY <1>7, <2>1 DEF Following
<1>9. ArrivalsMatchDepartures'
  BY <1>1, <1>2, NothingAnnounced DEF IInv, Present
<1>10. QED
  BY <1>5, <1>6, <1>8, <1>9 DEF IInv

LEMMA DrainStep ==
  ASSUME IInv, NEW c \in Callers, Drain(c)
  PROVE  IInv'
<1> USE DEF Drain
<1>1. TypeOK /\ phase[c] = "chatting" /\ phase[c] \in InChat /\ sub[id[c]] # <<>> /\ Len(log) \in Nat
  BY MessageNumbers DEF IInv, RegistryAgrees, InChat
<1>2. /\ id[c] \in Subscribed /\ \A d \in Callers \ {c} : phase[d] # "gone" => id[d] # id[c]
      /\ heard[c] \in Seq(Messages) /\ sub[id[c]] \in Seq(Messages)
  BY <1>1, ChannelOf DEF IInv, TypeOK
<1>3. /\ Subscribed' = Subscribed /\ sub'[id[c]] = Tail(sub[id[c]])
      /\ \A m \in Subscribed \ {id[c]} : sub'[m] = sub[m]
      /\ heard'[c] = Append(heard[c], Head(sub[id[c]]))
      /\ \A d \in Callers \ {c} : heard'[d] = heard[d]
  BY <1>1, <1>2 DEF Subscribed, TypeOK
<1>4. RegistryAgrees'
  <2>1. Head(sub[id[c]]) \in Messages /\ Tail(sub[id[c]]) \in Seq(Messages)
    BY <1>1, <1>2, HeadTailProperties
  <2>2. Append(heard[c], Head(sub[id[c]])) \in Seq(Messages)
    BY <1>2, <2>1, AppendProperties
  <2>3. TypeOK'
    BY <1>1, <1>3, <2>1, <2>2 DEF TypeOK, Messages
  <2>4. QED
    BY <1>3, <2>3 DEF IInv, RegistryAgrees
<1>5. RecallIsLatest'
  BY DEF IInv, RecallIsLatest, Messages, Trim, Latest
<1>6. Follows(c)'
  <2>1. Queue(c)' = Queue(c)
    <3>1. Append(heard[c], Head(sub[id[c]])) \o Tail(sub[id[c]]) = heard[c] \o sub[id[c]]
      BY <1>1, <1>2, ReceivingKeepsQueue
    <3>2. QED
      BY <1>3, <3>1 DEF Queue
  <2>2. QED
    BY <1>1, <2>1 DEF IInv, Following, Follows
<1>7. Following'
  <2>1. ASSUME NEW d \in Callers \ {c}, phase'[d] \in InChat PROVE Follows(d)'
    <3>1. phase[d] \in InChat /\ id[d] \in Subscribed \ {id[c]}
      BY <1>2, <2>1, ChannelOf DEF IInv, InChat
    <3>2. QED
      BY <1>3, <2>1, <3>1, LeftAlone DEF IInv, Following
  <2>2. QED
    BY <1>6, <2>1 DEF Following
<1>8. ArrivalsMatchDepartures'
  BY <1>1, NothingAnnounced DEF IInv, Present
<1>9. QED
  BY <1>4, <1>5, <1>7, <1>8 DEF IInv

(* LeaveChat and Leave both take the channel of c away. *)
LEMMA ChannelClosed ==
  ASSUME IInv, NEW c \in Callers, phase[c] # "gone", phase'[c] \notin InChat,
         \A d \in Callers \ {c} : phase'[d] = phase[d] /\ heard'[d] = heard[d] /\ missed'[d] = missed[d],
         sub' = [m \in Subscribed \ {id[c]} |-> sub[m]], UNCHANGED <<id, log>>
  PROVE  /\ Subscribed' = {id[d] : d \in {e \in Callers : phase'[e] \in InChat}}
         /\ \A m \in Subscribed' : m \in Subscribed /\ sub'[m] = sub[m]
         /\ Following'
<1>1. \A d \in Callers \ {c} : phase[d] # "gone" => id[d] # id[c]
  BY DEF IInv, RegistryAgrees
<1>2. Subscribed' = Subscribed \ {id[c]} /\ \A m \in Subscribed' : m \in Subscribed /\ sub'[m] = sub[m]
  BY DEF Subscribed
<1>3. Subscribed = {id[d] : d \in {e \in Callers : phase[e] \in InChat}}
  BY DEF IInv, RegistryAgrees
<1>4. Subscribed' = {id[d] : d \in {e \in Callers : phase'[e] \in InChat}}
  BY <1>1, <1>2, <1>3 DEF InChat
<1>5. ASSUME NEW d \in Callers, phase'[d] \in InChat PROVE Follows(d)'
  <2>1. d # c /\ phase[d] \in InChat /\ id[d] \in Subscribed \ {id[c]}
    BY <1>1, <1>3, <1>5 DEF InChat
  <2>2. QED
    BY <1>2, <2>1, LeftAlone DEF IInv, Following
<1>6. QED
  BY <1>2, <1>4, <1>5 DEF Following

LEMMA LeaveChatStep ==
  ASSUME IInv, NEW c \in Callers, LeaveChat(c)
  PROVE  IInv'
<1> USE DEF LeaveChat, Move, Unsubscribe
<1>1. TypeOK /\ phase[c] = "unsubscribing"
  BY DEF IInv, RegistryAgrees
<1>2. /\ phase' \in [Callers -> Phases] /\ phase'[c] = "menu"
      /\ \A d \in Callers \ {c} : phase'[d] = phase[d] /\ heard'[d] = heard[d] /\ missed'[d] = missed[d]
  BY <1>1 DEF TypeOK, Phases
<1>3. /\ Subscribed' = {id[d] : d \in {e \in Callers : phase'[e] \in InChat}}
      /\ \A m \in Subscribed' : m \in Subscribed /\ sub'[m] = sub[m]
      /\ Following'
  BY <1>1, <1>2, ChannelClosed DEF InChat
<1>4. RegistryAgrees'
  <2>1. TypeOK'
    <3>1. heard' \in [Callers -> Seq(Messages)] /\ missed' \in [Callers -> SUBSET Messages]
      BY <1>1, EmptySeq DEF TypeOK
    <3>2. QED
      BY <1>1, <1>2, <1>3, <3>1 DEF TypeOK, Messages
  <2>2. {e \in Callers : phase[e] # "gone"}' = {e \in Callers : phase[e] # "gone"}
    BY <1>1, <1>2
  <2>3. QED
    BY <1>1, <1>2, <1>3, <2>1, <2>2 DEF IInv, RegistryAgrees
<1>5. RecallIsLatest'
  BY DEF IInv, RecallIsLatest, Messages, Trim, Latest
<1>6. ArrivalsMatchDepartures'
  BY <1>1, <1>2, NothingAnnounced DEF IInv, Present
<1>7. QED
  BY <1>3, <1>4, <1>5, <1>6 DEF IInv

LEMMA LeaveStep ==
  ASSUME IInv, NEW c \in Callers, Leave(c)
  PROVE  IInv'
<1> USE DEF Leave, Move
<1>1. TypeOK /\ phase[c] = "menu"
  BY DEF IInv, RegistryAgrees
<1>2. /\ phase' \in [Callers -> Phases] /\ phase'[c] = "gone"
      /\ \A d \in Callers \ {c} : phase'[d] = phase[d] /\ heard'[d] = heard[d] /\ missed'[d] = missed[d]
  BY <1>1 DEF TypeOK, Phases
<1>3. /\ Subscribed' = {id[d] : d \in {e \in Callers : phase'[e] \in InChat}}
      /\ \A m \in Subscribed' : m \in Subscribed /\ sub'[m] = sub[m]
      /\ Following'
  BY <1>1, <1>2, ChannelClosed DEF InChat
<1>4. RegistryAgrees'
  <2>1. TypeOK'
    BY <1>1, <1>2, <1>3 DEF TypeOK, Messages
  <2>2. members' = {id[d] : d \in {e \in Callers : phase[e] # "gone"}}'
    <3>1. members = {id[d] : d \in {e \in Callers : phase[e] # "gone"}}
      BY DEF IInv, RegistryAgrees
    <3>2. {e \in Callers : phase[e] # "gone"}' = {e \in Callers : phase[e] # "gone"} \ {c}
      BY <1>1, <1>2
    <3>3. \A d \in Callers \ {c} : phase[d] # "gone" => id[d] # id[c]
      BY <1>1 DEF IInv, RegistryAgrees
    <3>4. QED
      BY <3>1, <3>2, <3>3
  <2>3. QED
    BY <1>1, <1>2, <1>3, <2>1, <2>2 DEF IInv, RegistryAgrees
<1>5. RecallIsLatest'
  BY DEF IInv, RecallIsLatest, Messages, Trim, Latest
<1>6. ArrivalsMatchDepartures'
  BY <1>1, <1>2, NothingAnnounced DEF IInv, Present
<1>7. QED
  BY <1>3, <1>4, <1>5, <1>6 DEF IInv

(* SetHandle, QuitChat and a stutter. *)
LEMMA PassingStep ==
  ASSUME IInv, (\E c \in Callers : SetHandle(c) \/ QuitChat(c)) \/ UNCHANGED vars
  PROVE  IInv'
<1>1. TypeOK
  BY DEF IInv, RegistryAgrees
<1>2. /\ UNCHANGED <<seq, members, sub, backlog, log, id, heard, missed>>
      /\ phase' \in [Callers -> Phases]
      /\ \A d \in Callers : phase'[d] \in InChat <=> phase[d] \in InChat
      /\ \A d \in Callers : phase'[d] = "gone" <=> phase[d] = "gone"
      /\ \A d \in Callers : phase'[d] \in {"chatting", "leaving"} <=> phase[d] \in {"chatting", "leaving"}
      /\ named' \subseteq 1..seq
  BY <1>1 DEF TypeOK, SetHandle, QuitChat, Move, vars, registry, session, Phases, InChat
<1>3. RegistryAgrees'
  <2>1. TypeOK'
    BY <1>1, <1>2 DEF TypeOK, Messages, Subscribed
  <2>2. QED
    BY <1>2, <2>1 DEF IInv, RegistryAgrees, Subscribed
<1>4. RecallIsLatest'
  BY <1>2 DEF IInv, RecallIsLatest, Messages, Trim, Latest
<1>5. Following'
  BY <1>2, LeftAlone DEF IInv, Following
<1>6. ArrivalsMatchDepartures'
  BY <1>1, <1>2, NothingAnnounced DEF IInv, Present
<1>7. QED
  BY <1>3, <1>4, <1>5, <1>6 DEF IInv

LEMMA PublishingStep ==
  ASSUME IInv, NEW c \in Callers, AnnounceArrival(c) \/ AnnounceDeparture(c) \/ Say(c)
  PROVE  IInv'
<1>1. TypeOK /\ phase[c] \in InChat
  BY DEF IInv, RegistryAgrees, AnnounceArrival, AnnounceDeparture, Say, Move, InChat
<1>2. id[c] \in 1..seq
  BY <1>1, ChannelOf DEF IInv, InChat
<1>3. PICK kind \in Kinds : Publish(id[c], kind)
  BY DEF AnnounceArrival, AnnounceDeparture, Say, Kinds
<1>4. /\ UNCHANGED <<id, heard>> /\ phase' \in [Callers -> Phases]
      /\ \A d \in Callers : phase'[d] \in InChat <=> phase[d] \in InChat
      /\ \A d \in Callers : phase'[d] = "gone" <=> phase[d] = "gone"
  BY <1>1 DEF TypeOK, AnnounceArrival, AnnounceDeparture, Say, Move, session, Phases, InChat
<1>5. RegistryAgrees'
  BY <1>2, <1>3, <1>4, PublishKeepsRegistry DEF IInv
<1>6. RecallIsLatest'
  BY <1>1, <1>2, <1>3, RecallSteps DEF IInv
<1>7. Following'
  BY <1>2, <1>3, <1>4, PublishKeepsFollowing DEF IInv
<1>8. ArrivalsMatchDepartures'
  BY AnnouncedArrival, AnnouncedDeparture, SayingAnnouncesNothing DEF IInv
<1>9. QED
  BY <1>5, <1>6, <1>7, <1>8 DEF IInv

LEMMA InitIInv == Init => IInv
<1> SUFFICES ASSUME Init PROVE IInv
  OBVIOUS
<1> USE DEF Init
<1>1. Messages = {} /\ Subscribed = {} /\ Len(log) = 0
  BY DEF Messages, Subscribed
<1>2. RegistryAgrees
  BY <1>1 DEF RegistryAgrees, TypeOK, Phases, InChat
<1>3. RecallIsLatest
  <2>1. Trim([i \in 1..0 |-> i]) = B!Recall(0) /\ B!Recall(0) = <<>>
    BY RecallAsBroadcast
  <2>2. QED
    BY <1>1, <2>1 DEF RecallIsLatest, Messages
<1>4. Following /\ ArrivalsMatchDepartures
  BY DEF Following, InChat, ArrivalsMatchDepartures
<1>5. QED
  BY <1>2, <1>3, <1>4 DEF IInv

LEMMA Inductive == IInv /\ [Next]_vars => IInv'
<1> SUFFICES ASSUME IInv, [Next]_vars PROVE IInv'
  OBVIOUS
<1>1. ASSUME NEW c \in Callers, Join(c) PROVE IInv'
  BY <1>1, JoinStep
<1>2. ASSUME NEW c \in Callers, EnterChat(c) PROVE IInv'
  BY <1>2, EnterChatStep
<1>3. ASSUME NEW c \in Callers, AnnounceArrival(c) \/ AnnounceDeparture(c) \/ Say(c) PROVE IInv'
  BY <1>3, PublishingStep
<1>4. ASSUME NEW c \in Callers, Drain(c) PROVE IInv'
  BY <1>4, DrainStep
<1>5. ASSUME NEW c \in Callers, LeaveChat(c) PROVE IInv'
  BY <1>5, LeaveChatStep
<1>6. ASSUME NEW c \in Callers, Leave(c) PROVE IInv'
  BY <1>6, LeaveStep
<1>7. ASSUME (\E c \in Callers : SetHandle(c) \/ QuitChat(c)) \/ UNCHANGED vars PROVE IInv'
  BY <1>7, PassingStep
<1>8. QED
  BY <1>1, <1>2, <1>3, <1>4, <1>5, <1>6, <1>7 DEF Next

LEMMA InvariantHolds == Spec => []IInv
BY InitIInv, Inductive, PTL DEF Spec

-----------------------------------------------------------------------------

(* The registry lists exactly the connected sessions and the channels exactly
   those in the chat, for any number of callers in any order. *)
THEOREM RegistryCorrect == Spec => []RegistryAgrees
<1>1. IInv => RegistryAgrees
  BY DEF IInv
<1>2. QED
  BY <1>1, InvariantHolds, PTL

(* Each session announces its arrival once before each of its departures. *)
THEOREM AnnouncementsAlternate == Spec => []ArrivalsMatchDepartures
<1>1. IInv => ArrivalsMatchDepartures
  BY DEF IInv
<1>2. QED
  BY <1>1, InvariantHolds, PTL

(* Between the recall and the channel of a caller there is neither a gap nor
   a repetition, for any size of either. *)
THEOREM NoMessageLost == Spec => []NothingSlipsThrough
<1>1. ASSUME IInv PROVE NothingSlipsThrough
  <2>1. ASSUME NEW c \in Callers, phase[c] \in InChat, heard[c] # <<>>
        PROVE  heard[c][1] .. Len(log)
                 = Elements(heard[c]) \cup missed[c] \cup Elements(sub[id[c]])
    <3> DEFINE n == Len(log)
    <3>1. heard[c] \in Seq(1..n) /\ sub[id[c]] \in Seq(1..n) /\ n \in Nat
      BY <1>1, <2>1, QueueType, MessageNumbers DEF IInv, RegistryAgrees
    <3>2. Elements(Queue(c)) = Elements(heard[c]) \cup Elements(sub[id[c]])
      BY <3>1, ElementsOfConcat DEF Queue
    <3>3. Queue(c) # <<>>
      BY <2>1, <3>1, ConcatEqualIffEmpty DEF Queue
    <3>4. Queue(c)[1] = heard[c][1]
      BY <2>1, <3>1, FirstOfConcat DEF Queue
    <3>5. Covers(Queue(c), n, missed[c])
      BY <1>1, <2>1 DEF IInv, Following, Follows
    <3>6. QED
      BY <3>2, <3>3, <3>4, <3>5 DEF Covers
  <2>2. QED
    BY <1>1, <2>1 DEF IInv, RecallIsLatest, NothingSlipsThrough, Elements
<1>2. QED
  BY <1>1, InvariantHolds, PTL

(* What the caller receives next has not been read, and is later than all it
   has read. *)
LEMMA NextIsLater ==
  ASSUME IInv, NEW c \in Callers, phase[c] \in InChat, sub[id[c]] # <<>>
  PROVE  /\ Head(sub[id[c]]) \in 1..Len(log)
         /\ \A i \in 1..Len(heard[c]) : heard[c][i] < Head(sub[id[c]])
<1> DEFINE h == heard[c]
           s == sub[id[c]]
           n == Len(log)
<1>1. h \in Seq(1..n) /\ s \in Seq(1..n)
  BY QueueType DEF IInv
<1>2. Increasing(h \o s)
  BY DEF IInv, Following, Follows, Covers, Queue
<1> HIDE DEF h, s
<1>3. Len(h) \in Nat /\ Len(s) \in Nat \ {0} /\ Head(s) = s[1]
  BY <1>1, EmptySeq DEF s
<1>4. /\ Len(h \o s) = Len(h) + Len(s)
      /\ (h \o s)[Len(h) + 1] = s[1]
      /\ \A i \in 1..Len(h) : (h \o s)[i] = h[i]
  BY <1>1, <1>3, ConcatProperties
<1>5. \A i \in 1..Len(h) : (h \o s)[i] < (h \o s)[Len(h) + 1]
  BY <1>2, <1>3, <1>4 DEF Increasing
<1>6. Head(s) \in 1..n
  BY <1>1, <1>3
<1>7. \A i \in 1..Len(h) : h[i] < Head(s)
  BY <1>3, <1>4, <1>5
<1>8. QED
  BY <1>6, <1>7 DEF h, s

(* Entering is Enter of the broadcast, receiving Hear, the end of leaving
   Depart and the three announcements and texts Publish: a caller is shown
   the latest messages, then later ones, each at most once and in order. *)
THEOREM PresenceImplementsBroadcast == Spec => ImplementsBroadcast
<1>1. Init => B!BInit
  BY DEF Init, B!BInit
<1>2. ASSUME IInv, [Next]_vars
      PROVE  [B!BNext]_<<Len(log), heard>>
  <2>0. TypeOK
    BY <1>2 DEF IInv, RegistryAgrees
  <2>1. ASSUME NEW c \in Callers, EnterChat(c) PROVE B!Enter(c)
    <3>1. backlog = B!Recall(Len(log))
      BY <1>2, <2>0, MessageNumbers, RecallAsBroadcast DEF IInv, RecallIsLatest, Messages
    <3>2. QED
      BY <2>1, <3>1 DEF EnterChat, Subscribe, B!Enter
  <2>2. ASSUME NEW c \in Callers, Drain(c) PROVE B!Hear(c)
    <3>1. phase[c] \in InChat /\ sub[id[c]] # <<>> /\ UNCHANGED log
          /\ heard' = [heard EXCEPT ![c] = Append(@, Head(sub[id[c]]))]
      BY <2>2 DEF Drain, InChat
    <3>2. /\ Head(sub[id[c]]) \in 1..Len(log)
          /\ \A i \in 1..Len(heard[c]) : heard[c][i] < Head(sub[id[c]])
      BY <1>2, <3>1, NextIsLater
    <3>3. QED
      BY <3>1, <3>2 DEF B!Hear
  <2>3. ASSUME NEW c \in Callers, AnnounceArrival(c) \/ AnnounceDeparture(c) \/ Say(c)
        PROVE  B!Publish
    <3>1. phase[c] \in InChat /\ UNCHANGED heard
      BY <2>3 DEF AnnounceArrival, AnnounceDeparture, Say, Move, session, InChat
    <3>2. id[c] \in 1..seq
      BY <1>2, <3>1, ChannelOf DEF IInv, InChat
    <3>3. PICK kind \in Kinds : Publish(id[c], kind)
      BY <2>3 DEF AnnounceArrival, AnnounceDeparture, Say, Kinds
    <3>4. Len(log)' = Len(log) + 1
      BY <1>2, <2>0, <3>2, <3>3, RecallSteps DEF IInv
    <3>5. QED
      BY <3>1, <3>4 DEF B!Publish
  <2>4. ASSUME NEW c \in Callers, LeaveChat(c) PROVE B!Depart(c)
    BY <2>4 DEF LeaveChat, Unsubscribe, B!Depart
  <2>5. ASSUME \/ \E c \in Callers : Join(c) \/ SetHandle(c) \/ QuitChat(c) \/ Leave(c)
               \/ UNCHANGED vars
        PROVE  UNCHANGED <<Len(log), heard>>
    BY <2>5 DEF Join, SetHandle, QuitChat, Leave, vars, registry, session
  <2>6. QED
    BY <1>2, <2>1, <2>2, <2>3, <2>4, <2>5 DEF Next, B!BNext
<1>3. QED
  BY <1>1, <1>2, InvariantHolds, PTL DEF Spec, ImplementsBroadcast, B!BSpec
=============================================================================
