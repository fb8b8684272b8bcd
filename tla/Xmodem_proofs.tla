---------------------------- MODULE Xmodem_proofs ----------------------------
(***************************************************************************)
(* File transfers of any length, with any bounds on retries, on what the   *)
(* line holds back and on what it damages or time-outs cut.                *)
(***************************************************************************)
EXTENDS Xmodem, SequenceTheorems, FiniteSetTheorems, TLAPS

-----------------------------------------------------------------------------
(* Sequences: one element less, one more, or another in its place *)

Without(q, i) == SubSeq(q, 1, i - 1) \o SubSeq(q, i + 1, Len(q))

Split(q, i, m) == SubSeq(q, 1, i - 1) \o m \o SubSeq(q, i + 1, Len(q))

LEMMA EndsAre ==
  ASSUME NEW S, NEW q \in Seq(S), NEW i \in 1..Len(q)
  PROVE  /\ SubSeq(q, 1, i - 1) \in Seq(S) /\ Len(SubSeq(q, 1, i - 1)) = i - 1
         /\ \A p \in 1..i - 1 : SubSeq(q, 1, i - 1)[p] = q[p]
         /\ SubSeq(q, i + 1, Len(q)) \in Seq(S) /\ Len(SubSeq(q, i + 1, Len(q))) = Len(q) - i
         /\ \A p \in 1..Len(q) - i : SubSeq(q, i + 1, Len(q))[p] = q[i + p]
<1>1. Len(q) \in Nat /\ i \in Nat /\ 1 <= i /\ i <= Len(q) /\ \A p \in 1..Len(q) : q[p] \in S
  BY LenProperties, ElementOfSeq
<1>2. /\ SubSeq(q, 1, i - 1) \in Seq(S)
      /\ Len(SubSeq(q, 1, i - 1)) = (IF 1 <= i - 1 THEN i - 1 - 1 + 1 ELSE 0)
      /\ \A p \in 1..i - 1 - 1 + 1 : SubSeq(q, 1, i - 1)[p] = q[1 + p - 1]
  <2>1. 1 \in Int /\ i - 1 \in Int /\ \A p \in 1..i - 1 : q[p] \in S
    BY <1>1
  <2>2. QED
    BY <2>1, SubSeqProperties
<1>3. /\ SubSeq(q, i + 1, Len(q)) \in Seq(S)
      /\ Len(SubSeq(q, i + 1, Len(q))) = (IF i + 1 <= Len(q) THEN Len(q) - (i + 1) + 1 ELSE 0)
      /\ \A p \in 1..Len(q) - (i + 1) + 1 : SubSeq(q, i + 1, Len(q))[p] = q[i + 1 + p - 1]
  <2>1. i + 1 \in Int /\ Len(q) \in Int /\ \A p \in i + 1..Len(q) : q[p] \in S
    BY <1>1
  <2>2. QED
    BY <2>1, SubSeqProperties
<1>4. \A c \in Nat : 1 <= c => (IF 1 <= c - 1 THEN c - 1 - 1 + 1 ELSE 0) = c - 1
  OBVIOUS
<1>5. \A c, d \in Nat : c <= d => (IF c + 1 <= d THEN d - (c + 1) + 1 ELSE 0) = d - c
  OBVIOUS
<1>6. Len(SubSeq(q, 1, i - 1)) = i - 1 /\ Len(SubSeq(q, i + 1, Len(q))) = Len(q) - i
  BY <1>1, <1>2, <1>3, <1>4, <1>5
<1>7. ASSUME NEW p \in 1..i - 1 PROVE SubSeq(q, 1, i - 1)[p] = q[p]
  <2>1. p \in 1..i - 1 - 1 + 1 /\ 1 + p - 1 = p
    BY <1>1
  <2>2. QED
    BY <1>2, <2>1
<1>8. ASSUME NEW p \in 1..Len(q) - i PROVE SubSeq(q, i + 1, Len(q))[p] = q[i + p]
  <2>1. p \in 1..Len(q) - (i + 1) + 1 /\ i + 1 + p - 1 = i + p
    BY <1>1
  <2>2. QED
    BY <1>3, <2>1
<1>9. QED
  BY <1>2, <1>3, <1>6, <1>7, <1>8

LEMMA WithoutIs ==
  ASSUME NEW S, NEW q \in Seq(S), NEW i \in 1..Len(q)
  PROVE  /\ Without(q, i) \in Seq(S) /\ Len(Without(q, i)) = Len(q) - 1
         /\ \A p \in 1..Len(q) - 1 : Without(q, i)[p] = (IF p < i THEN q[p] ELSE q[p + 1])
<1> DEFINE s == SubSeq(q, 1, i - 1)
           t == SubSeq(q, i + 1, Len(q))
<1>1. Len(q) \in Nat /\ i \in Nat /\ 1 <= i /\ i <= Len(q)
  BY LenProperties
<1>2. /\ s \in Seq(S) /\ Len(s) = i - 1 /\ \A p \in 1..i - 1 : s[p] = q[p]
      /\ t \in Seq(S) /\ Len(t) = Len(q) - i /\ \A p \in 1..Len(q) - i : t[p] = q[i + p]
  BY EndsAre
<1> HIDE DEF s, t
<1>3. /\ s \o t \in Seq(S) /\ Len(s \o t) = Len(s) + Len(t)
      /\ \A p \in 1..Len(s) + Len(t) : (s \o t)[p] = (IF p <= Len(s) THEN s[p] ELSE t[p - Len(s)])
  BY <1>2, ConcatProperties
<1>4. Len(s \o t) = Len(q) - 1
  BY <1>1, <1>2, <1>3
<1>5. ASSUME NEW p \in 1..Len(q) - 1 PROVE (s \o t)[p] = (IF p < i THEN q[p] ELSE q[p + 1])
  <2>1. p \in 1..Len(s) + Len(t) /\ p \in Nat
    BY <1>1, <1>2
  <2>2. CASE p < i
    <3>1. p \in 1..i - 1 /\ p <= Len(s)
      BY <1>1, <1>2, <2>1, <2>2
    <3>2. QED
      BY <1>2, <1>3, <2>1, <2>2, <3>1
  <2>3. CASE ~ (p < i)
    <3>1. ~ (p <= Len(s)) /\ p - Len(s) \in 1..Len(q) - i /\ i + (p - Len(s)) = p + 1
      BY <1>1, <1>2, <2>1, <2>3
    <3>2. (s \o t)[p] = t[p - Len(s)]
      BY <1>3, <2>1, <3>1
    <3>3. QED
      BY <1>2, <2>3, <3>1, <3>2
  <2>4. QED
    BY <2>2, <2>3
<1>6. QED
  BY <1>3, <1>4, <1>5 DEF Without, s, t

LEMMA SplitIs ==
  ASSUME NEW S, NEW q \in Seq(S), NEW i \in 1..Len(q), NEW m \in Seq(S), Len(m) = 2
  PROVE  /\ Split(q, i, m) \in Seq(S) /\ Len(Split(q, i, m)) = Len(q) + 1
         /\ \A p \in 1..Len(q) + 1 :
              Split(q, i, m)[p] = (IF p < i THEN q[p] ELSE IF p = i THEN m[1] ELSE IF p = i + 1 THEN m[2] ELSE q[p - 1])
<1> DEFINE s == SubSeq(q, 1, i - 1)
           t == SubSeq(q, i + 1, Len(q))
           u == s \o m
<1>1. Len(q) \in Nat /\ i \in Nat /\ 1 <= i /\ i <= Len(q)
  BY LenProperties
<1>2. /\ s \in Seq(S) /\ Len(s) = i - 1 /\ \A p \in 1..i - 1 : s[p] = q[p]
      /\ t \in Seq(S) /\ Len(t) = Len(q) - i /\ \A p \in 1..Len(q) - i : t[p] = q[i + p]
  BY EndsAre
<1>3. m \in Seq(S) /\ Len(m) = 2
  OBVIOUS
<1> HIDE DEF s, t
<1>4. /\ u \in Seq(S) /\ Len(u) = Len(s) + Len(m)
      /\ \A p \in 1..Len(s) + Len(m) : u[p] = (IF p <= Len(s) THEN s[p] ELSE m[p - Len(s)])
  BY <1>2, <1>3, ConcatProperties
<1> HIDE DEF u
<1>5. /\ u \o t \in Seq(S) /\ Len(u \o t) = Len(u) + Len(t)
      /\ \A p \in 1..Len(u) + Len(t) : (u \o t)[p] = (IF p <= Len(u) THEN u[p] ELSE t[p - Len(u)])
  <2>1. u \in Seq(S) /\ t \in Seq(S)
    BY <1>2, <1>4
  <2>2. QED
    BY ONLY <2>1, ConcatProperties
<1>6. Len(u) = i + 1 /\ Len(u \o t) = Len(q) + 1
  BY <1>1, <1>2, <1>3, <1>4, <1>5
<1>7. ASSUME NEW p \in 1..Len(q) + 1
      PROVE  (u \o t)[p] = (IF p < i THEN q[p] ELSE IF p = i THEN m[1] ELSE IF p = i + 1 THEN m[2] ELSE q[p - 1])
  <2>1. p \in 1..Len(u) + Len(t) /\ p \in Nat
    BY <1>1, <1>2, <1>6
  <2>2. CASE p < i
    <3>1. p \in 1..i - 1 /\ p <= Len(s) /\ p <= Len(u) /\ p \in 1..Len(s) + Len(m)
      BY <1>1, <1>2, <1>3, <1>6, <2>1, <2>2
    <3>2. QED
      BY <1>2, <1>4, <1>5, <2>1, <2>2, <3>1
  <2>3. CASE p = i
    <3>1. ~ (p <= Len(s)) /\ p <= Len(u) /\ p \in 1..Len(s) + Len(m) /\ p - Len(s) = 1 /\ ~ (p < i)
      BY <1>1, <1>2, <1>3, <1>6, <2>1, <2>3
    <3>2. QED
      BY <1>3, <1>4, <1>5, <2>1, <2>3, <3>1
  <2>4. CASE p = i + 1
    <3>1. /\ ~ (p <= Len(s)) /\ p <= Len(u) /\ p \in 1..Len(s) + Len(m) /\ p - Len(s) = 2
          /\ ~ (p < i) /\ p # i
      BY <1>1, <1>2, <1>3, <1>6, <2>1, <2>4
    <3>2. QED
      BY <1>3, <1>4, <1>5, <2>1, <2>4, <3>1
  <2>5. CASE p > i + 1
    <3>1. /\ ~ (p <= Len(u)) /\ p - Len(u) \in 1..Len(q) - i /\ i + (p - Len(u)) = p - 1
          /\ ~ (p < i) /\ p # i /\ p # i + 1
      BY <1>1, <1>2, <1>6, <2>1, <2>5
    <3>2. (u \o t)[p] = t[p - Len(u)]
      BY <1>5, <2>1, <3>1
    <3>3. QED
      BY <1>2, <3>1, <3>2
  <2>6. QED
    BY <1>1, <2>1, <2>2, <2>3, <2>4, <2>5
<1>8. QED
  BY <1>5, <1>6, <1>7 DEF Split, s, t, u

LEMMA AppendIs ==
  ASSUME NEW S, NEW q \in Seq(S), NEW x \in S
  PROVE  /\ Append(q, x) \in Seq(S) /\ Len(Append(q, x)) = Len(q) + 1
         /\ \A i \in 1..Len(q) + 1 : Append(q, x)[i] = (IF i <= Len(q) THEN q[i] ELSE x)
OBVIOUS

LEMMA TailIs ==
  ASSUME NEW S, NEW q \in Seq(S), q # <<>>
  PROVE  /\ Head(q) \in S /\ Head(q) = q[1] /\ Len(q) >= 1
         /\ Tail(q) \in Seq(S) /\ Len(Tail(q)) = Len(q) - 1
         /\ \A i \in 1..Len(q) - 1 : Tail(q)[i] = q[i + 1]
OBVIOUS

-----------------------------------------------------------------------------
(* Block numbers *)

(* Two positions nearer to each other than the numbers go have different
   numbers. *)
LEMMA NumbersDiffer ==
  ASSUME NEW i \in Nat, NEW j \in Nat, i <= j, j < i + Wrap, Number(i) = Number(j)
  PROVE  i = j
<1>1. Wrap \in Nat /\ Wrap >= 1
  BY XmodemAssumption
<1>2. i % Wrap = j % Wrap
  BY DEF Number
<1>3. PICK a \in Nat : a = i \div Wrap
  BY <1>1
<1>4. PICK b \in Nat : b = j \div Wrap
  BY <1>1
<1>5. i = Wrap * a + (i % Wrap) /\ j = Wrap * b + (j % Wrap) /\ i % Wrap \in 0..Wrap - 1
  BY <1>1, <1>3, <1>4
<1>6. Wrap * b - Wrap * a = j - i
  BY <1>1, <1>2, <1>5
<1>7. b = a
  <2>1. CASE b >= a + 1
    <3>1. Wrap * b >= Wrap * (a + 1)
      BY <1>1, <2>1
    <3>2. QED
      BY <1>1, <1>6, <3>1
  <2>2. CASE b <= a - 1
    <3>1. Wrap * a >= Wrap * (b + 1)
      BY <1>1, <2>2
    <3>2. QED
      BY <1>1, <1>6, <3>1
  <2>3. QED
    BY <2>1, <2>2
<1>8. QED
  BY <1>1, <1>6, <1>7

-----------------------------------------------------------------------------
(* Acknowledgements on their way *)

Bytes == {"C", "nak", "ack", "can"}

AckAt(q) == {i \in 1..Len(q) : q[i] = "ack"}

Acks(q) == Cardinality(AckAt(q))

LEMMA AcksAre ==
  ASSUME NEW q \in Seq(Bytes)
  PROVE  IsFiniteSet(AckAt(q)) /\ Acks(q) \in 0..Len(q)
<1>1. Len(q) \in Nat /\ AckAt(q) \subseteq 1..Len(q)
  BY LenProperties DEF AckAt
<1>2. IsFiniteSet(1..Len(q)) /\ Cardinality(1..Len(q)) = Len(q)
  <2>1. \A c \in Nat : IsFiniteSet(1..c) /\ Cardinality(1..c) = c
    BY FS_Interval
  <2>2. QED
    BY <1>1, <2>1
<1>3. IsFiniteSet(AckAt(q)) /\ Acks(q) <= Len(q) /\ Acks(q) \in Nat
  BY <1>1, <1>2, FS_Subset, FS_CardinalityType DEF Acks
<1>4. QED
  BY <1>1, <1>3

LEMMA AcksAppend ==
  ASSUME NEW q \in Seq(Bytes), NEW b \in Bytes
  PROVE  Acks(Append(q, b)) = IF b = "ack" THEN Acks(q) + 1 ELSE Acks(q)
<1>1. /\ Len(Append(q, b)) = Len(q) + 1 /\ Len(q) \in Nat
      /\ \A i \in 1..Len(q) + 1 : Append(q, b)[i] = (IF i <= Len(q) THEN q[i] ELSE b)
  BY AppendIs, LenProperties
<1>2. AckAt(Append(q, b)) = IF b = "ack" THEN AckAt(q) \cup {Len(q) + 1} ELSE AckAt(q)
  <2>1. 1..Len(q) + 1 = (1..Len(q)) \cup {Len(q) + 1}
    BY <1>1
  <2>2. \A i \in 1..Len(q) : Append(q, b)[i] = q[i]
    BY <1>1
  <2>3. Append(q, b)[Len(q) + 1] = b
    BY <1>1
  <2>4. QED
    BY <1>1, <2>1, <2>2, <2>3 DEF AckAt
<1>3. IsFiniteSet(AckAt(q)) /\ Len(q) + 1 \notin AckAt(q)
  BY SMTT(40), <1>1, AcksAre DEF AckAt
<1>4. Cardinality(AckAt(q) \cup {Len(q) + 1}) = Cardinality(AckAt(q)) + 1
  BY ONLY <1>3, FS_AddElement
<1>5. QED
  BY <1>2, <1>4 DEF Acks

(* A sequence made of some of the items of another, each once, has at most as
   many acknowledgements. *)
LEMMA AcksMoved ==
  ASSUME NEW q \in Seq(Bytes), NEW r \in Seq(Bytes), NEW f \in [1..Len(r) -> 1..Len(q)],
         \A i \in 1..Len(r) : r[i] = q[f[i]],
         \A i, j \in 1..Len(r) : f[i] = f[j] => i = j
  PROVE  Acks(r) <= Acks(q)
<1> DEFINE h == [i \in AckAt(r) |-> f[i]]
<1>1. h \in [AckAt(r) -> AckAt(q)]
  BY DEF AckAt
<1>2. \A i, j \in AckAt(r) : h[i] = h[j] => i = j
  BY DEF AckAt
<1> HIDE DEF h
<1>3. h \in Injection(AckAt(r), AckAt(q))
  BY <1>1, <1>2 DEF Injection, IsInjective
<1>4. QED
  BY <1>3, AcksAre, FS_Injection DEF Acks

LEMMA AcksTail ==
  ASSUME NEW q \in Seq(Bytes), q # <<>>
  PROVE  /\ Acks(Tail(q)) <= Acks(q)
         /\ Head(q) = "ack" => Acks(Tail(q)) <= Acks(q) - 1
<1>1. /\ Head(q) = q[1] /\ Len(q) >= 1 /\ Len(q) \in Nat
      /\ Tail(q) \in Seq(Bytes) /\ Len(Tail(q)) = Len(q) - 1
      /\ \A i \in 1..Len(q) - 1 : Tail(q)[i] = q[i + 1]
  BY TailIs, LenProperties
<1> DEFINE h == [i \in AckAt(Tail(q)) |-> i + 1]
<1>2. ASSUME NEW i \in AckAt(Tail(q)) PROVE i + 1 \in AckAt(q) \ {1} /\ i \in Int
  BY <1>1 DEF AckAt
<1>3. h \in Injection(AckAt(Tail(q)), AckAt(q) \ {1})
  <2>1. h \in [AckAt(Tail(q)) -> AckAt(q) \ {1}]
    BY <1>2
  <2>2. \A i, j \in AckAt(Tail(q)) : h[i] = h[j] => i = j
    BY <1>2
  <2> HIDE DEF h
  <2>3. QED
    BY <2>1, <2>2 DEF Injection, IsInjective
<1>4. IsFiniteSet(AckAt(q)) /\ IsFiniteSet(AckAt(q) \ {1}) /\ Cardinality(AckAt(q) \ {1}) <= Acks(q)
  BY AcksAre, FS_Subset DEF Acks
<1>5. Acks(Tail(q)) <= Cardinality(AckAt(q) \ {1})
  BY <1>3, <1>4, FS_Injection DEF Acks
<1>6. Head(q) = "ack" => Cardinality(AckAt(q) \ {1}) = Acks(q) - 1
  <2>1. Head(q) = "ack" => 1 \in AckAt(q)
    BY <1>1 DEF AckAt
  <2>2. 1 \in AckAt(q) => Cardinality(AckAt(q) \ {1}) = Cardinality(AckAt(q)) - 1
    BY ONLY <1>4, FS_RemoveElement
  <2>3. QED
    BY <2>1, <2>2 DEF Acks
<1>7. Acks(Tail(q)) \in Int /\ Acks(q) \in Int /\ Cardinality(AckAt(q) \ {1}) \in Int
  <2>1. Acks(Tail(q)) \in 0..Len(Tail(q)) /\ Acks(q) \in 0..Len(q)
    BY <1>1, AcksAre
  <2>2. Cardinality(AckAt(q) \ {1}) \in Nat
    BY ONLY <1>4, FS_CardinalityType
  <2>3. QED
    BY <2>1, <2>2
<1>8. QED
  BY <1>4, <1>5, <1>6, <1>7

LEMMA AcksWithout ==
  ASSUME NEW q \in Seq(Bytes), NEW i \in 1..Len(q)
  PROVE  Acks(Without(q, i)) <= Acks(q)
<1>1. /\ Without(q, i) \in Seq(Bytes) /\ Len(Without(q, i)) = Len(q) - 1 /\ Len(q) \in Nat
      /\ \A p \in 1..Len(q) - 1 : Without(q, i)[p] = (IF p < i THEN q[p] ELSE q[p + 1])
  BY WithoutIs, LenProperties
<1> DEFINE f == [p \in 1..Len(Without(q, i)) |-> IF p < i THEN p ELSE p + 1]
<1>2. f \in [1..Len(Without(q, i)) -> 1..Len(q)]
  BY <1>1
<1>3. ASSUME NEW p \in 1..Len(Without(q, i)) PROVE Without(q, i)[p] = q[f[p]]
  <2>1. p \in 1..Len(q) - 1 /\ f[p] = (IF p < i THEN p ELSE p + 1)
    BY <1>1
  <2> HIDE DEF f
  <2>2. QED
    BY <1>1, <2>1
<1>4. ASSUME NEW p \in 1..Len(Without(q, i)), NEW r \in 1..Len(Without(q, i)), f[p] = f[r]
      PROVE  p = r
  <2>1. (IF p < i THEN p ELSE p + 1) = (IF r < i THEN r ELSE r + 1)
    BY <1>4
  <2>2. p \in Int /\ r \in Int /\ i \in Int
    OBVIOUS
  <2> HIDE DEF f
  <2>3. QED
    BY ONLY <2>1, <2>2
<1> HIDE DEF f
<1>5. QED
  BY <1>1, <1>2, <1>3, <1>4, AcksMoved

-----------------------------------------------------------------------------
(* The invariant *)

Items == [kind : {"block", "eot", "can", "badBody", "badHeader", "noise"}, n : 0..N, crc : BOOLEAN]

(* Where an item is in the file; the end of the file comes after the blocks. *)
Carries(x) == x.kind \in {"block", "eot"}
Pos(x) == IF x.kind = "block" THEN x.n ELSE N + 1

(* How far acknowledgements may take the sender ahead of what is stored. *)
Lead == MaxDelayed + 2 * MaxDamage + 1

Sends == spc \notin Ended
Reads == rpc \notin Ended

Typed ==
  /\ mode \in {"oterm", "oric", "upload"}
  /\ spc \in {"start", "sent"} \cup Ended /\ rpc \in {"begin", "start", "receive"} \cup Ended
  /\ crc \in BOOLEAN /\ rcrc \in BOOLEAN /\ talked \in BOOLEAN
  /\ blk \in 0..N + 1 /\ tries \in 0..startRetries + maxRetries
  /\ errs \in 0..startRetries /\ damage \in 0..MaxDamage /\ age \in 0..Deadline
  /\ got \in Seq(1..N) /\ Len(got) <= Capacity + 1 /\ (Reads => Len(got) <= Capacity)
  /\ fwd \in Seq(Items) /\ back \in Seq(Bytes)

(* Every block is checked the way the sender chose at the start. *)
BlocksAre ==
  \A i \in 1..Len(fwd) :
    /\ fwd[i].kind = "block" => fwd[i].n >= 1 /\ fwd[i].crc = crc
    /\ damage = 0 => fwd[i].kind \in {"block", "eot", "can"}

(* Nothing is on the line to the receiver before the first block. *)
Started ==
  /\ spc = "start" => blk = 0
  /\ spc = "sent" => blk >= 1
  /\ blk = 0 => fwd = <<>> /\ got = <<>> /\ rpc \notin {"receive", "done"} /\ Acks(back) = 0
  /\ rpc = "begin" => blk = 0 /\ back = <<>>

(* A receiver that changes to sums has no block checked by them before, and
   never changes back. *)
Modes ==
  /\ mode = "oric" => rcrc = FALSE
  /\ blk >= 1 /\ crc = FALSE => rcrc = FALSE
  /\ blk = 0 /\ (\E i \in 1..Len(back) : back[i] = "nak") => rcrc = FALSE

(* Items are in the order of the file, and skip one at most for each that was
   lost, damaged or cut. *)
OnTheLine ==
  Reads => \A p \in 1..Len(fwd) : Carries(fwd[p]) =>
    /\ Pos(fwd[p]) <= blk /\ blk <= Pos(fwd[p]) + (Len(fwd) - p) + damage
    /\ \A q \in p..Len(fwd) : Carries(fwd[q]) =>
         Pos(fwd[p]) <= Pos(fwd[q]) /\ Pos(fwd[q]) <= Pos(fwd[p]) + (q - p) + damage

(* Time-outs come only while little is on the line. *)
Room == Reads /\ Sends => Len(fwd) + Len(back) <= MaxDelayed + 1 + damage

LeadBounded == Reads /\ mode # "oric" /\ Lead < Wrap => blk + Acks(back) <= Len(got) + Lead

(* When a number says which block it is: a file shorter than the numbers go,
   nothing damaged or cut, or numbers enough for what the line holds back. *)
Sure == N < Wrap \/ damage = 0 \/ (mode # "oric" /\ Lead < Wrap)

InPlace ==
  Sure =>
    /\ \A i \in 1..Len(got) : got[i] = i
    /\ Reads => /\ Len(got) <= blk
                /\ \A p \in 1..Len(fwd) : Carries(fwd[p]) => Len(got) <= Pos(fwd[p])

(* The receiver checks blocks the way the sender does, and nothing was lost,
   damaged or cut: no block is between those that are stored and those on the line. *)
Agreed == damage = 0 /\ (mode = "oric" \/ rcrc = crc) /\ blk >= 1

NoGap ==
  Agreed =>
    /\ Reads => /\ blk <= Len(got) + Len(fwd)
                /\ \A p \in 1..Len(fwd) : Carries(fwd[p]) => Pos(fwd[p]) <= Len(got) + p
    /\ rpc = "done" => Len(got) = N

IInv == /\ Typed /\ BlocksAre /\ Started /\ Modes /\ OnTheLine
        /\ Room /\ LeadBounded /\ InPlace /\ NoGap

LEMMA XmodemInit == Init => IInv
<1> SUFFICES ASSUME Init PROVE IInv
  OBVIOUS
<1>1. /\ mode \in {"oterm", "oric", "upload"}
      /\ spc = "start" /\ blk = 0 /\ tries = 0 /\ crc = FALSE
      /\ rpc = "begin" /\ errs = 0 /\ got = <<>>
      /\ fwd = <<>> /\ back = <<>> /\ damage = 0 /\ age = 0 /\ talked = TRUE
  BY DEF Init
<1>2. rcrc \in BOOLEAN /\ (mode = "oric" => rcrc = FALSE)
  BY DEF Init
<1>3. <<>> \in Seq(1..N) /\ <<>> \in Seq(Items) /\ <<>> \in Seq(Bytes) /\ Len(<<>>) = 0
  BY EmptySeq
<1>4. Acks(<<>>) = 0
  <2>1. Acks(<<>>) \in 0..Len(<<>>)
    BY <1>3, AcksAre
  <2>2. QED
    BY <1>3, <2>1
<1>5. Typed
  <2>1. /\ 0 \in 0..N + 1 /\ 0 \in 0..startRetries + maxRetries /\ 0 \in 0..startRetries
        /\ 0 \in 0..MaxDamage /\ 0 \in 0..Deadline /\ 0 <= Capacity + 1 /\ 0 <= Capacity
    BY XmodemAssumption DEF Deadline
  <2>2. Len(got) <= Capacity + 1 /\ Len(got) <= Capacity
    BY <1>1, <1>3, <2>1
  <2>3. got \in Seq(1..N) /\ fwd \in Seq(Items) /\ back \in Seq(Bytes)
    BY <1>1, <1>3
  <2>4. QED
    BY <1>1, <1>2, <2>1, <2>2, <2>3 DEF Typed
<1>6. BlocksAre /\ OnTheLine
  BY <1>1, <1>3 DEF BlocksAre, OnTheLine
<1>7. Started /\ Modes
  BY <1>1, <1>2, <1>3, <1>4 DEF Started, Modes
<1>8. Room
  BY <1>1, <1>3, XmodemAssumption DEF Room
<1>9. LeadBounded
  BY <1>1, <1>3, <1>4, XmodemAssumption DEF LeadBounded, Lead
<1>10. InPlace /\ NoGap
  BY <1>1, <1>3 DEF InPlace, NoGap, Agreed
<1>11. QED
  BY <1>5, <1>6, <1>7, <1>8, <1>9, <1>10 DEF IInv

-----------------------------------------------------------------------------
(* What a step of the sender does *)

LEMMA ItemsAre ==
  ASSUME NEW i \in 1..N + 1, NEW c \in BOOLEAN
  PROVE  /\ Item(i, c) \in Items /\ Carries(Item(i, c)) /\ Pos(Item(i, c)) = i
         /\ Item(i, c).kind = "block" => Item(i, c).n >= 1 /\ Item(i, c).crc = c
         /\ Item(i, c).kind \in {"block", "eot", "can"}
<1>1. CASE i <= N
  <2>1. Item(i, c) = [kind |-> "block", n |-> i, crc |-> c] /\ i \in 0..N
    BY <1>1, XmodemAssumption DEF Item, Block
  <2>2. QED
    BY <2>1 DEF Items, Carries, Pos
<1>2. CASE ~ (i <= N)
  <2>1. Item(i, c) = [kind |-> "eot", n |-> 0, crc |-> FALSE] /\ i = N + 1 /\ 0 \in 0..N
    BY <1>2, XmodemAssumption DEF Item, Signal
  <2>2. QED
    BY <2>1 DEF Items, Carries, Pos
<1>3. QED
  BY <1>1, <1>2

Transmits(i) == OntoFwd(Item(i, crc'))

Quiet ==
  /\ UNCHANGED <<blk, crc>> /\ (spc' = spc \/ spc' \in Ended)
  /\ fwd' = fwd \/ (~ Sends' /\ spc = "sent" /\ OntoFwd(Signal("can")))

Again ==
  /\ spc = "sent" /\ spc' = "sent" /\ UNCHANGED <<blk, crc>>
  /\ Transmits(blk)
  /\ back' = back => TimeoutPossible

Onward ==
  /\ spc = "sent" /\ spc' = "sent" /\ blk <= N /\ blk' = blk + 1 /\ crc' = crc
  /\ Transmits(blk + 1)
  /\ back # <<>> /\ Head(back) = "ack" /\ back' = Tail(back)

First ==
  /\ spc = "start" /\ spc' = "sent" /\ blk' = 1 /\ crc' \in BOOLEAN
  /\ Transmits(1)
  /\ back # <<>> /\ back' = Tail(back) /\ (crc' = TRUE \/ Head(back) = "nak")

SenderDoes ==
  /\ UNCHANGED <<mode, receiver, damage>>
  /\ tries' \in 0..startRetries + maxRetries
  /\ back' = back \/ (back # <<>> /\ back' = Tail(back))
  /\ Quiet \/ Again \/ Onward \/ First

LEMMA SenderActs ==
  ASSUME Typed, Started, NEW b \in Answers, SenderStep(b)
  PROVE  SenderDoes /\ age' = age /\ talked' \in BOOLEAN
<1>1. UNCHANGED <<mode, receiver, damage, age>> /\ talked' \in BOOLEAN
  BY DEF SenderStep, Typed
<1>2. /\ \/ back # <<>> /\ b = Head(back) /\ back' = Tail(back)
         \/ b = "timeout" /\ TimeoutPossible /\ back' = back
      /\ Send(b) \/ xmodem_send(b)
  BY DEF SenderStep, FromBack
<1>3. \A x \in Seq(Bytes) : x # <<>> => Head(x) \in Bytes
  BY TailIs
<1>4. b = "ack" \/ b = "C" \/ b = "nak" => back # <<>> /\ b = Head(back) /\ back' = Tail(back)
  BY <1>2
<1>5. /\ maxRetries \in Nat \ {0} /\ startRetries \in Nat \ {0} /\ N \in Nat
      /\ tries \in 0..startRetries + maxRetries /\ blk \in 0..N + 1 /\ crc \in BOOLEAN
  BY XmodemAssumption DEF Typed
<1>6. ASSUME NEW i, NEW k, NEW c, Transmit(i, k, c)
      PROVE  \/ spc' = "sent" /\ blk' = i /\ tries' = k /\ crc' = c /\ OntoFwd(Item(i, c))
             \/ spc' \in Ended /\ UNCHANGED <<blk, tries, crc, fwd>>
  BY <1>6 DEF Transmit, Ended
<1> DEFINE Does == tries' \in 0..startRetries + maxRetries /\ (Quiet \/ Again \/ Onward \/ First)
<1>7. 1 \in 0..startRetries + maxRetries /\ \A k \in 1..maxRetries : k \in 0..startRetries + maxRetries
  BY <1>5
<1>8. SUFFICES Does
  BY <1>1, <1>2 DEF SenderDoes
<1>9. CASE spc = "start"
  <2>1. ASSUME NEW c \in BOOLEAN, Transmit(1, 1, c), b = (IF c THEN "C" ELSE "nak") PROVE Does
    <3>1. back # <<>> /\ b = Head(back) /\ back' = Tail(back)
      BY <1>4, <2>1
    <3>2. CASE spc' = "sent" /\ blk' = 1 /\ tries' = 1 /\ crc' = c /\ OntoFwd(Item(1, c))
      <4>1. First
        BY <1>9, <2>1, <3>1, <3>2 DEF First, Transmits
      <4>2. QED
        BY <1>7, <3>2, <4>1
    <3>3. CASE spc' \in Ended /\ UNCHANGED <<blk, tries, crc, fwd>>
      BY <1>5, <3>3 DEF Quiet
    <3>4. QED
      BY <1>6, <2>1, <3>2, <3>3
  <2> HIDE DEF Does
  <2>2. (b = "C" /\ Transmit(1, 1, TRUE) => Does) /\ (b = "nak" /\ Transmit(1, 1, FALSE) => Does)
    <3>1. TRUE \in BOOLEAN /\ FALSE \in BOOLEAN
      OBVIOUS
    <3>2. QED
      BY <2>1, <3>1
  <2>3. CASE b \in {"C", "nak"} /\ Transmit(1, 1, b = "C")
    <3>1. b = "C" => Transmit(1, 1, TRUE)
      BY <2>3
    <3>2. b = "nak" => Transmit(1, 1, FALSE)
      BY <2>3
    <3>3. QED
      BY <2>2, <2>3, <3>1, <3>2
  <2>4. CASE Stop("failed") /\ UNCHANGED fwd
    BY <1>5, <2>4 DEF Stop, Quiet, Ended, Does
  <2>5. CASE tries + 1 < startRetries /\ tries' = tries + 1 /\ UNCHANGED <<spc, blk, crc, fwd>>
    BY <1>5, <2>5 DEF Quiet, Does
  <2>6. CASE UNCHANGED <<sender, fwd>>
    BY <1>5, <2>6 DEF sender, Quiet, Does
  <2>7. CASE Send(b)
    <3>1. waitStart(b)
      BY <1>9, <2>7 DEF Send, sendBlock, sendEOT
    <3>2. QED
      BY <2>3, <2>4, <2>5, <3>1 DEF waitStart
  <2>8. CASE xmodem_send(b)
    BY <1>9, <2>2, <2>6, <2>8 DEF xmodem_send
  <2>9. QED
    BY <1>2, <2>7, <2>8
<1>10. CASE spc = "sent"
  <2>1. ASSUME NEW k \in 1..maxRetries, Transmit(blk, k, crc), back' = back => b = "timeout" PROVE Does
    <3>1. back' = back => TimeoutPossible
      BY <1>2, <2>1, TailIs DEF Typed
    <3>2. CASE spc' = "sent" /\ blk' = blk /\ tries' = k /\ crc' = crc /\ OntoFwd(Item(blk, crc))
      <4>1. Again
        BY <1>10, <3>1, <3>2 DEF Again, Transmits
      <4>2. QED
        BY <1>7, <3>2, <4>1
    <3>3. CASE spc' \in Ended /\ UNCHANGED <<blk, tries, crc, fwd>>
      BY <1>5, <3>3 DEF Quiet
    <3>4. QED
      BY <1>6, <2>1, <3>2, <3>3
  <2>2. CASE b = "ack" /\ blk <= N /\ Transmit(AfterAck(blk), 1, crc)
    <3>1. back # <<>> /\ b = Head(back) /\ back' = Tail(back)
      BY <1>4, <2>2
    <3>2. CASE spc' = "sent" /\ blk' = blk + 1 /\ tries' = 1 /\ crc' = crc /\ OntoFwd(Item(blk + 1, crc))
      <4>1. Onward
        BY <1>10, <2>2, <3>1, <3>2 DEF Onward, Transmits
      <4>2. QED
        BY <1>7, <3>2, <4>1
    <3>3. CASE spc' \in Ended /\ UNCHANGED <<blk, tries, crc, fwd>>
      BY <1>5, <3>3 DEF Quiet
    <3>4. QED
      BY <1>6, <2>2, <3>2, <3>3 DEF AfterAck
  <2>3. CASE (Stop("failed") \/ Stop("done")) /\ (UNCHANGED fwd \/ sendCan)
    <3>1. spc' \in Ended /\ UNCHANGED <<blk, tries, crc>>
      BY <2>3 DEF Stop, Ended
    <3>2. fwd' = fwd \/ OntoFwd(Signal("can"))
      BY <2>3 DEF sendCan
    <3>3. QED
      BY <1>5, <1>10, <3>1, <3>2 DEF Quiet, Sends
  <2>4. back' = back => b = "timeout"
    <3>1. back # <<>> => Tail(back) # back
      <4>1. back # <<>> => Len(Tail(back)) = Len(back) - 1 /\ Len(back) \in Nat
        BY TailIs, LenProperties DEF Typed
      <4>2. QED
        BY <4>1
    <3>2. QED
      BY <1>2, <3>1
  <2> HIDE DEF Does
  <2>5. ASSUME Retry PROVE Does
    <3>1. CASE tries < maxRetries /\ Transmit(blk, tries + 1, crc)
      <4>1. tries + 1 \in 1..maxRetries
        BY <1>5, <3>1
      <4>2. QED
        BY <2>1, <2>4, <3>1, <4>1
    <3>2. QED
      BY <2>3, <2>5, <3>1 DEF Retry
  <2>6. CASE Send(b)
    BY <1>10, <2>2, <2>3, <2>5, <2>6 DEF Send, waitStart, sendBlock, sendEOT
  <2>7. CASE xmodem_send(b)
    <3>1. 1 \in 1..maxRetries
      BY <1>5
    <3>2. QED
      BY <1>10, <2>1, <2>2, <2>3, <2>4, <2>7, <3>1 DEF xmodem_send
  <2>8. QED
    BY <1>2, <2>6, <2>7
<1>11. spc = "start" \/ spc = "sent"
  BY <1>2 DEF Send, waitStart, sendBlock, sendEOT, xmodem_send
<1>12. QED
  BY <1>9, <1>10, <1>11

-----------------------------------------------------------------------------
(* What a step of the receiver does *)

Answered(b) == back' = back \/ OntoBack(b)

Expects(x) == Number(x.n) = Number(Expected)

(* The start byte again, or a time-out counted. *)
Waits ==
  /\ UNCHANGED <<mode, sender, damage, fwd, got>>
  /\ rpc = "begin" \/ (rpc \in {"start", "receive"} /\ TimeoutPossible)
  /\ rpc' # "begin" /\ (rpc' = rpc \/ rpc' \in {"start", "failed", "cut"})
  /\ rcrc' \in BOOLEAN /\ (rcrc = FALSE => rcrc' = FALSE)
  /\ \E b \in {"C", "nak", "can"} :
       /\ Answered(b)
       /\ (b = "nak" /\ rpc = "receive") \/ b # "nak" \/ rcrc' = FALSE

Stores(x) ==
  /\ x.kind = "block" /\ Expects(x) /\ (mode = "oric" \/ x.crc = rcrc)
  /\ got' = Append(got, x.n) /\ rcrc' = rcrc
  /\ \/ rpc' = "receive" /\ Len(got) + 1 <= Capacity /\ Answered("ack")
     \/ rpc' = "failed" /\ Answered("can")

Repeats(x) ==
  /\ x.kind = "block" /\ ~ Expects(x)
  /\ mode # "oric" => Number(x.n) = Number(Len(got))
  /\ rpc' = "receive" /\ UNCHANGED <<got, rcrc>>
  /\ Answered("ack")

Refuses(x) ==
  /\ x.kind = "block" => mode # "oric" /\ (x.crc = rcrc => ~ Expects(x))
  /\ x.kind \notin {"eot", "can"}
  /\ rpc' \in {"start", "receive"} /\ UNCHANGED <<got, rcrc>>
  /\ \E b \in {"nak", "C"} : Answered(b)

Ends(x) ==
  /\ rpc' \in Ended /\ UNCHANGED <<got, rcrc>>
  /\ rpc' = "done" => x.kind \in {"eot", "noise"}
  /\ \E b \in {"ack", "can"} : Answered(b)

Takes ==
  /\ UNCHANGED <<mode, sender, damage>>
  /\ Reads /\ rpc # "begin" /\ fwd # <<>> /\ fwd' = Tail(fwd)
  /\ Stores(Head(fwd)) \/ Repeats(Head(fwd)) \/ Refuses(Head(fwd)) \/ Ends(Head(fwd))

LEMMA ReceiverWaits ==
  ASSUME Typed, Modes, Begin \/ ReadNothing
  PROVE  Waits /\ errs' \in 0..startRetries /\ UNCHANGED <<age, talked>>
<1>1. /\ UNCHANGED <<mode, sender, fwd, damage, age, talked>>
      /\ rpc = "begin" \/ (rpc \in {"start", "receive"} /\ TimeoutPossible)
  BY DEF Begin, ReadNothing, time
<1>2. startRetries \in Nat /\ errs \in 0..startRetries /\ rcrc \in BOOLEAN
  BY XmodemAssumption DEF Typed
<1> DEFINE Says(b) == Answered(b) /\ ((b = "nak" /\ rpc = "receive") \/ b # "nak" \/ rcrc' = FALSE)
           Moves == rpc' # "begin" /\ (rpc' = rpc \/ rpc' \in {"start", "failed", "cut"})
           Keeps == rcrc' \in BOOLEAN /\ (rcrc = FALSE => rcrc' = FALSE)
           Does == /\ errs' \in 0..startRetries /\ got' = got
                   /\ Moves /\ Keeps /\ \E b \in {"C", "nak", "can"} : Says(b)
<1>3. SUFFICES Does
  BY <1>1 DEF Waits
<1>4. ASSUME NEW e \in 0..startRetries, NEW c \in BOOLEAN, rcrc = FALSE => c = FALSE, Loop(e, c),
             rpc \in {"begin", "start", "receive"}
      PROVE  Does
  <2>1. errs' \in 0..startRetries /\ got' = got
    BY <1>4 DEF Loop
  <2>2. rcrc' = c
    BY <1>4 DEF Loop
  <2>3. Keeps
    BY <1>4, <2>2
  <2>4. ASSUME Moves, NEW b \in {"C", "nak", "can"}, Says(b) PROVE Does
    <3> HIDE DEF Moves, Keeps, Says
    <3>1. QED
      BY <2>1, <2>3, <2>4
  <2> HIDE DEF Does
  <2>5. CASE rpc \in {"begin", "start"} /\ rpc' = "cut" /\ UNCHANGED back
    <3>1. Says("C")
      BY <2>5 DEF Answered
    <3>2. QED
      BY <2>4, <2>5, <3>1
  <2>6. CASE rpc \in {"begin", "start"} /\ rpc' = "start" /\ OntoBack(IF c THEN "C" ELSE "nak")
    <3>1. CASE c = TRUE
      <4>1. Says("C")
        BY <2>6, <3>1 DEF Answered
      <4>2. QED
        BY <2>4, <2>6, <4>1
    <3>2. CASE c = FALSE
      <4>1. OntoBack("nak") /\ rcrc' = FALSE
        BY <2>2, <2>6, <3>2
      <4>2. Says("nak")
        BY <4>1 DEF Answered
      <4>3. QED
        BY <2>4, <2>6, <4>2
    <3>3. QED
      BY <3>1, <3>2
  <2>7. CASE rpc = "receive" /\ UNCHANGED <<rpc, back>>
    <3>1. Says("C")
      BY <2>7 DEF Answered
    <3>2. rpc' = rpc /\ rpc' # "begin"
      BY <2>7
    <3>3. QED
      BY <2>4, <3>1, <3>2
  <2>8. QED
    BY <1>4, <2>5, <2>6, <2>7 DEF Loop
<1> HIDE DEF Does
<1>5. CASE Begin
  BY <1>2, <1>4, <1>5 DEF Begin
<1>6. CASE ReadNothing /\ mode = "oric"
  <2>1. UNCHANGED <<rpc, errs, rcrc, got>> /\ Answered("nak") /\ rpc \in {"start", "receive"}
    BY <1>6 DEF ReadNothing, receiver, Answer, Answered
  <2>2. rcrc = FALSE
    BY <1>6 DEF Modes
  <2>3. Says("nak") /\ Moves
    BY <2>1, <2>2
  <2>4. Keeps
    BY <1>2, <2>1
  <2> HIDE DEF Says, Moves, Keeps
  <2>5. QED
    BY <1>2, <2>1, <2>3, <2>4 DEF Does
<1>7. CASE ReadNothing /\ mode # "oric"
  <2>1. ReceiveTimeout /\ rpc \in {"start", "receive"}
    BY <1>7 DEF ReadNothing
  <2>2. CASE errs = startRetries
    <3>1. rpc' = "failed" /\ UNCHANGED <<errs, rcrc, got>> /\ Answered("can")
      BY <2>1, <2>2 DEF ReceiveTimeout, Finish, Answer, Answered
    <3>2. Says("can") /\ Moves
      BY <3>1
    <3>3. Keeps
      BY <1>2, <3>1
    <3> HIDE DEF Says, Moves, Keeps
    <3>4. QED
      BY <1>2, <3>1, <3>2, <3>3 DEF Does
  <2>3. CASE errs # startRetries
    <3>1. Loop(errs + 1, rcrc /\ errs + 1 < Fallback)
      BY <2>1, <2>3 DEF ReceiveTimeout
    <3>2. errs + 1 \in 0..startRetries
      BY <1>2, <2>3
    <3>3. CASE rcrc /\ errs + 1 < Fallback
      <4>1. Loop(errs + 1, TRUE) /\ rcrc = TRUE
        BY <1>2, <3>1, <3>3
      <4>2. QED
        BY <1>4, <2>1, <3>2, <4>1
    <3>4. CASE ~ (rcrc /\ errs + 1 < Fallback)
      <4>1. Loop(errs + 1, FALSE)
        BY <3>1, <3>4
      <4>2. QED
        BY <1>4, <2>1, <3>2, <4>1
    <3>5. QED
      BY <3>3, <3>4
  <2>4. QED
    BY <2>2, <2>3
<1>8. QED
  BY <1>5, <1>6, <1>7

LEMMA ReceiverTakes ==
  ASSUME Typed, Modes, ReadItem
  PROVE  Takes /\ errs' \in 0..startRetries /\ age' = age /\ talked' \in BOOLEAN
<1> DEFINE x == Head(fwd)
<1>1. /\ UNCHANGED <<mode, sender, damage, age>> /\ talked' \in BOOLEAN
      /\ rpc \in {"start", "receive"} /\ fwd # <<>> /\ fwd' = Tail(fwd)
      /\ IF mode = "oric" THEN xmodem_recv(x) ELSE Receive(x)
  BY DEF ReadItem, Typed
<1>2. startRetries \in Nat /\ errs \in 0..startRetries /\ rcrc \in BOOLEAN /\ Reads /\ rpc # "begin"
  BY <1>1, XmodemAssumption DEF Typed, Reads, Ended
<1>3. x \in Items
  BY <1>1, TailIs DEF Typed
<1>4. got \in Seq(1..N) /\ Len(got) \in Nat /\ Expected - 1 = Len(got) /\ Capacity \in Nat
  BY LenProperties, XmodemAssumption DEF Typed, Expected
<1> HIDE DEF x
<1> DEFINE Does == errs' = errs /\ (Stores(x) \/ Repeats(x) \/ Refuses(x) \/ Ends(x))
<1>5. SUFFICES Does
  BY <1>1, <1>2 DEF Takes, x
<1>6. \A b : Answer(b) => Answered(b)
  BY DEF Answer, Answered
<1>7. \A b : UNCHANGED back => Answered(b)
  BY DEF Answered
<1>8. \A k \in Meanings(x) : /\ x.kind = "noise" => k \in {"eot", "can", "other"}
                             /\ x.kind # "noise" => k = x.kind
                             /\ k = "eot" => x.kind \in {"eot", "noise"}
                             /\ k = "other" => x.kind = "noise"
                             /\ k = "block" => x.kind = "block"
  BY <1>3 DEF Meanings, Items
<1>9. ASSUME NEW state \in {"done", "failed"}, Finish(state), NEW b \in {"ack", "can"}, Answered(b),
             state = "done" => x.kind \in {"eot", "noise"}
      PROVE  Does
  BY <1>9 DEF Finish, Ends, Ended
<1>10. ASSUME UNCHANGED <<errs, rcrc, got>>, rpc' \in {"start", "receive"},
              NEW b \in {"nak", "C"}, Answered(b), x.kind \notin {"eot", "can"},
              x.kind = "block" => mode # "oric" /\ (x.crc = rcrc => ~ Expects(x))
       PROVE  Does
  BY <1>10 DEF Refuses
<1>11. CASE mode = "oric"
  <2>1. PICK k \in Meanings(x) :
          \/ k = "eot" /\ Finish("done") /\ Answer("ack")
          \/ k = "can" /\ Finish("failed") /\ UNCHANGED back
          \/ k = "other" /\ Finish("receive") /\ UNCHANGED back
          \/ k \in {"block", "badBody"} /\ Len(got) = Capacity /\ Finish("failed") /\ Answer("can")
          \/ /\ k = "block" /\ Len(got) < Capacity
             /\ rpc' = "receive" /\ UNCHANGED <<errs, rcrc>>
             /\ got' = IF Number(x.n) = Number(Expected) THEN Append(got, x.n) ELSE got
             /\ Answer("ack")
          \/ (k = "badHeader" \/ (k = "badBody" /\ Len(got) < Capacity)) /\ Refuse
    BY <1>1, <1>11 DEF xmodem_recv
  <2>2. CASE k = "eot" /\ Finish("done") /\ Answer("ack")
    BY <1>6, <1>8, <1>9, <2>2
  <2>3. CASE k = "can" /\ Finish("failed") /\ UNCHANGED back
    BY <1>7, <1>9, <2>3
  <2>4. CASE k = "other" /\ Finish("receive") /\ UNCHANGED back
    BY <1>7, <1>8, <1>10, <2>4 DEF Finish
  <2>5. CASE k \in {"block", "badBody"} /\ Len(got) = Capacity /\ Finish("failed") /\ Answer("can")
    BY <1>6, <1>9, <2>5
  <2>6. CASE /\ k = "block" /\ Len(got) < Capacity
             /\ rpc' = "receive" /\ UNCHANGED <<errs, rcrc>>
             /\ got' = IF Number(x.n) = Number(Expected) THEN Append(got, x.n) ELSE got
             /\ Answer("ack")
    <3>1. x.kind = "block" /\ Len(got) + 1 <= Capacity
      BY <1>4, <1>8, <2>6
    <3>2. CASE Expects(x)
      BY <1>6, <1>11, <2>6, <3>1, <3>2 DEF Stores, Expects
    <3>3. CASE ~ Expects(x)
      BY <1>6, <1>11, <2>6, <3>1, <3>3 DEF Repeats, Expects
    <3>4. QED
      BY <3>2, <3>3
  <2>7. CASE (k = "badHeader" \/ (k = "badBody" /\ Len(got) < Capacity)) /\ Refuse
    BY <1>6, <1>8, <1>10, <2>7 DEF Finish, Refuse
  <2>8. QED
    BY <2>1, <2>2, <2>3, <2>4, <2>5, <2>6, <2>7
<1>12. CASE mode # "oric"
  <2>1. PICK k \in Meanings(x) :
          \/ k = "eot" /\ Finish("done") /\ Answer("ack")
          \/ k = "can" /\ Finish("failed") /\ UNCHANGED back
          \/ k = "other" /\ Loop(errs, rcrc)
          \/ k = "block" /\ x.crc = rcrc /\ ReceiveBlock(x)
          \/ (k \in {"badBody", "badHeader"} \/ (k = "block" /\ x.crc # rcrc)) /\ Refuse
    BY <1>1, <1>12 DEF Receive
  <2>2. CASE k = "eot" /\ Finish("done") /\ Answer("ack")
    BY <1>6, <1>8, <1>9, <2>2
  <2>3. CASE k = "can" /\ Finish("failed") /\ UNCHANGED back
    BY <1>7, <1>9, <2>3
  <2>4. CASE k = "other" /\ Loop(errs, rcrc)
    <3>1. x.kind = "noise" /\ UNCHANGED <<errs, rcrc, got>>
      BY <1>8, <2>4 DEF Loop
    <3>2. CASE rpc' = "cut" /\ UNCHANGED back
      BY <1>7, <3>1, <3>2 DEF Ends, Ended
    <3>3. CASE rpc' = "start" /\ OntoBack(IF rcrc THEN "C" ELSE "nak")
      <4>1. Answered("C") \/ Answered("nak")
        BY <3>3 DEF Answered
      <4>2. QED
        BY <1>10, <3>1, <3>3, <4>1
    <3>4. CASE rpc = "receive" /\ UNCHANGED <<rpc, back>>
      BY <1>7, <1>10, <3>1, <3>4
    <3>5. QED
      BY <2>4, <3>2, <3>3, <3>4 DEF Loop
  <2>5. CASE k = "block" /\ x.crc = rcrc /\ ReceiveBlock(x)
    <3>1. x.kind = "block"
      BY <1>8, <2>5
    <3>2. CASE /\ Number(x.n) = Number(Expected)
               /\ got' = Append(got, x.n) /\ UNCHANGED <<errs, rcrc>>
               /\ IF Len(got) + 1 > Capacity THEN rpc' = "failed" /\ Answer("can")
                                             ELSE rpc' = "receive" /\ Answer("ack")
      <4>1. Expects(x)
        BY <3>2 DEF Expects
      <4>2. CASE Len(got) + 1 > Capacity
        BY <1>6, <2>5, <3>1, <3>2, <4>1, <4>2 DEF Stores
      <4>3. CASE ~ (Len(got) + 1 > Capacity)
        <5>1. Len(got) + 1 <= Capacity
          BY <1>4, <4>3
        <5>2. QED
          BY <1>6, <2>5, <3>1, <3>2, <4>1, <4>3, <5>1 DEF Stores
      <4>4. QED
        BY <4>2, <4>3
    <3>3. CASE /\ Number(x.n) # Number(Expected)
               /\ rpc' = "receive" /\ UNCHANGED <<errs, rcrc, got>>
               /\ Answer(IF Number(x.n) = Number(Expected - 1) THEN "ack" ELSE "nak")
      <4>1. ~ Expects(x)
        BY <3>3 DEF Expects
      <4>2. CASE Number(x.n) = Number(Expected - 1)
        BY <1>4, <1>6, <3>1, <3>3, <4>1, <4>2 DEF Repeats
      <4>3. CASE Number(x.n) # Number(Expected - 1)
        BY <1>6, <1>10, <1>12, <3>1, <3>3, <4>1, <4>3
      <4>4. QED
        BY <4>2, <4>3
    <3>4. QED
      BY <2>5, <3>2, <3>3 DEF ReceiveBlock
  <2>6. CASE (k \in {"badBody", "badHeader"} \/ (k = "block" /\ x.crc # rcrc)) /\ Refuse
    BY <1>6, <1>8, <1>10, <1>12, <2>6 DEF Finish, Refuse
  <2>7. QED
    BY <2>1, <2>2, <2>3, <2>4, <2>5, <2>6
<1>13. QED
  BY <1>11, <1>12

-----------------------------------------------------------------------------
(* The sender keeps the invariant *)

LEMMA Constants ==
  /\ N \in Nat /\ Wrap \in Nat /\ Wrap >= 2 /\ Capacity \in Nat /\ MaxDamage \in Nat /\ MaxDelayed \in Nat
  /\ startRetries \in Nat /\ maxRetries \in Nat /\ Lead \in Nat /\ Lead >= 1
  /\ "can" \notin {"block", "eot"}
BY XmodemAssumption DEF Lead

LEMMA Lengths ==
  ASSUME Typed
  PROVE  /\ Len(fwd) \in Nat /\ Len(back) \in Nat /\ Len(got) \in Nat /\ Acks(back) \in 0..Len(back)
         /\ blk \in 0..N + 1 /\ damage \in Nat
         /\ \A i \in 1..Len(fwd) : fwd[i] \in Items /\ Pos(fwd[i]) \in 0..N + 1
         /\ \A i \in 1..Len(got) : got[i] \in 1..N
<1>1. fwd \in Seq(Items) /\ back \in Seq(Bytes) /\ got \in Seq(1..N) /\ damage \in 0..MaxDamage /\ blk \in 0..N + 1
  BY DEF Typed
<1>2. Len(fwd) \in Nat /\ Len(back) \in Nat /\ Len(got) \in Nat
  BY <1>1, LenProperties
<1>3. Acks(back) \in 0..Len(back)
  BY <1>1, AcksAre
<1>4. ASSUME NEW i \in 1..Len(fwd) PROVE fwd[i] \in Items /\ Pos(fwd[i]) \in 0..N + 1
  <2>1. fwd[i] \in Items
    BY <1>1, ElementOfSeq
  <2>2. fwd[i].n \in 0..N
    BY <2>1 DEF Items
  <2>3. QED
    BY <2>1, <2>2, Constants DEF Pos
<1>5. \A i \in 1..Len(got) : got[i] \in 1..N
  BY <1>1, ElementOfSeq
<1>6. QED
  BY <1>1, <1>2, <1>3, <1>4, <1>5, Constants

(* The item of a step of the sender, if there is one. *)
LEMMA SenderPuts ==
  ASSUME IInv, SenderDoes
  PROVE  \E x \in Items :
           /\ fwd' = fwd \/ fwd' = Append(fwd, x)
           /\ x.kind \in {"block", "eot", "can"}
           /\ Carries(x) => Pos(x) = blk' /\ blk' >= 1
           /\ x.kind = "block" => x.n >= 1 /\ x.crc = crc'
           /\ Reads /\ blk' # blk => fwd' = Append(fwd, x) /\ Carries(x)
           /\ blk' = 0 => fwd' = fwd
<1>1. spc \in {"start", "sent"} \cup Ended /\ crc \in BOOLEAN /\ blk \in 0..N + 1 /\ N \in Nat
  BY Constants DEF IInv, Typed
<1>2. (spc = "sent" => blk >= 1) /\ (spc = "start" => blk = 0)
  BY DEF IInv, Started
<1>3. CASE Quiet
  <2> DEFINE x == Signal("can")
  <2>1. x \in Items /\ x.kind = "can" /\ ~ Carries(x)
    BY <1>1 DEF Signal, Items, Carries
  <2>2. /\ blk' = blk
        /\ fwd' = fwd \/ (spc = "sent" /\ (fwd' = fwd \/ fwd' = Append(fwd, x)))
    BY <1>3 DEF Quiet, OntoFwd
  <2> HIDE DEF x
  <2>3. QED
    BY <1>1, <1>2, <2>1, <2>2
<1>4. CASE Again \/ Onward \/ First
  <2>1. blk' \in 1..N + 1 /\ crc' \in BOOLEAN /\ OntoFwd(Item(blk', crc'))
    <3>1. CASE Again
      BY <1>1, <1>2, <3>1 DEF Again, Transmits
    <3>2. CASE Onward
      BY <1>1, <1>2, <3>2 DEF Onward, Transmits
    <3>3. CASE First
      BY <1>1, <3>3 DEF First, Transmits
    <3>4. QED
      BY <1>4, <3>1, <3>2, <3>3
  <2> DEFINE x == Item(blk', crc')
  <2>2. /\ x \in Items /\ Carries(x) /\ Pos(x) = blk'
        /\ x.kind = "block" => x.n >= 1 /\ x.crc = crc'
        /\ x.kind \in {"block", "eot", "can"}
    BY <2>1, ItemsAre
  <2>3. fwd' = fwd \/ fwd' = Append(fwd, x)
    BY <2>1 DEF OntoFwd
  <2>4. Reads => fwd' = Append(fwd, x)
    BY <2>1 DEF OntoFwd, Reads
  <2> HIDE DEF x
  <2>5. QED
    BY <2>1, <2>2, <2>3, <2>4
<1>5. QED
  BY <1>3, <1>4 DEF SenderDoes

(* What it reads. *)
LEMMA SenderGets ==
  ASSUME IInv, SenderDoes
  PROVE  /\ UNCHANGED <<mode, rpc, rcrc, got, damage>> /\ (Reads' = Reads) /\ (Sure' = Sure)
         /\ blk' \in {blk, blk + 1} /\ blk' \in 0..N + 1 /\ crc' \in BOOLEAN /\ (blk >= 1 => crc' = crc)
         /\ back' \in Seq(Bytes) /\ Len(back') <= Len(back) /\ Acks(back') \in Nat /\ Acks(back') <= Acks(back)
         /\ (\E i \in 1..Len(back') : back'[i] = "nak") => \E i \in 1..Len(back) : back[i] = "nak"
         /\ blk' # blk => back # <<>> /\ back' = Tail(back)
         /\ blk' # blk /\ blk >= 1 => Acks(back') <= Acks(back) - 1
         /\ blk = 0 /\ blk' # 0 /\ crc' = FALSE => Head(back) = "nak"
<1>1. /\ UNCHANGED <<mode, rpc, errs, rcrc, got, damage>> /\ (Quiet \/ Again \/ Onward \/ First)
      /\ back' = back \/ (back # <<>> /\ back' = Tail(back))
  BY DEF SenderDoes, receiver
<1>2. /\ spc \in {"start", "sent"} \cup Ended /\ crc \in BOOLEAN /\ blk \in 0..N + 1 /\ N \in Nat
      /\ back \in Seq(Bytes) /\ Len(back) \in Nat /\ Acks(back) \in 0..Len(back)
  BY Constants, Lengths DEF IInv, Typed
<1>3. (spc = "sent" => blk >= 1) /\ (spc = "start" => blk = 0)
  BY DEF IInv, Started
<1>4. back # <<>> => /\ Tail(back) \in Seq(Bytes) /\ Len(Tail(back)) = Len(back) - 1
                     /\ \A i \in 1..Len(back) - 1 : Tail(back)[i] = back[i + 1]
                     /\ Acks(Tail(back)) <= Acks(back)
                     /\ Head(back) = "ack" => Acks(Tail(back)) <= Acks(back) - 1
  BY <1>2, TailIs, AcksTail
<1>5. back' \in Seq(Bytes) /\ Len(back') <= Len(back) /\ Acks(back') <= Acks(back)
  <2>1. Acks(back) \in Int
    BY <1>2
  <2>2. CASE back' = back
    BY <1>2, <2>1, <2>2
  <2>3. CASE back # <<>> /\ back' = Tail(back)
    <3>1. Len(Tail(back)) <= Len(back)
      BY <1>2, <1>4, <2>3
    <3>2. QED
      BY <1>4, <2>3, <3>1
  <2>4. QED
    BY <1>1, <2>2, <2>3
<1>6. Acks(back') \in Nat
  <2>1. Acks(back') \in 0..Len(back') /\ Len(back') \in Nat
    BY <1>5, AcksAre, LenProperties
  <2>2. QED
    BY <2>1
<1>7. (\E i \in 1..Len(back') : back'[i] = "nak") => \E i \in 1..Len(back) : back[i] = "nak"
  <2> SUFFICES ASSUME NEW i \in 1..Len(back'), back'[i] = "nak", back # <<>>, back' = Tail(back)
               PROVE  \E j \in 1..Len(back) : back[j] = "nak"
    BY <1>1
  <2>1. i \in 1..Len(back) - 1 /\ i + 1 \in 1..Len(back)
    BY <1>2, <1>4
  <2>2. QED
    BY <1>4, <2>1
<1>8. CASE Quiet \/ Again
  <2>1. blk' = blk /\ crc' = crc
    BY <1>8 DEF Quiet, Again
  <2>2. Reads' = Reads /\ Sure' = Sure
    BY <1>1 DEF Reads, Sure
  <2>3. QED
    BY <1>1, <1>2, <1>5, <1>6, <1>7, <2>1, <2>2
<1>10. CASE Onward
  <2>1. blk' = blk + 1 /\ blk' \in 0..N + 1 /\ crc' = crc /\ blk >= 1 /\ back # <<>> /\ back' = Tail(back)
    BY <1>2, <1>3, <1>10 DEF Onward
  <2>2. Acks(back') <= Acks(back) - 1
    BY <1>4, <1>10 DEF Onward
  <2>3. Reads' = Reads /\ Sure' = Sure
    BY <1>1 DEF Reads, Sure
  <2>4. QED
    BY <1>1, <1>2, <1>5, <1>6, <1>7, <2>1, <2>2, <2>3
<1>11. CASE First
  <2>1. blk = 0 /\ blk' = 1 /\ crc' \in BOOLEAN /\ back # <<>> /\ back' = Tail(back) /\ (crc' = TRUE \/ Head(back) = "nak")
    BY <1>3, <1>11 DEF First
  <2>2. Reads' = Reads /\ Sure' = Sure
    BY <1>1 DEF Reads, Sure
  <2>3. QED
    BY <1>1, <1>2, <1>5, <1>6, <1>7, <2>1, <2>2
<1>12. QED
  BY <1>1, <1>8, <1>10, <1>11

LEMMA SenderKeeps ==
  ASSUME IInv, SenderDoes, age' = age, talked' \in BOOLEAN
  PROVE  IInv'
<1> DEFINE m == Len(fwd)
<1>1. PICK x \in Items :
        /\ fwd' = fwd \/ fwd' = Append(fwd, x)
        /\ x.kind \in {"block", "eot", "can"}
        /\ Carries(x) => Pos(x) = blk' /\ blk' >= 1
        /\ x.kind = "block" => x.n >= 1 /\ x.crc = crc'
        /\ Reads /\ blk' # blk => fwd' = Append(fwd, x) /\ Carries(x)
        /\ blk' = 0 => fwd' = fwd
  BY SenderPuts
<1>2. /\ UNCHANGED <<mode, rpc, rcrc, got, damage>> /\ (Reads' = Reads) /\ (Sure' = Sure)
      /\ blk' \in {blk, blk + 1} /\ blk' \in 0..N + 1 /\ crc' \in BOOLEAN /\ (blk >= 1 => crc' = crc)
      /\ back' \in Seq(Bytes) /\ Len(back') <= Len(back) /\ Acks(back') \in Nat /\ Acks(back') <= Acks(back)
      /\ (\E i \in 1..Len(back') : back'[i] = "nak") => \E i \in 1..Len(back) : back[i] = "nak"
      /\ blk' # blk => back # <<>> /\ back' = Tail(back)
      /\ blk' # blk /\ blk >= 1 => Acks(back') <= Acks(back) - 1
      /\ blk = 0 /\ blk' # 0 /\ crc' = FALSE => Head(back) = "nak"
  BY SenderGets
<1>3. /\ Typed /\ BlocksAre /\ Started /\ Modes /\ OnTheLine /\ Room /\ LeadBounded /\ InPlace /\ NoGap
      /\ Quiet \/ Again \/ Onward \/ First
      /\ errs' = errs /\ tries' \in 0..startRetries + maxRetries
      /\ back' = back \/ (back # <<>> /\ back' = Tail(back))
  BY DEF IInv, SenderDoes, receiver
<1>4. /\ fwd \in Seq(Items) /\ m \in Nat /\ Len(back) \in Nat /\ Len(got) \in Nat /\ Acks(back) \in Int
      /\ blk \in 0..N + 1 /\ N \in Nat /\ damage \in Nat /\ MaxDelayed \in Nat
      /\ \A i \in 1..m : fwd[i] \in Items /\ Pos(fwd[i]) \in 0..N + 1
  BY <1>3, Lengths, Constants DEF Typed
<1>5. /\ Append(fwd, x) \in Seq(Items) /\ Len(Append(fwd, x)) = m + 1
      /\ \A i \in 1..m : Append(fwd, x)[i] = fwd[i]
      /\ Append(fwd, x)[m + 1] = x
  BY <1>4, AppendIs
<1> HIDE DEF m
<1>0. m \in Nat /\ damage \in Nat /\ blk \in Nat /\ (blk = 0 \/ blk >= 1)
  BY <1>4
<1>6. /\ fwd' \in Seq(Items) /\ Len(fwd') \in {m, m + 1}
      /\ \A i \in 1..m : fwd'[i] = fwd[i]
      /\ Len(fwd') = m + 1 => fwd'[m + 1] = x
      /\ Reads /\ blk' # blk => Len(fwd') = m + 1 /\ Carries(x)
  <2>1. Len(fwd) = m /\ m # m + 1
    BY <1>0 DEF m
  <2>2. CASE fwd' = fwd
    <3>1. fwd' \in Seq(Items) /\ Len(fwd') = m /\ \A i \in 1..m : fwd'[i] = fwd[i]
      BY <1>4, <2>1, <2>2
    <3>2. fwd # Append(fwd, x)
      BY <1>5, <2>1
    <3>3. ~ (Reads /\ blk' # blk)
      BY <1>1, <2>2, <3>2
    <3>4. QED
      BY <2>1, <3>1, <3>3
  <2>3. CASE fwd' = Append(fwd, x)
    <3>1. Reads /\ blk' # blk => Carries(x)
      BY <1>1
    <3>2. QED
      BY <1>5, <2>3, <3>1
  <2>4. QED
    BY <1>1, <2>2, <2>3
<1>7. \A i \in 1..Len(fwd') : i \in 1..m \/ (i = m + 1 /\ Len(fwd') = m + 1)
  <2>1. \A c \in Nat : (\A i \in 1..c : i \in 1..c) /\ \A i \in 1..c + 1 : i \in 1..c \/ i = c + 1
    OBVIOUS
  <2>2. m \in Nat /\ (Len(fwd') = m \/ Len(fwd') = m + 1)
    BY <1>4, <1>6
  <2>3. CASE Len(fwd') = m
    BY <2>3
  <2>4. CASE Len(fwd') = m + 1
    <3>1. \A i \in 1..m + 1 : i \in 1..m \/ i = m + 1
      BY <2>1, <2>2
    <3>2. QED
      BY <2>4, <3>1
  <2>5. QED
    BY ONLY <2>2, <2>3, <2>4
<1>8. blk = 0 => /\ fwd = <<>> /\ m = 0 /\ got = <<>> /\ Len(got) = 0 /\ rpc \notin {"receive", "done"}
                 /\ Acks(back) = 0
  BY <1>3, <1>4 DEF Started, m
<1>9. Typed'
  <2>1. spc' \in {"start", "sent"} \cup Ended
    BY <1>3 DEF Quiet, Again, Onward, First, Typed
  <2>2. /\ mode \in {"oterm", "oric", "upload"} /\ rpc \in {"begin", "start", "receive"} \cup Ended
        /\ rcrc \in BOOLEAN /\ errs \in 0..startRetries /\ damage \in 0..MaxDamage /\ age \in 0..Deadline
        /\ got \in Seq(1..N) /\ Len(got) <= Capacity + 1 /\ (Reads => Len(got) <= Capacity)
    BY <1>3 DEF Typed
  <2>3. QED
    BY <1>2, <1>3, <1>6, <2>1, <2>2 DEF Typed
<1>10. BlocksAre'
  <2> SUFFICES ASSUME NEW i \in 1..Len(fwd')
               PROVE  /\ fwd'[i].kind = "block" => fwd'[i].n >= 1 /\ fwd'[i].crc = crc'
                      /\ damage = 0 => fwd'[i].kind \in {"block", "eot", "can"}
    BY <1>2 DEF BlocksAre
  <2>1. CASE i \in 1..m
    <3>1. blk >= 1 /\ crc' = crc
      BY <1>2, <1>4, <1>8, <2>1
    <3>2. /\ fwd[i].kind = "block" => fwd[i].n >= 1 /\ fwd[i].crc = crc
          /\ damage = 0 => fwd[i].kind \in {"block", "eot", "can"}
      BY <1>3, <2>1 DEF BlocksAre, m
    <3>3. QED
      BY <1>6, <2>1, <3>1, <3>2
  <2>2. CASE i = m + 1 /\ Len(fwd') = m + 1
    BY <1>1, <1>6, <2>2
  <2>3. QED
    BY <1>7, <2>1, <2>2
<1>11. Started'
  <2>1. spc' = "start" => blk' = 0
    BY <1>3 DEF Quiet, Again, Onward, First, Started, Ended
  <2>2. spc' = "sent" => blk' >= 1
    BY <1>3, <1>4 DEF Quiet, Again, Onward, First, Started, Ended
  <2>3. blk' = 0 => blk = 0
    BY <1>2, <1>4
  <2>4. blk = 0 => Acks(back') = 0
    BY <1>2, <1>8
  <2>5. rpc = "begin" => blk' = 0 /\ back' = <<>>
    <3>1. rpc = "begin" => blk = 0 /\ back = <<>>
      BY <1>3 DEF Started
    <3>2. QED
      BY <1>2, <1>3, <3>1
  <2>6. QED
    BY <1>1, <1>2, <1>8, <2>1, <2>2, <2>3, <2>4, <2>5 DEF Started
<1>12. Modes'
  <2>1. /\ mode = "oric" => rcrc = FALSE
        /\ blk >= 1 /\ crc = FALSE => rcrc = FALSE
        /\ blk = 0 /\ (\E i \in 1..Len(back) : back[i] = "nak") => rcrc = FALSE
    BY <1>3 DEF Modes
  <2>2. ASSUME blk' >= 1, crc' = FALSE PROVE rcrc = FALSE
    <3>1. CASE blk >= 1
      BY <1>2, <2>1, <2>2, <3>1
    <3>2. CASE blk = 0
      <4>1. Head(back) = "nak" /\ back # <<>>
        BY <1>2, <2>2, <3>2
      <4>2. back[1] = "nak" /\ 1 \in 1..Len(back)
        <5>1. back \in Seq(Bytes)
          BY <1>3 DEF Typed
        <5>2. Head(back) = back[1] /\ Len(back) >= 1
          BY <4>1, <5>1, TailIs
        <5>3. QED
          BY <1>4, <4>1, <5>2
      <4>3. QED
        BY <2>1, <3>2, <4>2
    <3>3. QED
      BY <1>0, <3>1, <3>2
  <2>3. blk' = 0 => blk = 0
    BY <1>0, <1>2
  <2>4. QED
    BY <1>2, <2>1, <2>2, <2>3 DEF Modes
<1>13. OnTheLine'
  <2> SUFFICES ASSUME Reads, NEW p \in 1..Len(fwd'), Carries(fwd'[p])
               PROVE  /\ Pos(fwd'[p]) <= blk' /\ blk' <= Pos(fwd'[p]) + (Len(fwd') - p) + damage
                      /\ \A q \in p..Len(fwd') : Carries(fwd'[q]) =>
                           Pos(fwd'[p]) <= Pos(fwd'[q]) /\ Pos(fwd'[q]) <= Pos(fwd'[p]) + (q - p) + damage
    BY <1>2 DEF OnTheLine
  <2>1. /\ (blk' = blk /\ Len(fwd') = m) \/ (blk' \in {blk, blk + 1} /\ Len(fwd') = m + 1)
        /\ blk' \in Nat
    BY <1>0, <1>2, <1>6
  <2>2. CASE p \in 1..m
    <3>1. fwd'[p] = fwd[p] /\ Carries(fwd[p])
      BY <1>6, <2>2
    <3>2. /\ Pos(fwd[p]) <= blk /\ blk <= Pos(fwd[p]) + (m - p) + damage
          /\ \A q \in p..m : Carries(fwd[q]) =>
               Pos(fwd[p]) <= Pos(fwd[q]) /\ Pos(fwd[q]) <= Pos(fwd[p]) + (q - p) + damage
      BY <1>3, <2>2, <3>1 DEF OnTheLine, m
    <3>3. Pos(fwd[p]) \in Nat /\ p \in Nat
      BY <1>4, <2>2
    <3>4. Pos(fwd[p]) <= blk' /\ blk' <= Pos(fwd[p]) + (Len(fwd') - p) + damage
      <4>1. Pos(fwd[p]) <= blk /\ blk <= Pos(fwd[p]) + (m - p) + damage
        BY <3>2
      <4>2. QED
        BY ONLY <1>0, <2>1, <3>3, <4>1
    <3>5. ASSUME NEW q \in p..Len(fwd'), Carries(fwd'[q])
          PROVE  Pos(fwd[p]) <= Pos(fwd'[q]) /\ Pos(fwd'[q]) <= Pos(fwd[p]) + (q - p) + damage
      <4>1. CASE q \in 1..m
        <5>1. q \in p..m /\ fwd'[q] = fwd[q]
          BY <1>6, <2>2, <3>5, <4>1
        <5>2. QED
          BY <3>2, <3>5, <5>1
      <4>2. CASE q = m + 1 /\ Len(fwd') = m + 1
        <5>1. Pos(fwd'[q]) = blk'
          BY <1>1, <1>6, <3>5, <4>2
        <5>2. QED
          BY <3>4, <4>2, <5>1
      <4>3. q \in 1..Len(fwd')
        BY <1>4, <1>6, <3>3
      <4>4. QED
        BY <1>7, <4>1, <4>2, <4>3
    <3>6. QED
      BY <3>1, <3>4, <3>5
  <2>3. CASE p = m + 1 /\ Len(fwd') = m + 1
    <3>1. Pos(fwd'[p]) = blk' /\ \A q \in p..Len(fwd') : q = p
      <4>1. \A c \in Nat : \A q \in c..c : q = c
        OBVIOUS
      <4>2. p \in Nat /\ Len(fwd') = p
        BY <1>0, <2>3
      <4>3. QED
        BY <1>1, <1>6, <2>3, <4>1, <4>2
    <3>2. blk' <= blk' + (Len(fwd') - p) + damage /\ blk' <= blk' + (p - p) + damage
      <4>1. Len(fwd') = p /\ p \in Nat /\ blk' \in Nat /\ damage \in Nat
        BY <1>0, <2>1, <2>3
      <4>2. \A c, d, e \in Nat : d <= d + (c - c) + e
        OBVIOUS
      <4>3. blk' <= blk' + (p - p) + damage
        BY <4>1, <4>2
      <4>4. QED
        BY <4>1, <4>3
    <3>3. ASSUME NEW q \in p..Len(fwd')
          PROVE  Pos(fwd'[p]) <= Pos(fwd'[q]) /\ Pos(fwd'[q]) <= Pos(fwd'[p]) + (q - p) + damage
      <4>1. q = p
        BY <3>1
      <4>2. blk' <= blk' /\ Pos(fwd'[q]) = blk'
        BY <2>1, <3>1, <4>1
      <4>3. blk' <= blk' + (q - p) + damage
        BY <3>2, <4>1
      <4>4. QED
        BY <3>1, <4>2, <4>3
    <3>4. Pos(fwd'[p]) <= blk'
      BY <2>1, <3>1
    <3>5. QED
      BY <3>1, <3>2, <3>3, <3>4
  <2>4. QED
    BY <1>7, <2>2, <2>3
<1>14. Room'
  <2> SUFFICES ASSUME Reads, Sends' PROVE Len(fwd') + Len(back') <= MaxDelayed + 1 + damage
    BY <1>2 DEF Room
  <2>1. Sends
    BY <1>3 DEF Sends, Quiet, Again, Onward, First, Ended
  <2>2. m + Len(back) <= MaxDelayed + 1 + damage
    BY <1>3, <2>1 DEF Room, m
  <2>3. back # <<>> => Len(Tail(back)) = Len(back) - 1
    BY <1>3, TailIs DEF Typed
  <2>4. Len(back') \in Nat
    BY <1>2, LenProperties
  <2>5. CASE fwd' = fwd
    BY <1>2, <1>4, <2>2, <2>4, <2>5 DEF m
  <2>6. CASE back # <<>> /\ back' = Tail(back)
    BY <1>4, <1>6, <2>2, <2>3, <2>6
  <2>7. CASE back' = back /\ TimeoutPossible
    <3>1. m + Len(back) < MaxDelayed
      BY <2>1, <2>7 DEF TimeoutPossible, Reads, Sends, m
    <3>2. QED
      BY <1>4, <1>6, <2>7, <3>1
  <2>8. QED
    BY <1>3, <2>5, <2>6, <2>7 DEF Quiet, Again, Onward, First
<1>15. LeadBounded'
  <2> SUFFICES ASSUME Reads, mode # "oric", Lead < Wrap PROVE blk' + Acks(back') <= Len(got) + Lead
    BY <1>2 DEF LeadBounded
  <2>1. blk + Acks(back) <= Len(got) + Lead
    BY <1>3 DEF LeadBounded
  <2>2. CASE blk = 0
    BY <1>2, <1>4, <1>8, <2>2, Constants
  <2>3. CASE blk >= 1
    BY <1>2, <1>4, <2>1, <2>3, Constants
  <2>4. QED
    BY <1>4, <2>2, <2>3
<1>16. InPlace'
  <2> SUFFICES ASSUME Sure
               PROVE  /\ \A i \in 1..Len(got) : got[i] = i
                      /\ Reads => /\ Len(got) <= blk'
                                  /\ \A p \in 1..Len(fwd') : Carries(fwd'[p]) => Len(got) <= Pos(fwd'[p])
    BY <1>2 DEF InPlace
  <2>1. /\ \A i \in 1..Len(got) : got[i] = i
        /\ Reads => /\ Len(got) <= blk
                    /\ \A p \in 1..m : Carries(fwd[p]) => Len(got) <= Pos(fwd[p])
    BY <1>3 DEF InPlace, m
  <2>2. Reads => Len(got) <= blk'
    BY <1>2, <1>4, <2>1
  <2>3. ASSUME Reads, NEW p \in 1..Len(fwd'), Carries(fwd'[p]) PROVE Len(got) <= Pos(fwd'[p])
    <3>1. CASE p \in 1..m
      BY <1>6, <2>1, <2>3, <3>1
    <3>2. CASE p = m + 1 /\ Len(fwd') = m + 1
      <4>1. Pos(fwd'[p]) = blk'
        BY <1>1, <1>6, <2>3, <3>2
      <4>2. QED
        BY <2>2, <2>3, <4>1
    <3>3. QED
      BY <1>7, <3>1, <3>2
  <2>4. QED
    BY <2>1, <2>2, <2>3
<1>17. NoGap'
  <2> SUFFICES ASSUME damage = 0, mode = "oric" \/ rcrc = crc', blk' >= 1
               PROVE  /\ Reads => /\ blk' <= Len(got) + Len(fwd')
                                  /\ \A p \in 1..Len(fwd') : Carries(fwd'[p]) => Pos(fwd'[p]) <= Len(got) + p
                      /\ rpc = "done" => Len(got) = N
    BY <1>2 DEF NoGap, Agreed
  <2>1. blk >= 1 => /\ Reads => /\ blk <= Len(got) + m
                                /\ \A p \in 1..m : Carries(fwd[p]) => Pos(fwd[p]) <= Len(got) + p
                    /\ rpc = "done" => Len(got) = N
    BY <1>2, <1>3 DEF NoGap, Agreed, m
  <2>2. blk = 0 => m = 0 /\ Len(got) = 0 /\ rpc # "done"
    BY <1>8
  <2>3. blk = 0 \/ blk >= 1
    BY <1>4
  <2>4. ASSUME Reads PROVE blk' <= Len(got) + Len(fwd')
    <3>1. blk' = blk \/ (blk' = blk + 1 /\ Len(fwd') = m + 1)
      BY <1>2, <1>6, <2>4
    <3>2. Len(fwd') >= m
      BY <1>4, <1>6
    <3>3. blk <= Len(got) + m
      BY <2>1, <2>2, <2>3, <2>4
    <3>4. Len(fwd') \in Nat
      BY <1>4, <1>6
    <3>5. QED
      BY <1>4, <3>1, <3>2, <3>3, <3>4
  <2>5. ASSUME Reads, NEW p \in 1..Len(fwd'), Carries(fwd'[p]) PROVE Pos(fwd'[p]) <= Len(got) + p
    <3>1. CASE p \in 1..m
      <4>1. blk >= 1
        BY <1>4, <2>2, <3>1
      <4>2. QED
        BY <1>6, <2>1, <2>5, <3>1, <4>1
    <3>2. CASE p = m + 1 /\ Len(fwd') = m + 1
      <4>1. Pos(fwd'[p]) = blk'
        BY <1>1, <1>6, <2>5, <3>2
      <4>2. QED
        BY <2>4, <2>5, <3>2, <4>1
    <3>3. QED
      BY <1>7, <3>1, <3>2
  <2>6. QED
    BY <2>1, <2>2, <2>3, <2>4, <2>5
<1>18. QED
  BY <1>9, <1>10, <1>11, <1>12, <1>13, <1>14, <1>15, <1>16, <1>17 DEF IInv

-----------------------------------------------------------------------------
(* The receiver keeps the invariant *)

LEMMA AnsweredIs ==
  ASSUME Typed, NEW b \in Bytes, Answered(b)
  PROVE  /\ back' \in Seq(Bytes) /\ Len(back') <= Len(back) + 1 /\ Acks(back') \in Nat
         /\ Acks(back') <= Acks(back) + 1 /\ (b # "ack" => Acks(back') = Acks(back))
         /\ (\E i \in 1..Len(back') : back'[i] = "nak") => b = "nak" \/ \E i \in 1..Len(back) : back[i] = "nak"
         /\ back' = back \/ Sends
<1>1. back \in Seq(Bytes) /\ Len(back) \in Nat /\ Acks(back) \in Nat
  <2>1. Acks(back) \in 0..Len(back) /\ Len(back) \in Nat
    BY Lengths
  <2>2. QED
    BY <2>1 DEF Typed
<1>2. CASE back' = back
  BY <1>1, <1>2
<1>3. CASE back' # back
  <2>1. back' = Append(back, b) /\ Sends
    BY <1>3 DEF Answered, OntoBack, Sends
  <2>2. /\ Append(back, b) \in Seq(Bytes) /\ Len(Append(back, b)) = Len(back) + 1
        /\ \A i \in 1..Len(back) + 1 : Append(back, b)[i] = (IF i <= Len(back) THEN back[i] ELSE b)
    BY <1>1, AppendIs
  <2>3. Acks(Append(back, b)) = IF b = "ack" THEN Acks(back) + 1 ELSE Acks(back)
    BY <1>1, AcksAppend
  <2>4. /\ Acks(Append(back, b)) \in Nat /\ Acks(Append(back, b)) <= Acks(back) + 1
        /\ b # "ack" => Acks(Append(back, b)) = Acks(back)
    BY <1>1, <2>3
  <2>5. ASSUME NEW i \in 1..Len(back) + 1, Append(back, b)[i] = "nak", b # "nak"
        PROVE  \E j \in 1..Len(back) : back[j] = "nak"
    <3>1. i <= Len(back) /\ back[i] = "nak"
      BY <2>2, <2>5
    <3>2. i \in 1..Len(back)
      BY <1>1, <3>1
    <3>3. QED
      BY <3>1, <3>2
  <2>6. Len(Append(back, b)) <= Len(back) + 1
    BY <1>1, <2>2
  <2>7. QED
    BY <2>1, <2>2, <2>4, <2>5, <2>6
<1>4. QED
  BY <1>2, <1>3

LEMMA WaitsKeeps ==
  ASSUME IInv, Waits, errs' \in 0..startRetries, age' = age, talked' = talked
  PROVE  IInv'
<1>1. /\ UNCHANGED <<mode, spc, blk, tries, crc, damage, fwd, got>>
      /\ rpc \in {"begin", "start", "receive"} /\ (rpc = "begin" \/ TimeoutPossible)
      /\ rpc' \in {"start", "receive", "failed", "cut"} /\ (rpc' = "receive" => rpc = "receive")
      /\ rcrc' \in BOOLEAN /\ (rcrc = FALSE => rcrc' = FALSE)
  BY DEF Waits, sender
<1>2. PICK b \in {"C", "nak", "can"} :
        Answered(b) /\ ((b = "nak" /\ rpc = "receive") \/ b # "nak" \/ rcrc' = FALSE)
  BY DEF Waits
<1>3. /\ Typed /\ BlocksAre /\ Started /\ Modes /\ OnTheLine /\ Room /\ LeadBounded /\ InPlace /\ NoGap
  BY DEF IInv
<1>4. /\ back' \in Seq(Bytes) /\ Len(back') <= Len(back) + 1 /\ Acks(back') = Acks(back)
      /\ (\E i \in 1..Len(back') : back'[i] = "nak") => b = "nak" \/ \E i \in 1..Len(back) : back[i] = "nak"
  <2>1. b \in Bytes /\ b # "ack"
    BY DEF Bytes
  <2>2. QED
    BY <1>2, <1>3, <2>1, AnsweredIs
<1>5. Reads /\ Sends' = Sends /\ Sure' = Sure
  BY <1>1 DEF Reads, Sends, Sure, Ended
<1>6. Typed'
  BY <1>1, <1>3, <1>4, <1>5 DEF Typed, Ended
<1>7. BlocksAre' /\ OnTheLine' /\ LeadBounded' /\ InPlace'
  BY <1>1, <1>3, <1>4, <1>5 DEF BlocksAre, OnTheLine, LeadBounded, InPlace
<1>8. Started'
  BY <1>1, <1>3, <1>4 DEF Started
<1>9. Modes'
  <2>1. blk = 0 => rpc # "receive"
    BY <1>3 DEF Started
  <2>2. QED
    BY <1>1, <1>2, <1>3, <1>4, <2>1 DEF Modes
<1>10. Room'
  <2> SUFFICES ASSUME Sends PROVE Len(fwd) + Len(back') <= MaxDelayed + 1 + damage
    BY <1>1, <1>5 DEF Room
  <2>1. Len(fwd) \in Nat /\ Len(back) \in Nat /\ Len(back') \in Nat /\ MaxDelayed \in Nat /\ damage \in Nat
    BY <1>3, <1>4, Lengths, Constants, LenProperties
  <2>2. CASE rpc = "begin"
    <3>1. fwd = <<>> /\ back = <<>>
      BY <1>3, <2>2 DEF Started
    <3>2. Len(fwd) = 0 /\ Len(back) = 0
      BY <3>1, EmptySeq
    <3>3. QED
      BY <1>4, <2>1, <3>2
  <2>3. CASE TimeoutPossible
    <3>1. Len(fwd) + Len(back) < MaxDelayed
      BY <1>5, <2>3 DEF TimeoutPossible, Reads, Sends
    <3>2. QED
      BY <1>4, <2>1, <3>1
  <2>4. QED
    BY <1>1, <2>2, <2>3
<1>11. NoGap'
  <2>1. Agreed' => Agreed
    <3> SUFFICES ASSUME damage = 0, mode = "oric" \/ rcrc' = crc, blk >= 1 PROVE Agreed
      BY <1>1 DEF Agreed
    <3>1. crc = FALSE => rcrc = FALSE
      BY <1>3 DEF Modes
    <3>2. rcrc \in BOOLEAN /\ crc \in BOOLEAN
      BY <1>3 DEF Typed
    <3>3. rcrc' = crc => rcrc = crc
      BY <1>1, <3>1, <3>2
    <3>4. QED
      BY <3>3 DEF Agreed
  <2>2. rpc' # "done"
    BY <1>1
  <2>3. QED
    BY <1>1, <1>3, <1>5, <2>1, <2>2 DEF NoGap
<1>12. QED
  BY <1>6, <1>7, <1>8, <1>9, <1>10, <1>11 DEF IInv

(* What the receiver takes from the line, and where it is in the file. *)
LEMMA HeadIs ==
  ASSUME IInv, Reads, fwd # <<>>
  PROVE  /\ Head(fwd) \in Items /\ Head(fwd) = fwd[1] /\ Len(fwd) >= 1 /\ blk >= 1
         /\ Tail(fwd) \in Seq(Items) /\ Len(Tail(fwd)) = Len(fwd) - 1
         /\ \A i \in 1..Len(fwd) - 1 : i + 1 \in 1..Len(fwd) /\ Tail(fwd)[i] = fwd[i + 1]
         /\ Head(fwd).kind = "block" => Head(fwd).n \in 1..N /\ Head(fwd).crc = crc
         /\ damage = 0 => Head(fwd).kind \in {"block", "eot", "can"}
         /\ Carries(Head(fwd)) =>
              /\ Pos(Head(fwd)) \in Nat /\ Pos(Head(fwd)) <= blk
              /\ blk <= Pos(Head(fwd)) + (Len(fwd) - 1) + damage
              /\ \A i \in 1..Len(fwd) - 1 : Carries(Tail(fwd)[i]) =>
                   Pos(Head(fwd)) <= Pos(Tail(fwd)[i]) /\ Pos(Tail(fwd)[i]) <= Pos(Head(fwd)) + i + damage
<1>1. Typed /\ BlocksAre /\ Started /\ OnTheLine
  BY DEF IInv
<1>2. /\ fwd \in Seq(Items) /\ Len(fwd) \in Nat /\ blk \in Nat /\ N \in Nat /\ damage \in Nat
      /\ \A i \in 1..Len(fwd) : fwd[i] \in Items /\ Pos(fwd[i]) \in 0..N + 1
  <2>1. blk \in 0..N + 1
    BY <1>1, Lengths
  <2>2. QED
    BY <1>1, <2>1, Lengths, Constants DEF Typed
<1>3. /\ Head(fwd) \in Items /\ Head(fwd) = fwd[1] /\ Len(fwd) >= 1
      /\ Tail(fwd) \in Seq(Items) /\ Len(Tail(fwd)) = Len(fwd) - 1
      /\ \A i \in 1..Len(fwd) - 1 : Tail(fwd)[i] = fwd[i + 1]
  BY <1>2, TailIs
<1>4. blk >= 1
  <2>1. blk # 0
    BY <1>1 DEF Started
  <2>2. QED
    BY <1>2, <2>1
<1>5. \A i \in 1..Len(fwd) - 1 : i + 1 \in 1..Len(fwd)
  BY <1>2
<1>6. 1 \in 1..Len(fwd)
  BY <1>2, <1>3
<1>7. /\ Head(fwd).kind = "block" => Head(fwd).n \in 1..N /\ Head(fwd).crc = crc
      /\ damage = 0 => Head(fwd).kind \in {"block", "eot", "can"}
  <2>1. /\ fwd[1].kind = "block" => fwd[1].n >= 1 /\ fwd[1].crc = crc
        /\ damage = 0 => fwd[1].kind \in {"block", "eot", "can"}
    BY <1>1, <1>6 DEF BlocksAre
  <2>2. Head(fwd).n \in 0..N
    BY <1>3 DEF Items
  <2>3. QED
    BY <1>2, <1>3, <2>1, <2>2
<1>8. ASSUME Carries(Head(fwd))
      PROVE  /\ Pos(Head(fwd)) \in Nat /\ Pos(Head(fwd)) <= blk
             /\ blk <= Pos(Head(fwd)) + (Len(fwd) - 1) + damage
             /\ \A i \in 1..Len(fwd) - 1 : Carries(Tail(fwd)[i]) =>
                  Pos(Head(fwd)) <= Pos(Tail(fwd)[i]) /\ Pos(Tail(fwd)[i]) <= Pos(Head(fwd)) + i + damage
  <2>1. /\ Pos(fwd[1]) <= blk /\ blk <= Pos(fwd[1]) + (Len(fwd) - 1) + damage
        /\ \A q \in 1..Len(fwd) : Carries(fwd[q]) =>
             Pos(fwd[1]) <= Pos(fwd[q]) /\ Pos(fwd[q]) <= Pos(fwd[1]) + (q - 1) + damage
    BY <1>1, <1>3, <1>6, <1>8 DEF OnTheLine
  <2>2. Pos(fwd[1]) \in Nat
    BY <1>2, <1>6
  <2>3. ASSUME NEW i \in 1..Len(fwd) - 1, Carries(Tail(fwd)[i])
        PROVE  Pos(fwd[1]) <= Pos(Tail(fwd)[i]) /\ Pos(Tail(fwd)[i]) <= Pos(fwd[1]) + i + damage
    <3>1. i + 1 \in 1..Len(fwd) /\ Tail(fwd)[i] = fwd[i + 1] /\ (i + 1) - 1 = i
      BY <1>3, <1>5
    <3>2. Pos(fwd[1]) <= Pos(fwd[i + 1]) /\ Pos(fwd[i + 1]) <= Pos(fwd[1]) + ((i + 1) - 1) + damage
      BY <2>1, <2>3, <3>1
    <3>3. QED
      BY <3>1, <3>2
  <2>4. QED
    BY <1>3, <2>1, <2>2, <2>3
<1>9. QED
  BY <1>3, <1>4, <1>5, <1>7, <1>8

(* A number says which block the receiver has before it. *)
LEMMA NumberTells ==
  ASSUME IInv, Reads, fwd # <<>>, Sure, Head(fwd).kind = "block"
  PROVE  /\ Len(got) <= Head(fwd).n
         /\ Expects(Head(fwd)) /\ (mode = "oric" \/ Head(fwd).crc = rcrc) => Head(fwd).n = Len(got) + 1
         /\ mode # "oric" /\ Lead < Wrap /\ Number(Head(fwd).n) = Number(Len(got)) => Head(fwd).n = Len(got)
         /\ Agreed => Head(fwd).n <= Len(got) + 1
<1> DEFINE x == Head(fwd)
           g == Len(got)
<1>1. /\ x.n \in 1..N /\ x.crc = crc /\ Carries(x) /\ Pos(x) = x.n /\ x.n <= blk /\ blk >= 1
      /\ x = fwd[1] /\ 1 \in 1..Len(fwd)
  BY HeadIs DEF Carries, Pos, IInv, Typed
<1>2. g \in Nat /\ N \in Nat /\ Wrap \in Nat /\ Wrap >= 2 /\ Lead \in Nat /\ Acks(back) \in Nat
  BY Lengths, Constants DEF IInv
<1>3. g <= x.n
  BY <1>1 DEF IInv, InPlace
<1>4. Agreed => x.n <= g + 1
  BY <1>1 DEF IInv, NoGap
<1>5. mode # "oric" /\ Lead < Wrap => x.n < g + Wrap
  <2>1. mode # "oric" /\ Lead < Wrap => blk + Acks(back) <= g + Lead
    BY DEF IInv, LeadBounded
  <2>2. blk \in Nat
    <3>1. blk \in 0..N + 1
      BY Lengths DEF IInv
    <3>2. QED
      BY <1>2, <3>1
  <2>3. QED
    BY <1>1, <1>2, <2>1, <2>2
<1> HIDE DEF x, g
<1>6. x.n \in Nat /\ x.n \in 1..N
  BY <1>1, <1>2
<1>7. ASSUME Number(x.n) = Number(g), mode # "oric", Lead < Wrap PROVE x.n = g
  BY <1>2, <1>3, <1>5, <1>6, <1>7, NumbersDiffer
<1>8. ASSUME Expects(x), mode = "oric" \/ x.crc = rcrc PROVE x.n = g + 1
  <2>1. Number(x.n) = Number(g + 1) /\ g + 1 \in Nat
    BY <1>2, <1>8 DEF Expects, Expected, g
  <2>2. x.n # g
    <3>1. g < g + 1 /\ g + 1 < g + Wrap
      BY <1>2
    <3>2. Number(g) = Number(g + 1) => g = g + 1
      BY <1>2, <2>1, <3>1, NumbersDiffer
    <3>3. QED
      BY <1>2, <2>1, <3>2
  <2>3. x.n >= g + 1
    BY <1>2, <1>3, <1>6, <2>2
  <2>4. x.n < g + 1 + Wrap
    <3>1. CASE N < Wrap
      BY <1>2, <1>6, <3>1
    <3>2. CASE damage = 0
      <4>1. Agreed
        BY <1>1, <1>8, <3>2 DEF Agreed
      <4>2. QED
        BY <1>2, <1>4, <1>6, <4>1
    <3>3. CASE mode # "oric" /\ Lead < Wrap
      BY <1>2, <1>5, <1>6, <3>3
    <3>4. QED
      BY <3>1, <3>2, <3>3 DEF Sure
  <2>5. g + 1 = x.n
    BY <1>6, <2>1, <2>3, <2>4, NumbersDiffer
  <2>6. QED
    BY <2>5
<1>9. QED
  BY <1>3, <1>4, <1>7, <1>8 DEF x, g

LEMMA TakesKeeps ==
  ASSUME IInv, Takes, errs' \in 0..startRetries, age' = age, talked' \in BOOLEAN
  PROVE  IInv'
<1> DEFINE x == Head(fwd)
           g == Len(got)
           m == Len(fwd)
<1>1. /\ UNCHANGED <<mode, spc, blk, tries, crc, damage>>
      /\ Reads /\ rpc # "begin" /\ fwd # <<>> /\ fwd' = Tail(fwd)
      /\ Stores(x) \/ Repeats(x) \/ Refuses(x) \/ Ends(x)
  BY DEF Takes, sender
<1>2. Typed /\ BlocksAre /\ Started /\ Modes /\ OnTheLine /\ Room /\ LeadBounded /\ InPlace /\ NoGap
  BY DEF IInv
<1>3. /\ x \in Items /\ x = fwd[1] /\ m >= 1 /\ blk >= 1
      /\ fwd' \in Seq(Items) /\ Len(fwd') = m - 1
      /\ \A i \in 1..m - 1 : i + 1 \in 1..m /\ fwd'[i] = fwd[i + 1]
      /\ x.kind = "block" => x.n \in 1..N /\ x.crc = crc /\ Carries(x) /\ Pos(x) = x.n
      /\ damage = 0 => x.kind \in {"block", "eot", "can"}
      /\ Carries(x) =>
           /\ Pos(x) \in Nat /\ Pos(x) <= blk /\ blk <= Pos(x) + (m - 1) + damage
           /\ \A i \in 1..m - 1 : Carries(fwd'[i]) => Pos(x) <= Pos(fwd'[i]) /\ Pos(fwd'[i]) <= Pos(x) + i + damage
  BY <1>1, HeadIs DEF Carries, Pos
<1>4. /\ m \in Nat /\ g \in Nat /\ N \in Nat /\ Capacity \in Nat /\ blk \in Nat /\ damage \in Nat
      /\ Len(back) \in Nat /\ Acks(back) \in Nat /\ Acks(back) <= Len(back)
      /\ Lead \in Nat /\ MaxDelayed \in Nat /\ MaxDamage \in Nat /\ damage <= MaxDamage
      /\ got \in Seq(1..N)
  <2>1. blk \in 0..N + 1 /\ Acks(back) \in 0..Len(back) /\ Len(back) \in Nat /\ N \in Nat
    BY <1>2, Lengths, Constants
  <2>2. blk \in Nat /\ Acks(back) \in Nat /\ Acks(back) <= Len(back)
    BY <2>1
  <2>3. damage \in Nat /\ damage <= MaxDamage /\ got \in Seq(1..N)
    BY <1>2, Constants DEF Typed
  <2>4. QED
    BY <1>2, <2>1, <2>2, <2>3, Lengths, Constants
<1>5. /\ mode \in {"oterm", "oric", "upload"} /\ rcrc \in BOOLEAN /\ crc \in BOOLEAN /\ rcrc' = rcrc
      /\ rpc' \in {"start", "receive"} \cup Ended
      /\ rpc' \notin Ended => rpc' \in {"start", "receive"}
      /\ Sends' = Sends /\ Sure' = Sure
  <2>1. rcrc' = rcrc /\ rpc' \in {"start", "receive"} \cup Ended
    BY <1>1 DEF Stores, Repeats, Refuses, Ends, Ended
  <2>2. QED
    BY <1>1, <1>2, <2>1 DEF Typed, Sends, Sure
<1>6. (Stores(x) => got' = Append(got, x.n) /\ x.n \in 1..N) /\ (~ Stores(x) => got' = got)
  <2>1. Stores(x) => got' = Append(got, x.n) /\ x.n \in 1..N
    BY <1>3 DEF Stores
  <2>2. Repeats(x) \/ Refuses(x) \/ Ends(x) => got' = got
    BY DEF Repeats, Refuses, Ends
  <2> HIDE DEF x
  <2>3. QED
    BY <1>1, <2>1, <2>2
<1>7. Stores(x) => /\ got' \in Seq(1..N) /\ Len(got') = g + 1
                   /\ \A i \in 1..g + 1 : got'[i] = (IF i <= g THEN got[i] ELSE x.n)
  BY <1>4, <1>6, AppendIs DEF Stores
<1>8. PICK b \in {"ack", "nak", "can", "C"} :
        Answered(b) /\ (b = "ack" => Stores(x) \/ Repeats(x) \/ Ends(x))
  BY <1>1 DEF Stores, Repeats, Refuses, Ends
<1>9. /\ back' \in Seq(Bytes) /\ Len(back') <= Len(back) + 1 /\ Acks(back') \in Nat
      /\ Acks(back') <= Acks(back) + 1 /\ (b # "ack" => Acks(back') = Acks(back))
      /\ back' = back \/ Sends
  <2>1. b \in Bytes
    BY DEF Bytes
  <2>2. QED
    BY <1>2, <1>8, <2>1, AnsweredIs
<1>10. Len(back') \in Nat
  BY <1>9, LenProperties
(* Where nothing was stored although the modes agree, the item is the last
   block stored. *)
<1>11. ASSUME Agreed, Repeats(x) \/ Refuses(x) PROVE x.kind = "block" /\ x.n = g
  <2>1. damage = 0 /\ (mode = "oric" \/ rcrc = crc) /\ Sure
    BY <1>11 DEF Agreed, Sure
  <2>2. x.kind = "block"
    BY <1>3, <1>11, <2>1 DEF Repeats, Refuses
  <2>3. ~ Expects(x)
    BY <1>3, <1>11, <2>1, <2>2 DEF Repeats, Refuses
  <2>4. g <= x.n /\ x.n <= g + 1
    BY <1>1, <1>11, <2>1, <2>2, NumberTells
  <2>5. x.n # g + 1
    BY <2>3 DEF Expects, Expected
  <2>6. x.n \in Nat
    BY <1>3, <1>4, <2>2
  <2>7. QED
    BY <1>4, <2>2, <2>4, <2>5, <2>6
<1>12. ASSUME Stores(x), Sure PROVE x.n = g + 1
  BY <1>1, <1>3, <1>12, NumberTells DEF Stores
<1> HIDE DEF x, g, m
<1>13. Len(fwd) = m /\ Len(got) = g
  BY DEF m, g
<1>14. Typed'
  <2>1. Len(got) <= Capacity
    BY <1>1, <1>2 DEF Typed
  <2>2. got' \in Seq(1..N) /\ Len(got') <= Capacity + 1 /\ (Reads' => Len(got') <= Capacity)
    <3>1. CASE Stores(x)
      <4>1. Len(got') = g + 1 /\ (Reads' => g + 1 <= Capacity)
        BY <1>7, <1>13, <3>1 DEF Stores, Reads, Ended
      <4>2. g + 1 <= Capacity + 1
        BY <1>4, <1>13, <2>1
      <4>3. QED
        BY <1>7, <3>1, <4>1, <4>2
    <3>2. CASE ~ Stores(x)
      BY <1>2, <1>4, <1>6, <2>1, <3>2 DEF Typed
    <3>3. QED
      BY <3>1, <3>2
  <2>3. /\ spc \in {"start", "sent"} \cup Ended /\ blk \in 0..N + 1 /\ tries \in 0..startRetries + maxRetries
        /\ damage \in 0..MaxDamage /\ age \in 0..Deadline
    BY <1>2 DEF Typed
  <2>4. QED
    BY <1>1, <1>3, <1>5, <1>9, <2>2, <2>3 DEF Typed
<1>15. BlocksAre'
  <2>1. ASSUME NEW i \in 1..m - 1
        PROVE  /\ fwd'[i].kind = "block" => fwd'[i].n >= 1 /\ fwd'[i].crc = crc
               /\ damage = 0 => fwd'[i].kind \in {"block", "eot", "can"}
    BY <1>2, <1>3, <1>13, <2>1 DEF BlocksAre
  <2>2. QED
    BY <1>1, <1>3, <2>1 DEF BlocksAre
<1>16. Started' /\ Modes'
  <2>1. blk # 0 /\ rpc' # "begin"
    BY <1>3, <1>4, <1>5 DEF Ended
  <2>2. QED
    BY <1>1, <1>2, <1>5, <2>1 DEF Started, Modes
<1>17. OnTheLine'
  <2> SUFFICES ASSUME NEW p \in 1..m - 1, Carries(fwd'[p])
               PROVE  /\ Pos(fwd'[p]) <= blk /\ blk <= Pos(fwd'[p]) + ((m - 1) - p) + damage
                      /\ \A q \in p..m - 1 : Carries(fwd'[q]) =>
                           Pos(fwd'[p]) <= Pos(fwd'[q]) /\ Pos(fwd'[q]) <= Pos(fwd'[p]) + (q - p) + damage
    BY <1>1, <1>3 DEF OnTheLine
  <2>1. p + 1 \in 1..m /\ fwd'[p] = fwd[p + 1] /\ Carries(fwd[p + 1])
    BY <1>3
  <2>2. /\ Pos(fwd[p + 1]) <= blk /\ blk <= Pos(fwd[p + 1]) + (m - (p + 1)) + damage
        /\ \A q \in p + 1..m : Carries(fwd[q]) =>
             Pos(fwd[p + 1]) <= Pos(fwd[q]) /\ Pos(fwd[q]) <= Pos(fwd[p + 1]) + (q - (p + 1)) + damage
    BY <1>1, <1>2, <1>13, <2>1 DEF OnTheLine
  <2>3. m - (p + 1) = (m - 1) - p
    BY <1>4
  <2>4. ASSUME NEW q \in p..m - 1, Carries(fwd'[q])
        PROVE  Pos(fwd'[p]) <= Pos(fwd'[q]) /\ Pos(fwd'[q]) <= Pos(fwd'[p]) + (q - p) + damage
    <3>1. q \in 1..m - 1 /\ q + 1 \in p + 1..m /\ (q + 1) - (p + 1) = q - p
      BY <1>4
    <3>2. fwd'[q] = fwd[q + 1] /\ Carries(fwd[q + 1])
      BY <1>3, <2>4, <3>1
    <3>3. /\ Pos(fwd[p + 1]) <= Pos(fwd[q + 1])
          /\ Pos(fwd[q + 1]) <= Pos(fwd[p + 1]) + ((q + 1) - (p + 1)) + damage
      BY <2>2, <3>1, <3>2
    <3>4. QED
      BY <2>1, <3>1, <3>2, <3>3
  <2>5. QED
    BY <2>1, <2>2, <2>3, <2>4
<1>18. Room'
  <2>1. Sends => m + Len(back) <= MaxDelayed + 1 + damage
    BY <1>1, <1>2, <1>13 DEF Room
  <2>2. Sends => (m - 1) + Len(back') <= MaxDelayed + 1 + damage
    BY <1>4, <1>9, <1>10, <1>13, <2>1
  <2>3. QED
    BY <1>1, <1>3, <1>5, <2>2 DEF Room
<1>19. LeadBounded'
  <2> SUFFICES ASSUME Reads', mode # "oric", Lead < Wrap PROVE blk + Acks(back') <= Len(got') + Lead
    BY <1>1 DEF LeadBounded
  <2>1. blk + Acks(back) <= g + Lead
    BY <1>1, <1>2, <1>13 DEF LeadBounded
  <2>2. CASE Stores(x)
    BY SMTT(40), <1>4, <1>7, <1>9, <2>1, <2>2
  <2>3. CASE ~ Stores(x) /\ Acks(back') = Acks(back)
    BY <1>6, <1>13, <2>1, <2>3
  <2>4. CASE ~ Stores(x) /\ Acks(back') # Acks(back)
    <3>1. Sends
      BY <1>9, <2>4
    <3>2. Repeats(x)
      BY <1>8, <1>9, <2>4 DEF Ends, Reads
    <3>3. x.kind = "block" /\ Number(x.n) = Number(Len(got)) /\ Sure
      BY <3>2 DEF Repeats, Sure
    <3>4. x.n = g
      BY <1>1, <3>3, NumberTells DEF x, g
    <3>5. blk <= g + (m - 1) + damage
      BY <1>3, <3>3, <3>4
    <3>6. m + Len(back) <= MaxDelayed + 1 + damage
      BY <1>1, <1>2, <1>13, <3>1 DEF Room
    <3>7. Lead = MaxDelayed + 2 * MaxDamage + 1
      BY DEF Lead
    <3>8. blk + Acks(back') <= g + Lead
      BY <1>4, <1>9, <3>5, <3>6, <3>7
    <3>9. QED
      BY <1>6, <1>13, <2>4, <3>8
  <2>5. QED
    BY <2>2, <2>3, <2>4
<1>20. InPlace'
  <2> SUFFICES ASSUME Sure
               PROVE  /\ \A i \in 1..Len(got') : got'[i] = i
                      /\ Reads' => /\ Len(got') <= blk
                                   /\ \A p \in 1..m - 1 : Carries(fwd'[p]) => Len(got') <= Pos(fwd'[p])
    BY <1>1, <1>3, <1>5 DEF InPlace
  <2>1. /\ \A i \in 1..g : got[i] = i
        /\ g <= blk
        /\ \A p \in 1..m : Carries(fwd[p]) => g <= Pos(fwd[p])
    BY <1>1, <1>2, <1>13 DEF InPlace
  <2>2. CASE Stores(x)
    <3>1. x.n = g + 1 /\ Len(got') = g + 1 /\ x.kind = "block"
      BY <1>7, <1>12, <2>2 DEF Stores
    <3>2. ASSUME NEW i \in 1..g + 1 PROVE got'[i] = i
      <4>1. CASE i <= g
        <5>1. i \in 1..g
          BY <1>4, <4>1
        <5>2. QED
          BY <1>7, <2>1, <2>2, <4>1, <5>1
      <4>2. CASE ~ (i <= g)
        <5>1. i = g + 1
          BY <1>4, <4>2
        <5>2. QED
          BY <1>7, <2>2, <3>1, <4>2, <5>1
      <4>3. QED
        BY <4>1, <4>2
    <3>3. Len(got') <= blk /\ \A p \in 1..m - 1 : Carries(fwd'[p]) => Len(got') <= Pos(fwd'[p])
      BY <1>3, <3>1
    <3>4. QED
      BY <3>1, <3>2, <3>3
  <2>3. CASE ~ Stores(x)
    BY <1>3, <1>6, <1>13, <2>1, <2>3
  <2>4. QED
    BY <2>2, <2>3
<1>21. NoGap'
  <2> SUFFICES ASSUME Agreed
               PROVE  /\ Reads' => /\ blk <= Len(got') + (m - 1)
                                   /\ \A p \in 1..m - 1 : Carries(fwd'[p]) => Pos(fwd'[p]) <= Len(got') + p
                      /\ rpc' = "done" => Len(got') = N
    BY <1>1, <1>3, <1>5 DEF NoGap, Agreed
  <2>1. /\ blk <= g + m
        /\ \A p \in 1..m : Carries(fwd[p]) => Pos(fwd[p]) <= g + p
    BY <1>1, <1>2, <1>13 DEF NoGap
  <2>2. damage = 0
    BY DEF Agreed
  <2>3. CASE Stores(x)
    <3>1. Len(got') = g + 1 /\ rpc' # "done"
      BY <1>7, <2>3 DEF Stores
    <3>2. blk <= (g + 1) + (m - 1)
      BY <1>4, <2>1
    <3>3. ASSUME NEW p \in 1..m - 1, Carries(fwd'[p]) PROVE Pos(fwd'[p]) <= (g + 1) + p
      <4>1. p + 1 \in 1..m /\ fwd'[p] = fwd[p + 1] /\ g + (p + 1) = (g + 1) + p
        BY <1>3, <1>4
      <4>2. QED
        BY <2>1, <3>3, <4>1
    <3>4. QED
      BY <3>1, <3>2, <3>3
  <2>4. CASE Repeats(x) \/ Refuses(x)
    <3>1. x.kind = "block" /\ x.n = g
      BY <1>11, <2>4
    <3>2. rpc' # "done" /\ got' = got
      BY <2>4 DEF Repeats, Refuses
    <3>3. blk <= g + (m - 1) + damage /\ g + (m - 1) + damage = g + (m - 1)
      BY <1>3, <1>4, <2>2, <3>1
    <3>4. ASSUME NEW p \in 1..m - 1, Carries(fwd'[p]) PROVE Pos(fwd'[p]) <= g + p
      <4>1. Pos(fwd'[p]) <= g + p + damage /\ g + p + damage = g + p
        BY SMTT(40), <1>3, <1>4, <2>2, <3>1, <3>4
      <4>2. QED
        BY <4>1
    <3>5. QED
      BY <1>13, <3>2, <3>3, <3>4
  <2>5. CASE Ends(x)
    <3>1. ~ Reads' /\ got' = got /\ (rpc' = "done" => x.kind \in {"eot", "noise"})
      BY <2>5 DEF Ends, Reads
    <3>2. ASSUME rpc' = "done" PROVE g = N
      <4>1. x.kind = "eot"
        BY <1>3, <2>2, <3>1, <3>2
      <4>2. Carries(x) /\ Pos(x) = N + 1
        BY <4>1 DEF Carries, Pos
      <4>3. N + 1 <= g + 1
        BY <1>3, <1>4, <2>1, <4>2
      <4>4. \A i \in 1..g : got[i] = i /\ got[i] \in 1..N
        BY <1>2, <1>4, <1>13, <2>2, ElementOfSeq DEF InPlace, Sure
      <4>5. g >= 1 => g \in 1..N
        BY <1>4, <4>4
      <4>6. QED
        BY <1>4, <4>3, <4>5
    <3>3. QED
      BY <1>13, <3>1, <3>2
  <2>6. QED
    BY <1>1, <2>3, <2>4, <2>5 DEF x
<1>22. QED
  BY <1>14, <1>15, <1>16, <1>17, <1>18, <1>19, <1>20, <1>21 DEF IInv

-----------------------------------------------------------------------------
(* What the line loses keeps the invariant *)

(* The blocks that are left are in their order, and nearer to each other, and
   to the end, by one place at most for each item damaged; nothing is
   acknowledged. *)
LEMMA ThinnedKeeps ==
  ASSUME IInv, fwd # <<>>, damage' \in 1..MaxDamage, damage' >= damage,
         UNCHANGED <<mode, sender, errs, rcrc, got, age>>, talked' \in BOOLEAN,
         rpc' = rpc \/ (rpc \in {"start", "receive"} /\ rpc' = "receive"),
         back' \in Seq(Bytes), Acks(back') = Acks(back),
         Reads /\ Sends => Len(fwd') + Len(back') <= MaxDelayed + 1 + damage',
         fwd' \in Seq(Items),
         NEW f \in [1..Len(fwd') -> Int],
         \A p \in 1..Len(fwd') : Carries(fwd'[p]) =>
           /\ f[p] \in 1..Len(fwd) /\ fwd'[p] = fwd[f[p]]
           /\ (Len(fwd) - f[p]) + damage <= (Len(fwd') - p) + damage',
         \A p, q \in 1..Len(fwd') : p <= q /\ Carries(fwd'[p]) /\ Carries(fwd'[q]) =>
           f[p] <= f[q] /\ (f[q] - f[p]) + damage <= (q - p) + damage'
  PROVE  IInv'
<1>1. Typed /\ BlocksAre /\ Started /\ Modes /\ OnTheLine /\ Room /\ LeadBounded /\ InPlace
  BY DEF IInv
<1>2. UNCHANGED <<mode, spc, blk, tries, crc, errs, rcrc, got, age>>
  BY DEF sender
<1>3. /\ Len(fwd) \in Nat /\ Len(fwd') \in Nat /\ damage \in Nat /\ damage' \in Nat
      /\ blk \in Nat /\ N \in Nat
      /\ \A i \in 1..Len(fwd) : Pos(fwd[i]) \in 0..N + 1
  <2>1. blk \in 0..N + 1 /\ N \in Nat
    BY <1>1, Lengths, Constants
  <2>2. Len(fwd') \in Nat
    BY LenProperties
  <2>3. blk \in Nat
    BY <2>1
  <2>4. damage' \in Nat
    BY Constants
  <2>5. QED
    BY <1>1, <2>1, <2>2, <2>3, <2>4, Lengths, Constants
<1>4. damage' # 0 /\ (Sure' => Sure) /\ Reads' = Reads /\ Sends' = Sends
  <2>1. damage' # 0
    OBVIOUS
  <2>2. Sends' = Sends /\ Reads' = Reads
    BY <1>2 DEF Reads, Sends, Ended
  <2>3. QED
    BY <1>2, <2>1, <2>2 DEF Sure
<1>5. Typed'
  <2>1. damage' \in 0..MaxDamage
    BY Constants
  <2>2. rpc' \in {"begin", "start", "receive"} \cup Ended /\ (Reads => Len(got) <= Capacity)
    BY <1>1 DEF Typed
  <2>3. QED
    BY <1>1, <1>2, <1>4, <2>1, <2>2 DEF Typed
<1>6. BlocksAre'
  <2>1. ASSUME NEW i \in 1..Len(fwd'), fwd'[i].kind = "block" PROVE fwd'[i].n >= 1 /\ fwd'[i].crc = crc
    <3>1. Carries(fwd'[i])
      BY <2>1 DEF Carries
    <3>2. f[i] \in 1..Len(fwd) /\ fwd'[i] = fwd[f[i]]
      BY <3>1
    <3>3. QED
      BY <1>1, <2>1, <3>2 DEF BlocksAre
  <2>2. QED
    BY <1>2, <1>4, <2>1 DEF BlocksAre
<1>7. Started' /\ Modes' /\ LeadBounded'
  <2>1. blk # 0 /\ rpc # "begin" /\ rpc' # "begin"
    BY <1>1 DEF Started
  <2>2. QED
    BY <1>1, <1>2, <1>4, <2>1 DEF Started, Modes, LeadBounded
<1>8. OnTheLine'
  <2> SUFFICES ASSUME Reads, NEW p \in 1..Len(fwd'), Carries(fwd'[p])
               PROVE  /\ Pos(fwd'[p]) <= blk /\ blk <= Pos(fwd'[p]) + (Len(fwd') - p) + damage'
                      /\ \A q \in p..Len(fwd') : Carries(fwd'[q]) =>
                           /\ Pos(fwd'[p]) <= Pos(fwd'[q])
                           /\ Pos(fwd'[q]) <= Pos(fwd'[p]) + (q - p) + damage'
    BY <1>2, <1>4 DEF OnTheLine
  <2>1. /\ f[p] \in 1..Len(fwd) /\ fwd'[p] = fwd[f[p]]
        /\ (Len(fwd) - f[p]) + damage <= (Len(fwd') - p) + damage'
    OBVIOUS
  <2>2. /\ Pos(fwd[f[p]]) <= blk /\ blk <= Pos(fwd[f[p]]) + (Len(fwd) - f[p]) + damage
        /\ \A q \in f[p]..Len(fwd) : Carries(fwd[q]) =>
             Pos(fwd[f[p]]) <= Pos(fwd[q]) /\ Pos(fwd[q]) <= Pos(fwd[f[p]]) + (q - f[p]) + damage
    BY <1>1, <2>1 DEF OnTheLine
  <2>3. Pos(fwd'[p]) \in Nat /\ p \in Nat /\ f[p] \in Nat
    BY ONLY SMTT(40), <1>3, <2>1, p \in 1..Len(fwd')
  <2>4. blk <= Pos(fwd'[p]) + (Len(fwd') - p) + damage'
    <3>1. blk <= Pos(fwd'[p]) + (Len(fwd) - f[p]) + damage
      BY <2>1, <2>2
    <3>2. QED
      BY ONLY SMTT(40), <1>3, <2>1, <2>3, <3>1
  <2>5. ASSUME NEW q \in p..Len(fwd'), Carries(fwd'[q])
        PROVE  /\ Pos(fwd'[p]) <= Pos(fwd'[q])
               /\ Pos(fwd'[q]) <= Pos(fwd'[p]) + (q - p) + damage'
    <3>1. q \in 1..Len(fwd') /\ p <= q /\ q \in Nat
      BY <1>3, <2>3
    <3>2. /\ f[q] \in 1..Len(fwd) /\ fwd'[q] = fwd[f[q]] /\ f[p] <= f[q]
          /\ (f[q] - f[p]) + damage <= (q - p) + damage'
      BY <2>5, <3>1
    <3>3. f[q] \in f[p]..Len(fwd) /\ f[q] \in Nat
      BY ONLY SMTT(40), <1>3, <2>3, <3>2
    <3>4. Pos(fwd'[p]) <= Pos(fwd'[q]) /\ Pos(fwd'[q]) <= Pos(fwd'[p]) + (f[q] - f[p]) + damage
      BY <2>1, <2>2, <2>5, <3>2, <3>3
    <3>5. Pos(fwd'[q]) \in Nat
      BY SMTT(40), <1>3, <3>2
    <3>6. Pos(fwd'[q]) <= Pos(fwd'[p]) + (q - p) + damage'
      <4>1. Pos(fwd'[p]) \in Nat /\ f[p] \in Nat /\ damage \in Nat /\ p \in Nat /\ damage' \in Nat
        BY <1>3, <2>3
      <4>2. \A a, b, c, d, e, g, h, k \in Nat :
               a <= b + (c - d) + e /\ (c - d) + e <= (g - h) + k => a <= b + (g - h) + k
        OBVIOUS
      <4>3. QED
        BY ONLY <3>1, <3>2, <3>3, <3>4, <3>5, <4>1, <4>2
    <3>7. QED
      BY <3>4, <3>6
  <2>6. QED
    BY <2>1, <2>2, <2>4, <2>5
<1>9. Room'
  BY <1>2, <1>4 DEF Room
<1>10. InPlace'
  <2> SUFFICES ASSUME Sure
               PROVE  /\ \A i \in 1..Len(got) : got[i] = i
                      /\ Reads => /\ Len(got) <= blk
                                  /\ \A p \in 1..Len(fwd') : Carries(fwd'[p]) => Len(got) <= Pos(fwd'[p])
    BY <1>2, <1>4 DEF InPlace
  <2>1. QED
    BY <1>1 DEF InPlace
<1>11. NoGap'
  BY <1>4 DEF NoGap, Agreed
<1>12. QED
  BY <1>5, <1>6, <1>7, <1>8, <1>9, <1>10, <1>11 DEF IInv

(* The same for what the line loses, which only it does. *)
LEMMA LostKeeps ==
  ASSUME IInv, fwd # <<>>, damage' = damage + 1, damage < MaxDamage,
         UNCHANGED <<mode, sender, receiver, time, back>>,
         fwd' \in Seq(Items), Len(fwd') <= Len(fwd) + 1,
         NEW f \in [1..Len(fwd') -> Int],
         \A p \in 1..Len(fwd') : Carries(fwd'[p]) =>
           /\ f[p] \in 1..Len(fwd) /\ fwd'[p] = fwd[f[p]]
           /\ Len(fwd) - f[p] <= (Len(fwd') - p) + 1,
         \A p, q \in 1..Len(fwd') : p <= q /\ Carries(fwd'[p]) /\ Carries(fwd'[q]) =>
           f[p] <= f[q] /\ f[q] - f[p] <= (q - p) + 1
  PROVE  IInv'
<1>1. /\ Len(fwd) \in Nat /\ Len(fwd') \in Nat /\ Len(back) \in Nat /\ damage \in Nat
      /\ MaxDelayed \in Nat /\ MaxDamage \in Nat /\ back \in Seq(Bytes) /\ talked \in BOOLEAN
  <2>1. Len(fwd') \in Nat
    BY LenProperties
  <2>2. Typed
    BY DEF IInv
  <2>3. QED
    BY <2>1, <2>2, Lengths, Constants DEF Typed
<1>2. /\ damage' \in 1..MaxDamage /\ damage' >= damage
      /\ UNCHANGED <<mode, sender, errs, rcrc, got, age>> /\ talked' \in BOOLEAN
      /\ rpc' = rpc /\ back' \in Seq(Bytes) /\ Acks(back') = Acks(back)
  <2>1. damage' \in 1..MaxDamage /\ damage' >= damage
    BY <1>1
  <2>2. QED
    BY <1>1, <2>1 DEF receiver, time
<1>3. Reads /\ Sends => Len(fwd') + Len(back') <= MaxDelayed + 1 + damage'
  <2>1. Reads /\ Sends => Len(fwd) + Len(back) <= MaxDelayed + 1 + damage
    BY DEF IInv, Room
  <2>2. Len(back') = Len(back)
    OBVIOUS
  <2>3. QED
    BY <1>1, <2>1, <2>2
<1>4. \A p \in 1..Len(fwd') : Carries(fwd'[p]) =>
        /\ f[p] \in 1..Len(fwd) /\ fwd'[p] = fwd[f[p]]
        /\ (Len(fwd) - f[p]) + damage <= (Len(fwd') - p) + damage'
  <2> SUFFICES ASSUME NEW p \in 1..Len(fwd'), Carries(fwd'[p])
               PROVE  /\ f[p] \in 1..Len(fwd) /\ fwd'[p] = fwd[f[p]]
                      /\ (Len(fwd) - f[p]) + damage <= (Len(fwd') - p) + damage'
    OBVIOUS
  <2>1. f[p] \in 1..Len(fwd) /\ fwd'[p] = fwd[f[p]] /\ Len(fwd) - f[p] <= (Len(fwd') - p) + 1
    OBVIOUS
  <2>2. f[p] \in Int /\ p \in Int
    OBVIOUS
  <2>3. QED
    BY ONLY <1>1, <2>1, <2>2, damage' = damage + 1
<1>5. \A p, q \in 1..Len(fwd') : p <= q /\ Carries(fwd'[p]) /\ Carries(fwd'[q]) =>
        f[p] <= f[q] /\ (f[q] - f[p]) + damage <= (q - p) + damage'
  <2> SUFFICES ASSUME NEW p \in 1..Len(fwd'), NEW q \in 1..Len(fwd'), p <= q,
                      Carries(fwd'[p]), Carries(fwd'[q])
               PROVE  f[p] <= f[q] /\ (f[q] - f[p]) + damage <= (q - p) + damage'
    OBVIOUS
  <2>1. f[p] <= f[q] /\ f[q] - f[p] <= (q - p) + 1
    OBVIOUS
  <2>2. f[p] \in Int /\ f[q] \in Int /\ p \in Int /\ q \in Int
    OBVIOUS
  <2>3. QED
    BY ONLY <1>1, <2>1, <2>2, damage' = damage + 1
<1>6. QED
  BY <1>1, <1>2, <1>3, <1>4, <1>5, ThinnedKeeps

LEMMA LoseKeeps ==
  ASSUME IInv, Lose
  PROVE  IInv'
<1> DEFINE m == Len(fwd)
           bb == Signal("badBody")
           bh == Signal("badHeader")
           no == Signal("noise")
<1>1. damage < MaxDamage /\ damage' = damage + 1 /\ UNCHANGED <<mode, sender, receiver, time>>
  BY DEF Lose
<1>2. fwd \in Seq(Items) /\ back \in Seq(Bytes) /\ m \in Nat /\ Len(back) \in Nat
  BY Lengths DEF IInv, Typed
<1>3. /\ bb \in Items /\ bh \in Items /\ no \in Items
      /\ ~ Carries(bb) /\ ~ Carries(bh) /\ ~ Carries(no)
  <2>1. 0 \in 0..N
    BY Constants
  <2>2. QED
    BY <2>1 DEF Signal, Items, Carries
<1>4. ASSUME NEW i \in 1..m, UNCHANGED back, fwd' = Without(fwd, i) PROVE IInv'
  <2>1. /\ fwd' \in Seq(Items) /\ Len(fwd') = m - 1
        /\ \A p \in 1..m - 1 : fwd'[p] = (IF p < i THEN fwd[p] ELSE fwd[p + 1])
    BY <1>2, <1>4, WithoutIs
  <2> DEFINE f == [p \in 1..Len(fwd') |-> IF p < i THEN p ELSE p + 1]
  <2>2. f \in [1..Len(fwd') -> Int] /\ \A p \in 1..m - 1 : f[p] = (IF p < i THEN p ELSE p + 1)
    BY <2>1
  <2> HIDE DEF f, m
  <2>3. ASSUME NEW p \in 1..m - 1
        PROVE  f[p] \in 1..m /\ fwd'[p] = fwd[f[p]] /\ m - f[p] <= ((m - 1) - p) + 1
    <3>1. CASE p < i
      <4>1. f[p] = p /\ fwd'[p] = fwd[p]
        BY <2>1, <2>2, <3>1
      <4>2. p \in 1..m /\ m - p <= ((m - 1) - p) + 1
        BY <1>2
      <4>3. QED
        BY <4>1, <4>2
    <3>2. CASE ~ (p < i)
      <4>1. f[p] = p + 1 /\ fwd'[p] = fwd[p + 1]
        BY <2>1, <2>2, <3>2
      <4>2. p + 1 \in 1..m /\ m - (p + 1) <= ((m - 1) - p) + 1
        BY <1>2
      <4>3. QED
        BY <4>1, <4>2
    <3>3. QED
      BY <3>1, <3>2
  <2>4. ASSUME NEW p \in 1..m - 1, NEW q \in 1..m - 1, p <= q
        PROVE  f[p] <= f[q] /\ f[q] - f[p] <= (q - p) + 1
    BY <1>2, <2>2, <2>4
  <2>5. m - 1 <= m + 1 /\ fwd # <<>>
    BY <1>2, EmptySeq DEF m
  <2>6. QED
    BY <1>1, <1>4, <2>1, <2>2, <2>3, <2>4, <2>5, LostKeeps DEF m
<1>5. ASSUME NEW i \in 1..m, UNCHANGED back, fwd' = [fwd EXCEPT ![i] = bb] PROVE IInv'
  <2>1. fwd' \in Seq(Items) /\ Len(fwd') = m /\ fwd'[i] = bb /\ \A p \in 1..m : p # i => fwd'[p] = fwd[p]
    BY <1>2, <1>3, <1>5, ExceptSeq
  <2> DEFINE f == [p \in 1..Len(fwd') |-> p]
  <2>2. f \in [1..Len(fwd') -> Int] /\ \A p \in 1..m : f[p] = p
    BY <2>1
  <2> HIDE DEF f, m, bb
  <2>3. ASSUME NEW p \in 1..m, Carries(fwd'[p])
        PROVE  f[p] \in 1..m /\ fwd'[p] = fwd[f[p]] /\ m - f[p] <= (m - p) + 1
    <3>1. fwd'[p] = fwd[p] /\ f[p] = p
      BY <1>3, <2>1, <2>2, <2>3
    <3>2. QED
      BY <1>2, <3>1
  <2>4. ASSUME NEW p \in 1..m, NEW q \in 1..m, p <= q
        PROVE  f[p] <= f[q] /\ f[q] - f[p] <= (q - p) + 1
    BY <1>2, <2>2, <2>4
  <2>5. m <= m + 1 /\ fwd # <<>>
    BY <1>2, EmptySeq DEF m
  <2>6. QED
    BY ZenonT(40), <1>1, <1>5, <2>1, <2>2, <2>3, <2>4, <2>5, LostKeeps DEF m
<1>6. ASSUME NEW i \in 1..m, UNCHANGED back,
             fwd' = Split(fwd, i, <<bh, no>>)
      PROVE  IInv'
  <2> HIDE DEF bh, no
  <2>1. /\ fwd' \in Seq(Items) /\ Len(fwd') = m + 1
        /\ \A p \in 1..m + 1 :
             fwd'[p] = (IF p < i THEN fwd[p] ELSE IF p = i THEN bh ELSE IF p = i + 1 THEN no ELSE fwd[p - 1])
    <3>1. PICK w : w = <<bh, no>>
      OBVIOUS
    <3>2. w \in Seq(Items) /\ Len(w) = 2 /\ w[1] = bh /\ w[2] = no
      <4>1. <<bh, no>> \in Seq(Items)
        BY <1>3
      <4>2. Len(<<bh, no>>) = 2 /\ <<bh, no>>[1] = bh /\ <<bh, no>>[2] = no
        OBVIOUS
      <4>3. QED
        BY <3>1, <4>1, <4>2
    <3>3. fwd \in Seq(Items) /\ i \in 1..Len(fwd)
      BY <1>2
    <3>4. /\ Split(fwd, i, w) \in Seq(Items) /\ Len(Split(fwd, i, w)) = Len(fwd) + 1
          /\ \A p \in 1..Len(fwd) + 1 :
               Split(fwd, i, w)[p] =
                 (IF p < i THEN fwd[p] ELSE IF p = i THEN w[1] ELSE IF p = i + 1 THEN w[2] ELSE fwd[p - 1])
      BY ONLY <3>2, <3>3, SplitIs
    <3>5. fwd' = Split(fwd, i, w)
      BY <1>6, <3>1
    <3>6. QED
      BY <3>2, <3>4, <3>5
  <2> DEFINE f == [p \in 1..Len(fwd') |-> IF p < i THEN p ELSE p - 1]
  <2>2. f \in [1..Len(fwd') -> Int] /\ \A p \in 1..m + 1 : f[p] = (IF p < i THEN p ELSE p - 1)
    BY <2>1
  <2> HIDE DEF f, m
  <2>3. ASSUME NEW p \in 1..m + 1, Carries(fwd'[p])
        PROVE  p # i /\ f[p] \in 1..m /\ fwd'[p] = fwd[f[p]] /\ m - f[p] <= ((m + 1) - p) + 1
    <3>1. p # i /\ p # i + 1
      BY <1>3, <2>1, <2>3
    <3>2. CASE p < i
      <4>1. f[p] = p /\ fwd'[p] = fwd[p]
        BY <2>1, <2>2, <3>2
      <4>2. p \in 1..m /\ m - p <= ((m + 1) - p) + 1
        BY <1>2, <3>2
      <4>3. QED
        BY <3>1, <4>1, <4>2
    <3>3. CASE ~ (p < i)
      <4>1. f[p] = p - 1 /\ fwd'[p] = fwd[p - 1]
        BY <2>1, <2>2, <3>1, <3>3
      <4>2. p - 1 \in 1..m /\ m - (p - 1) <= ((m + 1) - p) + 1
        BY <1>2, <3>1, <3>3
      <4>3. QED
        BY <3>1, <4>1, <4>2
    <3>4. QED
      BY <3>2, <3>3
  <2>4. ASSUME NEW p \in 1..m + 1, NEW q \in 1..m + 1, p <= q, p # i, q # i
        PROVE  f[p] <= f[q] /\ f[q] - f[p] <= (q - p) + 1
    BY <1>2, <2>2, <2>4
  <2>5. ASSUME NEW p \in 1..m + 1, NEW q \in 1..m + 1, p <= q, Carries(fwd'[p]), Carries(fwd'[q])
        PROVE  f[p] <= f[q] /\ f[q] - f[p] <= (q - p) + 1
    <3>1. p # i /\ q # i
      BY <2>3, <2>5
    <3>2. QED
      BY <2>4, <2>5, <3>1
  <2>6. m + 1 <= m + 1 /\ fwd # <<>>
    BY <1>2, EmptySeq DEF m
  <2>7. QED
    <3>1. /\ fwd' \in Seq(Items) /\ Len(fwd') = m + 1 /\ Len(fwd) = m /\ fwd # <<>> /\ Len(fwd') <= Len(fwd) + 1
          /\ f \in [1..Len(fwd') -> Int]
      BY <2>1, <2>2, <2>6 DEF m
    <3>2. \A p \in 1..Len(fwd') : Carries(fwd'[p]) =>
            f[p] \in 1..Len(fwd) /\ fwd'[p] = fwd[f[p]] /\ Len(fwd) - f[p] <= (Len(fwd') - p) + 1
      BY <2>3, <3>1
    <3>3. \A p, q \in 1..Len(fwd') : p <= q /\ Carries(fwd'[p]) /\ Carries(fwd'[q]) =>
            f[p] <= f[q] /\ f[q] - f[p] <= (q - p) + 1
      BY <2>5, <3>1
    <3>4. QED
      BY <1>1, <1>6, <3>1, <3>2, <3>3, LostKeeps
<1>7. ASSUME NEW i \in 1..Len(back), UNCHANGED fwd, back' = Without(back, i) PROVE IInv'
  <2>1. Typed /\ BlocksAre /\ Started /\ Modes /\ OnTheLine /\ Room /\ LeadBounded /\ InPlace
    BY DEF IInv
  <2>2. UNCHANGED <<mode, spc, blk, tries, crc, rpc, errs, rcrc, got, age, talked, fwd>>
    BY <1>1, <1>7 DEF sender, receiver, time
  <2>3. /\ back' \in Seq(Bytes) /\ Len(back') = Len(back) - 1 /\ Acks(back') <= Acks(back)
        /\ \A p \in 1..Len(back) - 1 : back'[p] = (IF p < i THEN back[p] ELSE back[p + 1])
    BY <1>2, <1>7, WithoutIs, AcksWithout
  <2>4. /\ Acks(back') \in Nat /\ Acks(back) \in Nat /\ damage \in Nat /\ MaxDelayed \in Nat /\ blk \in Nat
        /\ Len(got) \in Nat /\ Lead \in Nat /\ \A p \in 1..m : Pos(fwd[p]) \in Nat
    <3>1. Acks(back') \in 0..Len(back') /\ Len(back') \in Nat
      BY <2>3, AcksAre, LenProperties
    <3>2. Acks(back) \in 0..Len(back) /\ blk \in 0..N + 1 /\ N \in Nat /\ \A p \in 1..m : Pos(fwd[p]) \in 0..N + 1
      BY <2>1, Lengths, Constants
    <3>3. QED
      BY <2>1, <3>1, <3>2, Lengths, Constants
  <2>5. damage' # 0 /\ damage' \in Nat /\ (Sure' => Sure) /\ Reads' = Reads /\ Sends' = Sends
    BY <1>1, <2>2, <2>4 DEF Sure, Reads, Sends
  <2>6. Typed'
    <3>1. damage \in 0..MaxDamage /\ MaxDamage \in Nat
      BY <2>1, Constants DEF Typed
    <3>2. damage' \in 0..MaxDamage
      BY <1>1, <3>1
    <3>3. QED
      BY <2>1, <2>2, <2>3, <2>5, <3>2 DEF Typed
  <2>7. BlocksAre' /\ InPlace' /\ NoGap'
    BY <2>1, <2>2, <2>5 DEF BlocksAre, InPlace, NoGap, Agreed
  <2>8. Started' /\ Modes'
    <3>1. rpc # "begin"
      <4>1. back # <<>>
        BY <1>2, <1>7, EmptySeq
      <4>2. QED
        BY <2>1, <4>1 DEF Started
    <3>2. Acks(back) = 0 => Acks(back') = 0
      BY <2>3, <2>4
    <3>3. (\E p \in 1..Len(back') : back'[p] = "nak") => \E p \in 1..Len(back) : back[p] = "nak"
      <4> SUFFICES ASSUME NEW p \in 1..Len(back) - 1, back'[p] = "nak"
                   PROVE  \E q \in 1..Len(back) : back[q] = "nak"
        BY <2>3
      <4>1. p \in 1..Len(back) /\ p + 1 \in 1..Len(back)
        BY <1>2
      <4>2. QED
        BY <2>3, <4>1
    <3>4. QED
      BY <2>1, <2>2, <3>1, <3>2, <3>3 DEF Started, Modes
  <2>9. OnTheLine'
    <3> SUFFICES ASSUME Reads, NEW p \in 1..m, Carries(fwd[p])
                 PROVE  /\ Pos(fwd[p]) <= blk /\ blk <= Pos(fwd[p]) + (m - p) + (damage + 1)
                        /\ \A q \in p..m : Carries(fwd[q]) =>
                             /\ Pos(fwd[p]) <= Pos(fwd[q])
                             /\ Pos(fwd[q]) <= Pos(fwd[p]) + (q - p) + (damage + 1)
      BY <1>1, <2>2, <2>5 DEF OnTheLine
    <3>1. /\ Pos(fwd[p]) <= blk /\ blk <= Pos(fwd[p]) + (m - p) + damage
          /\ \A q \in p..m : Carries(fwd[q]) =>
               Pos(fwd[p]) <= Pos(fwd[q]) /\ Pos(fwd[q]) <= Pos(fwd[p]) + (q - p) + damage
      BY <2>1 DEF OnTheLine
    <3>2. Pos(fwd[p]) \in Nat /\ p \in Nat
      BY <2>4
    <3> HIDE DEF m
    <3>3. blk <= Pos(fwd[p]) + (m - p) + (damage + 1)
      BY SMTT(40), <1>2, <2>4, <3>1, <3>2
    <3>4. ASSUME NEW q \in p..m, Carries(fwd[q])
          PROVE  Pos(fwd[p]) <= Pos(fwd[q]) /\ Pos(fwd[q]) <= Pos(fwd[p]) + (q - p) + (damage + 1)
      <4>1. q \in Nat /\ q \in 1..m
        BY <1>2, <3>2
      <4>2. Pos(fwd[q]) \in Nat
        BY <2>4, <4>1
      <4>3. Pos(fwd[p]) <= Pos(fwd[q]) /\ Pos(fwd[q]) <= Pos(fwd[p]) + (q - p) + damage
        BY <3>1, <3>4
      <4>4. QED
        BY <2>4, <3>2, <4>1, <4>2, <4>3
    <3>5. QED
      BY <3>1, <3>3, <3>4
  <2>10. Room' /\ LeadBounded'
    <3>1. Reads /\ Sends => m + Len(back') <= MaxDelayed + 1 + (damage + 1)
      BY <1>2, <2>1, <2>3, <2>4 DEF Room
    <3>2. blk + Acks(back) <= Len(got) + Lead => blk + Acks(back') <= Len(got) + Lead
      BY <2>3, <2>4
    <3>3. QED
      BY <1>1, <2>1, <2>2, <2>5, <3>1, <3>2 DEF Room, LeadBounded
  <2>11. QED
    BY <2>6, <2>7, <2>8, <2>9, <2>10 DEF IInv
<1>8. QED
  BY <1>4, <1>5, <1>6, <1>7 DEF Lose, Without, Split

-----------------------------------------------------------------------------
(* A refusal in the middle of a block, or of what is left of one, keeps the
   invariant *)

LEMMA RefuseIs ==
  ASSUME IInv, rpc \in {"start", "receive"}, Refuse
  PROVE  /\ UNCHANGED <<errs, rcrc, got>>
         /\ rpc' = rpc \/ (rpc \in {"start", "receive"} /\ rpc' = "receive")
         /\ back' \in Seq(Bytes) /\ Acks(back') = Acks(back) /\ Len(back') <= Len(back) + 1
         /\ Reads /\ Len(back') \in Nat /\ Len(back) \in Nat
<1>1. Typed /\ "nak" \in Bytes
  BY DEF IInv, Bytes
<1>2. Answered("nak") /\ rpc' = "receive" /\ UNCHANGED <<errs, rcrc, got>> /\ Reads
  BY DEF Refuse, Finish, Answer, Answered, Reads, Ended
<1>3. back' \in Seq(Bytes) /\ Len(back') <= Len(back) + 1 /\ Acks(back') = Acks(back)
  BY <1>1, <1>2, AnsweredIs
<1>4. Len(back') \in Nat /\ Len(back) \in Nat
  BY <1>1, <1>3, LenProperties DEF Typed
<1>5. QED
  BY <1>2, <1>3, <1>4

LEMMA PartKeeps ==
  ASSUME IInv, ReadPart
  PROVE  IInv'
<1> DEFINE no == Signal("noise")
           m == Len(fwd)
<1>1. /\ rpc \in {"start", "receive"} /\ fwd # <<>> /\ TimeoutPossible
      /\ damage < MaxDamage /\ damage' = damage + 1 /\ fwd' = [fwd EXCEPT ![1] = no]
      /\ UNCHANGED <<mode, sender, age>> /\ talked' \in BOOLEAN /\ Refuse
  BY DEF ReadPart, IInv, Typed
<1>2. Typed /\ fwd \in Seq(Items) /\ m \in Nat /\ damage \in Nat /\ MaxDamage \in Nat /\ MaxDelayed \in Nat
  BY Lengths, Constants DEF IInv, Typed
<1>3. no \in Items /\ ~ Carries(no)
  <2>1. 0 \in 0..N
    BY Constants
  <2>2. QED
    BY <2>1 DEF Signal, Items, Carries
<1>4. /\ UNCHANGED <<errs, rcrc, got>>
      /\ rpc' = rpc \/ (rpc \in {"start", "receive"} /\ rpc' = "receive")
      /\ back' \in Seq(Bytes) /\ Acks(back') = Acks(back) /\ Len(back') <= Len(back) + 1
      /\ Reads /\ Len(back') \in Nat /\ Len(back) \in Nat
  BY <1>1, RefuseIs
<1>5. 1 \in 1..m
  <2>1. m >= 1
    BY <1>1, <1>2, TailIs
  <2>2. QED
    BY <1>2, <2>1
<1>6. fwd' \in Seq(Items) /\ Len(fwd') = m /\ fwd'[1] = no /\ \A p \in 1..m : p # 1 => fwd'[p] = fwd[p]
  BY <1>1, <1>2, <1>3, <1>5, ExceptSeq
<1>7. damage' \in 1..MaxDamage /\ damage' >= damage
  BY <1>1, <1>2
<1>8. Reads /\ Sends => Len(fwd') + Len(back') <= MaxDelayed + 1 + damage'
  <2>1. Sends => m + Len(back) < MaxDelayed
    BY <1>1, <1>4 DEF TimeoutPossible, Reads, Sends
  <2> HIDE DEF m
  <2>2. QED
    BY <1>1, <1>2, <1>4, <1>6, <2>1
<1> DEFINE f == [p \in 1..Len(fwd') |-> p]
<1>9. f \in [1..Len(fwd') -> Int] /\ \A p \in 1..Len(fwd') : f[p] = p
  BY <1>2, <1>6
<1> HIDE DEF f, m, no
<1>10. Len(fwd) = m
  BY DEF m
<1>11. \A p \in 1..Len(fwd') : Carries(fwd'[p]) =>
         /\ f[p] \in 1..Len(fwd) /\ fwd'[p] = fwd[f[p]]
         /\ (Len(fwd) - f[p]) + damage <= (Len(fwd') - p) + damage'
  <2> SUFFICES ASSUME NEW p \in 1..Len(fwd'), Carries(fwd'[p])
               PROVE  /\ f[p] \in 1..Len(fwd) /\ fwd'[p] = fwd[f[p]]
                      /\ (Len(fwd) - f[p]) + damage <= (Len(fwd') - p) + damage'
    OBVIOUS
  <2>1. f[p] = p /\ p \in 1..m /\ fwd'[p] = fwd[p]
    BY <1>3, <1>6, <1>9
  <2>2. QED
    BY <1>1, <1>2, <1>6, <1>10, <2>1
<1>12. \A p, q \in 1..Len(fwd') : p <= q /\ Carries(fwd'[p]) /\ Carries(fwd'[q]) =>
         f[p] <= f[q] /\ (f[q] - f[p]) + damage <= (q - p) + damage'
  BY <1>1, <1>2, <1>6, <1>9
<1>13. QED
  BY <1>1, <1>4, <1>6, <1>7, <1>8, <1>9, <1>11, <1>12, ThinnedKeeps

(* What the second of two lines still carries are the last items of the first. *)
EndOf(q, r, k) ==
  /\ r \in Seq(Items) /\ k \in 0..Len(q) /\ Len(r) = Len(q) - k
  /\ \A p \in 1..Len(r) : Carries(r[p]) => r[p] = q[p + k]

LEMMA BiteIs ==
  ASSUME NEW q \in Seq(Items)
  PROVE  \E k \in 0..Len(q) : EndOf(q, Bite(q), k)
<1>1. Len(q) \in Nat
  BY LenProperties
<1>2. CASE q = <<>>
  <2>1. EndOf(q, Bite(q), 0)
    BY <1>1, <1>2 DEF Bite, EndOf
  <2>2. QED
    BY <1>1, <2>1
<1>3. CASE q # <<>> /\ Head(q).kind \in {"eot", "can"}
  <2>1. /\ Len(q) >= 1 /\ Tail(q) \in Seq(Items) /\ Len(Tail(q)) = Len(q) - 1
        /\ \A i \in 1..Len(q) - 1 : Tail(q)[i] = q[i + 1]
    BY <1>3, TailIs
  <2>2. Bite(q) = Tail(q)
    BY <1>3 DEF Bite
  <2>3. 1 \in 0..Len(q)
    BY <1>1, <2>1
  <2>4. EndOf(q, Tail(q), 1)
    BY <2>1, <2>3 DEF EndOf
  <2>5. QED
    BY <2>2, <2>3, <2>4
<1>4. CASE q # <<>> /\ Head(q).kind \notin {"eot", "can"}
  <2> DEFINE no == Signal("noise")
  <2>1. no \in Items /\ ~ Carries(no)
    <3>1. 0 \in 0..N
      BY Constants
    <3>2. QED
      BY <3>1 DEF Signal, Items, Carries
  <2>2. Bite(q) = [q EXCEPT ![1] = no]
    BY <1>4 DEF Bite
  <2> HIDE DEF no
  <2>3. 1 \in 1..Len(q)
    <3>1. Len(q) >= 1
      BY <1>4, TailIs
    <3>2. QED
      BY <1>1, <3>1
  <2>4. PICK r : r = [q EXCEPT ![1] = no]
    OBVIOUS
  <2>5. r \in Seq(Items) /\ Len(r) = Len(q) /\ r[1] = no /\ \A p \in 1..Len(q) : p # 1 => r[p] = q[p]
    BY <2>1, <2>3, <2>4, ExceptSeq
  <2>6. \A p \in 1..Len(r) : Carries(r[p]) => r[p] = q[p]
    BY <2>1, <2>5
  <2>7. EndOf(q, r, 0)
    BY <1>1, <2>5, <2>6 DEF EndOf
  <2>8. QED
    BY <1>1, <2>2, <2>4, <2>7
<1>5. QED
  BY <1>2, <1>3, <1>4

LEMMA EndOfEnd ==
  ASSUME NEW q \in Seq(Items), NEW r, NEW t, NEW k, NEW l, EndOf(q, r, k), EndOf(r, t, l)
  PROVE  EndOf(q, t, k + l)
<1>1. Len(q) \in Nat /\ k \in 0..Len(q) /\ Len(r) = Len(q) - k /\ l \in 0..Len(r) /\ Len(t) = Len(r) - l
  BY LenProperties DEF EndOf
<1>2. t \in Seq(Items) /\ k + l \in 0..Len(q) /\ Len(t) = Len(q) - (k + l)
  BY <1>1 DEF EndOf
<1>3. ASSUME NEW p \in 1..Len(t), Carries(t[p]) PROVE t[p] = q[p + (k + l)]
  <2>1. t[p] = r[p + l]
    BY <1>3 DEF EndOf
  <2>2. p + l \in 1..Len(r) /\ (p + l) + k = p + (k + l)
    BY <1>1
  <2>3. r[p + l] = q[(p + l) + k]
    BY <1>3, <2>1, <2>2 DEF EndOf
  <2>4. QED
    BY <2>1, <2>2, <2>3
<1>4. QED
  BY <1>2, <1>3 DEF EndOf

LEMMA FalseStartKeeps ==
  ASSUME IInv, ReadFalseStart
  PROVE  IInv'
<1>1. /\ rpc \in {"start", "receive"} /\ fwd # <<>> /\ Head(fwd).kind = "noise"
      /\ fwd' \in {Tail(fwd), Bite(Tail(fwd)), Bite(Bite(Tail(fwd)))}
      /\ UNCHANGED <<mode, sender, damage, age>> /\ talked' \in BOOLEAN /\ Refuse
  BY DEF ReadFalseStart, IInv, Typed
<1>2. /\ Typed /\ fwd \in Seq(Items) /\ Len(fwd) \in Nat /\ damage \in Nat /\ MaxDamage \in Nat
      /\ MaxDelayed \in Nat /\ damage <= MaxDamage
  BY Lengths, Constants DEF IInv, Typed
<1>3. /\ UNCHANGED <<errs, rcrc, got>>
      /\ rpc' = rpc \/ (rpc \in {"start", "receive"} /\ rpc' = "receive")
      /\ back' \in Seq(Bytes) /\ Acks(back') = Acks(back) /\ Len(back') <= Len(back) + 1
      /\ Reads /\ Len(back') \in Nat /\ Len(back) \in Nat
  BY <1>1, RefuseIs
<1>4. damage' \in 1..MaxDamage /\ damage' = damage
  <2>1. damage = 0 => Head(fwd).kind \in {"block", "eot", "can"}
    BY <1>1, <1>3, HeadIs
  <2>2. damage # 0
    BY <1>1, <2>1
  <2>3. QED
    BY <1>1, <1>2, <2>2
<1>5. /\ Len(fwd) >= 1 /\ Tail(fwd) \in Seq(Items) /\ Len(Tail(fwd)) = Len(fwd) - 1
      /\ \A i \in 1..Len(fwd) - 1 : Tail(fwd)[i] = fwd[i + 1]
  BY <1>1, <1>2, TailIs
<1>6. EndOf(fwd, Tail(fwd), 1)
  BY <1>2, <1>5 DEF EndOf
<1>7. \E k \in 1..Len(fwd) : EndOf(fwd, fwd', k)
  <2>1. CASE fwd' = Tail(fwd)
    <3>1. 1 \in 1..Len(fwd)
      BY <1>2, <1>5
    <3>2. QED
      BY <1>6, <2>1, <3>1
  <2>2. PICK b : b = Bite(Tail(fwd))
    OBVIOUS
  <2>3. PICK k \in 0..Len(Tail(fwd)) : EndOf(Tail(fwd), b, k)
    BY <1>5, <2>2, BiteIs
  <2>4. EndOf(fwd, b, 1 + k) /\ 1 + k \in 1..Len(fwd)
    <3>1. EndOf(fwd, b, 1 + k)
      BY <1>2, <1>6, <2>3, EndOfEnd
    <3>2. QED
      BY <1>2, <1>5, <2>3, <3>1
  <2>5. CASE fwd' = b
    BY <2>4, <2>5
  <2>6. CASE fwd' = Bite(b)
    <3>1. b \in Seq(Items) /\ Len(b) \in Nat
      BY <2>4, LenProperties DEF EndOf
    <3>2. PICK l \in 0..Len(b) : EndOf(b, Bite(b), l)
      BY <3>1, BiteIs
    <3>3. EndOf(fwd, Bite(b), (1 + k) + l)
      BY <1>2, <2>4, <3>2, EndOfEnd
    <3>4. (1 + k) + l \in 0..Len(fwd) /\ k \in Nat /\ l \in Nat
      BY <1>2, <1>5, <2>3, <3>1, <3>2, <3>3 DEF EndOf
    <3>5. (1 + k) + l \in 1..Len(fwd)
      BY <1>2, <3>4
    <3>6. QED
      BY <2>6, <3>3, <3>5
  <2>7. QED
    BY <1>1, <2>1, <2>2, <2>5, <2>6
<1>8. PICK k \in 1..Len(fwd) : EndOf(fwd, fwd', k)
  BY <1>7
<1>9. /\ fwd' \in Seq(Items) /\ Len(fwd') = Len(fwd) - k /\ k \in Nat /\ k >= 1 /\ k <= Len(fwd)
      /\ \A p \in 1..Len(fwd') : Carries(fwd'[p]) => fwd'[p] = fwd[p + k]
  BY <1>2, <1>8 DEF EndOf
<1>10. Reads /\ Sends => Len(fwd') + Len(back') <= MaxDelayed + 1 + damage'
  <2>1. Reads /\ Sends => Len(fwd) + Len(back) <= MaxDelayed + 1 + damage
    BY DEF IInv, Room
  <2>2. QED
    BY <1>2, <1>3, <1>4, <1>9, <2>1
<1> DEFINE f == [p \in 1..Len(fwd') |-> p + k]
<1>11. f \in [1..Len(fwd') -> Int] /\ \A p \in 1..Len(fwd') : f[p] = p + k
  BY <1>9
<1> HIDE DEF f
<1>12. \A p \in 1..Len(fwd') : Carries(fwd'[p]) =>
         /\ f[p] \in 1..Len(fwd) /\ fwd'[p] = fwd[f[p]]
         /\ (Len(fwd) - f[p]) + damage <= (Len(fwd') - p) + damage'
  <2> SUFFICES ASSUME NEW p \in 1..Len(fwd'), Carries(fwd'[p])
               PROVE  /\ f[p] \in 1..Len(fwd) /\ fwd'[p] = fwd[f[p]]
                      /\ (Len(fwd) - f[p]) + damage <= (Len(fwd') - p) + damage'
    OBVIOUS
  <2>1. f[p] = p + k /\ fwd'[p] = fwd[p + k]
    BY <1>9, <1>11
  <2>2. p + k \in 1..Len(fwd) /\ (Len(fwd) - (p + k)) + damage <= (Len(fwd') - p) + damage'
    BY <1>2, <1>4, <1>9
  <2>3. QED
    BY <2>1, <2>2
<1>13. \A p, q \in 1..Len(fwd') : p <= q /\ Carries(fwd'[p]) /\ Carries(fwd'[q]) =>
         f[p] <= f[q] /\ (f[q] - f[p]) + damage <= (q - p) + damage'
  <2> SUFFICES ASSUME NEW p \in 1..Len(fwd'), NEW q \in 1..Len(fwd'), p <= q
               PROVE  f[p] <= f[q] /\ (f[q] - f[p]) + damage <= (q - p) + damage'
    OBVIOUS
  <2>1. f[p] = p + k /\ f[q] = q + k
    BY <1>11
  <2>2. p + k <= q + k /\ ((q + k) - (p + k)) + damage <= (q - p) + damage'
    BY <1>2, <1>4, <1>9
  <2>3. QED
    BY <2>1, <2>2
<1>14. damage' >= damage
  BY <1>2, <1>4
<1>15. QED
  BY <1>1, <1>3, <1>4, <1>9, <1>10, <1>11, <1>12, <1>13, <1>14, ThinnedKeeps

-----------------------------------------------------------------------------
(* The theorems *)

LEMMA TickKeeps ==
  ASSUME IInv, Tick \/ UNCHANGED vars
  PROVE  IInv'
<1>1. /\ UNCHANGED <<mode, spc, blk, tries, crc, rpc, errs, rcrc, got, fwd, back, damage>>
      /\ age' \in 0..Deadline /\ talked' \in BOOLEAN
  <2>1. age \in 0..Deadline /\ talked \in BOOLEAN
    BY DEF IInv, Typed
  <2>2. CASE Tick
    <3>1. age' \in 0..Deadline
      BY <2>1, <2>2 DEF Tick, Deadline
    <3>2. QED
      BY <2>2, <3>1 DEF Tick, sender, receiver
  <2>3. CASE UNCHANGED vars
    BY <2>1, <2>3 DEF vars, sender, receiver, time
  <2>4. QED
    BY <2>2, <2>3
<1>2. Reads' = Reads /\ Sends' = Sends /\ Sure' = Sure /\ Agreed' = Agreed
  BY <1>1 DEF Reads, Sends, Sure, Agreed
<1>3. Typed' /\ BlocksAre' /\ Started' /\ Modes' /\ OnTheLine'
  BY <1>1, <1>2 DEF IInv, Typed, BlocksAre, Started, Modes, OnTheLine
<1>4. Room' /\ LeadBounded' /\ InPlace' /\ NoGap'
  BY <1>1, <1>2 DEF IInv, Room, LeadBounded, InPlace, NoGap
<1>5. QED
  BY <1>3, <1>4 DEF IInv

LEMMA XmodemInv == Spec => []IInv
<1>1. IInv /\ [Next]_vars => IInv'
  <2> SUFFICES ASSUME IInv, [Next]_vars PROVE IInv'
    OBVIOUS
  <2>1. ASSUME NEW b \in Answers, SenderStep(b) PROVE IInv'
    BY <2>1, SenderActs, SenderKeeps DEF IInv
  <2>2. CASE Begin \/ ReadNothing
    <3>1. Waits /\ errs' \in 0..startRetries /\ UNCHANGED <<age, talked>>
      BY <2>2, ReceiverWaits DEF IInv
    <3>2. QED
      BY <3>1, WaitsKeeps
  <2>3. CASE ReadItem
    BY <2>3, ReceiverTakes, TakesKeeps DEF IInv
  <2>4. CASE ReadPart
    BY <2>4, PartKeeps
  <2>5. CASE ReadFalseStart
    BY <2>5, FalseStartKeeps
  <2>6. CASE Lose
    BY <2>6, LoseKeeps
  <2>7. CASE Tick \/ UNCHANGED vars
    BY <2>7, TickKeeps
  <2>8. QED
    BY <2>1, <2>2, <2>3, <2>4, <2>5, <2>6, <2>7 DEF Next
<1>2. QED
  BY <1>1, XmodemInit, PTL DEF Spec

(* The types hold, and what is stored is the beginning of the file: whatever
   the line loses and delays, wherever time-outs fall, for a file shorter than the
   numbers go, and for files of any length where nothing is lost, damaged or cut
   by a time-out (Receive, xmodem_recv). *)
THEOREM BlocksInOrder == Spec => []StoredInOrder
<1>1. IInv => StoredInOrder
  <2> SUFFICES ASSUME IInv PROVE StoredInOrder
    OBVIOUS
  <2>1. TypeOK
    BY DEF IInv, Typed, TypeOK
  <2>2. QED
    BY <2>1 DEF IInv, InPlace, StoredInOrder, Sure
<1>2. QED
  BY <1>1, XmodemInv, PTL

(* A receiver that refuses what it does not expect (Receive) stores files of
   any length in order over a line that loses and damages blocks too, when
   there are more numbers than blocks the line can hold back. *)
THEOREM NumbersSuffice ==
  ASSUME Lead < Wrap
  PROVE  Spec => [](mode # "oric" => \A i \in 1..Len(got) : got[i] = i)
<1>1. IInv => (mode # "oric" => \A i \in 1..Len(got) : got[i] = i)
  BY DEF IInv, InPlace, Sure
<1>2. QED
  BY <1>1, XmodemInv, PTL

(* Late answers, repeated blocks and the acknowledgements they bring never make
   a receiver report a success that is not one, while no item is lost or damaged
   and no time-out falls inside a block (Receive, xmodem_recv against Send,
   xmodem_send). *)
THEOREM LateAnswersHarmNothing == Spec => []LateAnswersAreHarmless
<1>1. IInv => LateAnswersAreHarmless
  <2> SUFFICES ASSUME IInv, damage = 0, rpc = "done", rcrc = crc PROVE Len(got) = N
    BY DEF LateAnswersAreHarmless
  <2>1. blk >= 1
    <3>1. blk # 0
      BY DEF IInv, Started
    <3>2. blk \in 0..N + 1 /\ N \in Nat
      BY Lengths, Constants DEF IInv
    <3>3. QED
      BY <3>1, <3>2
  <2>2. Agreed
    BY <2>1 DEF Agreed
  <2>3. QED
    BY <2>2 DEF IInv, NoGap
<1>2. QED
  BY <1>1, XmodemInv, PTL
=============================================================================
