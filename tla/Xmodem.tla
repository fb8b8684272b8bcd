-------------------------------- MODULE Xmodem --------------------------------
(***************************************************************************)
(* A file transfer: the XMODEM sender and receiver of package xmodem, used *)
(* by the server and by oterm, and those of the Oric terminal, over a line *)
(* that keeps the order of bytes, delays them, and (beyond TCP, between a  *)
(* modem and the Oric) may lose or damage them.  A block is its position   *)
(* in the file.  The time-out of a read may always come before the answer, *)
(* and in the middle of a block, whose late bytes are then read as control *)
(* bytes.  Left out: that the bytes of two blocks together pass the check  *)
(* of one.                                                                 *)
(***************************************************************************)
EXTENDS Integers, Sequences

CONSTANTS
  N,             (* blocks of the file                                       *)
  Wrap,          (* block numbers are taken modulo it (256)                  *)
  Capacity,      (* blocks the receiver can hold (8192; 240 on the Oric)     *)
  maxRetries,    (* times a block is sent (10)                               *)
  startRetries,  (* time-outs before giving up (16)                          *)
  Fallback,      (* time-outs before the receiver changes mode (4)           *)
  MaxDamage,     (* bound of the exploration: items lost, damaged or cut     *)
  MaxDelayed     (* bound of the exploration: items on the line at a time-out*)

ASSUME XmodemAssumption ==
  /\ N \in Nat /\ Wrap \in Nat \ {0, 1} /\ Capacity \in Nat
  /\ maxRetries \in Nat \ {0} /\ startRetries \in Nat \ {0} /\ Fallback \in Nat
  /\ MaxDamage \in Nat /\ MaxDelayed \in Nat

VARIABLES
  mode,          (* "oterm" and "oric" download, "upload" comes from an Oric *)
  spc, blk,      (* the sender: its state, the block it is sending (N+1: EOT)*)
  tries, crc,    (* times it was sent, or time-outs before the first; CRC?   *)
  rpc, errs,     (* the receiver: its state, the time-outs it counted        *)
  rcrc, got,     (* it expects CRC, the blocks it stored                     *)
  fwd, back,     (* what is on the line each way                             *)
  damage,        (* items lost, damaged, or cut by a time-out inside them    *)
  age, talked    (* half idle periods since the session's last Write, up to
                    the deadline, and whether the server has used the
                    connection in the current one                            *)

sender == <<spc, blk, tries, crc>>
receiver == <<rpc, errs, rcrc, got>>
time == <<age, talked>>
vars == <<mode, sender, receiver, fwd, back, damage, time>>

Ended == {"done", "failed", "cut"}
Deadline == 2

TypeOK ==
  /\ mode \in {"oterm", "oric", "upload"}
  /\ spc \in {"start", "sent"} \cup Ended
  /\ blk \in 0..N + 1 /\ tries \in 0..startRetries + maxRetries /\ crc \in BOOLEAN
  /\ rpc \in {"begin", "start", "receive"} \cup Ended
  /\ errs \in 0..startRetries /\ rcrc \in BOOLEAN
  /\ got \in Seq(1..N) /\ Len(got) <= Capacity + 1
  /\ damage \in 0..MaxDamage /\ age \in 0..Deadline /\ talked \in BOOLEAN

(* The header of a download has just been written, or the request of an
   upload. *)
Init ==
  /\ mode \in {"oterm", "oric", "upload"}
  /\ spc = "start" /\ blk = 0 /\ tries = 0 /\ crc = FALSE
  /\ rpc = "begin" /\ errs = 0 /\ rcrc = (mode # "oric") /\ got = <<>>
  /\ fwd = <<>> /\ back = <<>> /\ damage = 0
  /\ age = 0 /\ talked = TRUE

-----------------------------------------------------------------------------
(* The line *)

Block(i, c) == [kind |-> "block", n |-> i, crc |-> c]
Signal(k) == [kind |-> k, n |-> 0, crc |-> FALSE]
Item(i, c) == IF i <= N THEN Block(i, c) ELSE Signal("eot")

(* What nobody reads any more is discarded. *)
OntoFwd(x) == fwd' = IF rpc \in Ended THEN fwd ELSE Append(fwd, x)
OntoBack(b) == back' = IF spc \in Ended THEN back ELSE Append(back, b)

TimeoutPossible ==
  (IF rpc \in Ended THEN 0 ELSE Len(fwd)) + (IF spc \in Ended THEN 0 ELSE Len(back)) < MaxDelayed

(* What a side reads next: an answer, or a time-out. *)
FromBack(b) ==
  \/ back # <<>> /\ b = Head(back) /\ back' = Tail(back)
  \/ b = "timeout" /\ TimeoutPossible /\ UNCHANGED back

Lose ==
  /\ damage < MaxDamage /\ damage' = damage + 1
  /\ \/ \E i \in 1..Len(fwd) :
          /\ \/ fwd' = SubSeq(fwd, 1, i - 1) \o SubSeq(fwd, i + 1, Len(fwd))
             \/ /\ fwd[i].kind = "block"
                /\ \/ fwd' = [fwd EXCEPT ![i] = Signal("badBody")]
                   \/ fwd' = SubSeq(fwd, 1, i - 1) \o <<Signal("badHeader"), Signal("noise")>>
                               \o SubSeq(fwd, i + 1, Len(fwd))
          /\ UNCHANGED back
     \/ \E i \in 1..Len(back) :
          /\ back' = SubSeq(back, 1, i - 1) \o SubSeq(back, i + 1, Len(back))
          /\ UNCHANGED fwd
  /\ UNCHANGED <<mode, sender, receiver, time>>

(* The deadline of the connection was set by the session's last Write. *)
Expired == age = Deadline

Tick ==
  /\ age < Deadline /\ age' = age + 1
  /\ talked' = FALSE
  /\ UNCHANGED <<mode, sender, receiver, fwd, back, damage>>

-----------------------------------------------------------------------------
(* The sender: Send of the server (downloads), xmodem_send of the Oric *)

GoSends == mode # "upload"

(* A Write of the server fails when the deadline has passed. *)
Transmit(i, t, c) ==
  \/ /\ ~ (GoSends /\ Expired)
     /\ spc' = "sent" /\ blk' = i /\ tries' = t /\ crc' = c
     /\ OntoFwd(Item(i, c))
  \/ /\ GoSends /\ Expired
     /\ spc' = "cut"
     /\ UNCHANGED <<blk, tries, crc, fwd>>

Stop(state) == spc' = state /\ UNCHANGED <<blk, tries, crc>>

sendCan == IF Expired THEN UNCHANGED fwd ELSE OntoFwd(Signal("can"))

(* Mutant: the last block is taken for the end of the file. *)
AfterAckOneLess(i) == IF i = N - 1 THEN N + 1 ELSE i + 1

AfterAck(i) == i + 1

Retry ==
  \/ tries < maxRetries /\ Transmit(blk, tries + 1, crc)
  \/ tries = maxRetries /\ Stop("failed") /\ sendCan

waitStart(b) ==
  /\ spc = "start"
  /\ \/ b \in {"C", "nak"} /\ Transmit(1, 1, b = "C")
     \/ b = "can" /\ Stop("failed") /\ UNCHANGED fwd
     \/ /\ b \in {"ack", "timeout"} /\ tries + 1 < startRetries
        /\ tries' = tries + 1
        /\ UNCHANGED <<spc, blk, crc, fwd>>
     \/ /\ b \in {"ack", "timeout"} /\ tries + 1 = startRetries
        /\ Stop("failed") /\ UNCHANGED fwd

sendBlock(b) ==
  /\ spc = "sent" /\ blk <= N
  /\ \/ b = "ack" /\ Transmit(AfterAck(blk), 1, crc)
     \/ b = "can" /\ Stop("failed") /\ UNCHANGED fwd
     \/ b \notin {"ack", "can"} /\ Retry

sendEOT(b) ==
  /\ spc = "sent" /\ blk = N + 1
  /\ \/ b = "ack" /\ Stop("done") /\ UNCHANGED fwd
     \/ b # "ack" /\ Retry

Send(b) == waitStart(b) \/ sendBlock(b) \/ sendEOT(b)

(* The Oric waits for 'C' and repeats a block until it is acknowledged,
   whatever else it reads; any byte answers EOT. *)
xmodem_send(b) ==
  \/ /\ spc = "start" /\ b = "C"
     /\ Transmit(1, 1, TRUE)
  \/ /\ spc = "start" /\ b # "C"
     /\ UNCHANGED <<sender, fwd>>
  \/ /\ spc = "sent" /\ blk <= N /\ b = "ack"
     /\ Transmit(AfterAck(blk), 1, crc)
  \/ /\ spc = "sent" /\ (b = "timeout" \/ (blk <= N /\ b # "ack"))
     /\ Transmit(blk, 1, crc)
  \/ /\ spc = "sent" /\ blk = N + 1 /\ b # "timeout"
     /\ Stop("done") /\ UNCHANGED fwd

SenderStep(b) ==
  /\ FromBack(b)
  /\ IF GoSends THEN Send(b) /\ talked' = TRUE
                ELSE xmodem_send(b) /\ UNCHANGED talked
  /\ UNCHANGED <<mode, receiver, damage, age>>

-----------------------------------------------------------------------------
(* The receiver: Receive of oterm and of the server, xmodem_recv *)

(* On the server an answer that cannot be written is forgotten. *)
Answer(b) == IF mode = "upload" /\ Expired THEN UNCHANGED back ELSE OntoBack(b)

Finish(state) == rpc' = state /\ UNCHANGED <<errs, rcrc, got>>

(* A turn of the loop that has not seen a block yet writes the start byte;
   there the server notices that it cannot write. *)
Loop(e, c) ==
  /\ errs' = e /\ rcrc' = c /\ UNCHANGED got
  /\ \/ rpc \in {"begin", "start"} /\ mode = "upload" /\ Expired /\ rpc' = "cut" /\ UNCHANGED back
     \/ /\ rpc \in {"begin", "start"} /\ ~ (mode = "upload" /\ Expired)
        /\ rpc' = "start" /\ OntoBack(IF c THEN "C" ELSE "nak")
     \/ rpc = "receive" /\ UNCHANGED <<rpc, back>>

Begin ==
  /\ rpc = "begin"
  /\ Loop(errs, rcrc)
  /\ UNCHANGED <<mode, sender, fwd, damage, time>>

(* Mutant: a receiver that has seen a block does not count time-outs. *)
ReceiveTimeoutUncounted ==
  IF rpc = "start" /\ errs = startRetries
  THEN Finish("failed") /\ Answer("can")
  ELSE Loop(IF rpc = "start" THEN errs + 1 ELSE errs, rcrc /\ errs + 1 < Fallback)

(* Time-outs add up over the whole transfer, and change the mode even when
   blocks have been received in it. *)
ReceiveTimeout ==
  IF errs = startRetries
  THEN Finish("failed") /\ Answer("can")
  ELSE Loop(errs + 1, rcrc /\ errs + 1 < Fallback)

Number(i) == i % Wrap
Expected == Len(got) + 1

(* Mutant: a repeated block is stored again. *)
ReceiveBlockTwice(x) ==
  /\ rpc' = "receive" /\ UNCHANGED <<errs, rcrc>>
  /\ IF Number(x.n) \in {Number(Expected), Number(Expected - 1)}
     THEN got' = Append(got, x.n) /\ Answer("ack")
     ELSE UNCHANGED got /\ Answer("nak")

(* A good block: the next one is stored, the last one acknowledged again,
   any other refused; a file too large ends the transfer. *)
ReceiveBlock(x) ==
  \/ /\ Number(x.n) = Number(Expected)
     /\ got' = Append(got, x.n) /\ UNCHANGED <<errs, rcrc>>
     /\ IF Len(got) + 1 > Capacity THEN rpc' = "failed" /\ Answer("can")
                                   ELSE rpc' = "receive" /\ Answer("ack")
  \/ /\ Number(x.n) # Number(Expected)
     /\ rpc' = "receive" /\ UNCHANGED <<errs, rcrc, got>>
     /\ Answer(IF Number(x.n) = Number(Expected - 1) THEN "ack" ELSE "nak")

(* The bytes left of a block that was refused before its end are read as
   control bytes: some mean something, the others are passed over. *)
Meanings(x) == IF x.kind = "noise" THEN {"eot", "can", "other"} ELSE {x.kind}

Refuse == Finish("receive") /\ Answer("nak")

Receive(x) ==
  \E k \in Meanings(x) :
    \/ k = "eot" /\ Finish("done") /\ Answer("ack")
    \/ k = "can" /\ Finish("failed") /\ UNCHANGED back
    \/ k = "other" /\ Loop(errs, rcrc)
    \/ k = "block" /\ x.crc = rcrc /\ ReceiveBlock(x)
    \/ (k \in {"badBody", "badHeader"} \/ (k = "block" /\ x.crc # rcrc)) /\ Refuse

(* The Oric never gives up, acknowledges every good block it does not store,
   and cancels when a block begins and its memory is full. *)
xmodem_recv(x) ==
  \E k \in Meanings(x) :
    \/ k = "eot" /\ Finish("done") /\ Answer("ack")
    \/ k = "can" /\ Finish("failed") /\ UNCHANGED back
    \/ k = "other" /\ Finish("receive") /\ UNCHANGED back
    \/ k \in {"block", "badBody"} /\ Len(got) = Capacity /\ Finish("failed") /\ Answer("can")
    \/ /\ k = "block" /\ Len(got) < Capacity
       /\ rpc' = "receive" /\ UNCHANGED <<errs, rcrc>>
       /\ got' = IF Number(x.n) = Number(Expected) THEN Append(got, x.n) ELSE got
       /\ Answer("ack")
    \/ (k = "badHeader" \/ (k = "badBody" /\ Len(got) < Capacity)) /\ Refuse

ReadItem ==
  /\ rpc \in {"start", "receive"} /\ fwd # <<>>
  /\ fwd' = Tail(fwd)
  /\ IF mode = "oric" THEN xmodem_recv(Head(fwd)) ELSE Receive(Head(fwd))
  /\ talked' = (talked \/ mode = "upload")
  /\ UNCHANGED <<mode, sender, damage, age>>

(* A time-out inside a block, which no side counts: it is refused, and the
   rest of it comes later. *)
ReadPart ==
  /\ rpc \in {"start", "receive"} /\ fwd # <<>> /\ Head(fwd).kind \in {"block", "badBody"}
  /\ TimeoutPossible
  /\ damage < MaxDamage /\ damage' = damage + 1
  /\ fwd' = [fwd EXCEPT ![1] = Signal("noise")]
  /\ Refuse
  /\ talked' = (talked \/ mode = "upload")
  /\ UNCHANGED <<mode, sender, age>>

(* The line without its first byte. *)
Bite(q) ==
  IF q = <<>> THEN q
  ELSE IF Head(q).kind \in {"eot", "can"} THEN Tail(q) ELSE [q EXCEPT ![1] = Signal("noise")]

(* What is left of a block may begin like a block: the two bytes after it, of
   the same rest or of what follows on the line, are no header. *)
ReadFalseStart ==
  /\ rpc \in {"start", "receive"} /\ fwd # <<>> /\ Head(fwd).kind = "noise"
  /\ fwd' \in {Tail(fwd), Bite(Tail(fwd)), Bite(Bite(Tail(fwd)))}
  /\ Refuse
  /\ talked' = (talked \/ mode = "upload")
  /\ UNCHANGED <<mode, sender, damage, age>>

ReadNothing ==
  /\ rpc \in {"start", "receive"} /\ TimeoutPossible
  /\ IF mode = "oric" THEN UNCHANGED receiver /\ Answer("nak") ELSE ReceiveTimeout
  /\ UNCHANGED <<mode, sender, fwd, damage, time>>

-----------------------------------------------------------------------------
Answers == {"C", "nak", "ack", "can", "timeout"}
SenderReads == \E b \in Answers : back # <<>> /\ b = Head(back) /\ SenderStep(b)

Next ==
  \/ \E b \in Answers : SenderStep(b)
  \/ Begin \/ ReadItem \/ ReadPart \/ ReadFalseStart \/ ReadNothing
  \/ Lose \/ Tick

Spec == Init /\ [][Next]_vars

(* Both sides run, what is on the line arrives, and time-outs fire. *)
FairSpec ==
  /\ Spec
  /\ WF_vars(SenderReads) /\ WF_vars(SenderStep("timeout"))
  /\ WF_vars(Begin) /\ WF_vars(ReadItem) /\ WF_vars(ReadNothing)

-----------------------------------------------------------------------------
(* Properties *)

(* The types hold, and what the receiver has stored is always the beginning
   of the file: no repeated, late, cut or damaged block is stored twice, out
   of place or over a gap, while no two blocks of the file have one number or
   nothing is lost, damaged or cut. *)
StoredInOrder == TypeOK /\ (N < Wrap \/ damage = 0 => \A i \in 1..Len(got) : got[i] = i)

(* While nothing is lost or damaged and no time-out falls inside a block, a
   receiver that reports success, and still checks blocks the way the sender
   does, has the whole file, however late answers come and however many blocks
   and acknowledgements that makes (Send and Receive, xmodem_send and
   xmodem_recv). *)
LateAnswersAreHarmless == damage = 0 /\ rpc = "done" /\ rcrc = crc => Len(got) = N

(* A download ends on the server, and on oterm, whatever the line does. *)
DownloadEnds ==
  /\ mode # "upload" ~> spc \in Ended
  /\ mode = "oterm" ~> rpc \in Ended

(* The comment of Send: blocks are sent again on a NAK, until every one is
   acknowledged; a transfer both ends report as done is complete. *)
SuccessMeansWhole == spc = "done" /\ rpc = "done" => Len(got) = N

(* The comment of touch: the idle deadline is pushed back before every I/O;
   a transfer that is going on is not cut. *)
ActiveNotCut == talked => spc # "cut" /\ rpc # "cut"
=============================================================================
