-------------------------- MODULE AtomicFile_proofs --------------------------
(***************************************************************************)
(* Whatever the number of writers and of versions, whichever calls fail    *)
(* and whenever processes or the machine stop, the target is never         *)
(* partial and behaves as a register.                                      *)
(***************************************************************************)
EXTENDS AtomicFile, TLAPS

(* Only whole, synced files are renamed, so that the target is one, and so
   is whatever the disk directory names; what either holds was seen before. *)
FileIInv ==
  /\ TypeOK
  /\ Whole(target) /\ Whole(onDisk)
  /\ \A w \in Writers :
       /\ pc[w] # "idle" /\ pc[w] # "remove" => tmp[w] \in File
       /\ pc[w] \in {"sync", "close", "rename"} => tmp[w].written = "all"
       /\ pc[w] \in {"close", "rename"} => tmp[w].synced
       /\ pc[w] = "idle" => tmp[w] = NoFile
  /\ Content(target) \in past /\ Content(onDisk) \in past

LEMMA InitIInv == Init => FileIInv
<1> SUFFICES ASSUME Init PROVE FileIInv
  OBVIOUS
<1>1. target = NoFile \/ (target \in File /\ target.written = "all" /\ target.synced)
  BY DEF Init, Maybe
<1>2. Whole(target) /\ Content(target) \in Versions \cup {Absent}
  BY <1>1 DEF Whole, Content, File
<1>3. QED
  BY <1>1, <1>2, AtomicFileAssumption DEF Init, FileIInv, TypeOK, Maybe

(* The extent and the synchronisation of a file can be changed. *)
LEMMA FileUpdate ==
  ASSUME NEW f \in File
  PROVE  /\ \A e \in Extents :
              /\ [f EXCEPT !.written = e] \in File
              /\ [f EXCEPT !.written = e].written = e
         /\ [f EXCEPT !.synced = TRUE] \in File
         /\ [f EXCEPT !.synced = TRUE].synced = TRUE
         /\ [f EXCEPT !.synced = TRUE].written = f.written
  BY DEF File

(* What a step of one writer does before the rename touches only its
   temporary file. *)
LEMMA WriterStep ==
  ASSUME FileIInv, NEW w \in Writers, Write(w) \/ ProcessCrash(w)
  PROVE  FileIInv'
<1> USE AtomicFileAssumption DEF FileIInv, TypeOK, Maybe, At, Goto
<1>1. ASSUME NEW v \in Versions, CreateTemp(w, v)
      PROVE  FileIInv'
  <2>1. [data |-> v, written |-> "none", synced |-> FALSE] \in File
    BY DEF File, Extents
  <2>2. QED
    BY <1>1, <2>1 DEF CreateTemp, Whole
<1>2. CASE WriteData(w)
  <2>1. PICK e \in Extents, step \in {"sync", "remove"} :
          /\ pc' = [pc EXCEPT ![w] = step] /\ tmp' = [tmp EXCEPT ![w].written = e]
          /\ step = "sync" => e = "all"
    BY <1>2 DEF WriteData, Extents
  <2>2. tmp[w] \in File
    BY <1>2 DEF WriteData
  <2>3. /\ tmp' = [tmp EXCEPT ![w] = [tmp[w] EXCEPT !.written = e]]
        /\ [tmp[w] EXCEPT !.written = e] \in File /\ [tmp[w] EXCEPT !.written = e].written = e
    BY ZenonT(40), <2>1, <2>2, FileUpdate
  <2>4. QED
    BY <1>2, <2>1, <2>3 DEF WriteData, Whole
<1>3. CASE Sync(w)
  <2>1. tmp[w] \in File /\ tmp[w].written = "all"
    BY <1>3 DEF Sync
  <2>2. CASE pc' = [pc EXCEPT ![w] = "close"] /\ tmp' = [tmp EXCEPT ![w].synced = TRUE]
    <3>1. /\ tmp' = [tmp EXCEPT ![w] = [tmp[w] EXCEPT !.synced = TRUE]]
          /\ [tmp[w] EXCEPT !.synced = TRUE] \in File
          /\ [tmp[w] EXCEPT !.synced = TRUE].synced = TRUE
          /\ [tmp[w] EXCEPT !.synced = TRUE].written = "all"
      BY <2>1, <2>2, FileUpdate
    <3>2. QED
      BY ZenonT(40), <1>3, <2>2, <3>1 DEF Sync, Whole
  <2>3. CASE pc' = [pc EXCEPT ![w] = "remove"] /\ tmp' = tmp
    BY <1>3, <2>3 DEF Sync, Whole
  <2>4. QED
    BY <1>3, <2>2, <2>3 DEF Sync
<1>4. CASE CloseTemp(w)
  BY <1>4 DEF CloseTemp, Whole
<1>5. CASE Rename(w)
  <2>1. tmp[w] \in File /\ tmp[w].written = "all" /\ tmp[w].synced
    BY <1>5 DEF Rename
  <2>2. Content(tmp[w]) \in Versions
    BY <2>1 DEF Content, File
  <2>3. QED
    BY <1>5, <2>1, <2>2 DEF Rename, Whole
<1>6. CASE RemoveTemp(w)
  BY <1>6 DEF RemoveTemp, Whole
<1>7. CASE ProcessCrash(w)
  BY <1>7 DEF ProcessCrash, Whole
<1>8. QED
  BY <1>1, <1>2, <1>3, <1>4, <1>5, <1>6, <1>7 DEF Write

(* A power cut brings back what the disk names, which is whole. *)
LEMMA PowerLossStep == ASSUME FileIInv, PowerLoss PROVE FileIInv' /\ target' = onDisk
<1>1. target' = onDisk
  BY DEF PowerLoss, Remains, FileIInv, Whole
<1>2. FileIInv'
  BY <1>1 DEF PowerLoss, FileIInv, TypeOK, Maybe, Whole, Content
<1>3. QED
  BY <1>1, <1>2

LEMMA Inductive == FileIInv /\ [Next]_vars => FileIInv'
<1> SUFFICES ASSUME FileIInv, [Next]_vars PROVE FileIInv'
  OBVIOUS
<1>1. CASE \E w \in Writers : Write(w) \/ ProcessCrash(w)
  BY <1>1, WriterStep
<1>2. CASE FlushDirectory
  BY <1>2 DEF FlushDirectory, FileIInv, TypeOK, Whole, Content
<1>3. CASE PowerLoss
  BY <1>3, PowerLossStep
<1>4. CASE UNCHANGED vars
  BY <1>4 DEF vars, FileIInv, TypeOK, Whole, Content
<1>5. QED
  BY <1>1, <1>2, <1>3, <1>4 DEF Next

LEMMA InvariantHolds == Spec => []FileIInv
<1>1. QED
  BY InitIInv, Inductive, PTL DEF Spec

(* No reader ever gets a partial file: for any number of writers, failures
   and power cuts. *)
THEOREM AtomicWrites == Spec => []NeverPartial
<1>1. FileIInv => NeverPartial
  BY DEF FileIInv, NeverPartial, Whole
<1>2. QED
  BY <1>1, InvariantHolds, PTL

(* No Write that returns leaves its temporary file, whichever of its calls
   failed. *)
THEOREM WritesCleanUp == Spec => []NoResidue
<1>1. FileIInv => NoResidue
  BY DEF FileIInv, NoResidue, At
<1>2. QED
  BY <1>1, InvariantHolds, PTL

(* The temporary file, sync and rename implement a register. *)
THEOREM AtomicFileImplementsRegister == Spec => ImplementsRegister
<1>1. Init => R!RInit
  BY InitIInv DEF Init, FileIInv, R!RInit, Content, Maybe, File
<1>2. ASSUME FileIInv, [Next]_vars
      PROVE  [R!RNext]_<<Content(target), past>>
  <2>1. ASSUME NEW w \in Writers, Rename(w)
        PROVE  R!RNext \/ UNCHANGED <<target, past>>
    <3>1. tmp[w] \in File
      BY <1>2, <2>1 DEF Rename, FileIInv, At
    <3>2. Content(tmp[w]) \in Versions
      BY <3>1, AtomicFileAssumption DEF Content, File
    <3>3. CASE target' = tmp[w] /\ past' = past \cup {Content(target')}
      <4>1. Content(target)' = Content(tmp[w])
        BY <3>3 DEF Content
      <4>2. QED
        BY <3>2, <3>3, <4>1 DEF R!RNext, R!Replace
    <3>4. QED
      BY <2>1, <3>3 DEF Rename
  <2>2. CASE PowerLoss
    <3>1. target' = onDisk /\ past' = past
      BY <1>2, <2>2, PowerLossStep DEF PowerLoss
    <3>2. Content(target)' \in past
      BY <1>2, <3>1 DEF FileIInv, Content
    <3>3. QED
      BY <3>1, <3>2 DEF R!RNext, R!PowerCut
  <2>3. ASSUME NEW w \in Writers, ~ Rename(w), Write(w) \/ ProcessCrash(w)
        PROVE  UNCHANGED <<target, past>>
    BY <2>3 DEF Write, CreateTemp, WriteData, Sync, CloseTemp, RemoveTemp, ProcessCrash
  <2>4. CASE FlushDirectory \/ UNCHANGED vars
    BY <2>4 DEF FlushDirectory, vars
  <2>5. UNCHANGED <<target, past>> => UNCHANGED <<Content(target), past>>
    BY DEF Content
  <2>6. QED
    BY <1>2, <2>1, <2>2, <2>3, <2>4, <2>5 DEF Next, Write
<1>3. QED
  BY <1>1, <1>2, InvariantHolds, PTL DEF Spec, ImplementsRegister, R!RSpec
=============================================================================
