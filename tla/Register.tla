------------------------------ MODULE Register ------------------------------
(***************************************************************************)
(* What the JSON stores expect of a file written atomically: readers see   *)
(* one whole version after another, and a power cut may at most bring back *)
(* a version that was there before.                                        *)
(***************************************************************************)
CONSTANTS Versions, Absent

VARIABLES
  content,    (* the version a reader of the file gets                *)
  past        (* the versions the file has held, the current included *)

RInit == content \in Versions \cup {Absent} /\ past = {content}

Replace ==
  /\ \E v \in Versions : content' = v
  /\ past' = past \cup {content'}

PowerCut == content' \in past /\ UNCHANGED past

RNext == Replace \/ PowerCut

RSpec == RInit /\ [][RNext]_<<content, past>>
=============================================================================
