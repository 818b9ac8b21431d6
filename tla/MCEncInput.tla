---------------------------- MODULE MCEncInput -----------------------------
(***************************************************************************)
(* AAC-LC, the core delay of which is longer than a frame and no multiple  *)
(* of it, so that metadata is delayed by a frame and audio by a sample, and *)
(* ELD, which has no metadata, with a long and a short frame.              *)
(***************************************************************************)
EXTENDS EncInput

CodecNames == {"LC", "ELD"}
FrameLengths == {2, 4}
CodecFrames == [c \in CodecNames |-> IF c = "LC" THEN {2} ELSE FrameLengths]
Delays == [p \in CodecNames \X FrameLengths |-> IF p[1] = "LC" THEN 3 ELSE p[2] \div 2]
=============================================================================
