---------------------------- MODULE MCBitReader ----------------------------
(* BitReader with the small words and buffers that BitReader.cfg gives it.  *)
EXTENDS BitReader
=============================================================================
