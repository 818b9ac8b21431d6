----------------------------- MODULE AuDelivery -----------------------------
(***************************************************************************)
(* What a transport decoder promises to the audio decoder: the access      *)
(* units of a stream are numbered 1 .. units; each is handed over once, in *)
(* order and without a gap, unless the input is dropped: flushed by the    *)
(* application, or read past by the parser of a damaged unit.              *)
(***************************************************************************)
EXTENDS Integers

VARIABLES
  units,       \* how many access units the stream has
  gone,        \* the units up to this one have been handed over or dropped
  drops        \* how often the input has been dropped

vars == <<units, gone, drops>>

Init == units \in Nat /\ gone = 0 /\ drops = 0

Deliver == /\ gone < units
           /\ gone' = gone + 1
           /\ UNCHANGED <<units, drops>>

Drop == /\ drops' = drops + 1
        /\ gone' \in gone .. units
        /\ UNCHANGED units

Next == Deliver \/ Drop

Safety == Init /\ [][Next]_vars

Spec == Safety /\ WF_vars(Deliver)
=============================================================================
