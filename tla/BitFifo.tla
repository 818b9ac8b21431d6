------------------------------ MODULE BitFifo ------------------------------
(***************************************************************************)
(* What a reading FDK_BITSTREAM promises, without buffer, cache or         *)
(* offsets: a stream of bits numbered 0, 1, 2, ... of which fed bits have  *)
(* arrived, and a position pos in it.  A read delivers the bits at the     *)
(* position, in order; at most Capacity bits that have arrived can be      *)
(* waiting, and as far back as they reach the position can be moved.       *)
(***************************************************************************)
EXTENDS Integers, Sequences

CONSTANTS ByteBits, Capacity

VARIABLES
  fed, pos,
  call,        \* the last call: its kind and its argument
  out          \* the bits it returned

vars == <<fed, pos, call, out>>

Unread == fed - pos

(* The bits from..from+n-1 of the stream; a bit that has not arrived may    *)
(* read as anything.                                                        *)
Delivers(bits, from) ==
  \A i \in 1 .. Len(bits) : from + i - 1 < fed => bits[i] = from + i - 1

Room ==                \* whole bytes that still fit
  (IF Unread <= 0 THEN Capacity ELSE Capacity - Unread) \div ByteBits

Init == /\ fed \in 0 .. Capacity
        /\ pos = 0
        /\ call = <<"init", fed>>
        /\ out = <<>>

Restart == /\ call'[1] = "init"
           /\ fed' = call'[2]
           /\ pos' = 0
           /\ out' = <<>>

(* All the offered bytes arrive, or as many as there is room for.           *)
Feed == /\ call'[1] = "feed"
        /\ fed' = fed + ByteBits * (IF call'[2] <= Room THEN call'[2] ELSE Room)
        /\ out' = <<>>
        /\ UNCHANGED pos

Read == /\ call'[1] = "read"
        /\ Len(out') = call'[2]
        /\ Delivers(out', pos)
        /\ pos' = pos + Len(out')
        /\ UNCHANGED fed

Move == /\ call'[1] = "move"
        /\ pos' = pos + call'[2]
        /\ out' = <<>>
        /\ UNCHANGED fed

Align == /\ call'[1] = "align"
         /\ pos' \in pos .. pos + ByteBits - 1
         /\ out' = <<>>
         /\ UNCHANGED fed

(* What a caller may ask at any time without changing anything.             *)
Sync == /\ call'[1] = "sync"
        /\ out' = <<>>
        /\ UNCHANGED <<fed, pos>>

Next == Restart \/ Feed \/ Read \/ Move \/ Align \/ Sync
Spec == Init /\ [][Next]_vars
=============================================================================
