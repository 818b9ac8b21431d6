----------------------------- MODULE ModuloFacts -----------------------------
(***************************************************************************)
(* Arithmetic modulo a positive number: the positions in the ring of the   *)
(* bit buffer and the times of samples that the encoder counts.            *)
(***************************************************************************)
EXTENDS Integers, TLAPS

(* A value taken modulo m is one of 0..m-1.                                 *)
LEMMA ModRange == ASSUME NEW m \in Nat \ {0}, NEW x \in Int
                  PROVE  x % m \in 0 .. m - 1
  OBVIOUS

(* Quotient and remainder.                                                  *)
LEMMA ModQuotient == ASSUME NEW m \in Nat \ {0}, NEW x \in Int
                     PROVE  \E q \in Int : x = q * m + (x % m)
<1>1. x = (x \div m) * m + (x % m)
  OBVIOUS
<1>2. x \div m \in Int
  OBVIOUS
<1> QED BY <1>1, <1>2

(* The remainder is the only one.                                           *)
LEMMA ModUnique == ASSUME NEW m \in Nat \ {0}, NEW q \in Int,
                          NEW r \in 0 .. m - 1
                   PROVE  (q * m + r) % m = r
  OBVIOUS

(* A multiple of m can be added.                                            *)
LEMMA ModShift == ASSUME NEW m \in Nat \ {0}, NEW x \in Int, NEW k \in Int
                  PROVE  (x + k * m) % m = x % m
<1>1. PICK q \in Int : x = q * m + (x % m)
  BY ModQuotient
<1> DEFINE j == q + k
<1>2. j \in Int /\ x + k * m = j * m + (x % m)
  BY <1>1
<1>3. x % m \in 0 .. m - 1
  BY ModRange
<1> HIDE DEF j
<1>4. (j * m + (x % m)) % m = x % m
  BY <1>2, <1>3, ModUnique
<1> QED BY <1>2, <1>4

LEMMA ModOnce == ASSUME NEW m \in Nat \ {0}, NEW x \in Int
                 PROVE  (x + m) % m = x % m
<1> DEFINE one == 1
<1>1. one \in Int /\ x + m = x + one * m
  OBVIOUS
<1> HIDE DEF one
<1>2. (x + one * m) % m = x % m
  BY <1>1, ModShift
<1> QED BY <1>1, <1>2

(* A remainder can be taken first.                                          *)
LEMMA ModPlus == ASSUME NEW m \in Nat \ {0}, NEW x \in Int, NEW y \in Int
                 PROVE  ((x % m) + y) % m = (x + y) % m
<1>1. PICK q \in Int : x = q * m + (x % m)
  BY ModQuotient
<1> DEFINE z == (x % m) + y
<1>2. z \in Int /\ x + y = z + q * m
  BY <1>1, ModRange
<1> HIDE DEF z
<1>3. (z + q * m) % m = z % m
  BY <1>2, ModShift
<1> QED BY <1>2, <1>3 DEF z

(* Values that lie less than m around zero.                                 *)
LEMMA ModSmall == ASSUME NEW m \in Nat \ {0}, NEW x \in Int
                  PROVE  /\ x \in 0 .. m - 1 => x % m = x
                         /\ x \in -m .. -1 => x % m = x + m
                         /\ x \in m .. 2 * m - 1 => x % m = x - m
<1>1. ASSUME x \in 0 .. m - 1 PROVE x % m = x
  BY <1>1, ModUnique
<1>2. ASSUME x \in -m .. -1 PROVE x % m = x + m
  BY <1>2, ModShift, <1>1
<1>3. ASSUME x \in m .. 2 * m - 1 PROVE x % m = x - m
  BY <1>3, ModUnique
<1> QED BY <1>1, <1>2, <1>3
==============================================================================
