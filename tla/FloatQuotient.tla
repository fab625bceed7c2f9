--------------------------- MODULE FloatQuotient ---------------------------
(***************************************************************************)
(* math.ceil(a / b) of positive integers in Python: the quotient is the     *)
(* float nearest to the exact one, and only then rounded up.  A float has   *)
(* Precision significant bits, 53 in the code.                              *)
(***************************************************************************)
EXTENDS Integers

CONSTANT Precision    \* the significant bits of a float

ASSUME PrecisionAssumption == Precision \in Nat \ {0}

(* The quotient rounded up, without a float in between *)
CeilDiv(a, b) == (a + b - 1) \div b

(* a / b to the nearest integer, halves to the even one *)
Nearest(a, b) ==
    LET q == a \div b
        r == a % b
    IN  IF 2 * r > b \/ (2 * r = b /\ q % 2 = 1) THEN q + 1 ELSE q

(* The powers of two *)
Power2[i \in Nat] == IF i = 0 THEN 1 ELSE 2 * Power2[i - 1]

(* The scaling by up / down, powers of two, after which a / b has a          *)
(* significand of so many bits before the point                              *)
IsScaling(s, a, b, bits) ==
    /\ Power2[bits - 1] * b * s.down <= a * s.up
    /\ a * s.up < Power2[bits] * b * s.down

(* The scalings to choose from: enough of them for every a / b below         *)
(* 2^(2 * Precision)                                                         *)
Scalings(b) ==
    LET powers == {Power2[i] : i \in 0 .. Precision + b}
    IN  [up : powers, down : {1}] \union [up : {1}, down : powers]

(* Mutant of CeilQuotient: the quotient is cut, and one added. *)
CeilQuotient_CutPlusOne(a, b) ==
    LET s == CHOOSE s \in Scalings(b) : IsScaling(s, a, b, Precision)
    IN  (Nearest(a * s.up, b * s.down) * s.down) \div s.up + 1

(* math.ceil(a / b) *)
CeilQuotient(a, b) ==
    LET s == CHOOSE s \in Scalings(b) : IsScaling(s, a, b, Precision)
    IN  CeilDiv(Nearest(a * s.up, b * s.down) * s.down, s.up)
=============================================================================
