-------------------------- MODULE MCCanonicalJson --------------------------
(***************************************************************************)
(* Values for TLC: numbers on both sides of every change of notation, the   *)
(* characters each escape rule is about, keys that UTF-16 would sort the    *)
(* other way, and nested arrays and objects.                                *)
(***************************************************************************)
EXTENDS CanonicalJson

NumberValue(float, negative, digits, exponent) ==
    [kind |-> "number", float |-> float, negative |-> negative, digits |-> digits, exponent |-> exponent]
BoolValue(b)   == [kind |-> "bool", truth |-> b]
StringValue(s) == [kind |-> "string", chars |-> s]
ArrayValue(s)  == [kind |-> "array", items |-> s]

Float(digits, exponent) == NumberValue(TRUE, FALSE, digits, exponent)

(* 0 and -0.0, 2 and 2.0, -2.5 and 25, 1.25e-5 and 1.25e-4, 123456.5, 10^16 *)
Numbers ==
    {NumberValue(FALSE, FALSE, <<>>, 0), NumberValue(TRUE, TRUE, <<>>, 0),
     NumberValue(FALSE, FALSE, <<2>>, 0), Float(<<2>>, 0),
     NumberValue(TRUE, TRUE, <<2, 5>>, 0), NumberValue(FALSE, FALSE, <<2, 5>>, 1),
     Float(<<1, 2, 5>>, -5), Float(<<1, 2, 5>>, -4), Float(<<1, 2, 3, 4, 5, 6, 5>>, 5),
     Float(<<1>>, 16)}

(* "2", escapes of each kind, U+00E9 and U+1F600, and "\u00e9" spelled out *)
StringValues == {StringValue(s) : s \in {<<50>>, <<34, 92, 10, 31>>, <<233, 128512>>, <<92, 117, 48, 48, 101, 57>>}}

(* U+FF5E sorts before U+1F600, whose first UTF-16 unit is below it. *)
MCKeys == {<<65374>>, <<128512>>}

NonFinite == [kind |-> "nonfinite"]

Nested ==
    {ArrayValue(<<BoolValue(FALSE), Float(<<2>>, 0)>>), ArrayValue(<<NonFinite>>),
     ObjectValue([k \in MCKeys \union {<<97>>} |-> [kind |-> "null"]])}

MCValues == Numbers \union StringValues \union Nested \union {BoolValue(FALSE), [kind |-> "null"], NonFinite}

(* The values that the theorems on the readers are about *)
ASSUME CommonAssumption == (\A key \in MCKeys : CommonString(key)) /\ \A v \in MCValues : CommonValue(v)

(* 1234567.5 *)
FractionalMillions == {Float(<<1, 2, 3, 4, 5, 6, 7, 5>>, 6)} \union Numbers

MCDepth == [v \in MCValues |-> IF v \in Nested THEN 1 ELSE 0]
MillionsDepth == [v \in FractionalMillions |-> 0]
=============================================================================
