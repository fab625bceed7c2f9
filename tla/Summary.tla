------------------------------ MODULE Summary ------------------------------
(***************************************************************************)
(* The statistics of a measurement's samples, as Measurement.summary        *)
(* (evidence.py) computes them and as validateMeasurement                   *)
(* (ocf_contract_check.cpp) recomputes them: sort, then pick by index.      *)
(*                                                                          *)
(* Samples are integers here, and the median is doubled so that it is one   *)
(* too; both languages halve the sum of the two middle samples in double.   *)
(***************************************************************************)
EXTENDS Integers, Sequences, FiniteSets

(* sorted, which is stable: sample i goes behind the smaller ones and behind *)
(* the equal ones before it.                                                 *)
Place(samples, i) ==
    Cardinality({j \in DOMAIN samples : samples[j] < samples[i] \/ (samples[j] = samples[i] /\ j <= i)})

Ordered(samples) ==
    [k \in 1 .. Len(samples) |-> samples[CHOOSE i \in DOMAIN samples : Place(samples, i) = k]]

(* ordered[index], counted from 0 *)
At(ordered, index) == ordered[index + 1]

(* ceil(0.9 * n).  In doubles 0.9 * n is exact where the product is an integer. *)
NineTenths(n) == (9 * n + 9) \div 10

AtLeast(bound, x) == IF x >= bound THEN x ELSE bound

(* statistics.median *)
PyTwiceMedian(ordered) ==
    LET half == Len(ordered) \div 2
    IN  IF Len(ordered) % 2 = 1 THEN 2 * At(ordered, half) ELSE At(ordered, half - 1) + At(ordered, half)

(* Mutant of PySummary: the p90 index rounds down. *)
PySummary_P90Low(samples) ==
    LET ordered == Ordered(samples)
    IN  [min          |-> At(ordered, 0),
         twice_median |-> PyTwiceMedian(ordered),
         p90          |-> At(ordered, AtLeast(0, (9 * Len(ordered)) \div 10 - 1)),
         max          |-> At(ordered, Len(ordered) - 1)]

PySummary(samples) ==
    LET ordered == Ordered(samples)
    IN  [min          |-> At(ordered, 0),
         twice_median |-> PyTwiceMedian(ordered),
         p90          |-> At(ordered, AtLeast(0, NineTenths(Len(ordered)) - 1)),
         max          |-> At(ordered, Len(ordered) - 1)]

(* Mutant of CppTwiceMedian: the upper of the two middle samples. *)
CppTwiceMedian_Upper(ordered) == 2 * At(ordered, Len(ordered) \div 2)

CppTwiceMedian(ordered) ==
    IF Len(ordered) % 2 = 0
    THEN At(ordered, Len(ordered) \div 2 - 1) + At(ordered, Len(ordered) \div 2)
    ELSE 2 * At(ordered, Len(ordered) \div 2)

CppSummary(samples) ==
    LET ordered == Ordered(samples)
    IN  [min          |-> At(ordered, 0),
         twice_median |-> CppTwiceMedian(ordered),
         p90          |-> At(ordered, AtLeast(1, NineTenths(Len(ordered))) - 1),
         max          |-> At(ordered, Len(ordered) - 1)]
=============================================================================
