------------------------------ MODULE ConvSpec ------------------------------
(***************************************************************************)
(* What direct_conv2d promises, without loops, buffers or flat indices: a   *)
(* call with the wrong number of values raises; any other call returns the  *)
(* output tensor, each of whose cells is the ordered, non-fused             *)
(* cross-correlation of its window (reference.py, 16-21).  The cells may be *)
(* computed in any order.                                                   *)
(*                                                                          *)
(* f32 arithmetic is neither associative nor exact, so a value is kept as   *)
(* the list of products the rounding additions fold over, from 0.0, in      *)
(* order: <<>> is 0.0, and a product is a pair <<input element, filter      *)
(* element>>, each named by its coordinates, with Zero for padding.         *)
(***************************************************************************)
EXTENDS ConvShape, Sequences

CONSTANT Zero     \* the value of an input element outside the image

VARIABLES
    contract,     \* the geometry of the call's contract
    accepted,     \* the call's buffers have the lengths the contract implies
    status,       \* "called", "returned" or "raised"
    Y             \* Y[cell]: the value of an output cell; <<>> until computed

specVars == <<contract, accepted, status, Y>>

Cells(g) == [n : 0 .. g.n - 1, oc : 0 .. g.oc - 1, oh : 0 .. OutH(g) - 1, ow : 0 .. OutW(g) - 1]

Taps(g) == [ic : 0 .. g.c - 1, kh : 0 .. g.kh - 1, kw : 0 .. g.kw - 1]

(* The taps in the order of the reduction loops, counted from 1 *)
TapAt(g, i) == [ic |-> (i - 1) \div (g.kh * g.kw),
                kh |-> ((i - 1) \div g.kw) % g.kh,
                kw |-> (i - 1) % g.kw]

(* An element of the input padded with zeros, (row, col) counted from the   *)
(* corner of the padding *)
PaddedX(g, n, ic, row, col) ==
    IF row - g.pt \in 0 .. g.h - 1 /\ col - g.pl \in 0 .. g.w - 1
    THEN <<n, ic, row - g.pt, col - g.pl>>
    ELSE Zero

(* The product that tap t contributes to a cell *)
Product(g, cell, t) ==
    <<PaddedX(g, cell.n, t.ic, cell.oh * g.sh + t.kh, cell.ow * g.sw + t.kw),
      <<cell.oc, t.ic, t.kh, t.kw>>>>

CrossCorrelation(g, cell) ==
    [i \in 1 .. g.c * g.kh * g.kw |-> Product(g, cell, TapAt(g, i))]

-----------------------------------------------------------------------------
SpecInit ==
    /\ ValidGeometry(contract)
    /\ accepted \in BOOLEAN
    /\ status = "called"
    /\ Y = [cell \in Cells(contract) |-> <<>>]

SpecRaise ==
    /\ status = "called" /\ ~accepted
    /\ status' = "raised"
    /\ UNCHANGED <<contract, accepted, Y>>

SpecCompute ==
    /\ status = "called" /\ accepted
    /\ \E cell \in Cells(contract) :
          /\ Y[cell] = <<>>
          /\ Y' = [Y EXCEPT ![cell] = CrossCorrelation(contract, cell)]
    /\ UNCHANGED <<contract, accepted, status>>

SpecReturn ==
    /\ status = "called" /\ accepted
    /\ \A cell \in Cells(contract) : Y[cell] = CrossCorrelation(contract, cell)
    /\ status' = "returned"
    /\ UNCHANGED <<contract, accepted, Y>>

SpecNext == SpecRaise \/ SpecCompute \/ SpecReturn

SafeSpec == SpecInit /\ [][SpecNext]_specVars
=============================================================================
