----------------------------- MODULE DirectConv -----------------------------
(***************************************************************************)
(* direct_conv2d (reference.py): the loop nest over flat buffers.           *)
(*                                                                          *)
(* One step per iteration of the innermost loop (Accumulate), one per       *)
(* assignment to the output (Store), and one each for the length checks and *)
(* the return.  The seven loop variables are the records cell (batch,       *)
(* out_channel, out_row, out_col) and tap (channel, kernel_row,             *)
(* kernel_col); a loop is exhausted when its outermost variable reaches its *)
(* bound.                                                                   *)
(*                                                                          *)
(* The values of a buffer are the coordinates of its elements: the caller   *)
(* passes the input in NCHW order and the filter in OIHW order, so the      *)
(* element at a flat index says which element the code really reads.  An    *)
(* f32 sum is the list of the products it folds over (see ConvSpec).        *)
(***************************************************************************)
EXTENDS ConvShape, Sequences

CONSTANTS
    Contracts,    \* the geometries direct_conv2d is called with
    LengthErrors, \* by how many values a caller's buffer may be off
    Zero          \* an input element outside the image: to_f32(0.0)

ASSUME ContractsAssumption == \A g \in Contracts : ValidGeometry(g)
ASSUME LengthErrorsAssumption == LengthErrors \subseteq Int /\ 0 \in LengthErrors

VARIABLES
    contract,     \* the geometry of the contract argument
    inputLen,     \* len(input_values)
    filterLen,    \* len(filter_values)
    pc,           \* "called", "running", "returned" or "raised"
    cell,         \* batch, out_channel, out_row, out_col
    tap,          \* channel, kernel_row, kernel_col
    accumulator,  \* the products accumulated for the current cell
    output        \* the output list, indexed from 0

vars == <<contract, inputLen, filterLen, pc, cell, tap, accumulator, output>>

-----------------------------------------------------------------------------
(* Flat indices *)

InputIndex(g, batch, channel, row, col) == ((batch * g.c + channel) * g.h + row) * g.w + col

(* Mutant of FilterIndex: the filter is flipped, a convolution in the strict sense. *)
FilterIndex_Flipped(g, outChannel, channel, row, col) ==
    ((outChannel * g.c + channel) * g.kh + (g.kh - 1 - row)) * g.kw + (g.kw - 1 - col)

FilterIndex(g, outChannel, channel, row, col) ==
    ((outChannel * g.c + channel) * g.kh + row) * g.kw + col

(* Mutants of OutputIndex: rows and columns exchanged; the batch forgotten. *)
OutputIndex_ColumnMajor(g, c) == ((c.n * g.oc + c.oc) * OutW(g) + c.ow) * OutH(g) + c.oh

OutputIndex_NoBatch(g, c) == (c.oc * OutH(g) + c.oh) * OutW(g) + c.ow

OutputIndex(g, c) == ((c.n * g.oc + c.oc) * OutH(g) + c.oh) * OutW(g) + c.ow

(* What the caller put at a flat index: NCHW and OIHW order *)
InputValue(g, i) == <<i \div (g.c * g.h * g.w), (i \div (g.h * g.w)) % g.c,
                      (i \div g.w) % g.h, i % g.w>>

FilterValue(g, i) == <<i \div (g.c * g.kh * g.kw), (i \div (g.kh * g.kw)) % g.c,
                       (i \div g.kw) % g.kh, i % g.kw>>

-----------------------------------------------------------------------------
(* The loops *)

FirstCell == [n |-> 0, oc |-> 0, oh |-> 0, ow |-> 0]
FirstTap  == [ic |-> 0, kh |-> 0, kw |-> 0]

(* Mutant of NextCell: one row too many. *)
NextCell_ExtraRow(g, c) ==
    IF c.ow + 1 < OutW(g) THEN [n |-> c.n, oc |-> c.oc, oh |-> c.oh, ow |-> c.ow + 1]
    ELSE IF c.oh + 1 <= OutH(g) THEN [n |-> c.n, oc |-> c.oc, oh |-> c.oh + 1, ow |-> 0]
    ELSE IF c.oc + 1 < g.oc THEN [n |-> c.n, oc |-> c.oc + 1, oh |-> 0, ow |-> 0]
    ELSE [n |-> c.n + 1, oc |-> 0, oh |-> 0, ow |-> 0]

NextCell(g, c) ==
    IF c.ow + 1 < OutW(g) THEN [n |-> c.n, oc |-> c.oc, oh |-> c.oh, ow |-> c.ow + 1]
    ELSE IF c.oh + 1 < OutH(g) THEN [n |-> c.n, oc |-> c.oc, oh |-> c.oh + 1, ow |-> 0]
    ELSE IF c.oc + 1 < g.oc THEN [n |-> c.n, oc |-> c.oc + 1, oh |-> 0, ow |-> 0]
    ELSE [n |-> c.n + 1, oc |-> 0, oh |-> 0, ow |-> 0]

NextTap(g, t) ==
    IF t.kw + 1 < g.kw THEN [ic |-> t.ic, kh |-> t.kh, kw |-> t.kw + 1]
    ELSE IF t.kh + 1 < g.kh THEN [ic |-> t.ic, kh |-> t.kh + 1, kw |-> 0]
    ELSE [ic |-> t.ic + 1, kh |-> 0, kw |-> 0]

InputRow(g, c, t) == c.oh * g.sh + t.kh - g.pt
InputCol(g, c, t) == c.ow * g.sw + t.kw - g.pl

(* Mutant of InImage: only the far edges are tested. *)
InImage_NoLowerBound(g, c, t) == InputRow(g, c, t) < g.h /\ InputCol(g, c, t) < g.w

InImage(g, c, t) ==
    /\ 0 <= InputRow(g, c, t) /\ InputRow(g, c, t) < g.h
    /\ 0 <= InputCol(g, c, t) /\ InputCol(g, c, t) < g.w

InputAt(g, c, t)  == InputIndex(g, c.n, t.ic, InputRow(g, c, t), InputCol(g, c, t))
FilterAt(g, c, t) == FilterIndex(g, c.oc, t.ic, t.kh, t.kw)

Term(g, c, t) ==
    <<IF InImage(g, c, t) THEN InputValue(g, InputAt(g, c, t)) ELSE Zero,
      FilterValue(g, FilterAt(g, c, t))>>

CellsLeft == cell.n < contract.n
TapsLeft  == tap.ic < contract.c

-----------------------------------------------------------------------------
LengthsMatch == inputLen = InputElements(contract) /\ filterLen = FilterElements(contract)

Init ==
    /\ contract \in Contracts
    /\ \E e, f \in LengthErrors : /\ inputLen = InputElements(contract) + e
                                  /\ filterLen = FilterElements(contract) + f
    /\ pc = "called"
    /\ cell = FirstCell /\ tap = FirstTap
    /\ accumulator = <<>>
    /\ output = [i \in 0 .. OutputElements(contract) - 1 |-> <<>>]

(* A buffer of the wrong length: ContractError *)
Raise ==
    /\ pc = "called" /\ ~LengthsMatch
    /\ pc' = "raised"
    /\ UNCHANGED <<contract, inputLen, filterLen, cell, tap, accumulator, output>>

Start ==
    /\ pc = "called" /\ LengthsMatch
    /\ pc' = "running"
    /\ UNCHANGED <<contract, inputLen, filterLen, cell, tap, accumulator, output>>

(* One pass through the innermost loop body *)
Accumulate ==
    /\ pc = "running" /\ CellsLeft /\ TapsLeft
    /\ accumulator' = Append(accumulator, Term(contract, cell, tap))
    /\ tap' = NextTap(contract, tap)
    /\ UNCHANGED <<contract, inputLen, filterLen, pc, cell, output>>

(* The reduction loops are done: assign the cell, go on to the next one. *)
Store ==
    /\ pc = "running" /\ CellsLeft /\ ~TapsLeft
    /\ output' = [output EXCEPT ![OutputIndex(contract, cell)] = accumulator]
    /\ cell' = NextCell(contract, cell)
    /\ tap' = FirstTap
    /\ accumulator' = <<>>
    /\ UNCHANGED <<contract, inputLen, filterLen, pc>>

Return ==
    /\ pc = "running" /\ ~CellsLeft
    /\ pc' = "returned"
    /\ UNCHANGED <<contract, inputLen, filterLen, cell, tap, accumulator, output>>

Next == Raise \/ Start \/ Accumulate \/ Store \/ Return

Spec == Init /\ [][Next]_vars

-----------------------------------------------------------------------------
(* Properties *)

OutputCells(g) == [n : 0 .. g.n - 1, oc : 0 .. g.oc - 1, oh : 0 .. OutH(g) - 1, ow : 0 .. OutW(g) - 1]

CellType(g) == [n : 0 .. g.n, oc : 0 .. g.oc - 1, oh : 0 .. OutH(g) - 1, ow : 0 .. OutW(g) - 1]

TapType(g) == [ic : 0 .. g.c, kh : 0 .. g.kh - 1, kw : 0 .. g.kw - 1]

Coordinates == Int \X Int \X Int \X Int

Products == ({Zero} \union Coordinates) \X Coordinates

(* Every loop variable stays in its range, one past the end only for the     *)
(* outermost of each nest.                                                   *)
TypeOK ==
    /\ contract \in Contracts
    /\ inputLen \in Int /\ filterLen \in Int
    /\ pc \in {"called", "running", "returned", "raised"}
    /\ cell \in CellType(contract)
    /\ tap \in TapType(contract)
    /\ accumulator \in Seq(Products)
    /\ DOMAIN output = 0 .. OutputElements(contract) - 1

(* No access misses its buffer.  Python would not raise for a negative index *)
(* but read from the end of the list (reference.py 37-44, 56-62): only the   *)
(* index arithmetic stands between a padded window and a wrong value.        *)
AccessesInBounds ==
    (pc = "running" /\ CellsLeft) =>
        /\ TapsLeft => /\ InImage(contract, cell, tap) =>
                            InputAt(contract, cell, tap) \in 0 .. inputLen - 1
                       /\ FilterAt(contract, cell, tap) \in 0 .. filterLen - 1
        /\ OutputIndex(contract, cell) \in DOMAIN output

(* The output fills in row-major order: what lies before the current cell is *)
(* computed, what lies after it is untouched, although the loop variables    *)
(* and the flat index are computed apart (reference.py 43-50, 62).  Once the *)
(* loops are exhausted the current index is the length of the output.        *)
OutputFillsInOrder ==
    \A i \in DOMAIN output : (output[i] # <<>>) <=> (i < OutputIndex(contract, cell))

(* A cell once assigned is never assigned again: no two iterations of the    *)
(* four outer loops share an output index (reference.py 43-50, 62).          *)
NeverReassigned == [][\A i \in DOMAIN output : output[i] # <<>> => output'[i] = output[i]]_vars

(* The loop nest over flat buffers computes the cross-correlation of ConvSpec. *)
Convolution ==
    INSTANCE ConvSpec WITH
        accepted <- LengthsMatch,
        status   <- IF pc = "running" THEN "called" ELSE pc,
        Y        <- [c \in OutputCells(contract) |-> output[OutputIndex(contract, c)]]

(* direct_conv2d refuses exactly the calls whose buffers do not fit, and     *)
(* returns the ordered cross-correlation with zero padding for all others    *)
(* (reference.py 16-63).                                                     *)
ImplementsConvolution == Convolution!SafeSpec
=============================================================================
