----------------------------- MODULE ConvShape -----------------------------
(***************************************************************************)
(* The geometry of a Conv2D contract: what remains of a Conv2DContract once *)
(* groups = 1, dilation = (1, 1), the layouts and the dtypes are checked,   *)
(* and the two ways this repository computes the output extents from it.    *)
(*                                                                          *)
(* Python (contracts.py, output_shape) divides with //, which rounds down.  *)
(* C++ (ocf_contract_check.cpp and the MLIR verifier in ConvOps.cpp)        *)
(* divides with /, which rounds toward zero.                                *)
(***************************************************************************)
EXTENDS Integers

F32Bytes == 4

(***************************************************************************)
(* Integer division that rounds toward zero, for a positive divisor: int64  *)
(* division in C++.  (\div of TLA+ rounds down, like Python's //.)          *)
(***************************************************************************)
TruncDiv(a, b) == IF a >= 0 THEN a \div b ELSE -((-a) \div b)

EffectiveKernel(k, dilation) == dilation * (k - 1) + 1

(* Mutant of FloorExtent: the division rounds toward zero. *)
FloorExtent_Truncating(size, before, after, k, stride, dilation) ==
    TruncDiv(size + before + after - EffectiveKernel(k, dilation), stride) + 1

(* One output extent as Conv2DContract.output_shape computes it. *)
FloorExtent(size, before, after, k, stride, dilation) ==
    (size + before + after - EffectiveKernel(k, dilation)) \div stride + 1

(* One output extent as the two C++ verifiers compute it. *)
TruncExtent(size, before, after, k, stride) ==
    TruncDiv(size + before + after - k, stride) + 1

(* The kernel is no larger than the padded input it slides over. *)
KernelFits(size, before, after, k) == k <= size + before + after

-----------------------------------------------------------------------------
(***************************************************************************)
(* A geometry: input N x C x H x W, filter OC x C x KH x KW, strides, and   *)
(* padding top, bottom, left and right.                                     *)
(***************************************************************************)
Positive == Nat \ {0}

Geometry == [n : Positive, c : Positive, h : Positive, w : Positive,
             oc : Positive, kh : Positive, kw : Positive,
             sh : Positive, sw : Positive,
             pt : Nat, pb : Nat, pl : Nat, pr : Nat]

OutH(g) == FloorExtent(g.h, g.pt, g.pb, g.kh, g.sh, 1)
OutW(g) == FloorExtent(g.w, g.pl, g.pr, g.kw, g.sw, 1)

(* What Conv2DContract.validate leaves: the output has a positive extent. *)
ValidGeometry(g) == g \in Geometry /\ OutH(g) > 0 /\ OutW(g) > 0

InputElements(g)  == g.n * g.c * g.h * g.w
FilterElements(g) == g.oc * g.c * g.kh * g.kw
OutputElements(g) == g.n * g.oc * OutH(g) * OutW(g)

(* Conv2DContract.work_summary *)
Flops(g) == 2 * (OutputElements(g) * g.c * g.kh * g.kw)
LogicalBytes(g) == [input  |-> InputElements(g) * F32Bytes,
                    filter |-> FilterElements(g) * F32Bytes,
                    output |-> OutputElements(g) * F32Bytes]
=============================================================================
