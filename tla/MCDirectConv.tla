---------------------------- MODULE MCDirectConv ----------------------------
(***************************************************************************)
(* Small convolutions for TLC: each of the features (batches, channels,     *)
(* stride, one-sided padding, a kernel as large as the padded input) occurs *)
(* with the others, and the work of a call is bounded.                      *)
(***************************************************************************)
EXTENDS DirectConv

CONSTANT MaxWork   \* bound on the multiply-accumulates of one call

Geometries ==
    [n : 1 .. 2, c : 1 .. 2, h : 1 .. 3, w : {2}, oc : 1 .. 2, kh : 1 .. 3, kw : 1 .. 2,
     sh : 1 .. 2, sw : {1}, pt : 0 .. 1, pb : 0 .. 1, pl : 0 .. 1, pr : {0}]
    \union
    [n : {1}, c : 1 .. 2, h : {2}, w : 2 .. 4, oc : 1 .. 2, kh : {1}, kw : 1 .. 3,
     sh : {1}, sw : 1 .. 3, pt : {0}, pb : {1}, pl : {0}, pr : 0 .. 2]

MCLengthErrors == {-1, 0, 1}

MCContracts ==
    {g \in Geometries : OutH(g) > 0 /\ OutW(g) > 0 /\ OutputElements(g) * g.c * g.kh * g.kw <= MaxWork}
=============================================================================
