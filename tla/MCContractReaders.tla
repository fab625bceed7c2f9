------------------------- MODULE MCContractReaders -------------------------
(***************************************************************************)
(* Documents for TLC: a valid contract and everything one edit away from it, *)
(* and every small geometry of one spatial axis (the other axis fixed).      *)
(***************************************************************************)
EXTENDS ContractReaders, TLC

CONSTANT MaxExtent   \* bound on input extents, kernels and strides of the sweep

Doc(inp, flt, out, str, pad) ==
    [field  |-> Literal @@ [f \in PolicyFields |-> "default"] @@ ("input_shape" :> inp) @@ ("filter_shape" :> flt)
                @@ ("output_shape" :> out) @@ ("strides" :> str) @@ ("padding" :> pad)
                @@ ("dilation" :> <<1, 1>>) @@ ("groups" :> 1),
     floats |-> {}]

With(d, f, x) == [d EXCEPT !.field[f] = x]
Without(d, S) == [d EXCEPT !.field = [f \in DOMAIN d.field \ S |-> d.field[f]]]
AsFloat(d, S) == [d EXCEPT !.floats = S]

Base == Doc(<<1, 2, 3, 3>>, <<2, 2, 2, 2>>, <<1, 2, 2, 2>>, <<1, 1>>, <<0, 0, 0, 0>>)

HeightSweep ==
    {Doc(<<1, 1, h, 2>>, <<1, 1, k, 1>>, <<1, 1, o, 2>>, <<s, 1>>, <<p, q, 0, 0>>) :
        h \in 1 .. MaxExtent, k \in 1 .. MaxExtent + 1, s \in 1 .. MaxExtent,
        p \in 0 .. 1, q \in 0 .. 1, o \in 1 .. MaxExtent}

WidthSweep ==
    {Doc(<<1, 1, 2, w>>, <<1, 1, 1, k>>, <<1, 1, 2, o>>, <<1, s>>, <<0, 0, p, q>>) :
        w \in 1 .. MaxExtent, k \in 1 .. MaxExtent + 1, s \in 1 .. MaxExtent,
        p \in 0 .. 1, q \in 0 .. 1, o \in 1 .. MaxExtent}

WrongLiteral == {With(Base, f, "other") : f \in LiteralFields \union PolicyFields}

OtherPolicy == {With(Base, f, "changed") : f \in PolicyFields}

Incomplete == {Without(Base, S) : S \in {{f} : f \in Fields}
                                       \union {{"strides", "padding", "dilation", "groups", "output_shape"},
                                               {"input_layout", "mode"} \union PolicyFields, PolicyFields}}

Malformed ==
    {With(Base, "input_shape", t) : t \in {<<0, 2, 3, 3>>, <<1, 1, 3, 3>>, <<1, 2, 3>>, <<1, 2, -1, 3>>, <<1, 2, 0, 3>>}}
    \union {With(Base, "filter_shape", t) : t \in {<<0, 2, 2, 2>>, <<2, 2, 0, 2>>, <<2, 1, 2, 2>>, <<2, 2, 2>>}}
    \union {With(Base, "output_shape", t) : t \in {<<2, 2, 2, 2>>, <<1, 1, 2, 2>>, <<1, 2, 0, 2>>, <<1, 2>>}}
    \union {With(Base, "strides", t) : t \in {<<0, 1>>, <<1, 0>>, <<-1, 1>>, <<1>>}}
    \union {With(Base, "padding", t) : t \in {<<-1, 1, 0, 0>>, <<0, 0, 1, -1>>, <<0, 0>>}}
    \union {With(Base, "dilation", t) : t \in {<<2, 1>>, <<1, 0>>, <<1>>}}
    \union {With(Base, "groups", g) : g \in {0, 2}}

(* A filter with an empty kernel row and the output the formula gives it *)
EmptyDims ==
    {Doc(<<0, 2, 3, 3>>, <<2, 2, 2, 2>>, <<0, 2, 2, 2>>, <<1, 1>>, <<0, 0, 0, 0>>),
     Doc(<<1, 0, 3, 3>>, <<2, 0, 2, 2>>, <<1, 2, 2, 2>>, <<1, 1>>, <<0, 0, 0, 0>>)}

(* Extents at the edge of int64: the sum fits, or it does not. *)
Huge == {Doc(<<1, 1, IntMax - 1, 1>>, <<1, 1, 1, 1>>, <<1, 1, IntMax - 1 + p, 1>>, <<1, 1>>, <<p, q, 0, 0>>) :
            p \in 0 .. 2, q \in 0 .. 1}
        \union {With(Base, "padding", <<IntMax + 1, 0, 0, 0>>)}

(* Up to two fields in floats, with the right and with a wrong output *)
InFloats ==
    {AsFloat(d, {f, g}) : d \in {Base, With(Base, "output_shape", <<1, 2, 3, 2>>)},
                          f \in TupleFields \union {"groups"}, g \in TupleFields \union {"groups"}}

MCDocuments == HeightSweep \union WidthSweep \union {Base} \union WrongLiteral \union OtherPolicy
               \union Incomplete
               \union Malformed \union EmptyDims \union Huge \union InFloats
=============================================================================
