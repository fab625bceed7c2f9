----------------------- MODULE ContractReadersProofs -----------------------
(***************************************************************************)
(* Proofs about ContractReaders, for every set of documents whose tuples    *)
(* hold integers, of any length and size, and for every int64 range.        *)
(*                                                                          *)
(* The readers are compared through what each leaves of its question once   *)
(* the schema and the kernel are known to fit: Agreed.                      *)
(***************************************************************************)
EXTENDS ContractReaders, TLAPS

(* The tables of the fields *)
LEMMA FieldTables ==
    /\ TupleFields = {"input_shape", "filter_shape", "output_shape", "strides", "padding", "dilation"}
    /\ TupleSize.input_shape = 4 /\ TupleSize.filter_shape = 4 /\ TupleSize.output_shape = 4
    /\ TupleSize.strides = 2 /\ TupleSize.padding = 4 /\ TupleSize.dilation = 2
    /\ LiteralFields \intersect TupleFields = {}
    /\ "groups" \notin LiteralFields /\ "groups" \notin TupleFields
    /\ "schema_version" \in LiteralFields /\ "op" \in LiteralFields
    /\ PolicyFields \intersect (LiteralFields \union TupleFields \union {"groups"}) = {}
    /\ Fields = LiteralFields \union TupleFields \union PolicyFields \union {"groups"}
    /\ ContractFields = Fields \ {"schema_version", "op", "output_shape"}
BY DEF TupleFields, TupleSize, LiteralFields, Literal, PolicyFields, Fields, ContractFields

(* A tuple field is a sequence of integers, also by default. *)
LEMMA GetTuple ==
    ASSUME NEW d, IsDocument(d), NEW f \in TupleFields,
           f \in Present(d) \/ f \notin {"input_shape", "filter_shape", "output_shape"}
    PROVE  Get(d, f) \in Seq(Int)
<1>1. CASE f \in Present(d)
  <2>1. Get(d, f) = d.field[f]
    BY <1>1 DEF Get
  <2>2. f \in DOMAIN d.field \intersect TupleFields
    BY <1>1 DEF Present
  <2> QED
    BY <2>1, <2>2 DEF IsDocument
<1>2. CASE f \notin Present(d)
  <2>1. f \in {"strides", "padding", "dilation"} /\ f \notin LiteralFields
    BY <1>2, FieldTables
  <2>2. Get(d, f) = Default[f]
    BY <1>2, <2>1 DEF Get
  <2>3. Get(d, f) = <<1, 1>> \/ Get(d, f) = <<0, 0, 0, 0>>
    BY <2>1, <2>2 DEF Default
  <2>4. <<1, 1>> \in Seq(Int) /\ <<0, 0, 0, 0>> \in Seq(Int)
    OBVIOUS
  <2> QED
    BY <2>3, <2>4
<1> QED
  BY <1>1, <1>2

(* Entries *)
LEMMA EntryOf ==
    ASSUME NEW t \in Seq(Int), NEW i \in 1 .. Len(t)
    PROVE  t[i] \in Int /\ t[i] \in Entries(t)
BY DEF Entries

LEMMA EntryIs ==
    ASSUME NEW t \in Seq(Int), NEW x \in Entries(t)
    PROVE  \E i \in 1 .. Len(t) : x = t[i]
BY DEF Entries

(* What Python, the C++ checker and the MLIR verifier all establish before the formula *)
Shaped(d) ==
    /\ \A f \in {"input_shape", "filter_shape"} : Get(d, f) \in Seq(Int) /\ Len(Get(d, f)) = 4
    /\ Get(d, "padding") \in Seq(Int) /\ Len(Get(d, "padding")) = 4
    /\ Get(d, "strides") \in Seq(Int) /\ Len(Get(d, "strides")) = 2
    /\ AllPositive(Get(d, "strides"))
    /\ Get(d, "dilation") = <<1, 1>>

LEMMA ShapedEntries ==
    ASSUME NEW d, Shaped(d)
    PROVE  /\ \A i \in 1 .. 4 : /\ Get(d, "input_shape")[i] \in Int
                                /\ Get(d, "filter_shape")[i] \in Int
                                /\ Get(d, "padding")[i] \in Int
           /\ \A i \in 1 .. 2 : Get(d, "strides")[i] \in Int /\ Get(d, "strides")[i] > 0
BY EntryOf DEF Shaped, AllPositive

(* Floor division keeps the sign. *)
LEMMA Quotient ==
    \A a \in Int, s \in Int : s > 0 =>
        /\ a \div s \in Int
        /\ a \div s >= 0 <=> a >= 0
BY Z3

(* Where the kernel fits, and only there, the extent is positive, and both  *)
(* divisions give it.                                                       *)
LEMMA Extents ==
    ASSUME NEW size \in Int, NEW before \in Int, NEW after \in Int, NEW k \in Int,
           NEW stride \in Int, stride > 0
    PROVE  /\ FloorExtent(size, before, after, k, stride, 1) \in Int
           /\ FloorExtent(size, before, after, k, stride, 1) > 0 <=> KernelFits(size, before, after, k)
           /\ KernelFits(size, before, after, k) =>
                 TruncExtent(size, before, after, k, stride)
                    = FloorExtent(size, before, after, k, stride, 1)
<1>1. EffectiveKernel(k, 1) = k
  BY DEF EffectiveKernel
<1> DEFINE a == size + before + after - k
<1>2. a \in Int /\ (a >= 0 <=> KernelFits(size, before, after, k))
  BY DEF KernelFits
<1>3. FloorExtent(size, before, after, k, stride, 1) = a \div stride + 1
  BY <1>1 DEF FloorExtent
<1>4. a \div stride \in Int /\ (a \div stride >= 0 <=> a >= 0)
  BY <1>2, Quotient
<1>5. a >= 0 => TruncExtent(size, before, after, k, stride) = a \div stride + 1
  BY DEF TruncExtent, TruncDiv
<1> HIDE DEF a
<1> QED
  BY <1>2, <1>3, <1>4, <1>5

(* The same of both axes of a document *)
LEMMA ShapesAgree ==
    ASSUME NEW d, Shaped(d)
    PROVE  /\ PyShape(d)[3] \in Int /\ PyShape(d)[4] \in Int
           /\ Fits(d) <=> PyShape(d)[3] > 0 /\ PyShape(d)[4] > 0
           /\ Fits(d) => TruncShape(d) = PyShape(d)
<1> DEFINE inp == Get(d, "input_shape")
           flt == Get(d, "filter_shape")
           str == Get(d, "strides")
           pad == Get(d, "padding")
<1>1. /\ PyShape(d)[3] = FloorExtent(inp[3], pad[1], pad[2], flt[3], str[1], 1)
      /\ PyShape(d)[4] = FloorExtent(inp[4], pad[3], pad[4], flt[4], str[2], 1)
      /\ PyShape(d) = <<inp[1], flt[1], PyShape(d)[3], PyShape(d)[4]>>
  BY DEF PyShape, Shaped
<1>2. /\ Axis(d, 1) =
             [size |-> inp[3], before |-> pad[1], after |-> pad[2], k |-> flt[3], stride |-> str[1]]
      /\ Axis(d, 2) =
             [size |-> inp[4], before |-> pad[3], after |-> pad[4], k |-> flt[4], stride |-> str[2]]
  BY DEF Axis
<1>3. Fits(d) <=> /\ KernelFits(inp[3], pad[1], pad[2], flt[3])
                  /\ KernelFits(inp[4], pad[3], pad[4], flt[4])
  BY <1>2 DEF Fits
<1>4. TruncShape(d) = <<inp[1], flt[1], TruncExtent(inp[3], pad[1], pad[2], flt[3], str[1]),
                                        TruncExtent(inp[4], pad[3], pad[4], flt[4], str[2])>>
  BY <1>2 DEF TruncShape, CppExtent
<1>5. /\ \A i \in 1 .. 4 : inp[i] \in Int /\ flt[i] \in Int /\ pad[i] \in Int
      /\ \A i \in 1 .. 2 : str[i] \in Int /\ str[i] > 0
  BY ShapedEntries
<1> HIDE DEF inp, flt, str, pad
<1>6. /\ inp[3] \in Int /\ inp[4] \in Int /\ flt[3] \in Int /\ flt[4] \in Int
      /\ pad[1] \in Int /\ pad[2] \in Int /\ pad[3] \in Int /\ pad[4] \in Int
      /\ str[1] \in Int /\ str[1] > 0 /\ str[2] \in Int /\ str[2] > 0
  BY <1>5
<1>7. /\ PyShape(d)[3] \in Int
      /\ PyShape(d)[3] > 0 <=> KernelFits(inp[3], pad[1], pad[2], flt[3])
      /\ KernelFits(inp[3], pad[1], pad[2], flt[3]) =>
            TruncExtent(inp[3], pad[1], pad[2], flt[3], str[1]) = PyShape(d)[3]
  <2>1. /\ FloorExtent(inp[3], pad[1], pad[2], flt[3], str[1], 1) \in Int
        /\ FloorExtent(inp[3], pad[1], pad[2], flt[3], str[1], 1) > 0
              <=> KernelFits(inp[3], pad[1], pad[2], flt[3])
        /\ KernelFits(inp[3], pad[1], pad[2], flt[3]) =>
              TruncExtent(inp[3], pad[1], pad[2], flt[3], str[1])
                 = FloorExtent(inp[3], pad[1], pad[2], flt[3], str[1], 1)
    BY <1>6, Extents
  <2> QED
    BY <1>1, <2>1
<1>8. /\ PyShape(d)[4] \in Int
      /\ PyShape(d)[4] > 0 <=> KernelFits(inp[4], pad[3], pad[4], flt[4])
      /\ KernelFits(inp[4], pad[3], pad[4], flt[4]) =>
            TruncExtent(inp[4], pad[3], pad[4], flt[4], str[2]) = PyShape(d)[4]
  <2>1. /\ FloorExtent(inp[4], pad[3], pad[4], flt[4], str[2], 1) \in Int
        /\ FloorExtent(inp[4], pad[3], pad[4], flt[4], str[2], 1) > 0
              <=> KernelFits(inp[4], pad[3], pad[4], flt[4])
        /\ KernelFits(inp[4], pad[3], pad[4], flt[4]) =>
              TruncExtent(inp[4], pad[3], pad[4], flt[4], str[2])
                 = FloorExtent(inp[4], pad[3], pad[4], flt[4], str[2], 1)
    BY <1>6, Extents
  <2> QED
    BY <1>1, <2>1
<1> QED
  BY <1>1, <1>3, <1>4, <1>7, <1>8

-----------------------------------------------------------------------------
(* What each reader does, over a shaped document *)

(* The conditions the readers share beyond the shape *)
LiteralOK(d) == (\A f \in LiteralFields : HoldsLiteral(d, f)) /\ PolicySound(d)

(* What Python accepts is shaped, and its kernel fits. *)
LEMMA PyAcceptsShaped ==
    ASSUME NEW d, IsDocument(d), PyAccepts(d)
    PROVE  Shaped(d) /\ LiteralOK(d) /\ Fits(d)
<1>1. \A f \in {"input_shape", "filter_shape", "strides", "padding", "dilation"} :
         Get(d, f) \in Seq(Int) /\ Len(Get(d, f)) = TupleSize[f]
  BY GetTuple, FieldTables DEF PyAccepts, PyHeader, PyConstructs, PyIntTuple, WellSized
<1>2. Shaped(d)
  BY <1>1, FieldTables DEF Shaped, PyAccepts, PyConstructs, PyValidates
<1>3. LiteralOK(d) /\ PyShape(d)[3] > 0 /\ PyShape(d)[4] > 0
  BY DEF PyAccepts, PyValidates, LiteralOK
<1> QED
  BY <1>2, <1>3, ShapesAgree

(* What is well-sized can be indexed. *)
LEMMA WellSizedEntries ==
    ASSUME NEW d, NEW f \in TupleFields, Get(d, f) \in Seq(Int), WellSized(d, f)
    PROVE  1 \in DOMAIN Get(d, f) /\ 2 \in DOMAIN Get(d, f)
<1>1. TupleSize[f] = 2 \/ TupleSize[f] = 4
  BY FieldTables
<1>2. DOMAIN Get(d, f) = 1 .. TupleSize[f]
  BY DEF WellSized
<1> QED
  BY <1>1, <1>2

LEMMA SizedAndPositive ==
    ASSUME NEW d, \A f \in ShapeFields : WellSized(d, f), AllPositive(Get(d, "strides"))
    PROVE  FormulaDefined(d)
BY DEF FormulaDefined, AllPositive

(* The checks of lengths and strides stand before the uses. *)
LEMMA NoFaults ==
    ASSUME NEW d, IsDocument(d)
    PROVE  /\ "fault" \notin PyOutcomes(d) /\ "fault" \notin CppOutcomes(d)
           /\ OpExists(d) => "fault" \notin MlirOutcomes(d)
<1>1. ~PyFaults(d)
  <2>1. PyConstructs(d) => FormulaDefined(d)
    BY SizedAndPositive, FieldTables DEF PyConstructs, PyIntTuple, ShapeFields
  <2> QED
    BY <2>1 DEF PyFaults
<1>2. ~CppFaults(d)
  <2>1. ASSUME CppReads(d)
        PROVE  \A f \in TupleFields : /\ WellSized(d, f) /\ Get(d, f) = d.field[f]
                                      /\ 1 \in DOMAIN Get(d, f) /\ 2 \in DOMAIN Get(d, f)
    BY <2>1, GetTuple, WellSizedEntries DEF CppReads, CppIntArray, Get
  <2>2. CppReads(d) => /\ HasEntry(d, {"input_shape", "filter_shape", "dilation"}, 2)
                       /\ HasEntry(d, {"dilation"}, 1)
    BY <2>1, FieldTables DEF HasEntry
  <2>3. CppWellFormed(d) => FormulaDefined(d) /\ WellSized(d, "output_shape")
    BY <2>1, SizedAndPositive, FieldTables DEF CppWellFormed, ShapeFields
  <2> QED
    BY <2>2, <2>3 DEF CppFaults
<1>3. ASSUME OpExists(d) PROVE ~MlirFaults(d)
  <2>1. ASSUME MlirSized(d)
        PROVE  \A f \in TupleFields : /\ WellSized(d, f) /\ Get(d, f) = d.field[f]
                                      /\ 1 \in DOMAIN Get(d, f) /\ 2 \in DOMAIN Get(d, f)
    BY <1>3, <2>1, GetTuple, WellSizedEntries DEF MlirSized, OpExists, Get
  <2>2. MlirSized(d) => /\ HasEntry(d, {"strides", "dilation"}, 1)
                        /\ HasEntry(d, {"strides", "dilation", "input_shape", "filter_shape"}, 2)
    BY <2>1, FieldTables DEF HasEntry
  <2>3. MlirWellFormed(d) => FormulaDefined(d)
    BY <2>1, SizedAndPositive, FieldTables DEF MlirWellFormed, ShapeFields
  <2> QED
    BY <2>2, <2>3 DEF MlirFaults
<1>4. "fault" \notin ShapeOutcomes(d)
  BY DEF ShapeOutcomes
<1> QED
  BY <1>1, <1>2, <1>3, <1>4 DEF PyOutcomes, CppOutcomes, MlirOutcomes

(* On the documents of SameConclusionWhenKernelFits every reader reduces to  *)
(* the same question.                                                        *)
Comparable(d) == IsDocument(d) /\ SchemaValid(d) /\ Fits(d) /\ Sound(d)

(* _int_tuple takes every tuple of the formula. *)
IntegersPlain(d) == d.floats \intersect ShapeFields = {}

Agreed(d) ==
    /\ Get(d, "input_shape")[2] = Get(d, "filter_shape")[2]
    /\ Get(d, "output_shape") = PyShape(d)

LEMMA ComparableShaped ==
    ASSUME NEW d, Comparable(d)
    PROVE  /\ Shaped(d)
           /\ Present(d) = Fields
           /\ \A f \in Fields : Get(d, f) = d.field[f]
           /\ \A f \in TupleFields : WellSized(d, f)
           /\ \A f \in TupleFields \ {"padding", "dilation"} : AllPositive(Get(d, f))
           /\ AllNonNegative(Get(d, "padding")) /\ Get(d, "groups") = 1
           /\ \A f \in LiteralFields : HoldsLiteral(d, f)
           /\ PolicySound(d)
           /\ \A f \in TupleFields : \A x \in Entries(Get(d, f)) : InInt64(x)
           /\ ~Overflows(d)
           /\ TruncShape(d) = PyShape(d) /\ PyShape(d)[3] > 0 /\ PyShape(d)[4] > 0
<1> USE DEF Comparable
<1>1. Present(d) = Fields /\ \A f \in Fields : Get(d, f) = d.field[f]
  BY DEF SchemaValid, Get
<1>2. /\ \A f \in TupleFields : WellSized(d, f)
      /\ \A f \in TupleFields \ {"padding", "dilation"} : AllPositive(Get(d, f))
      /\ AllNonNegative(Get(d, "padding")) /\ Get(d, "groups") = 1 /\ Get(d, "dilation") = <<1, 1>>
      /\ (\A f \in LiteralFields : HoldsLiteral(d, f)) /\ PolicySound(d)
  BY FieldTables DEF SchemaValid
<1>3. \A f \in TupleFields : Get(d, f) \in Seq(Int)
  BY <1>1, GetTuple, FieldTables
<1>4. Shaped(d)
  BY <1>2, <1>3, FieldTables DEF Shaped, WellSized
<1>5. (\A f \in TupleFields : \A x \in Entries(Get(d, f)) : InInt64(x)) /\ ~Overflows(d)
  BY <1>1, FieldTables DEF Sound
<1>6. TruncShape(d) = PyShape(d) /\ PyShape(d)[3] > 0 /\ PyShape(d)[4] > 0
  BY <1>4, ShapesAgree
<1> QED
  BY <1>1, <1>2, <1>4, <1>5, <1>6

LEMMA SameOutcomes ==
    ASSUME NEW d, Comparable(d)
    PROVE  /\ PyOutcomes(d) = IF IntegersPlain(d) /\ Agreed(d) THEN {"accept"} ELSE {"reject"}
           /\ CppOutcomes(d) = IF Agreed(d) THEN {"accept"} ELSE {"reject"}
           /\ OpExists(d) => MlirOutcomes(d) = IF Agreed(d) THEN {"accept"} ELSE {"reject"}
<1>1. /\ "fault" \notin CppOutcomes(d) /\ "fault" \notin PyOutcomes(d)
      /\ OpExists(d) => "fault" \notin MlirOutcomes(d)
  BY NoFaults DEF Comparable
<1>2. \A f \in TupleFields : f \in Present(d) /\ Get(d, f) = d.field[f]
  BY ComparableShaped, FieldTables
<1>3. PyAccepts(d) <=> IntegersPlain(d) /\ Agreed(d)
  <2>0. ShapeFields = TupleFields \ {"output_shape"}
    BY FieldTables DEF ShapeFields
  <2>1. PyConstructs(d) <=> IntegersPlain(d)
    <3>1. (\A f \in ShapeFields : PyIntTuple(d, f)) <=> IntegersPlain(d)
      BY <2>0, ComparableShaped, FieldTables DEF PyIntTuple, IntegersPlain
    <3>2. AllPositive(<<1, 1>>)
      <4>1. \A i \in DOMAIN <<1, 1>> : <<1, 1>>[i] = 1
        OBVIOUS
      <4> QED
        BY <4>1 DEF AllPositive, Entries
    <3>3. \A f \in {"input_shape", "filter_shape", "strides", "dilation"} : AllPositive(Get(d, f))
      BY <3>2, ComparableShaped, FieldTables DEF Shaped
    <3> QED
      BY <2>0, <3>1, <3>3 DEF PyConstructs
  <2>2. PyValidates(d) <=> Get(d, "input_shape")[2] = Get(d, "filter_shape")[2]
    BY ComparableShaped DEF PyValidates, Shaped
  <2>3. /\ {"schema_version", "op", "input_shape", "filter_shape"} \subseteq Present(d)
        /\ HoldsLiteral(d, "schema_version") /\ HoldsLiteral(d, "op")
    BY ComparableShaped, FieldTables
  <2> QED
    BY <1>2, <2>1, <2>2, <2>3, FieldTables DEF PyAccepts, PyHeader, Agreed
<1>4. CppWellFormed(d) <=> Get(d, "input_shape")[2] = Get(d, "filter_shape")[2]
  <2>1. \A f \in CppLiterals : f \in Present(d) /\ HoldsLiteral(d, f)
    BY ComparableShaped, FieldTables DEF CppLiterals
  <2>2. \A f \in TupleFields : CppIntArray(d, f)
    BY <1>2, ComparableShaped DEF CppIntArray
  <2>3. "groups" \in Present(d) /\ d.field["groups"] = 1 /\ d.field["dilation"] = <<1, 1>>
    BY ComparableShaped, FieldTables DEF Shaped
  <2>4. /\ \A f \in {"input_shape", "filter_shape", "strides"} : AllPositive(d.field[f])
        /\ AllNonNegative(d.field["padding"])
    BY <1>2, ComparableShaped, FieldTables
  <2> QED
    BY <1>2, <2>1, <2>2, <2>3, <2>4, FieldTables DEF CppWellFormed, CppReads
<1>5. MlirWellFormed(d) <=> Get(d, "input_shape")[2] = Get(d, "filter_shape")[2]
  <2>1. \A f \in {"input_dtype", "filter_dtype", "output_dtype"} : f \in LiteralFields
    BY DEF LiteralFields, Literal
  <2>2. d.field["groups"] = 1 /\ d.field["dilation"] = <<1, 1>>
    BY ComparableShaped, FieldTables DEF Shaped
  <2>3. AllPositive(d.field["strides"]) /\ AllNonNegative(d.field["padding"])
    BY <1>2, ComparableShaped, FieldTables
  <2> QED
    BY <1>2, <2>1, <2>2, <2>3, ComparableShaped, FieldTables DEF MlirWellFormed, MlirSized
<1>6. ShapeOutcomes(d) = IF Get(d, "output_shape") = PyShape(d) THEN {"accept"} ELSE {"reject"}
  BY <1>2, ComparableShaped, FieldTables DEF ShapeOutcomes, DeclaresTruncShape
<1> QED
  BY <1>1, <1>3, <1>4, <1>5, <1>6 DEF PyOutcomes, CppOutcomes, MlirOutcomes, Agreed

-----------------------------------------------------------------------------
(* The contract Python holds, read as a document *)
Held(c) ==
    /\ c = [field |-> [f \in ContractFields |-> c.field[f]], floats |-> c.floats]
    /\ c.floats \subseteq {"groups"}
    /\ Shaped(c) /\ Fits(c) /\ LiteralOK(c)
    /\ AllPositive(Get(c, "input_shape")) /\ AllPositive(Get(c, "filter_shape"))
    /\ AllNonNegative(Get(c, "padding")) /\ Get(c, "groups") = 1
    /\ Get(c, "input_shape")[2] = Get(c, "filter_shape")[2]

(* The shape depends on five fields. *)
LEMMA SameFields ==
    ASSUME NEW d, NEW e, \A f \in ShapeFields : Get(d, f) = Get(e, f)
    PROVE  PyShape(d) = PyShape(e) /\ (Shaped(d) <=> Shaped(e)) /\ (Fits(d) <=> Fits(e))
<1>1. /\ Get(d, "input_shape") = Get(e, "input_shape") /\ Get(d, "filter_shape") = Get(e, "filter_shape")
      /\ Get(d, "strides") = Get(e, "strides") /\ Get(d, "padding") = Get(e, "padding")
      /\ Get(d, "dilation") = Get(e, "dilation")
  BY DEF ShapeFields
<1>2. PyShape(d) = PyShape(e)
  BY <1>1 DEF PyShape
<1>3. Shaped(d) <=> Shaped(e)
  BY <1>1 DEF Shaped
<1>4. \A a : Axis(d, a) = Axis(e, a)
  BY <1>1 DEF Axis
<1> QED
  BY <1>2, <1>3, <1>4 DEF Fits

LEMMA HeldGet ==
    ASSUME NEW c, Held(c)
    PROVE  /\ Present(c) = ContractFields
           /\ DOMAIN c.field = ContractFields
           /\ \A f \in ContractFields : Get(c, f) = c.field[f]
<1>1. DOMAIN c.field = ContractFields
  BY DEF Held
<1> QED
  BY <1>1 DEF Present, Get

(* What from_dict returns satisfies Held. *)
LEMMA FromDictHeld ==
    ASSUME NEW d, IsDocument(d), PyAccepts(d)
    PROVE  Held(FromDict(d))
<1> DEFINE c == FromDict(d)
<1>1. DOMAIN c.field = ContractFields /\ \A f \in ContractFields : c.field[f] = Get(d, f)
  BY DEF FromDict
<1>2. \A f \in ContractFields : Get(c, f) = Get(d, f)
  BY <1>1 DEF Get, Present
<1>3. c = [field |-> [f \in ContractFields |-> c.field[f]], floats |-> c.floats]
  BY DEF FromDict
<1>4. c.floats \subseteq {"groups"}
  <2>1. \A f \in TupleFields \ {"output_shape"} : f \notin d.floats
    BY DEF PyAccepts, PyConstructs, PyIntTuple
  <2> QED
    BY <2>1, FieldTables DEF FromDict, IsDocument
<1>5. LiteralOK(c)
  <2>1. \A f \in LiteralFields \intersect ContractFields : HoldsLiteral(c, f)
    BY <1>2, PyAcceptsShaped DEF LiteralOK, HoldsLiteral
  <2>3. PolicySound(c)
    BY <1>2, PyAcceptsShaped, FieldTables DEF LiteralOK, PolicySound
  <2>2. \A f \in {"schema_version", "op"} : HoldsLiteral(c, f)
    BY <1>1, FieldTables DEF HoldsLiteral, Get, Present
  <2> QED
    BY <2>1, <2>2, <2>3, FieldTables DEF LiteralOK
<1>6. ShapeFields \subseteq ContractFields /\ "groups" \in ContractFields
  BY FieldTables DEF ShapeFields
<1>7. Shaped(c) /\ Fits(c)
  BY <1>2, <1>6, SameFields, PyAcceptsShaped
<1>8. /\ AllPositive(Get(d, "input_shape")) /\ AllPositive(Get(d, "filter_shape"))
      /\ AllNonNegative(Get(d, "padding")) /\ Get(d, "groups") = 1
      /\ Get(d, "input_shape")[2] = Get(d, "filter_shape")[2]
  BY DEF PyAccepts, PyConstructs, PyValidates
<1>9. /\ Get(c, "input_shape") = Get(d, "input_shape") /\ Get(c, "filter_shape") = Get(d, "filter_shape")
      /\ Get(c, "padding") = Get(d, "padding") /\ Get(c, "groups") = Get(d, "groups")
  BY <1>2, <1>6 DEF ShapeFields
<1> HIDE DEF c
<1> QED
  BY <1>3, <1>4, <1>5, <1>7, <1>8, <1>9 DEF Held, c

LEMMA ToDictGet ==
    ASSUME NEW c, Held(c)
    PROVE  /\ Present(ToDict(c)) = Fields
           /\ \A f \in ContractFields : Get(ToDict(c), f) = Get(c, f)
           /\ Get(ToDict(c), "output_shape") = PyShape(c)
           /\ \A f \in {"schema_version", "op"} : HoldsLiteral(ToDict(c), f)
           /\ ToDict(c).floats = c.floats
<1> DEFINE e == ToDict(c)
<1>1. DOMAIN e.field = Fields
  BY DEF ToDict
<1>2. \A f \in Fields : Get(e, f) = e.field[f]
  BY <1>1 DEF Get, Present
<1>3. \A f \in ContractFields : e.field[f] = c.field[f]
  BY FieldTables DEF ToDict
<1>4. e.field["output_shape"] = PyShape(c)
  BY FieldTables DEF ToDict
<1>5. \A f \in {"schema_version", "op"} : e.field[f] = Literal[f]
  BY FieldTables DEF ToDict
<1>6. e.floats = c.floats
  BY DEF ToDict
<1> HIDE DEF e
<1> QED
  BY <1>1, <1>2, <1>3, <1>4, <1>5, <1>6, HeldGet, FieldTables DEF HoldsLiteral, Present, e

(* An export is schema-valid, its kernel fits, and it declares its shape. *)
LEMMA ExportFacts ==
    ASSUME NEW c, Held(c)
    PROVE  /\ IsDocument(ToDict(c))
           /\ SchemaValid(ToDict(c)) /\ Fits(ToDict(c))
           /\ Agreed(ToDict(c))
           /\ ToDict(c).floats \subseteq {"groups"}
<1> DEFINE e == ToDict(c)
<1> HIDE DEF e
<1>1. /\ Present(e) = Fields /\ \A f \in ContractFields : Get(e, f) = Get(c, f)
      /\ Get(e, "output_shape") = PyShape(c) /\ \A f \in {"schema_version", "op"} : HoldsLiteral(e, f)
      /\ e.floats = c.floats
  BY ToDictGet DEF e
<1>2. ShapeFields \subseteq ContractFields /\ "groups" \in ContractFields
  BY FieldTables DEF ShapeFields
<1>3. PyShape(e) = PyShape(c) /\ Shaped(e) /\ Fits(e)
  BY <1>1, <1>2, SameFields DEF Held
<1>4. e.floats \subseteq {"groups"}
  BY <1>1 DEF Held
<1>5. PyShape(e)[3] \in Int /\ PyShape(e)[3] > 0 /\ PyShape(e)[4] \in Int /\ PyShape(e)[4] > 0
  BY <1>3, ShapesAgree
<1>6. /\ Get(e, "input_shape") \in Seq(Int) /\ Len(Get(e, "input_shape")) = 4
      /\ AllPositive(Get(e, "input_shape"))
      /\ Get(e, "filter_shape") \in Seq(Int) /\ Len(Get(e, "filter_shape")) = 4
      /\ AllPositive(Get(e, "filter_shape"))
      /\ AllNonNegative(Get(e, "padding")) /\ Get(e, "groups") = 1
      /\ Get(e, "input_shape")[2] = Get(e, "filter_shape")[2]
  BY <1>1, <1>2, <1>3 DEF Held, Shaped, ShapeFields
<1>7. /\ Get(e, "input_shape")[1] \in Int /\ Get(e, "input_shape")[1] > 0
      /\ Get(e, "filter_shape")[1] \in Int /\ Get(e, "filter_shape")[1] > 0
  BY <1>6, EntryOf DEF AllPositive
<1>8. PyShape(e) = <<Get(e, "input_shape")[1], Get(e, "filter_shape")[1], PyShape(e)[3], PyShape(e)[4]>>
  BY DEF PyShape
<1>9. PyShape(e) \in Seq(Int) /\ Len(PyShape(e)) = 4
  <2> DEFINE x3 == PyShape(e)[3]
             x4 == PyShape(e)[4]
  <2> HIDE DEF x3, x4
  <2>1. <<Get(e, "input_shape")[1], Get(e, "filter_shape")[1], x3, x4>> \in Seq(Int)
    BY <1>5, <1>7 DEF x3, x4
  <2>2. Len(<<Get(e, "input_shape")[1], Get(e, "filter_shape")[1], x3, x4>>) = 4
    OBVIOUS
  <2> QED
    BY <1>8, <2>1, <2>2 DEF x3, x4
<1>10. AllPositive(PyShape(e))
  <2>1. \A i \in 1 .. 4 : PyShape(e)[i] > 0
    <3>1. PyShape(e)[1] = Get(e, "input_shape")[1] /\ PyShape(e)[2] = Get(e, "filter_shape")[1]
      BY DEF PyShape
    <3> QED
      BY <1>5, <1>7, <3>1
  <2>2. \A x \in Entries(PyShape(e)) : \E i \in 1 .. 4 : x = PyShape(e)[i]
    BY <1>9, EntryIs
  <2> QED
    BY <2>1, <2>2 DEF AllPositive
<1>11. LiteralOK(e)
  <2>1. \A f \in LiteralFields \intersect ContractFields : HoldsLiteral(e, f)
    BY <1>1 DEF Held, LiteralOK, HoldsLiteral
  <2>2. PolicySound(e)
    BY <1>1, FieldTables DEF Held, LiteralOK, PolicySound
  <2> QED
    BY <1>1, <2>1, <2>2, FieldTables DEF LiteralOK
<1>12. \A f \in TupleFields : Get(e, f) \in Seq(Int) /\ WellSized(e, f)
  <2>1. <<1, 1>> \in Seq(Int) /\ Len(<<1, 1>>) = 2
    OBVIOUS
  <2> QED
    BY <1>1, <1>3, <1>9, <2>1, FieldTables DEF Shaped, WellSized
<1>13. IsDocument(e)
  <2>1. DOMAIN e = {"field", "floats"}
    BY DEF e, ToDict
  <2>2. DOMAIN e.field = Fields
    BY <1>1 DEF Present
  <2>3. \A f \in Fields : Get(e, f) = e.field[f]
    BY <1>1 DEF Get
  <2> QED
    BY <1>4, <1>12, <2>1, <2>2, <2>3, FieldTables DEF IsDocument
<1>14. SchemaValid(e)
  BY <1>1, <1>3, <1>6, <1>10, <1>11, <1>12 DEF SchemaValid, LiteralOK, Shaped
<1>15. Agreed(e)
  BY <1>1, <1>3, <1>6 DEF Agreed
<1> QED
  BY <1>3, <1>4, <1>13, <1>14, <1>15 DEF e

(* Reading an export gives the contract back. *)
LEMMA ReadBack ==
    ASSUME NEW c, Held(c)
    PROVE  FromDict(ToDict(c)) = c
<1>1. \A f \in ContractFields : Get(ToDict(c), f) = c.field[f]
  BY ToDictGet, HeldGet
<1>2. c.floats \intersect ContractFields = c.floats
  BY FieldTables DEF Held
<1>3. FromDict(ToDict(c)) = [field |-> [f \in ContractFields |-> c.field[f]], floats |-> c.floats]
  BY <1>1, <1>2, ToDictGet DEF FromDict
<1> QED
  BY <1>3 DEF Held

-----------------------------------------------------------------------------
(* The inductive invariant: a verdict is one the reader can reach on the     *)
(* current document, and the document Python wrote is of the contract held.  *)
Outcomes(r, d) == CASE r = "python" -> PyOutcomes(d)
                    [] r = "cpp"    -> CppOutcomes(d)
                    [] r = "mlir"   -> {v \in MlirOutcomes(d) : OpExists(d)}

IInv ==
    /\ IsDocument(doc)
    /\ origin \in {"author", "python"}
    /\ verdict \in [Readers -> Verdicts]
    /\ \A r \in Readers : verdict[r] # "none" => verdict[r] \in Outcomes(r, doc)
    /\ contract # NoContract => Held(contract)
    /\ origin = "python" => contract # NoContract /\ doc = ToDict(contract)
    /\ origin = "author" /\ contract # NoContract =>
          verdict["python"] # "none" /\ PyAccepts(doc) /\ contract = FromDict(doc)

LEMMA OutcomesAreVerdicts ==
    ASSUME NEW r \in Readers, NEW d
    PROVE  Outcomes(r, d) \subseteq Verdicts
BY DEF Outcomes, PyOutcomes, CppOutcomes, MlirOutcomes, ShapeOutcomes, Verdicts, Readers

LEMMA InvInit == Init => IInv
BY DocumentsAssumption DEF Init, IInv, Unread, Verdicts

(* Steps *)
LEMMA SaysStep ==
    ASSUME IInv, NEW r \in Readers, NEW v \in Outcomes(r, doc), Says(r, v), doc' = doc
    PROVE  /\ verdict' \in [Readers -> Verdicts]
           /\ verdict'[r] = v
           /\ \A q \in Readers : verdict[q] # "none" => verdict'[q] # "none"
           /\ \A q \in Readers : verdict'[q] # "none" => verdict'[q] \in Outcomes(q, doc')
<1>1. /\ verdict' \in [Readers -> Verdicts] /\ verdict'[r] = v
      /\ \A q \in Readers \ {r} : verdict'[q] = verdict[q]
  BY OutcomesAreVerdicts DEF Says, IInv
<1>2. verdict[r] = "none"
  BY DEF Says
<1> QED
  BY <1>1, <1>2 DEF IInv

LEMMA PyAcceptStep ==
    ASSUME IInv, PyAccept
    PROVE  IInv' /\ (contract # NoContract => contract' = contract)
<1>1. /\ "accept" \in Outcomes("python", doc) /\ Says("python", "accept")
      /\ contract' = FromDict(doc) /\ doc' = doc /\ origin' = origin
  BY DEF PyAccept, Outcomes
<1>2. "python" \in Readers
  BY DEF Readers
<1>3. /\ verdict' \in [Readers -> Verdicts] /\ verdict'["python"] = "accept"
      /\ \A q \in Readers : verdict'[q] # "none" => verdict'[q] \in Outcomes(q, doc')
  BY <1>1, <1>2, SaysStep
<1>4. PyAccepts(doc)
  BY <1>1 DEF PyOutcomes, Outcomes
<1>5. Held(contract')
  BY <1>1, <1>4, FromDictHeld DEF IInv
<1>6. origin = "python" => contract' = contract
  BY <1>1, ReadBack DEF IInv
<1>7. origin = "author" => contract = NoContract
  BY <1>1 DEF IInv, Says
<1>8. PyAccepts(doc') /\ contract' = FromDict(doc')
  BY <1>1, <1>4
<1> QED
  BY <1>1, <1>3, <1>5, <1>6, <1>7, <1>8 DEF IInv

LEMMA VerdictStep ==
    ASSUME IInv, NEW r \in Readers, NEW v \in Outcomes(r, doc), Says(r, v),
           UNCHANGED <<doc, origin, contract>>
    PROVE  IInv'
<1>1. /\ verdict' \in [Readers -> Verdicts]
      /\ \A q \in Readers : verdict[q] # "none" => verdict'[q] # "none"
      /\ \A q \in Readers : verdict'[q] # "none" => verdict'[q] \in Outcomes(q, doc')
  BY SaysStep
<1> QED
  BY <1>1 DEF IInv, Readers

LEMMA PyExportStep ==
    ASSUME IInv, PyExport
    PROVE  IInv'
<1>1. /\ contract # NoContract /\ contract' = contract /\ doc' = ToDict(contract)
      /\ origin' = "python" /\ verdict' = Unread
  BY DEF PyExport
<1>2. IsDocument(doc')
  BY <1>1, ExportFacts DEF IInv
<1> QED
  BY <1>1, <1>2 DEF IInv, Unread, Verdicts

(* An export says what the document it comes from says.                     *)
LEMMA ExportKeeps ==
    ASSUME NEW d, IsDocument(d), PyAccepts(d), NEW f \in Present(d)
    PROVE  ToDict(FromDict(d)).field[f] = d.field[f]
<1> DEFINE c == FromDict(d)
<1>1. /\ \A g \in ContractFields : Get(c, g) = Get(d, g) /\ c.field[g] = Get(d, g)
      /\ Held(c)
  BY FromDictHeld DEF FromDict, Get, Present
<1> HIDE DEF c
<1>2. f \in Fields /\ Get(d, f) = d.field[f]
  BY DEF IsDocument, Present, Get
<1>3. CASE f \in ContractFields
  BY <1>1, <1>2, <1>3, FieldTables DEF ToDict, c
<1>4. CASE f = "output_shape"
  <2>1. ToDict(c).field[f] = PyShape(c)
    BY <1>2, <1>4, FieldTables DEF ToDict
  <2>2. PyShape(c) = PyShape(d)
    BY <1>1, SameFields, FieldTables DEF ShapeFields
  <2> QED
    BY <1>4, <2>1, <2>2 DEF PyAccepts, c
<1>5. CASE f \in {"schema_version", "op"}
  <2>1. ToDict(c).field[f] = Literal[f]
    BY <1>2, <1>5, FieldTables DEF ToDict
  <2> QED
    BY <1>2, <1>5, <2>1 DEF PyAccepts, PyHeader, HoldsLiteral, c
<1> QED
  BY <1>2, <1>3, <1>4, <1>5, FieldTables

LEMMA InvStep ==
    ASSUME IInv, [Next]_vars
    PROVE  /\ IInv'
           /\ contract # NoContract => contract' = contract
           /\ doc' # doc => \A f \in Present(doc) : doc'.field[f] = doc.field[f]
<1>1. CASE PyAccept
  BY <1>1, PyAcceptStep DEF PyAccept
<1>2. CASE PyRaise
  BY <1>2, VerdictStep DEF PyRaise, Outcomes, Readers, Says
<1>3. CASE CppCheck
  BY <1>3, VerdictStep DEF CppCheck, Outcomes, Readers
<1>4. CASE MlirVerify
  BY <1>4, VerdictStep DEF MlirVerify, Outcomes, Readers
<1>5. CASE PyExport
  BY <1>5, PyExportStep, ExportKeeps DEF PyExport, IInv
<1>6. CASE UNCHANGED vars
  BY <1>6 DEF vars, IInv
<1> QED
  BY <1>1, <1>2, <1>3, <1>4, <1>5, <1>6 DEF Next

LEMMA Invariant == Spec => []IInv
BY InvInit, InvStep, PTL DEF Spec

-----------------------------------------------------------------------------
(* The windows inside the padded extent are counted by the floor division. *)
LEMMA FloorCounts ==
    \A a \in Int, s \in Int, o \in Int : s > 0 => (o * s <= a <=> o <= a \div s)
<1> SUFFICES ASSUME NEW a \in Int, NEW s \in Int, NEW o \in Int, s > 0
             PROVE  o * s <= a <=> o <= a \div s
  OBVIOUS
<1> DEFINE q == a \div s
<1>1. q \in Int /\ q * s <= a /\ a < q * s + s
  BY Z3
<1> HIDE DEF q
<1>2. o <= q => o * s <= q * s
  BY <1>1
<1>3. o >= q + 1 => o * s >= q * s + s
  BY <1>1
<1>4. o * s \in Int /\ q * s \in Int
  BY <1>1
<1>5. o <= q \/ o >= q + 1
  BY <1>1
<1> QED
  BY <1>1, <1>2, <1>3, <1>4, <1>5 DEF q

LEMMA WindowsCounted ==
    ASSUME NEW size \in Int, NEW before \in Int, NEW after \in Int, NEW k \in Int, k > 0,
           NEW stride \in Int, stride > 0, KernelFits(size, before, after, k)
    PROVE  Windows(size, before, after, k, stride)
              = 0 .. (FloorExtent(size, before, after, k, stride, 1) - 1)
<1> DEFINE padded == size + before + after
           a == padded - k
           last == a \div stride
<1>1. padded \in Int /\ a \in Int /\ a >= 0 /\ a < padded
  BY DEF KernelFits
<1>2. FloorExtent(size, before, after, k, stride, 1) = last + 1
  BY DEF FloorExtent, EffectiveKernel
<1>3. last \in Int /\ last >= 0
  BY <1>1, Quotient
<1>4. Windows(size, before, after, k, stride) = {o \in 0 .. padded : o * stride + k <= padded}
  BY DEF Windows
<1>5. \A o \in Int : o * stride <= a <=> o <= last
  BY <1>1, FloorCounts
<1>6. \A o \in Int : o * stride \in Int
  OBVIOUS
<1>7. last <= a
  <2>1. last * stride <= a
    BY <1>3, <1>5
  <2>2. last <= last * stride
    BY <1>3
  <2> QED
    BY <1>1, <1>3, <1>6, <2>1, <2>2
<1>8. \A o \in Int : o * stride + k <= padded <=> o * stride <= a
  BY <1>1, <1>6
<1> HIDE DEF padded, a, last
<1>9. ASSUME NEW o
      PROVE  o \in 0 .. padded /\ o * stride + k <= padded <=> o \in 0 .. last
  <2>1. o \in Int => (o * stride + k <= padded <=> o <= last)
    BY <1>5, <1>8
  <2>2. o \in 0 .. padded <=> o \in Int /\ 0 <= o /\ o <= padded
    BY <1>1
  <2>3. o \in 0 .. last <=> o \in Int /\ 0 <= o /\ o <= last
    BY <1>3
  <2>4. o \in Int /\ o <= last => o <= padded
    BY <1>1, <1>3, <1>7
  <2> QED
    BY <2>1, <2>2, <2>3, <2>4
<1>10. FloorExtent(size, before, after, k, stride, 1) - 1 = last
  BY <1>2, <1>3
<1> QED
  BY <1>4, <1>9, <1>10

LEMMA HeldWindows ==
    ASSUME NEW c, Held(c)
    PROVE  LET inp == Get(c, "input_shape")
               flt == Get(c, "filter_shape")
               str == Get(c, "strides")
               pad == Get(c, "padding")
           IN  /\ Windows(inp[3], pad[1], pad[2], flt[3], str[1]) = 0 .. (PyShape(c)[3] - 1)
               /\ Windows(inp[4], pad[3], pad[4], flt[4], str[2]) = 0 .. (PyShape(c)[4] - 1)
<1> DEFINE inp == Get(c, "input_shape")
           flt == Get(c, "filter_shape")
           str == Get(c, "strides")
           pad == Get(c, "padding")
<1>1. Shaped(c) /\ Fits(c) /\ AllPositive(flt)
  BY DEF Held
<1>2. /\ \A i \in 1 .. 4 : inp[i] \in Int /\ flt[i] \in Int /\ pad[i] \in Int
      /\ \A i \in 1 .. 2 : str[i] \in Int /\ str[i] > 0
  BY <1>1, ShapedEntries
<1>3. \A i \in 1 .. 4 : flt[i] > 0
  <2>1. flt \in Seq(Int) /\ Len(flt) = 4
    BY <1>1 DEF Shaped
  <2> QED
    BY <1>1, <2>1, EntryOf DEF AllPositive
<1>4. /\ PyShape(c)[3] = FloorExtent(inp[3], pad[1], pad[2], flt[3], str[1], 1)
      /\ PyShape(c)[4] = FloorExtent(inp[4], pad[3], pad[4], flt[4], str[2], 1)
  BY <1>1 DEF PyShape, Shaped
<1>5. /\ KernelFits(inp[3], pad[1], pad[2], flt[3])
      /\ KernelFits(inp[4], pad[3], pad[4], flt[4])
  BY <1>1 DEF Fits, Axis
<1> HIDE DEF inp, flt, str, pad
<1>6. /\ inp[3] \in Int /\ inp[4] \in Int /\ flt[3] \in Int /\ flt[4] \in Int
      /\ pad[1] \in Int /\ pad[2] \in Int /\ pad[3] \in Int /\ pad[4] \in Int
      /\ str[1] \in Int /\ str[1] > 0 /\ str[2] \in Int /\ str[2] > 0 /\ flt[3] > 0 /\ flt[4] > 0
  BY <1>2, <1>3
<1>7. Windows(inp[3], pad[1], pad[2], flt[3], str[1])
         = 0 .. (FloorExtent(inp[3], pad[1], pad[2], flt[3], str[1], 1) - 1)
  BY <1>5, <1>6, WindowsCounted
<1>8. Windows(inp[4], pad[3], pad[4], flt[4], str[2])
         = 0 .. (FloorExtent(inp[4], pad[3], pad[4], flt[4], str[2], 1) - 1)
  BY <1>5, <1>6, WindowsCounted
<1> QED
  BY <1>4, <1>7, <1>8 DEF inp, flt, str, pad

-----------------------------------------------------------------------------
(* Type correctness: for every set of documents, what is read stays a        *)
(* document, a contract held has all its fields, a verdict is one of three.  *)
THEOREM TypeCorrect == Spec => []TypeOK
<1>1. IInv => TypeOK
  <2> SUFFICES ASSUME IInv PROVE TypeOK
    OBVIOUS
  <2>1. contract = NoContract \/ DOMAIN contract.field = ContractFields
    BY HeldGet DEF IInv
  <2> QED
    BY <2>1 DEF IInv, TypeOK
<1> QED
  BY <1>1, Invariant, PTL

(* No reader indexes a tuple past its end or divides by a stride of 0, on    *)
(* any document whose tuples hold integers, of any length.                   *)
THEOREM NeverFaults == Spec => []NoReaderFaults
<1>1. IInv => NoReaderFaults
  <2>1. ASSUME IInv, NEW r \in Readers
        PROVE  "fault" \notin Outcomes(r, doc)
    BY <2>1, NoFaults DEF IInv, Outcomes, Readers
  <2> QED
    BY <2>1 DEF IInv, NoReaderFaults
<1> QED
  BY <1>1, Invariant, PTL

(* The three readers come to one conclusion on every schema-valid document   *)
(* whose kernel fits and whose sums stay within int64, whatever its extents; *)
(* where a tuple of the formula is written in floats, Python refuses it.     *)
THEOREM ReadersConclude == Spec => []SameConclusionWhenKernelFits
<1>1. IInv => SameConclusionWhenKernelFits
  <2> SUFFICES ASSUME IInv, SchemaValid(doc), Fits(doc), Sound(doc)
               PROVE  /\ Decided({"python", "cpp"}) =>
                           verdict["python"] = IF IntegersPlain(doc) THEN verdict["cpp"] ELSE "reject"
                      /\ Decided({"python", "mlir"}) => verdict["python"] = verdict["mlir"]
    BY DEF SameConclusionWhenKernelFits, IntegersPlain
  <2>1. Comparable(doc)
    BY DEF IInv, Comparable
  <2>2. /\ verdict["python"] # "none" =>
              verdict["python"] = IF IntegersPlain(doc) /\ Agreed(doc) THEN "accept" ELSE "reject"
        /\ verdict["cpp"] # "none" =>
              verdict["cpp"] = IF Agreed(doc) THEN "accept" ELSE "reject"
        /\ verdict["mlir"] # "none" =>
              OpExists(doc) /\ verdict["mlir"] = IF Agreed(doc) THEN "accept" ELSE "reject"
    BY <2>1, SameOutcomes DEF IInv, Outcomes, Readers
  <2>3. OpExists(doc) => IntegersPlain(doc)
    BY DEF OpExists, IntegersPlain
  <2> QED
    BY <2>2, <2>3 DEF Decided
<1> QED
  BY <1>1, Invariant, PTL

(* No reader turns down what to_dict wrote of any contract Python accepted.  *)
THEOREM ExportsAreAccepted == Spec => []ExportIsAccepted
<1>1. IInv => ExportIsAccepted
  <2> SUFFICES ASSUME IInv, origin = "python", Sound(doc), NEW r \in Readers
               PROVE  verdict[r] \notin {"reject", "fault"}
    BY DEF ExportIsAccepted
  <2>1. Comparable(doc) /\ Agreed(doc) /\ IntegersPlain(doc)
    BY ExportFacts DEF IInv, Comparable, IntegersPlain, ShapeFields
  <2>2. verdict[r] # "none" => verdict[r] = "accept"
    BY <2>1, SameOutcomes DEF IInv, Outcomes, Readers
  <2> QED
    BY <2>2
<1> QED
  BY <1>1, Invariant, PTL

(* The closed formula of the output extents counts the windows inside the    *)
(* padded input, for every contract Python can hold.                         *)
THEOREM FormulaCountsWindows == Spec => []OutputIsTheWindows
<1>1. IInv => OutputIsTheWindows
  <2> SUFFICES ASSUME IInv, contract # NoContract
               PROVE  OutputIsTheWindows
    BY DEF OutputIsTheWindows
  <2>1. Held(contract)
    BY DEF IInv
  <2>2. \A f \in {"input_shape", "filter_shape", "strides", "padding"} :
           Get(contract, f) = contract.field[f]
    BY <2>1, HeldGet, FieldTables
  <2> QED
    BY <2>1, <2>2, HeldWindows DEF OutputIsTheWindows
<1> QED
  BY <1>1, Invariant, PTL

(* An export says of each field what the document it comes from says, and    *)
(* reading it never changes the contract.                                    *)
THEOREM ExportsReadBack == Spec => RoundTrip
<1>1. IInv /\ [Next]_vars =>
         [/\ contract # NoContract => contract' = contract
          /\ doc' # doc => \A f \in Present(doc) : doc'.field[f] = doc.field[f]]_vars
  BY InvStep
<1> QED
  BY <1>1, Invariant, PTL DEF Spec, RoundTrip
=============================================================================
