-------------------------- MODULE ContractReaders --------------------------
(***************************************************************************)
(* One Conv2D contract document and the programs that decide whether it is  *)
(* a contract:                                                              *)
(*                                                                          *)
(*   python  Conv2DContract.from_dict                      (contracts.py)   *)
(*   cpp     validateContract of ocf-contract-check                         *)
(*   mlir    Conv2DOp::verify, on an op with the document's tensor types    *)
(*           and attributes                                (ConvOps.cpp)    *)
(*                                                                          *)
(* An author writes the document; the readers read it in any order.  Once   *)
(* Python holds a contract it may write it back with to_dict, and the       *)
(* readers then read what Python wrote.                                     *)
(*                                                                          *)
(* Strings are abstracted to their role: a field that must hold one fixed   *)
(* value holds Literal[f] or "other"; post_ops counts as such a field.  The *)
(* members of numerical_policy are fields of their own: "default", another  *)
(* value of their type ("changed"), or a value they may not have ("other"). *)
(* A field listed in doc.floats has its integers written as JSON floats     *)
(* (1.0 for 1).                                                             *)
(***************************************************************************)
EXTENDS ConvShape, Sequences, FiniteSets

CONSTANTS
    Documents,  \* the documents an author may write
    IntMax,     \* the largest int64; scaled down in the model-checking runs
    NoContract  \* Python holds no contract yet

ASSUME IntMaxAssumption == IntMax \in Nat

VARIABLES
    doc,        \* the document being read
    origin,     \* who wrote it: "author" or "python"
    contract,   \* the Conv2DContract Python holds, or NoContract
    verdict     \* verdict[r]: what reader r said of doc

vars == <<doc, origin, contract, verdict>>

-----------------------------------------------------------------------------
(* Documents *)

Literal == [schema_version |-> "v1", op |-> "conv2d", algorithm |-> "direct",
            input_layout |-> "NCHW", filter_layout |-> "OIHW", output_layout |-> "NCHW",
            input_dtype |-> "f32", filter_dtype |-> "f32", output_dtype |-> "f32",
            accumulation_dtype |-> "f32", mode |-> "forward_inference",
            post_ops |-> "empty"]

LiteralFields == DOMAIN Literal

TupleSize == [input_shape |-> 4, filter_shape |-> 4, output_shape |-> 4,
              strides |-> 2, padding |-> 4, dilation |-> 2]

TupleFields == DOMAIN TupleSize

PolicyFields == {"allow_fma_contraction", "allow_reassociation", "deterministic",
                 "absolute_tolerance", "relative_tolerance"}

Fields == LiteralFields \union TupleFields \union PolicyFields \union {"groups"}

IsDocument(d) ==
    /\ DOMAIN d = {"field", "floats"}
    /\ DOMAIN d.field \subseteq Fields
    /\ d.floats \subseteq (TupleFields \union {"groups"})
    /\ \A f \in DOMAIN d.field \intersect TupleFields : d.field[f] \in Seq(Int)

ASSUME DocumentsAssumption == \A d \in Documents : IsDocument(d)

Present(d) == DOMAIN d.field

(* payload.get(f, default); for a literal, from_dict defaults to what the schema demands. *)
Default == [strides |-> <<1, 1>>, padding |-> <<0, 0, 0, 0>>, dilation |-> <<1, 1>>, groups |-> 1,
            allow_fma_contraction |-> "default", allow_reassociation |-> "default",
            deterministic |-> "default", absolute_tolerance |-> "default",
            relative_tolerance |-> "default"]

Get(d, f) == IF f \in Present(d) THEN d.field[f]
             ELSE IF f \in LiteralFields THEN Literal[f] ELSE Default[f]

HoldsLiteral(d, f) == Get(d, f) = Literal[f]

(* Booleans where booleans belong, and tolerances that are not negative *)
PolicySound(d) == \A f \in PolicyFields : Get(d, f) \in {"default", "changed"}

WellSized(d, f) == Len(Get(d, f)) = TupleSize[f]

Entries(t) == {t[i] : i \in DOMAIN t}

AllPositive(t) == \A x \in Entries(t) : x > 0
AllNonNegative(t) == \A x \in Entries(t) : x >= 0

(* Mutant of Axis: padding taken as [top, left, bottom, right]. *)
Axis_PaddingOrder(d, a) ==
    [size   |-> Get(d, "input_shape")[a + 2],
     before |-> Get(d, "padding")[a],
     after  |-> Get(d, "padding")[a + 2],
     k      |-> Get(d, "filter_shape")[a + 2],
     stride |-> Get(d, "strides")[a]]

(* What the C++ readers take from a document for spatial axis 1 (H) or 2 (W) *)
Axis(d, a) ==
    [size   |-> Get(d, "input_shape")[a + 2],
     before |-> Get(d, "padding")[2 * a - 1],
     after  |-> Get(d, "padding")[2 * a],
     k      |-> Get(d, "filter_shape")[a + 2],
     stride |-> Get(d, "strides")[a]]

(* The fields the output formula takes *)
ShapeFields == {"input_shape", "filter_shape", "strides", "padding", "dilation"}

(* Every reader unpacks or indexes these tuples without looking at their     *)
(* lengths again, and divides by the strides.                                *)
FormulaDefined(d) == (\A f \in ShapeFields : WellSized(d, f)) /\ 0 \notin Entries(Get(d, "strides"))

(* Entry i of each of the fields F, counted from 1, is there to be read. *)
HasEntry(d, F, i) == \A f \in F : i \in DOMAIN Get(d, f)

(* The JSON schema's conv2dContract: every field, each value on its own. *)
SchemaValid(d) ==
    /\ Present(d) = Fields
    /\ \A f \in LiteralFields : HoldsLiteral(d, f)
    /\ PolicySound(d)
    /\ \A f \in TupleFields : WellSized(d, f)
    /\ \A f \in {"input_shape", "filter_shape", "output_shape", "strides"} : AllPositive(Get(d, f))
    /\ AllNonNegative(Get(d, "padding"))
    /\ Get(d, "dilation") = <<1, 1>> /\ Get(d, "groups") = 1

-----------------------------------------------------------------------------
(* Python *)

PyShape(d) ==
    LET dil == Get(d, "dilation")
        inp == Get(d, "input_shape")
        flt == Get(d, "filter_shape")
        str == Get(d, "strides")
        pad == Get(d, "padding")
    IN  <<inp[1], flt[1],
          FloorExtent(inp[3], pad[1], pad[2], flt[3], str[1], dil[1]),
          FloorExtent(inp[4], pad[3], pad[4], flt[4], str[2], dil[2])>>

(* _int_tuple: the right length, and ints: a float is refused even when integral. *)
PyIntTuple(d, f) == WellSized(d, f) /\ f \notin d.floats

(* Mutant of PyConstructs: _int_tuple, not _positive_tuple, for the strides. *)
PyConstructs_StridesUnchecked(d) ==
    /\ \A f \in TupleFields \ {"output_shape"} : PyIntTuple(d, f)
    /\ \A f \in {"input_shape", "filter_shape", "dilation"} : AllPositive(Get(d, f))

(* __post_init__, up to the call of validate *)
PyConstructs(d) ==
    /\ \A f \in TupleFields \ {"output_shape"} : PyIntTuple(d, f)
    /\ \A f \in {"input_shape", "filter_shape", "strides", "dilation"} : AllPositive(Get(d, f))

(* validate: it computes output_shape whatever the earlier checks said. *)
PyValidates(d) ==
    /\ AllNonNegative(Get(d, "padding"))
    /\ Get(d, "groups") = 1
    /\ Get(d, "dilation") = <<1, 1>>
    /\ Get(d, "input_shape")[2] = Get(d, "filter_shape")[2]
    /\ \A f \in LiteralFields : HoldsLiteral(d, f)
    /\ PolicySound(d)
    /\ PyShape(d)[3] > 0 /\ PyShape(d)[4] > 0

(* from_dict up to the constructor's arguments; a missing shape is a KeyError, *)
(* a refusal like any other.                                                   *)
PyHeader(d) ==
    /\ {"schema_version", "op", "input_shape", "filter_shape"} \subseteq Present(d)
    /\ HoldsLiteral(d, "schema_version") /\ HoldsLiteral(d, "op")

PyAccepts(d) ==
    /\ PyHeader(d)
    /\ PyConstructs(d)
    /\ PyValidates(d)
    /\ "output_shape" \in Present(d) => d.field["output_shape"] = PyShape(d)

(* validate unpacks the shapes and divides by the strides whatever issues it *)
(* has found so far: only what stood before it keeps that from failing.      *)
PyFaults(d) == PyHeader(d) /\ PyConstructs(d) /\ ~FormulaDefined(d)

PyOutcomes(d) == IF PyFaults(d) THEN {"fault"}
                 ELSE IF PyAccepts(d) THEN {"accept"} ELSE {"reject"}

(* The fields a Conv2DContract object has; the output shape is derived from them. *)
ContractFields == Fields \ {"schema_version", "op", "output_shape"}

(* Mutants of FromDict: absent fields not defaulted; the padding pairs       *)
(* swapped; one tolerance read for both.                                     *)
FromDict_NoDefaults(d) == [field  |-> [f \in ContractFields \intersect Present(d) |-> Get(d, f)],
                           floats |-> d.floats \intersect ContractFields]

FromDict_PaddingSwapped(d) ==
    LET pad == Get(d, "padding") IN
    [field  |-> [f \in ContractFields |->
                    IF f = "padding" THEN <<pad[3], pad[4], pad[1], pad[2]>> ELSE Get(d, f)],
     floats |-> d.floats \intersect ContractFields]

FromDict_OneTolerance(d) ==
    [field  |-> [f \in ContractFields |->
                    Get(d, IF f = "relative_tolerance" THEN "absolute_tolerance" ELSE f)],
     floats |-> d.floats \intersect ContractFields]

FromDict(d) == [field  |-> [f \in ContractFields |-> Get(d, f)],
                floats |-> d.floats \intersect ContractFields]

(* Mutant of ToDict: the derived output_shape is not written. *)
ToDict_NoOutputShape(c) == [field  |-> [f \in Fields \ {"output_shape"} |->
                                          IF f \in ContractFields THEN c.field[f] ELSE Literal[f]],
                            floats |-> c.floats]

ToDict(c) == [field  |-> [f \in Fields |->
                            IF f \in ContractFields THEN c.field[f]
                            ELSE IF f = "output_shape" THEN PyShape(c)
                            ELSE Literal[f]],
              floats |-> c.floats]

-----------------------------------------------------------------------------
(* C++: ocf-contract-check *)

InInt64(x) == -IntMax - 1 <= x /\ x <= IntMax

CppLiterals == LiteralFields \ {"mode", "post_ops"}

(* integerArray: present, the right length, every item an int64 (1.0 counts). *)
CppIntArray(d, f) ==
    f \in Present(d) /\ WellSized(d, f) /\ \A x \in Entries(d.field[f]) : InInt64(x)

(* validateContract up to the first use of the arrays *)
CppReads(d) ==
    /\ \A f \in CppLiterals : f \in Present(d) /\ HoldsLiteral(d, f)
    /\ \A f \in TupleFields : CppIntArray(d, f)
    /\ "groups" \in Present(d)

(* validateContract up to the shape arithmetic *)
CppWellFormed(d) ==
    /\ CppReads(d)
    /\ d.field["input_shape"][2] = d.field["filter_shape"][2]
    /\ d.field["groups"] = 1 /\ d.field["dilation"] = <<1, 1>>
    /\ \A f \in {"input_shape", "filter_shape", "strides"} : AllPositive(d.field[f])
    /\ AllNonNegative(d.field["padding"])

(* The channels and dilations are compared by index before any entry is      *)
(* looked at; then the formula is computed, and the four declared extents    *)
(* compared with it.                                                         *)
CppFaults(d) ==
    \/ /\ CppReads(d)
       /\ ~(HasEntry(d, {"input_shape", "filter_shape", "dilation"}, 2) /\ HasEntry(d, {"dilation"}, 1))
    \/ CppWellFormed(d) /\ ~(FormulaDefined(d) /\ WellSized(d, "output_shape"))

(* The sums under the division, left to right, or the extent leave int64. *)
AxisOverflows(x) ==
    \/ ~InInt64(x.size + x.before)
    \/ ~InInt64(x.size + x.before + x.after)
    \/ ~InInt64(x.size + x.before + x.after - x.k)
    \/ ~InInt64(TruncExtent(x.size, x.before, x.after, x.k, x.stride))

Overflows(d) == \E a \in 1 .. 2 : AxisOverflows(Axis(d, a))

CppExtent(x) == TruncExtent(x.size, x.before, x.after, x.k, x.stride)

(* [N, OC, OH, OW] as the C++ readers infer it *)
TruncShape(d) ==
    <<Get(d, "input_shape")[1], Get(d, "filter_shape")[1], CppExtent(Axis(d, 1)), CppExtent(Axis(d, 2))>>

DeclaresTruncShape(d) ==
    d.field["output_shape"] = TruncShape(d) /\ TruncShape(d)[3] > 0 /\ TruncShape(d)[4] > 0

(* Signed overflow is undefined, and the comparison after it may go either way. *)
ShapeOutcomes(d) == IF Overflows(d) THEN {"accept", "reject"}
                    ELSE IF DeclaresTruncShape(d) THEN {"accept"} ELSE {"reject"}

CppOutcomes(d) == IF CppFaults(d) THEN {"fault"}
                  ELSE IF CppWellFormed(d) THEN ShapeOutcomes(d) ELSE {"reject"}

-----------------------------------------------------------------------------
(* C++: the verifier of ocf.conv2d *)

(* The op can be written at all: static dims are not negative, the array     *)
(* attributes hold int64.  Layouts, mode and policy do not exist on the op.  *)
OpExists(d) ==
    /\ (TupleFields \union {"groups"}) \subseteq Present(d)
    /\ d.floats = {}
    /\ \A f \in TupleFields : \A x \in Entries(d.field[f]) : InInt64(x)
    /\ \A f \in {"input_shape", "filter_shape", "output_shape"} : AllNonNegative(d.field[f])

(* verify up to the first use of an array attribute *)
MlirSized(d) ==
    /\ \A f \in TupleFields : WellSized(d, f)
    /\ \A f \in {"input_dtype", "filter_dtype", "output_dtype"} : HoldsLiteral(d, f)
    /\ d.field["groups"] = 1

(* verify up to the shape arithmetic *)
MlirWellFormed(d) ==
    /\ MlirSized(d)
    /\ AllPositive(d.field["strides"])
    /\ d.field["dilation"] = <<1, 1>>
    /\ AllNonNegative(d.field["padding"])
    /\ d.field["input_shape"][2] = d.field["filter_shape"][2]

(* Strides, dilations and channels are compared by index, then the formula. *)
MlirFaults(d) ==
    \/ /\ MlirSized(d)
       /\ ~(/\ HasEntry(d, {"strides", "dilation"}, 1)
            /\ HasEntry(d, {"strides", "dilation", "input_shape", "filter_shape"}, 2))
    \/ MlirWellFormed(d) /\ ~FormulaDefined(d)

MlirOutcomes(d) == IF MlirFaults(d) THEN {"fault"}
                   ELSE IF MlirWellFormed(d) THEN ShapeOutcomes(d) ELSE {"reject"}

-----------------------------------------------------------------------------
(* The exchange *)

Readers == {"python", "cpp", "mlir"}
Verdicts == {"none", "accept", "reject", "fault"}

Unread == [r \in Readers |-> "none"]

Init ==
    /\ doc \in Documents
    /\ origin = "author"
    /\ contract = NoContract
    /\ verdict = Unread

Says(r, v) ==
    /\ verdict[r] = "none"
    /\ verdict' = [verdict EXCEPT ![r] = v]

(* Conv2DContract.from_dict returns an object... *)
PyAccept ==
    /\ "accept" \in PyOutcomes(doc)
    /\ Says("python", "accept")
    /\ contract' = FromDict(doc)
    /\ UNCHANGED <<doc, origin>>

(* ...or raises: no object exists. *)
PyRaise ==
    /\ \E v \in PyOutcomes(doc) \ {"accept"} : Says("python", v)
    /\ UNCHANGED <<doc, origin, contract>>

CppCheck ==
    /\ \E v \in CppOutcomes(doc) : Says("cpp", v)
    /\ UNCHANGED <<doc, origin, contract>>

MlirVerify ==
    /\ OpExists(doc)
    /\ \E v \in MlirOutcomes(doc) : Says("mlir", v)
    /\ UNCHANGED <<doc, origin, contract>>

(* Python writes its contract out; what it wrote is now read. *)
PyExport ==
    /\ origin = "author" /\ contract # NoContract
    /\ doc' = ToDict(contract)
    /\ origin' = "python"
    /\ verdict' = Unread
    /\ UNCHANGED contract

Next == PyAccept \/ PyRaise \/ CppCheck \/ MlirVerify \/ PyExport

Spec == Init /\ [][Next]_vars

-----------------------------------------------------------------------------
(* Properties *)

(* Documents, contracts and verdicts have the shapes the readers expect. *)
TypeOK ==
    /\ IsDocument(doc)
    /\ origin \in {"author", "python"}
    /\ contract = NoContract \/ DOMAIN contract.field = ContractFields
    /\ verdict \in [Readers -> Verdicts]

(* Every number and every sum of the output formula is an int64. *)
Sound(d) == /\ \A f \in TupleFields \intersect Present(d) : \A x \in Entries(Get(d, f)) : InInt64(x)
            /\ ~Overflows(d)

(* On both axes the kernel fits the padded input. *)
Fits(d) == \A a \in 1 .. 2 : LET x == Axis(d, a) IN KernelFits(x.size, x.before, x.after, x.k)

Decided(R) == \A r \in R : verdict[r] # "none"

(* No reader of a contract document, of whatever lengths and entries, ever   *)
(* indexes or unpacks a tuple that is too short or divides by a stride of 0: *)
(* in each of them lengths are checked before the first index and strides    *)
(* before the division (contracts.py 105-109 before 115-129;                 *)
(* ocf_contract_check.cpp 284-290 before 293 and 298 before 301-308;         *)
(* ConvOps.cpp 36-51 before 56-73, and 56 before 70-73).                     *)
NoReaderFaults == \A r \in Readers : verdict[r] # "fault"

(* DEVELOPMENT_PLAN 4.3 asks Python and C++ for the same conclusion.  They   *)
(* reach it, and so does the MLIR verifier, on every schema-valid document   *)
(* whose kernel fits its padded input and whose sums stay within int64.  The *)
(* one exception is the notation: _int_tuple (contracts.py 56-68) refuses a  *)
(* tuple of the formula written in floats, getAsInteger                      *)
(* (ocf_contract_check.cpp 261) does not; groups and the declared            *)
(* output_shape written so are the same to both.                             *)
SameConclusionWhenKernelFits ==
    (SchemaValid(doc) /\ Fits(doc) /\ Sound(doc)) =>
        /\ Decided({"python", "cpp"}) =>
              verdict["python"] = IF doc.floats \intersect ShapeFields = {} THEN verdict["cpp"]
                                  ELSE "reject"
        /\ Decided({"python", "mlir"}) => verdict["python"] = verdict["mlir"]

(* What Python writes with to_dict no reader turns down: whatever from_dict  *)
(* defaulted or normalised, the export is complete and its declared output   *)
(* is the one the C++ readers infer.                                         *)
ExportIsAccepted ==
    (origin = "python" /\ Sound(doc)) => \A r \in Readers : verdict[r] \notin {"reject", "fault"}

(* Reading and writing lose nothing: what Python writes says of every field  *)
(* the author wrote what the author said, numerical_policy and all           *)
(* (contracts.py 172-231), and reading it never changes the contract.        *)
RoundTrip == [][/\ contract # NoContract => contract' = contract
                /\ doc' # doc => \A f \in Present(doc) : doc'.field[f] = doc.field[f]]_vars

(* The output positions whose window lies inside the padded extent *)
Windows(size, before, after, k, stride) ==
    {o \in 0 .. (size + before + after) : o * stride + k <= size + before + after}

(* A contract Python holds has exactly the output positions whose window     *)
(* lies in the padded input: the closed formula is the definition of DESIGN  *)
(* (918-925), no window too few and none past the end.                       *)
OutputIsTheWindows ==
    contract # NoContract =>
        LET inp == contract.field["input_shape"]
            flt == contract.field["filter_shape"]
            str == contract.field["strides"]
            pad == contract.field["padding"]
            out == PyShape(contract)
        IN  /\ Windows(inp[3], pad[1], pad[2], flt[3], str[1]) = 0 .. (out[3] - 1)
            /\ Windows(inp[4], pad[3], pad[4], flt[4], str[2]) = 0 .. (out[4] - 1)

(* The closed formula of DESIGN 918-919 *)
DesignExtent(x) == (x.size + x.before + x.after - x.k) \div x.stride + 1

(* DESIGN 918-919 and 927: the output extents are floor((H + pad_top +       *)
(* pad_bottom - KH) / stride_h) + 1 and its twin, and a verifier checks that *)
(* OH and OW are positive.  Said of every reader that accepts a document.    *)
AcceptedOutputIsTheDesignFormula ==
    \A r \in Readers : (verdict[r] = "accept" /\ Sound(doc)) =>
        /\ \A a \in 1 .. 2 : DesignExtent(Axis(doc, a)) > 0
        /\ "output_shape" \in Present(doc) =>
              \A a \in 1 .. 2 : doc.field["output_shape"][a + 2] = DesignExtent(Axis(doc, a))

(* DESIGN 909 and 981: N, C, H, W, OC, KH and KW are positive, and the       *)
(* verifier turns a zero dimension away.                                     *)
MlirAcceptsPositiveDimsOnly ==
    verdict["mlir"] = "accept" =>
        AllPositive(Get(doc, "input_shape")) /\ AllPositive(Get(doc, "filter_shape"))
=============================================================================
