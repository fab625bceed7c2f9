-------------------------- MODULE DirectConvProofs --------------------------
(***************************************************************************)
(* Proofs about DirectConv, for every set of geometries: no access misses   *)
(* its buffer, the output fills in row-major order, each cell once, and the  *)
(* loop nest computes the cross-correlation of ConvSpec.                    *)
(***************************************************************************)
EXTENDS DirectConv, TLAPS

-----------------------------------------------------------------------------
(* Flat indices *)

(* Row i, column j of a table of a rows and b columns lies inside it. *)
LEMMA FlatInRange ==
    ASSUME NEW a \in Nat, NEW b \in Nat, NEW i \in 0 .. a - 1, NEW j \in 0 .. b - 1
    PROVE  i * b + j \in 0 .. a * b - 1
<1>1. (i + 1) * b <= a * b
  OBVIOUS
<1>2. (i + 1) * b = i * b + b
  OBVIOUS
<1> QED BY <1>1, <1>2

(* The row-major index of a four-dimensional buffer lies inside it. *)
LEMMA RowMajorInRange ==
    ASSUME NEW a \in Nat, NEW b \in Nat, NEW c \in Nat, NEW d \in Nat,
           NEW i \in 0 .. a - 1, NEW j \in 0 .. b - 1, NEW k \in 0 .. c - 1, NEW l \in 0 .. d - 1
    PROVE  ((i * b + j) * c + k) * d + l \in 0 .. a * b * c * d - 1
<1> DEFINE ab  == a * b
           ij  == i * b + j
           abc == ab * c
           ijk == ij * c + k
<1>1. ab \in Nat /\ ij \in 0 .. ab - 1
  BY FlatInRange
<1> HIDE DEF ab, ij
<1>2. abc \in Nat /\ ijk \in 0 .. abc - 1
  BY <1>1, FlatInRange
<1> HIDE DEF abc, ijk
<1>3. ijk * d + l \in 0 .. abc * d - 1
  BY <1>2, FlatInRange
<1> QED BY <1>3 DEF ab, ij, abc, ijk

(* The fields of a valid geometry *)
LEMMA GeometryFacts ==
    ASSUME NEW g, ValidGeometry(g)
    PROVE  /\ g.n \in Positive /\ g.c \in Positive /\ g.h \in Positive /\ g.w \in Positive
           /\ g.oc \in Positive /\ g.kh \in Positive /\ g.kw \in Positive
           /\ g.sh \in Positive /\ g.sw \in Positive
           /\ g.pt \in Nat /\ g.pb \in Nat /\ g.pl \in Nat /\ g.pr \in Nat
           /\ OutH(g) \in Positive /\ OutW(g) \in Positive
<1>1. g \in Geometry /\ OutH(g) > 0 /\ OutW(g) > 0
  BY DEF ValidGeometry
<1>2. /\ g.n \in Positive /\ g.c \in Positive /\ g.h \in Positive /\ g.w \in Positive
      /\ g.oc \in Positive /\ g.kh \in Positive /\ g.kw \in Positive
      /\ g.sh \in Positive /\ g.sw \in Positive
      /\ g.pt \in Nat /\ g.pb \in Nat /\ g.pl \in Nat /\ g.pr \in Nat
  BY <1>1 DEF Geometry
<1>3. OutH(g) \in Int /\ OutW(g) \in Int
  BY <1>2 DEF OutH, OutW, FloorExtent, EffectiveKernel, Positive
<1> QED BY <1>1, <1>2, <1>3 DEF Positive

(* A read inside the image is a read inside the input buffer. *)
LEMMA InputInBounds ==
    ASSUME NEW g, ValidGeometry(g), NEW c \in CellType(g), c.n < g.n,
           NEW t \in TapType(g), t.ic < g.c, InImage(g, c, t)
    PROVE  InputAt(g, c, t) \in 0 .. InputElements(g) - 1
<1>1. /\ g.n \in Nat /\ g.c \in Nat /\ g.h \in Nat /\ g.w \in Nat
      /\ g.sh \in Nat /\ g.sw \in Nat /\ g.pt \in Nat /\ g.pl \in Nat
  BY GeometryFacts DEF Positive
<1>2. /\ c.n \in 0 .. g.n - 1 /\ c.oh \in Nat /\ c.ow \in Nat
  BY <1>1 DEF CellType
<1>3. t.ic \in 0 .. g.c - 1 /\ t.kh \in Nat /\ t.kw \in Nat
  BY <1>1 DEF TapType
<1>4. InputRow(g, c, t) \in Int /\ InputCol(g, c, t) \in Int
  BY <1>1, <1>2, <1>3 DEF InputRow, InputCol
<1>5. InputRow(g, c, t) \in 0 .. g.h - 1 /\ InputCol(g, c, t) \in 0 .. g.w - 1
  BY <1>1, <1>4 DEF InImage
<1> QED BY <1>1, <1>2, <1>3, <1>5, RowMajorInRange DEF InputAt, InputIndex, InputElements

(* Every filter read is inside the filter buffer. *)
LEMMA FilterInBounds ==
    ASSUME NEW g, ValidGeometry(g), NEW c \in CellType(g), NEW t \in TapType(g), t.ic < g.c
    PROVE  FilterAt(g, c, t) \in 0 .. FilterElements(g) - 1
<1>1. /\ g.oc \in Nat /\ g.c \in Nat /\ g.kh \in Nat /\ g.kw \in Nat
  BY GeometryFacts DEF Positive
<1>2. c.oc \in 0 .. g.oc - 1
  BY DEF CellType
<1>3. t.ic \in 0 .. g.c - 1 /\ t.kh \in 0 .. g.kh - 1 /\ t.kw \in 0 .. g.kw - 1
  BY <1>1 DEF TapType
<1> QED BY <1>1, <1>2, <1>3, RowMajorInRange DEF FilterAt, FilterIndex, FilterElements

(* Every cell the loops reach has a place in the output buffer. *)
LEMMA OutputInBounds ==
    ASSUME NEW g, ValidGeometry(g), NEW c \in CellType(g), c.n < g.n
    PROVE  OutputIndex(g, c) \in 0 .. OutputElements(g) - 1
<1>1. /\ g.n \in Nat /\ g.oc \in Nat /\ OutH(g) \in Nat /\ OutW(g) \in Nat
  BY GeometryFacts DEF Positive
<1>2. /\ c.n \in 0 .. g.n - 1 /\ c.oc \in 0 .. g.oc - 1
      /\ c.oh \in 0 .. OutH(g) - 1 /\ c.ow \in 0 .. OutW(g) - 1
  BY <1>1 DEF CellType
<1> QED BY <1>1, <1>2, RowMajorInRange DEF OutputIndex, OutputElements

(* A carry of a mixed-radix counter: the last column of a row is followed by *)
(* the first column of the next.                                             *)
LEMMA Carry ==
    ASSUME NEW i \in Nat, NEW j \in Nat, NEW b \in Nat, j + 1 = b
    PROVE  (i + 1) * b + 0 = (i * b + j) + 1
OBVIOUS

(* The loops walk the output buffer in steps of one. *)
LEMMA NextIsOneFurther ==
    ASSUME NEW g, ValidGeometry(g), NEW c \in CellType(g), c.n < g.n
    PROVE  OutputIndex(g, NextCell(g, c)) = OutputIndex(g, c) + 1
<1> DEFINE H == OutH(g)
           W == OutW(g)
           oc == g.oc
           n0 == c.n
           c0 == c.oc
           r0 == c.oh
           w0 == c.ow
           a == n0 * oc + c0
           b == a * H + r0
<1>1. H \in Nat /\ W \in Nat /\ oc \in Nat
  BY GeometryFacts DEF Positive
<1>2. n0 \in Nat /\ c0 \in 0 .. oc - 1 /\ r0 \in 0 .. H - 1 /\ w0 \in 0 .. W - 1
  BY DEF CellType
<1>3. OutputIndex(g, c) = b * W + w0
  BY DEF OutputIndex
<1>4. OutputIndex(g, NextCell(g, c)) =
        IF w0 + 1 < W THEN b * W + (w0 + 1)
        ELSE IF r0 + 1 < H THEN (a * H + (r0 + 1)) * W + 0
        ELSE IF c0 + 1 < oc THEN ((n0 * oc + (c0 + 1)) * H + 0) * W + 0
        ELSE (((n0 + 1) * oc + 0) * H + 0) * W + 0
  BY DEF OutputIndex, NextCell
<1> HIDE DEF H, W, oc, n0, c0, r0, w0
<1>5. a \in Nat
  BY <1>1, <1>2
<1>6. ~(c0 + 1 < oc) => (n0 + 1) * oc + 0 = a + 1
  BY <1>1, <1>2
<1>7. n0 * oc + (c0 + 1) = a + 1
  BY <1>1, <1>2
<1> HIDE DEF a
<1>8. b \in Nat
  BY <1>1, <1>2, <1>5
<1>9. a * H + (r0 + 1) = b + 1
  BY <1>1, <1>2, <1>5
<1>10. ~(r0 + 1 < H) => (a + 1) * H + 0 = b + 1
  BY <1>1, <1>2, <1>5, Carry
<1> HIDE DEF b
<1>11. b * W + (w0 + 1) = (b * W + w0) + 1
  BY <1>1, <1>2, <1>8
<1>12. ~(w0 + 1 < W) => (b + 1) * W + 0 = (b * W + w0) + 1
  BY <1>1, <1>2, <1>8, Carry
<1> QED BY <1>1, <1>2, <1>3, <1>4, <1>6, <1>7, <1>9, <1>10, <1>11, <1>12

(* The output index of the first cell, and of the cell past the last one *)
LEMMA FirstIndex ==
    ASSUME NEW g, ValidGeometry(g)
    PROVE  OutputIndex(g, FirstCell) = 0
<1>1. g.oc \in Nat /\ OutH(g) \in Nat /\ OutW(g) \in Nat
  BY GeometryFacts DEF Positive
<1> QED BY <1>1 DEF OutputIndex, FirstCell

(* Exhausted loops stand one past the end of the output buffer. *)
LEMMA ExhaustedIndex ==
    ASSUME NEW g, ValidGeometry(g), NEW c \in CellType(g)
    PROVE  /\ OutputIndex(g, c) \in Nat
           /\ ~(c.n < g.n) => OutputIndex(g, c) >= OutputElements(g)
<1> DEFINE H == OutH(g)
           W == OutW(g)
           oc == g.oc
           n == g.n
           a == c.n * oc + c.oc
           b == a * H + c.oh
<1>1. H \in Nat /\ W \in Nat /\ oc \in Nat /\ n \in Nat
  BY GeometryFacts DEF Positive
<1>2. c.n \in 0 .. n /\ c.oc \in Nat /\ c.oh \in Nat /\ c.ow \in Nat
  BY <1>1 DEF CellType
<1>3. OutputIndex(g, c) = b * W + c.ow /\ OutputElements(g) = n * oc * H * W
  BY DEF OutputIndex, OutputElements
<1> HIDE DEF H, W, oc, n
<1>4. a \in Nat /\ (~(c.n < n) => n * oc <= a)
  BY <1>1, <1>2
<1> HIDE DEF a
<1>5. b \in Nat /\ (~(c.n < n) => n * oc * H <= b)
  <2>1. ASSUME ~(c.n < n) PROVE (n * oc) * H <= a * H
    <3> DEFINE p == n * oc
    <3>1. p \in Nat /\ p <= a
      BY <1>1, <1>4, <2>1
    <3> HIDE DEF p
    <3>2. p * H <= a * H
      BY <1>1, <1>4, <3>1
    <3> QED BY <3>2 DEF p
  <2> QED BY <1>1, <1>2, <1>4, <2>1
<1> HIDE DEF b
<1>6. b * W \in Nat /\ (~(c.n < n) => n * oc * H * W <= b * W)
  <2>1. ASSUME ~(c.n < n) PROVE (n * oc * H) * W <= b * W
    <3> DEFINE p == n * oc * H
    <3>1. p \in Nat /\ p <= b
      BY <1>1, <1>5, <2>1
    <3> HIDE DEF p
    <3>2. p * W <= b * W
      BY <1>1, <1>5, <3>1
    <3> QED BY <3>2 DEF p
  <2> QED BY <1>1, <1>5, <2>1
<1>7. n * oc * H * W \in Nat
  BY <1>1
<1> QED BY <1>2, <1>3, <1>6, <1>7 DEF n

-----------------------------------------------------------------------------
(* The loop variables *)

LEMMA NextCellType ==
    ASSUME NEW g, ValidGeometry(g), NEW c \in CellType(g), c.n < g.n
    PROVE  NextCell(g, c) \in CellType(g)
<1>1. /\ g.n \in Positive /\ g.oc \in Positive /\ OutH(g) \in Positive /\ OutW(g) \in Positive
  BY GeometryFacts
<1>2. c.n \in Nat /\ c.oc \in Nat /\ c.oh \in Nat /\ c.ow \in Nat
  BY DEF CellType
<1> QED BY <1>1, <1>2 DEF NextCell, CellType, Positive

LEMMA NextTapType ==
    ASSUME NEW g, ValidGeometry(g), NEW t \in TapType(g), t.ic < g.c
    PROVE  NextTap(g, t) \in TapType(g)
<1>1. g.c \in Positive /\ g.kh \in Positive /\ g.kw \in Positive
  BY GeometryFacts
<1>2. t.ic \in Nat /\ t.kh \in Nat /\ t.kw \in Nat
  BY DEF TapType
<1> QED BY <1>1, <1>2 DEF NextTap, TapType, Positive

LEMMA FirstsType ==
    ASSUME NEW g, ValidGeometry(g)
    PROVE  FirstCell \in CellType(g) /\ FirstTap \in TapType(g) /\ FirstTap.ic < g.c
<1>1. /\ g.n \in Positive /\ g.oc \in Positive /\ OutH(g) \in Positive /\ OutW(g) \in Positive
      /\ g.c \in Positive /\ g.kh \in Positive /\ g.kw \in Positive
  BY GeometryFacts
<1> QED BY <1>1 DEF FirstCell, FirstTap, CellType, TapType, Positive

(* What is accumulated is a product of buffer elements. *)
LEMMA TermType ==
    ASSUME NEW g, ValidGeometry(g), NEW c \in CellType(g), NEW t \in TapType(g)
    PROVE  Term(g, c, t) \in Products
<1>1. /\ g.n \in Positive /\ g.c \in Positive /\ g.h \in Positive /\ g.w \in Positive
      /\ g.oc \in Positive /\ g.kh \in Positive /\ g.kw \in Positive
      /\ g.sh \in Positive /\ g.sw \in Positive /\ g.pt \in Nat /\ g.pl \in Nat
  BY GeometryFacts
<1>2. /\ c.n \in Int /\ c.oc \in Int /\ c.oh \in Int /\ c.ow \in Int
      /\ t.ic \in Int /\ t.kh \in Int /\ t.kw \in Int
  BY DEF CellType, TapType
<1>3. InputAt(g, c, t) \in Int /\ FilterAt(g, c, t) \in Int
  BY <1>1, <1>2 DEF InputAt, FilterAt, InputIndex, FilterIndex, InputRow, InputCol, Positive
<1>4. ASSUME NEW i \in Int, NEW p \in Positive, NEW q \in Positive, NEW r \in Positive
      PROVE  <<i \div (p * q * r), (i \div (q * r)) % p, (i \div r) % q, i % r>> \in Coordinates
  <2>1. q * r \in Nat /\ q * r > 0
    BY DEF Positive
  <2>2. p * (q * r) \in Nat /\ p * (q * r) > 0
    BY <2>1 DEF Positive
  <2>3. p * q * r = p * (q * r)
    BY DEF Positive
  <2>4. i \div (p * q * r) \in Int /\ i \div (q * r) \in Int /\ i \div r \in Int
    BY <2>1, <2>2, <2>3 DEF Positive
  <2>5. (i \div (q * r)) % p \in Int /\ (i \div r) % q \in Int /\ i % r \in Int
    BY <2>4 DEF Positive
  <2> QED BY <2>4, <2>5 DEF Coordinates
<1>5. InputValue(g, InputAt(g, c, t)) \in Coordinates
  BY <1>1, <1>3, <1>4 DEF InputValue
<1>6. FilterValue(g, FilterAt(g, c, t)) \in Coordinates
  BY <1>1, <1>3, <1>4 DEF FilterValue
<1> QED BY <1>5, <1>6 DEF Term, Products

-----------------------------------------------------------------------------
(* The inductive invariant: the types, the order in which the output fills,  *)
(* and two facts it rests on: the loops run only on buffers of the right     *)
(* length, and a reduction under way has accumulated something.              *)
IInv ==
    /\ TypeOK
    /\ OutputFillsInOrder
    /\ pc = "running" => LengthsMatch
    /\ tap = FirstTap \/ accumulator # <<>>

LEMMA ContractValid == TypeOK => ValidGeometry(contract)
BY ContractsAssumption DEF TypeOK

LEMMA InitIInv == Init => IInv
<1> SUFFICES ASSUME Init PROVE IInv
  OBVIOUS
<1>1. ValidGeometry(contract)
  BY ContractsAssumption DEF Init
<1>2. cell \in CellType(contract) /\ tap \in TapType(contract)
  BY <1>1, FirstsType DEF Init
<1>3. inputLen \in Int /\ filterLen \in Int
  <2>1. InputElements(contract) \in Int /\ FilterElements(contract) \in Int
    BY <1>1, GeometryFacts DEF InputElements, FilterElements, Positive
  <2> QED BY <2>1, LengthErrorsAssumption DEF Init
<1>4. TypeOK
  BY <1>2, <1>3 DEF Init, TypeOK
<1>5. OutputFillsInOrder
  BY <1>1, FirstIndex DEF Init, OutputFillsInOrder
<1> QED BY <1>4, <1>5 DEF Init, IInv

(* The cell that Store assigns is the first one not yet computed. *)
LEMMA StoreIndex ==
    ASSUME IInv, Store
    PROVE  /\ OutputIndex(contract, cell) \in 0 .. OutputElements(contract) - 1
           /\ OutputIndex(contract', cell') = OutputIndex(contract, cell) + 1
           /\ accumulator # <<>>
<1>1. ValidGeometry(contract) /\ cell \in CellType(contract) /\ cell.n < contract.n
  BY ContractValid DEF IInv, TypeOK, Store, CellsLeft
<1>2. OutputIndex(contract', cell') = OutputIndex(contract, cell) + 1
  BY <1>1, NextIsOneFurther DEF Store
<1>3. tap # FirstTap
  BY <1>1, FirstsType DEF Store, TapsLeft
<1> QED BY <1>1, <1>2, <1>3, OutputInBounds DEF IInv

LEMMA NextIInv == IInv /\ [Next]_vars => IInv'
<1> SUFFICES ASSUME IInv, [Next]_vars PROVE IInv'
  OBVIOUS
<1>0. ValidGeometry(contract)
  BY ContractValid DEF IInv
<1>1. CASE Raise
  BY <1>1 DEF Raise, IInv, TypeOK, OutputFillsInOrder, LengthsMatch
<1>2. CASE Start
  BY <1>2 DEF Start, IInv, TypeOK, OutputFillsInOrder, LengthsMatch
<1>3. CASE Accumulate
  <2>1. tap \in TapType(contract) /\ cell \in CellType(contract) /\ tap.ic < contract.c
    BY <1>3 DEF Accumulate, TapsLeft, IInv, TypeOK
  <2>2. tap' \in TapType(contract)
    BY <1>0, <1>3, <2>1, NextTapType DEF Accumulate
  <2>3. accumulator' \in Seq(Products) /\ accumulator' # <<>>
    <3>1. accumulator \in Seq(Products) /\ Term(contract, cell, tap) \in Products
      BY <1>0, <2>1, TermType DEF IInv, TypeOK
    <3> QED BY <1>3, <3>1 DEF Accumulate
  <2>4. TypeOK'
    BY <1>3, <2>2, <2>3 DEF Accumulate, IInv, TypeOK
  <2>5. OutputFillsInOrder'
    BY <1>3 DEF Accumulate, IInv, OutputFillsInOrder
  <2>6. (pc = "running" => LengthsMatch)'
    BY <1>3 DEF Accumulate, IInv, LengthsMatch
  <2> QED BY <2>3, <2>4, <2>5, <2>6 DEF IInv
<1>4. CASE Store
  <2>1. /\ OutputIndex(contract, cell) \in 0 .. OutputElements(contract) - 1
        /\ OutputIndex(contract', cell') = OutputIndex(contract, cell) + 1
        /\ accumulator # <<>>
    BY <1>4, StoreIndex
  <2>2. cell' \in CellType(contract) /\ tap' \in TapType(contract)
    BY <1>0, <1>4, NextCellType, FirstsType DEF Store, CellsLeft, IInv, TypeOK
  <2>3. DOMAIN output' = 0 .. OutputElements(contract) - 1
    BY <1>4 DEF Store, IInv, TypeOK
  <2>4. TypeOK'
    <3>1. accumulator' \in Seq(Products)
      BY <1>4 DEF Store
    <3> QED BY <1>4, <2>2, <2>3, <3>1 DEF Store, IInv, TypeOK
  <2>5. OutputFillsInOrder'
    <3> DEFINE p == OutputIndex(contract, cell)
    <3>1. p \in Int
      BY <2>1
    <3>2. \A i \in DOMAIN output : i \in Int /\ ((output[i] # <<>>) <=> (i < p))
      BY DEF IInv, TypeOK, OutputFillsInOrder
    <3>3. output' = [output EXCEPT ![p] = accumulator]
      BY <1>4 DEF Store
    <3>4. OutputIndex(contract', cell') = p + 1
      BY <2>1
    <3> HIDE DEF p
    <3>5. ASSUME NEW i \in DOMAIN output' PROVE (output'[i] # <<>>) <=> (i < p + 1)
      <4>1. CASE i = p
        BY <2>1, <3>1, <3>3, <4>1
      <4>2. CASE i # p
        BY <3>1, <3>2, <3>3, <4>2
      <4> QED BY <4>1, <4>2
    <3> QED BY <3>4, <3>5 DEF OutputFillsInOrder
  <2>6. (pc = "running" => LengthsMatch)'
    BY <1>4 DEF Store, IInv, LengthsMatch
  <2> QED BY <1>4, <2>4, <2>5, <2>6 DEF Store, IInv
<1>5. CASE Return
  BY <1>5 DEF Return, IInv, TypeOK, OutputFillsInOrder, LengthsMatch
<1>6. CASE UNCHANGED vars
  BY <1>6 DEF vars, IInv, TypeOK, OutputFillsInOrder, LengthsMatch
<1> QED BY <1>1, <1>2, <1>3, <1>4, <1>5, <1>6 DEF Next

LEMMA IInvInBounds == IInv => AccessesInBounds
<1> SUFFICES ASSUME IInv, pc = "running", CellsLeft
             PROVE  /\ TapsLeft =>
                          /\ InImage(contract, cell, tap) =>
                                InputAt(contract, cell, tap) \in 0 .. inputLen - 1
                          /\ FilterAt(contract, cell, tap) \in 0 .. filterLen - 1
                    /\ OutputIndex(contract, cell) \in DOMAIN output
  BY DEF AccessesInBounds
<1>1. /\ ValidGeometry(contract)
      /\ cell \in CellType(contract) /\ cell.n < contract.n
      /\ tap \in TapType(contract)
      /\ DOMAIN output = 0 .. OutputElements(contract) - 1
  BY ContractValid DEF IInv, TypeOK, CellsLeft
<1>2. inputLen = InputElements(contract) /\ filterLen = FilterElements(contract)
  BY DEF IInv, LengthsMatch
<1>3. ASSUME TapsLeft, InImage(contract, cell, tap)
      PROVE  InputAt(contract, cell, tap) \in 0 .. inputLen - 1
  BY <1>1, <1>2, <1>3, InputInBounds DEF TapsLeft
<1>4. ASSUME TapsLeft
      PROVE  FilterAt(contract, cell, tap) \in 0 .. filterLen - 1
  BY <1>1, <1>2, <1>4, FilterInBounds DEF TapsLeft
<1>5. OutputIndex(contract, cell) \in DOMAIN output
  BY <1>1, OutputInBounds
<1> QED BY <1>3, <1>4, <1>5

LEMMA IInvKeepsCells ==
    IInv /\ [Next]_vars => [\A i \in DOMAIN output : output[i] # <<>> => output'[i] = output[i]]_vars
<1> SUFFICES ASSUME IInv, Next, NEW i \in DOMAIN output, output[i] # <<>>
             PROVE  output'[i] = output[i]
  OBVIOUS
<1>1. CASE Store
  <2>1. i < OutputIndex(contract, cell) /\ i \in Int /\ OutputIndex(contract, cell) \in Int
    BY <1>1, StoreIndex DEF IInv, TypeOK, OutputFillsInOrder
  <2> QED BY <1>1, <2>1 DEF Store
<1>2. CASE ~Store
  BY <1>2 DEF Next, Raise, Start, Accumulate, Return
<1> QED BY <1>1, <1>2

(* The loop variables stay in their ranges (reference.py 46-55).             *)
THEOREM TypeCorrect == Spec => []TypeOK
<1>1. IInv => TypeOK
  BY DEF IInv
<1> QED BY InitIInv, NextIInv, <1>1, PTL DEF Spec

(* Every read and write of direct_conv2d hits its buffer, for every valid    *)
(* contract: shapes, strides and padding of any size (reference.py 37-62).   *)
THEOREM NoAccessOutOfBounds == Spec => []AccessesInBounds
BY InitIInv, NextIInv, IInvInBounds, PTL DEF Spec

(* The output fills in row-major order (reference.py 43-62). *)
THEOREM FillsInOrder == Spec => []OutputFillsInOrder
<1>1. IInv => OutputFillsInOrder
  BY DEF IInv
<1> QED BY InitIInv, NextIInv, <1>1, PTL DEF Spec

(* No output cell is assigned twice (reference.py 43-62). *)
THEOREM AssignedOnce == Spec => NeverReassigned
BY InitIInv, NextIInv, IInvKeepsCells, PTL DEF Spec, NeverReassigned

-----------------------------------------------------------------------------
(* Mixed-radix numbers *)

(* A quotient and a remainder below the divisor determine each other. *)
LEMMA DivisionUnique ==
    ASSUME NEW b \in Nat, NEW i \in Int, NEW q \in Int,
           NEW j \in 0 .. b - 1, NEW r \in 0 .. b - 1, i * b + j = q * b + r
    PROVE  i = q /\ j = r
<1>1. ASSUME NEW x \in Int, NEW y \in Int, x < y PROVE x * b + b <= y * b
  <2>1. (x + 1) * b <= y * b
    BY <1>1
  <2> QED BY <2>1
<1>2. CASE i < q
  BY <1>1, <1>2
<1>3. CASE q < i
  BY <1>1, <1>3
<1> QED BY <1>2, <1>3

(* Division takes apart what the index arithmetic put together. *)
LEMMA Decode ==
    ASSUME NEW b \in Nat, NEW i \in Int, NEW j \in 0 .. b - 1
    PROVE  (i * b + j) \div b = i /\ (i * b + j) % b = j
<1> DEFINE x == i * b + j
<1>1. x \in Int /\ b > 0
  OBVIOUS
<1> HIDE DEF x
<1>2. x \div b \in Int /\ x % b \in 0 .. b - 1 /\ x = (x \div b) * b + (x % b)
  BY <1>1
<1>3. i = x \div b /\ j = x % b
  <2> DEFINE q == x \div b
             r == x % b
  <2>1. q \in Int /\ r \in 0 .. b - 1 /\ i * b + j = q * b + r
    BY <1>2 DEF x
  <2> HIDE DEF q, r
  <2>2. i = q /\ j = r
    BY <2>1, DivisionUnique
  <2> QED BY <2>2 DEF q, r
<1> QED BY <1>3 DEF x

(* Three digits in the radices b (middle) and d (last), the first unbounded *)
LEMMA Decode3 ==
    \A b, d \in Nat : \A i \in Int, j \in 0 .. b - 1, k \in 0 .. d - 1 : \A x :
        x = (i * b + j) * d + k =>
            x \div (b * d) = i /\ (x \div d) % b = j /\ x % d = k
<1> SUFFICES ASSUME NEW b \in Nat, NEW d \in Nat, NEW i \in Int,
                    NEW j \in 0 .. b - 1, NEW k \in 0 .. d - 1, NEW x, x = (i * b + j) * d + k
             PROVE  x \div (b * d) = i /\ (x \div d) % b = j /\ x % d = k
  BY Zenon
<1> DEFINE ij == i * b + j
           bd == b * d
           jk == j * d + k
<1>1. ij \in Int /\ ij \div b = i /\ ij % b = j
  BY Decode
<1>2. bd \in Nat /\ jk \in 0 .. bd - 1
  BY FlatInRange
<1>3. x = i * bd + jk /\ x = ij * d + k
  OBVIOUS
<1> HIDE DEF ij, bd, jk
<1>4. x \div d = ij /\ x % d = k
  BY <1>1, <1>3, Decode
<1>5. x \div bd = i
  BY <1>2, <1>3, Decode
<1> QED BY <1>1, <1>4, <1>5 DEF bd

(* The row-major index of element (i, j, k, l) of a buffer whose last three   *)
(* extents are b, c and d, and the coordinates of the element at an index.    *)
RowMajor(b, c, d, i, j, k, l) == ((i * b + j) * c + k) * d + l

Coordinates4(b, c, d, x) == <<x \div (b * c * d), (x \div (c * d)) % b, (x \div d) % c, x % d>>

(* Four digits: the coordinates of an element from its row-major index *)
LEMMA Decode4 ==
    \A b, c, d, i, j, k, l :
        /\ b \in Nat /\ c \in Nat /\ d \in Nat /\ i \in Int
        /\ j \in 0 .. b - 1 /\ k \in 0 .. c - 1 /\ l \in 0 .. d - 1
        => Coordinates4(b, c, d, RowMajor(b, c, d, i, j, k, l)) = <<i, j, k, l>>
<1> SUFFICES ASSUME NEW b, NEW c, NEW d, NEW i, NEW j, NEW k, NEW l,
                    b \in Nat, c \in Nat, d \in Nat, i \in Int,
                    j \in 0 .. b - 1, k \in 0 .. c - 1, l \in 0 .. d - 1
             PROVE  Coordinates4(b, c, d, RowMajor(b, c, d, i, j, k, l)) = <<i, j, k, l>>
  OBVIOUS
<1> DEFINE ij == i * b + j
           cd == c * d
           kl == k * d + l
           x  == (ij * c + k) * d + l
<1>1. ij \in Int /\ ij % b = j
  BY Decode
<1>2. cd \in Nat /\ kl \in 0 .. cd - 1
  BY FlatInRange
<1>3. b * c * d = b * cd
  OBVIOUS
<1>4. x = ij * cd + kl
  <2> HIDE DEF ij
  <2> QED BY <1>1
<1>5. x \div cd = ij /\ (x \div d) % c = k /\ x % d = l
  <2>1. ij \in Int
    OBVIOUS
  <2> HIDE DEF ij
  <2> QED BY <2>1, Decode3
<1>6. x \div (b * cd) = i
  <2> HIDE DEF cd, kl
  <2> QED BY <1>2, <1>4, Decode3
<1>7. x = RowMajor(b, c, d, i, j, k, l)
  BY DEF RowMajor
<1> HIDE DEF ij, cd, x
<1>8. (x \div cd) % b = j
  BY <1>1, <1>5
<1>9. <<x \div (b * c * d), (x \div cd) % b, (x \div d) % c, x % d>> = <<i, j, k, l>>
  BY <1>3, <1>5, <1>6, <1>8, Zenon
<1> QED BY <1>7, <1>9 DEF Coordinates4, cd

-----------------------------------------------------------------------------
(* One reduction *)

(* The place of a tap in the reduction, counted from 0 *)
TapIndex(g, t) == (t.ic * g.kh + t.kh) * g.kw + t.kw

(* What the code reads through flat indices is the product ConvSpec names by *)
(* coordinates.                                                              *)
LEMMA TermIsProduct ==
    ASSUME NEW g, ValidGeometry(g), NEW c \in CellType(g), c.n < g.n,
           NEW t \in TapType(g), t.ic < g.c
    PROVE  Term(g, c, t) = Convolution!Product(g, c, t)
<1> DEFINE row == InputRow(g, c, t)
           col == InputCol(g, c, t)
<1>1. /\ g.n \in Nat /\ g.c \in Nat /\ g.h \in Nat /\ g.w \in Nat
      /\ g.oc \in Nat /\ g.kh \in Nat /\ g.kw \in Nat
      /\ g.sh \in Nat /\ g.sw \in Nat /\ g.pt \in Nat /\ g.pl \in Nat
  BY GeometryFacts DEF Positive
<1>2. /\ c.n \in Int /\ c.oc \in Int /\ c.oh \in Nat /\ c.ow \in Nat
      /\ t.ic \in 0 .. g.c - 1 /\ t.kh \in 0 .. g.kh - 1 /\ t.kw \in 0 .. g.kw - 1
  BY <1>1 DEF CellType, TapType
<1>3. row \in Int /\ col \in Int
  BY <1>1, <1>2 DEF InputRow, InputCol
<1>4. InImage(g, c, t) <=> row \in 0 .. g.h - 1 /\ col \in 0 .. g.w - 1
  BY <1>1, <1>3 DEF InImage
<1>5. row = c.oh * g.sh + t.kh - g.pt /\ col = c.ow * g.sw + t.kw - g.pl
  BY DEF InputRow, InputCol
<1>6. FilterValue(g, FilterAt(g, c, t)) = <<c.oc, t.ic, t.kh, t.kw>>
  <2>1. FilterAt(g, c, t) = RowMajor(g.c, g.kh, g.kw, c.oc, t.ic, t.kh, t.kw)
    BY DEF FilterAt, FilterIndex, RowMajor
  <2>2. FilterValue(g, FilterAt(g, c, t)) = Coordinates4(g.c, g.kh, g.kw, FilterAt(g, c, t))
    BY DEF FilterValue, Coordinates4
  <2>3. Coordinates4(g.c, g.kh, g.kw, RowMajor(g.c, g.kh, g.kw, c.oc, t.ic, t.kh, t.kw))
          = <<c.oc, t.ic, t.kh, t.kw>>
    <3>1. /\ g.c \in Nat /\ g.kh \in Nat /\ g.kw \in Nat /\ c.oc \in Int
          /\ t.ic \in 0 .. g.c - 1 /\ t.kh \in 0 .. g.kh - 1 /\ t.kw \in 0 .. g.kw - 1
      BY <1>1, <1>2
    <3> QED BY <3>1, Decode4
  <2> QED BY <2>1, <2>2, <2>3, Zenon
<1> HIDE DEF row, col
<1>7. ASSUME InImage(g, c, t)
      PROVE  InputValue(g, InputAt(g, c, t)) = <<c.n, t.ic, row, col>>
  <2>1. row \in 0 .. g.h - 1 /\ col \in 0 .. g.w - 1
    BY <1>4, <1>7
  <2>2. InputAt(g, c, t) = RowMajor(g.c, g.h, g.w, c.n, t.ic, row, col)
    BY DEF InputAt, InputIndex, RowMajor, row, col
  <2>3. InputValue(g, InputAt(g, c, t)) = Coordinates4(g.c, g.h, g.w, InputAt(g, c, t))
    BY DEF InputValue, Coordinates4
  <2>4. Coordinates4(g.c, g.h, g.w, RowMajor(g.c, g.h, g.w, c.n, t.ic, row, col))
          = <<c.n, t.ic, row, col>>
    <3>1. /\ g.c \in Nat /\ g.h \in Nat /\ g.w \in Nat /\ c.n \in Int
          /\ t.ic \in 0 .. g.c - 1 /\ row \in 0 .. g.h - 1 /\ col \in 0 .. g.w - 1
      BY <1>1, <1>2, <2>1
    <3> QED BY <3>1, Decode4
  <2> QED BY <2>2, <2>3, <2>4, Zenon
<1>8. Convolution!PaddedX(g, c.n, t.ic, c.oh * g.sh + t.kh, c.ow * g.sw + t.kw)
        = IF InImage(g, c, t) THEN <<c.n, t.ic, row, col>> ELSE Zero
  BY <1>1, <1>2, <1>3, <1>4, <1>5 DEF Convolution!PaddedX
<1> QED BY <1>6, <1>7, <1>8 DEF Term, Convolution!Product

(* A tap under way is the one ConvSpec counts after TapIndex taps.           *)
LEMMA TapAtIndex ==
    ASSUME NEW g, ValidGeometry(g), NEW t \in TapType(g), t.ic < g.c
    PROVE  /\ TapIndex(g, t) \in 0 .. g.c * g.kh * g.kw - 1
           /\ Convolution!TapAt(g, TapIndex(g, t) + 1) = t
<1>1. g.c \in Nat /\ g.kh \in Nat /\ g.kw \in Nat
  BY GeometryFacts DEF Positive
<1>2. /\ t = [ic |-> t.ic, kh |-> t.kh, kw |-> t.kw]
      /\ t.ic \in 0 .. g.c - 1 /\ t.kh \in 0 .. g.kh - 1 /\ t.kw \in 0 .. g.kw - 1
  BY <1>1 DEF TapType
<1> DEFINE x == TapIndex(g, t)
<1>3. x \in 0 .. g.c * g.kh * g.kw - 1
  <2> DEFINE ik == t.ic * g.kh + t.kh
             ck == g.c * g.kh
  <2>1. ck \in Nat /\ ik \in 0 .. ck - 1
    BY <1>1, <1>2, FlatInRange
  <2>2. x = ik * g.kw + t.kw
    BY DEF TapIndex
  <2> HIDE DEF ik, ck
  <2>3. ik * g.kw + t.kw \in 0 .. ck * g.kw - 1
    BY <1>1, <1>2, <2>1, FlatInRange
  <2> QED BY <2>2, <2>3 DEF ck
<1>4. x \div (g.kh * g.kw) = t.ic /\ (x \div g.kw) % g.kh = t.kh /\ x % g.kw = t.kw
  BY <1>1, <1>2, Decode3 DEF TapIndex
<1>5. (x + 1) - 1 = x
  BY <1>1, <1>3
<1> HIDE DEF x
<1>6. Convolution!TapAt(g, x + 1) = [ic |-> t.ic, kh |-> t.kh, kw |-> t.kw]
  BY <1>4, <1>5 DEF Convolution!TapAt
<1> QED BY <1>2, <1>3, <1>6 DEF x

LEMMA FirstTapIndex ==
    ASSUME NEW g, ValidGeometry(g)
    PROVE  TapIndex(g, FirstTap) = 0
<1>1. g.kh \in Nat /\ g.kw \in Nat
  BY GeometryFacts DEF Positive
<1> QED BY <1>1 DEF TapIndex, FirstTap

(* The reduction loops take the taps one after the other. *)
LEMMA NextTapIndex ==
    ASSUME NEW g, ValidGeometry(g), NEW t \in TapType(g), t.ic < g.c
    PROVE  TapIndex(g, NextTap(g, t)) = TapIndex(g, t) + 1
<1> DEFINE ic == t.ic
           r  == t.kh
           k  == t.kw
           H  == g.kh
           W  == g.kw
           b  == ic * H + r
<1>1. H \in Nat /\ W \in Nat /\ ic \in Nat /\ r \in 0 .. H - 1 /\ k \in 0 .. W - 1
  BY GeometryFacts DEF TapType, Positive
<1>2. TapIndex(g, t) = b * W + k
  BY DEF TapIndex
<1>3. TapIndex(g, NextTap(g, t)) =
        IF k + 1 < W THEN b * W + (k + 1)
        ELSE IF r + 1 < H THEN (ic * H + (r + 1)) * W + 0
        ELSE ((ic + 1) * H + 0) * W + 0
  BY DEF TapIndex, NextTap
<1> HIDE DEF ic, r, k, H, W
<1>4. b \in Nat /\ ic * H + (r + 1) = b + 1
  BY <1>1
<1>5. ~(r + 1 < H) => (ic + 1) * H + 0 = b + 1
  BY <1>1, Carry
<1> HIDE DEF b
<1>6. b * W + (k + 1) = (b * W + k) + 1
  BY <1>1, <1>4
<1>7. ~(k + 1 < W) => (b + 1) * W + 0 = (b * W + k) + 1
  BY <1>1, <1>4, Carry
<1> QED BY <1>1, <1>2, <1>3, <1>4, <1>5, <1>6, <1>7

(* Exhausted reduction loops have taken every tap. *)
LEMMA ExhaustedTaps ==
    ASSUME NEW g, ValidGeometry(g), NEW t \in TapType(g), ~(t.ic < g.c)
    PROVE  g.c * g.kh * g.kw <= TapIndex(g, t) /\ TapIndex(g, t) \in Nat
<1> DEFINE H == g.kh
           W == g.kw
           c == g.c
           b == t.ic * H + t.kh
           p == c * H
<1>1. H \in Nat /\ W \in Nat /\ c \in Nat /\ t.ic = c /\ t.kh \in Nat /\ t.kw \in Nat
  BY GeometryFacts DEF TapType, Positive
<1>2. TapIndex(g, t) = b * W + t.kw
  BY DEF TapIndex
<1>3. p \in Nat /\ b \in Nat /\ p <= b
  BY <1>1
<1> HIDE DEF H, W, c, b, p
<1>4. p * W <= b * W /\ b * W \in Nat
  BY <1>1, <1>3
<1> QED BY <1>1, <1>2, <1>4 DEF p, c, H, W

-----------------------------------------------------------------------------
(* The output buffer *)

LEMMA SameCells == \A g : Convolution!Cells(g) = OutputCells(g)
BY DEF Convolution!Cells, OutputCells, Convolution!OutH, Convolution!OutW, OutH, OutW,
       Convolution!FloorExtent, FloorExtent, Convolution!EffectiveKernel, EffectiveKernel

LEMMA SameValidity == \A g : ValidGeometry(g) <=> Convolution!ValidGeometry(g)
BY DEF Convolution!ValidGeometry, ValidGeometry, Convolution!Geometry, Geometry,
       Convolution!Positive, Positive, Convolution!OutH, Convolution!OutW, OutH, OutW,
       Convolution!FloorExtent, FloorExtent, Convolution!EffectiveKernel, EffectiveKernel

LEMMA OutputCellFacts ==
    ASSUME NEW g, ValidGeometry(g), NEW c \in OutputCells(g)
    PROVE  /\ c \in CellType(g) /\ c.n < g.n
           /\ OutputIndex(g, c) \in 0 .. OutputElements(g) - 1
<1>1. g.n \in Nat
  BY GeometryFacts DEF Positive
<1>2. c \in CellType(g) /\ c.n < g.n
  BY <1>1 DEF OutputCells, CellType
<1> QED BY <1>2, OutputInBounds

(* No two cells share a place in the output buffer. *)
LEMMA OutputIndexInjective ==
    ASSUME NEW g, ValidGeometry(g), NEW c \in OutputCells(g), NEW d \in OutputCells(g),
           OutputIndex(g, c) = OutputIndex(g, d)
    PROVE  c = d
<1>1. g.oc \in Nat /\ OutH(g) \in Nat /\ OutW(g) \in Nat
  BY GeometryFacts DEF Positive
<1>2. ASSUME NEW e \in OutputCells(g)
      PROVE  Coordinates4(g.oc, OutH(g), OutW(g), OutputIndex(g, e)) = <<e.n, e.oc, e.oh, e.ow>>
  <2>1. e.n \in Int /\ e.oc \in 0 .. g.oc - 1 /\ e.oh \in 0 .. OutH(g) - 1 /\ e.ow \in 0 .. OutW(g) - 1
    BY DEF OutputCells
  <2>2. OutputIndex(g, e) = RowMajor(g.oc, OutH(g), OutW(g), e.n, e.oc, e.oh, e.ow)
    BY DEF OutputIndex, RowMajor
  <2> QED BY <1>1, <2>1, <2>2, Decode4
<1>3. <<c.n, c.oc, c.oh, c.ow>> = <<d.n, d.oc, d.oh, d.ow>>
  BY <1>2
<1>4. c.n = d.n /\ c.oc = d.oc /\ c.oh = d.oh /\ c.ow = d.ow
  BY <1>3
<1> QED BY <1>4 DEF OutputCells

-----------------------------------------------------------------------------
(* What the buffers hold: the accumulator has the products of the taps       *)
(* passed so far, and a computed cell has the products of all its taps.      *)
ReductionInv ==
    /\ Len(accumulator) = TapIndex(contract, tap)
    /\ TapIndex(contract, tap) <= contract.c * contract.kh * contract.kw
    /\ \A i \in 1 .. Len(accumulator) :
          accumulator[i] = Convolution!Product(contract, cell, Convolution!TapAt(contract, i))

ValuesInv ==
    \A c \in OutputCells(contract) :
        output[OutputIndex(contract, c)] # <<>> =>
            output[OutputIndex(contract, c)] = Convolution!CrossCorrelation(contract, c)

RInv == IInv /\ ReductionInv /\ ValuesInv

LEMMA InitRInv == Init => RInv
<1> SUFFICES ASSUME Init PROVE RInv
  OBVIOUS
<1>1. IInv /\ ValidGeometry(contract)
  BY InitIInv, ContractValid DEF IInv
<1>2. TapIndex(contract, tap) = 0
  BY <1>1, FirstTapIndex DEF Init
<1>3. 0 <= contract.c * contract.kh * contract.kw
  BY <1>1, GeometryFacts DEF Positive
<1>4. ReductionInv
  BY <1>2, <1>3 DEF Init, ReductionInv
<1>5. ValuesInv
  BY <1>1, OutputCellFacts DEF Init, ValuesInv
<1> QED BY <1>1, <1>4, <1>5 DEF RInv

(* The reduction loops append the product of the next tap. *)
LEMMA AccumulateReduction ==
    ASSUME RInv, Accumulate
    PROVE  ReductionInv'
<1> DEFINE i0 == TapIndex(contract, tap)
           x  == Term(contract, cell, tap)
<1>1. /\ ValidGeometry(contract)
      /\ cell \in CellType(contract) /\ cell.n < contract.n
      /\ tap \in TapType(contract) /\ tap.ic < contract.c
      /\ accumulator \in Seq(Products)
  BY ContractValid DEF RInv, IInv, TypeOK, Accumulate, CellsLeft, TapsLeft
<1>2. /\ i0 \in 0 .. contract.c * contract.kh * contract.kw - 1
      /\ Convolution!TapAt(contract, i0 + 1) = tap
      /\ TapIndex(contract, NextTap(contract, tap)) = i0 + 1
  BY <1>1, TapAtIndex, NextTapIndex
<1>3. x = Convolution!Product(contract, cell, tap) /\ x \in Products
  BY <1>1, TermIsProduct, TermType
<1>4. contract.c * contract.kh * contract.kw \in Nat
  BY <1>1, GeometryFacts DEF Positive
<1>5. accumulator' = Append(accumulator, x) /\ tap' = NextTap(contract, tap)
      /\ contract' = contract /\ cell' = cell
  BY DEF Accumulate
<1>6. Len(accumulator) = i0
      /\ \A i \in 1 .. i0 :
           accumulator[i] = Convolution!Product(contract, cell, Convolution!TapAt(contract, i))
  BY DEF RInv, ReductionInv
<1> HIDE DEF i0, x
<1>7. /\ Len(accumulator') = i0 + 1
      /\ accumulator'[i0 + 1] = x
      /\ \A i \in 1 .. i0 : accumulator'[i] = accumulator[i]
  BY <1>1, <1>2, <1>3, <1>5, <1>6
<1>8. TapIndex(contract', tap') = i0 + 1
  BY <1>2, <1>5
<1>9. i0 + 1 <= contract.c * contract.kh * contract.kw
  BY <1>2, <1>4
<1>10. ASSUME NEW i \in 1 .. i0 + 1
       PROVE  accumulator'[i] = Convolution!Product(contract, cell, Convolution!TapAt(contract, i))
  <2>1. CASE i = i0 + 1
    BY <1>2, <1>3, <1>7, <2>1
  <2>2. CASE i # i0 + 1
    <3>1. i \in 1 .. i0
      BY <1>2, <2>2
    <3> QED BY <1>6, <1>7, <3>1
  <2> QED BY <2>1, <2>2
<1> QED BY <1>5, <1>7, <1>8, <1>9, <1>10 DEF ReductionInv

(* Exhausted reduction loops have accumulated the whole cross-correlation. *)
LEMMA StoredValue ==
    ASSUME RInv, Store
    PROVE  accumulator = Convolution!CrossCorrelation(contract, cell)
<1> DEFINE K == contract.c * contract.kh * contract.kw
<1>1. /\ ValidGeometry(contract) /\ tap \in TapType(contract) /\ ~(tap.ic < contract.c)
      /\ accumulator \in Seq(Products)
  BY ContractValid DEF RInv, IInv, TypeOK, Store, TapsLeft
<1>2. K \in Nat
  BY <1>1, GeometryFacts DEF Positive
<1>3. K <= TapIndex(contract, tap) /\ TapIndex(contract, tap) \in Nat
  BY <1>1, ExhaustedTaps
<1>4. Len(accumulator) = TapIndex(contract, tap) /\ TapIndex(contract, tap) <= K
  BY DEF RInv, ReductionInv
<1>5. \A i \in 1 .. Len(accumulator) :
        accumulator[i] = Convolution!Product(contract, cell, Convolution!TapAt(contract, i))
  BY DEF RInv, ReductionInv
<1>6. Convolution!CrossCorrelation(contract, cell) =
        [i \in 1 .. K |-> Convolution!Product(contract, cell, Convolution!TapAt(contract, i))]
  BY DEF Convolution!CrossCorrelation
<1> HIDE DEF K
<1>7. Len(accumulator) = K
  BY <1>2, <1>3, <1>4
<1>8. accumulator = [i \in 1 .. Len(accumulator) |-> accumulator[i]]
  BY <1>1
<1> QED BY <1>5, <1>6, <1>7, <1>8

(* Store assigns the current cell and no other. *)
LEMMA StoreOutput ==
    ASSUME RInv, Store
    PROVE  /\ cell \in OutputCells(contract)
           /\ output[OutputIndex(contract, cell)] = <<>>
           /\ \A c \in OutputCells(contract) :
                 output'[OutputIndex(contract, c)] =
                     IF c = cell THEN Convolution!CrossCorrelation(contract, cell)
                     ELSE output[OutputIndex(contract, c)]
<1> DEFINE p == OutputIndex(contract, cell)
<1>1. /\ ValidGeometry(contract) /\ cell \in CellType(contract) /\ cell.n < contract.n
      /\ DOMAIN output = 0 .. OutputElements(contract) - 1
  BY ContractValid DEF RInv, IInv, TypeOK, Store, CellsLeft
<1>2. cell \in OutputCells(contract)
  <2>1. contract.n \in Nat
    BY <1>1, GeometryFacts DEF Positive
  <2> QED BY <1>1, <2>1 DEF CellType, OutputCells
<1>3. p \in DOMAIN output
  BY <1>1, <1>2, OutputCellFacts
<1>4. output[p] = <<>>
  <2>1. p \in Int /\ ((output[p] # <<>>) <=> (p < p))
    BY <1>1, <1>3 DEF RInv, IInv, OutputFillsInOrder
  <2> QED BY <2>1
<1>5. output' = [output EXCEPT ![p] = Convolution!CrossCorrelation(contract, cell)]
  BY StoredValue DEF Store
<1>6. ASSUME NEW c \in OutputCells(contract)
      PROVE  /\ OutputIndex(contract, c) \in DOMAIN output
             /\ OutputIndex(contract, c) = p => c = cell
  BY <1>1, <1>2, OutputCellFacts, OutputIndexInjective
<1> QED BY <1>2, <1>3, <1>4, <1>5, <1>6

LEMMA NextRInv == RInv /\ [Next]_vars => RInv'
<1> SUFFICES ASSUME RInv, [Next]_vars PROVE RInv'
  OBVIOUS
<1>1. IInv' /\ ValidGeometry(contract)
  BY NextIInv, ContractValid DEF RInv, IInv
<1>2. CASE Accumulate
  <2>1. ValuesInv'
    BY <1>2 DEF Accumulate, RInv, ValuesInv
  <2> QED BY <1>1, <1>2, <2>1, AccumulateReduction DEF RInv
<1>3. CASE Store
  <2>1. TapIndex(contract', tap') = 0
    BY <1>1, <1>3, FirstTapIndex DEF Store
  <2>2. 0 <= contract'.c * contract'.kh * contract'.kw
    BY <1>1, <1>3, GeometryFacts DEF Store, Positive
  <2>3. ReductionInv'
    BY <1>3, <2>1, <2>2 DEF Store, ReductionInv
  <2>4. ValuesInv'
    BY <1>3, StoreOutput DEF RInv, ValuesInv, Store
  <2> QED BY <1>1, <2>3, <2>4 DEF RInv
<1>4. CASE Raise \/ Start \/ Return \/ UNCHANGED vars
  <2>1. UNCHANGED <<contract, cell, tap, accumulator, output>>
    BY <1>4 DEF Raise, Start, Return, vars
  <2> QED BY <1>1, <2>1 DEF RInv, ReductionInv, ValuesInv
<1> QED BY <1>2, <1>3, <1>4 DEF Next

-----------------------------------------------------------------------------
(* The refinement *)

LEMMA InitRefines == Init => Convolution!SpecInit
<1> SUFFICES ASSUME Init PROVE Convolution!SpecInit
  OBVIOUS
<1>1. ValidGeometry(contract)
  BY ContractsAssumption DEF Init
<1>2. Convolution!ValidGeometry(contract)
  BY <1>1, SameValidity
<1>3. [c \in OutputCells(contract) |-> output[OutputIndex(contract, c)]]
        = [c \in Convolution!Cells(contract) |-> <<>>]
  BY <1>1, SameCells, OutputCellFacts DEF Init
<1>4. LengthsMatch \in BOOLEAN
  BY DEF LengthsMatch
<1> QED BY <1>2, <1>3, <1>4 DEF Init, Convolution!SpecInit

LEMMA StepRefines == RInv /\ [Next]_vars => [Convolution!SpecNext]_(Convolution!specVars)
<1> SUFFICES ASSUME RInv, [Next]_vars
             PROVE  [Convolution!SpecNext]_(Convolution!specVars)
  OBVIOUS
<1>1. CASE Raise
  <2>1. Convolution!SpecRaise
    BY <1>1 DEF Raise, Convolution!SpecRaise, LengthsMatch
  <2> QED BY <2>1 DEF Convolution!SpecNext
<1>2. CASE Start \/ Accumulate \/ UNCHANGED vars
  <2>1. UNCHANGED Convolution!specVars
    BY <1>2 DEF Start, Accumulate, vars, Convolution!specVars, LengthsMatch
  <2> QED BY <2>1
<1>3. CASE Store
  <2> DEFINE Y == [c \in OutputCells(contract) |-> output[OutputIndex(contract, c)]]
  <2>1. /\ cell \in OutputCells(contract)
        /\ output[OutputIndex(contract, cell)] = <<>>
        /\ \A c \in OutputCells(contract) :
              output'[OutputIndex(contract, c)] =
                  IF c = cell THEN Convolution!CrossCorrelation(contract, cell)
                  ELSE output[OutputIndex(contract, c)]
    BY <1>3, StoreOutput
  <2>2. UNCHANGED <<contract, inputLen, filterLen, pc>> /\ pc = "running" /\ LengthsMatch
    BY <1>3 DEF Store, RInv, IInv
  <2>3. Y' = [Y EXCEPT ![cell] = Convolution!CrossCorrelation(contract, cell)]
    BY <2>1, <2>2
  <2>4. cell \in Convolution!Cells(contract) /\ Y[cell] = <<>>
    BY <2>1, SameCells
  <2>5. LengthsMatch'
    BY <2>2 DEF LengthsMatch
  <2>6. Convolution!SpecCompute
    BY <2>2, <2>3, <2>4, <2>5 DEF Convolution!SpecCompute
  <2> QED BY <2>6 DEF Convolution!SpecNext
<1>4. CASE Return
  <2>1. UNCHANGED <<contract, inputLen, filterLen, output>> /\ pc = "running" /\ LengthsMatch
        /\ pc' = "returned"
    BY <1>4 DEF Return, RInv, IInv
  <2>2. ASSUME NEW c \in OutputCells(contract)
        PROVE  output[OutputIndex(contract, c)] = Convolution!CrossCorrelation(contract, c)
    <3>1. /\ ValidGeometry(contract) /\ cell \in CellType(contract) /\ ~(cell.n < contract.n)
          /\ DOMAIN output = 0 .. OutputElements(contract) - 1
      BY <1>4, ContractValid DEF RInv, IInv, TypeOK, Return, CellsLeft
    <3>2. OutputIndex(contract, c) \in 0 .. OutputElements(contract) - 1
      BY <3>1, OutputCellFacts
    <3>3. OutputIndex(contract, cell) >= OutputElements(contract) /\ OutputIndex(contract, cell) \in Nat
      BY <3>1, ExhaustedIndex
    <3>4. OutputElements(contract) \in Int
      BY <3>1, GeometryFacts DEF OutputElements, Positive
    <3>5. OutputIndex(contract, c) < OutputIndex(contract, cell)
      BY <3>2, <3>3, <3>4
    <3>6. output[OutputIndex(contract, c)] # <<>>
      BY <3>1, <3>2, <3>5 DEF RInv, IInv, OutputFillsInOrder
    <3> QED BY <3>6 DEF RInv, ValuesInv
  <2>3. LengthsMatch'
    BY <2>1 DEF LengthsMatch
  <2>4. Convolution!SpecReturn
    BY <2>1, <2>2, <2>3, SameCells DEF Convolution!SpecReturn
  <2> QED BY <2>4 DEF Convolution!SpecNext
<1> QED BY <1>1, <1>2, <1>3, <1>4 DEF Next

(* For every valid contract and every call, direct_conv2d refuses exactly    *)
(* the buffers that do not fit, and otherwise returns the ordered            *)
(* cross-correlation with zero padding (reference.py 16-63).                 *)
THEOREM ImplementsConv == Spec => ImplementsConvolution
<1>1. Init => RInv
  BY InitRInv
<1>2. RInv /\ [Next]_vars => RInv'
  BY NextRInv
<1>3. Init => Convolution!SpecInit
  BY InitRefines
<1>4. RInv /\ [Next]_vars => [Convolution!SpecNext]_(Convolution!specVars)
  BY StepRefines
<1> QED BY <1>1, <1>2, <1>3, <1>4, PTL DEF Spec, ImplementsConvolution, Convolution!SafeSpec
=============================================================================
