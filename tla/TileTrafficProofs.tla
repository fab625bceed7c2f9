------------------------- MODULE TileTrafficProofs -------------------------
(***************************************************************************)
(* Proofs about TileTraffic, for every set of contracts, targets and        *)
(* candidates: the tile loops stay in their grid; every tile they price     *)
(* fits the working set the legality check was done with; the tiles         *)
(* partition the output, and what is added for them bounds what they read;  *)
(* and counting them with a rounded quotient loses none.                    *)
(***************************************************************************)
EXTENDS TileTraffic, Recursion, FiniteSetTheorems

-----------------------------------------------------------------------------
(* Arithmetic *)

(* A product grows with its factors. *)
LEMMA ProductMonotone ==
    ASSUME NEW a \in Nat, NEW b \in Nat, NEW c \in Nat, NEW d \in Nat, a <= c, b <= d
    PROVE  a * b <= c * d
<1>1. a * b <= c * b
  OBVIOUS
<1>2. c * b <= c * d
  OBVIOUS
<1> QED BY <1>1, <1>2

(* A product of positive factors is positive. *)
LEMMA ProductPositive ==
    ASSUME NEW a \in Positive, NEW b \in Positive
    PROVE  a * b \in Positive
BY DEF Positive

(* Every tile of the grid of ceil-many tiles holds at least one cell, and no *)
(* more than the tile size and the dimension allow.                          *)
LEMMA ClippedRange ==
    ASSUME NEW size \in Positive, NEW dim \in Positive, NEW i \in 0 .. CeilDiv(dim, size) - 1
    PROVE  Clipped(size, dim, i) \in 1 .. MinOf(size, dim)
<1> USE DEF Positive
<1>1. i \in Nat /\ i + 1 <= (dim + size - 1) \div size
  BY DEF CeilDiv
<1>2. ((dim + size - 1) \div size) * size <= dim + size - 1
  OBVIOUS
<1>3. (i + 1) * size <= ((dim + size - 1) \div size) * size
  <2>1. (i + 1) \in Nat /\ ((dim + size - 1) \div size) \in Nat
    BY <1>1
  <2> QED BY <1>1, <2>1, ProductMonotone
<1>4. (i + 1) * size = i * size + size
  BY <1>1
<1>5. i * size \in Nat
  BY <1>1
<1> QED BY <1>1, <1>2, <1>3, <1>4, <1>5 DEF Clipped, MinOf

(* The input rows under oh output rows grow with oh. *)
LEMMA WindowMonotone ==
    ASSUME NEW a \in Positive, NEW b \in Positive, a <= b, NEW s \in Positive, NEW k \in Positive
    PROVE  /\ (a - 1) * s + k \in Positive
           /\ (b - 1) * s + k \in Positive
           /\ (a - 1) * s + k <= (b - 1) * s + k
<1> USE DEF Positive
<1>1. (a - 1) * s <= (b - 1) * s
  BY ProductMonotone
<1>2. (a - 1) * s \in Nat /\ (b - 1) * s \in Nat
  OBVIOUS
<1> QED BY <1>1, <1>2

(* A product of three positive factors, in bytes, grows with each of them. *)
LEMMA BytesMonotone ==
    ASSUME NEW a \in Positive, NEW b \in Positive, NEW c \in Positive,
           NEW d \in Positive, NEW e \in Positive, NEW f \in Positive,
           a <= d, b <= e, c <= f
    PROVE  a * b * c * F32Bytes \in 1 .. d * e * f * F32Bytes
<1>1. a * b \in Positive /\ d * e \in Positive /\ a * b <= d * e
  BY ProductPositive, ProductMonotone DEF Positive
<1>2. (a * b) * c \in Positive /\ (d * e) * f \in Positive /\ (a * b) * c <= (d * e) * f
  <2>1. (a * b) * c <= (d * e) * f
    <3> DEFINE x == a * b
               y == d * e
    <3>1. x \in Nat /\ y \in Nat /\ x <= y
      BY <1>1 DEF Positive
    <3> HIDE DEF x, y
    <3>2. x * c <= y * f
      BY <3>1, ProductMonotone DEF Positive
    <3> QED BY <3>2 DEF x, y
  <2> QED BY <1>1, <2>1, ProductPositive
<1> QED BY <1>2 DEF F32Bytes, Positive

-----------------------------------------------------------------------------
(* Tiles *)

(* The output extents of a valid geometry are positive. *)
LEMMA ExtentsPositive ==
    ASSUME NEW g, ValidGeometry(g)
    PROVE  /\ g.c \in Positive /\ g.oc \in Positive /\ g.n \in Positive
           /\ g.kh \in Positive /\ g.kw \in Positive /\ g.sh \in Positive /\ g.sw \in Positive
           /\ OutH(g) \in Positive /\ OutW(g) \in Positive
<1>1. g \in Geometry /\ OutH(g) > 0 /\ OutW(g) > 0
  BY DEF ValidGeometry
<1>2. /\ g.c \in Positive /\ g.oc \in Positive /\ g.n \in Positive
      /\ g.kh \in Positive /\ g.kw \in Positive /\ g.sh \in Positive /\ g.sw \in Positive
      /\ g.h \in Positive /\ g.w \in Positive
      /\ g.pt \in Nat /\ g.pb \in Nat /\ g.pl \in Nat /\ g.pr \in Nat
  BY <1>1 DEF Geometry
<1>3. OutH(g) \in Int /\ OutW(g) \in Int
  BY <1>2 DEF OutH, OutW, FloorExtent, EffectiveKernel, Positive
<1> QED BY <1>1, <1>2, <1>3 DEF Positive

(* Every tile of the grid has at least one cell and at most the clipped tile *)
(* of the working set.                                                       *)
LEMMA ActualRange ==
    ASSUME NEW g, ValidGeometry(g), NEW tiles, TilesValid(tiles),
           NEW x \in TileType(g, tiles)
    PROVE  /\ ActualOC(g, tiles, x) \in 1 .. MinOf(tiles.oc, g.oc)
           /\ ActualOH(g, tiles, x) \in 1 .. MinOf(tiles.oh, OutH(g))
           /\ ActualOW(g, tiles, x) \in 1 .. MinOf(tiles.ow, OutW(g))
           /\ MinOf(tiles.oc, g.oc) \in Positive
           /\ MinOf(tiles.oh, OutH(g)) \in Positive
           /\ MinOf(tiles.ow, OutW(g)) \in Positive
<1>1. g.oc \in Positive /\ OutH(g) \in Positive /\ OutW(g) \in Positive
  BY ExtentsPositive
<1>2. tiles.oc \in Positive /\ tiles.oh \in Positive /\ tiles.ow \in Positive
  BY DEF TilesValid, TileAxes
<1>3. /\ x.oc \in 0 .. CeilDiv(g.oc, tiles.oc) - 1
      /\ x.oh \in 0 .. CeilDiv(OutH(g), tiles.oh) - 1
      /\ x.ow \in 0 .. CeilDiv(OutW(g), tiles.ow) - 1
  BY DEF TileType, TilesOC, TilesOH, TilesOW
<1>4. /\ ActualOC(g, tiles, x) \in 1 .. MinOf(tiles.oc, g.oc)
      /\ ActualOH(g, tiles, x) \in 1 .. MinOf(tiles.oh, OutH(g))
      /\ ActualOW(g, tiles, x) \in 1 .. MinOf(tiles.ow, OutW(g))
  BY <1>1, <1>2, <1>3, ClippedRange DEF ActualOC, ActualOH, ActualOW
<1>5. /\ MinOf(tiles.oc, g.oc) \in Positive
      /\ MinOf(tiles.oh, OutH(g)) \in Positive
      /\ MinOf(tiles.ow, OutW(g)) \in Positive
  BY <1>1, <1>2 DEF MinOf
<1> QED BY <1>4, <1>5

(* The estimator's tile is never larger than the legality check's, tensor by *)
(* tensor.                                                                   *)
LEMMA TileWithinWorkingSet ==
    ASSUME NEW g, ValidGeometry(g), NEW tiles, TilesValid(tiles),
           NEW x \in TileType(g, tiles)
    PROVE  \A tensor \in Tensors :
               BytesOf(g, tiles, x)[tensor] \in 1 .. WorkingSet(g, tiles)[tensor]
<1> DEFINE oc == ActualOC(g, tiles, x)
           oh == ActualOH(g, tiles, x)
           ow == ActualOW(g, tiles, x)
           ocMax == MinOf(tiles.oc, g.oc)
           ohMax == MinOf(tiles.oh, OutH(g))
           owMax == MinOf(tiles.ow, OutW(g))
           u == (oh - 1) * g.sh + g.kh
           v == (ow - 1) * g.sw + g.kw
           uMax == (ohMax - 1) * g.sh + g.kh
           vMax == (owMax - 1) * g.sw + g.kw
<1>1. /\ oc \in Positive /\ oh \in Positive /\ ow \in Positive
      /\ ocMax \in Positive /\ ohMax \in Positive /\ owMax \in Positive
      /\ oc <= ocMax /\ oh <= ohMax /\ ow <= owMax
  <2> HIDE DEF oc, oh, ow, ocMax, ohMax, owMax
  <2>1. /\ oc \in 1 .. ocMax /\ oh \in 1 .. ohMax /\ ow \in 1 .. owMax
        /\ ocMax \in Positive /\ ohMax \in Positive /\ owMax \in Positive
    BY ActualRange DEF oc, oh, ow, ocMax, ohMax, owMax
  <2> QED BY <2>1 DEF Positive
<1>2. /\ g.c \in Positive /\ g.kh \in Positive /\ g.kw \in Positive
      /\ g.sh \in Positive /\ g.sw \in Positive
  BY ExtentsPositive
<1> HIDE DEF oc, oh, ow, ocMax, ohMax, owMax
<1>3. u \in Positive /\ uMax \in Positive /\ u <= uMax
  BY <1>1, <1>2, WindowMonotone
<1>4. v \in Positive /\ vMax \in Positive /\ v <= vMax
  BY <1>1, <1>2, WindowMonotone
<1> HIDE DEF u, v, uMax, vMax
<1>5. /\ g.c * u * v * F32Bytes \in 1 .. g.c * uMax * vMax * F32Bytes
      /\ oc * oh * ow * F32Bytes \in 1 .. ocMax * ohMax * owMax * F32Bytes
  <2> DEFINE c == g.c
  <2>1. c \in Positive /\ c <= c
    BY <1>2 DEF Positive
  <2> HIDE DEF c
  <2>2. c * u * v * F32Bytes \in 1 .. c * uMax * vMax * F32Bytes
    BY <2>1, <1>3, <1>4, BytesMonotone
  <2>3. oc * oh * ow * F32Bytes \in 1 .. ocMax * ohMax * owMax * F32Bytes
    BY <1>1, BytesMonotone
  <2> QED BY <2>2, <2>3 DEF c
<1>6. oc * g.c * g.kh * g.kw * F32Bytes \in 1 .. ocMax * g.c * g.kh * g.kw * F32Bytes
  <2> DEFINE c == g.c
             kh == g.kh
             kw == g.kw
             a == oc * c
             b == ocMax * c
  <2>1. c \in Positive /\ kh \in Positive /\ kw \in Positive /\ kh <= kh /\ kw <= kw /\ c <= c
    BY <1>2 DEF Positive
  <2> HIDE DEF c, kh, kw
  <2>2. a \in Positive /\ b \in Positive /\ a <= b
    BY <1>1, <2>1, ProductPositive, ProductMonotone DEF Positive
  <2> HIDE DEF a, b
  <2>3. a * kh * kw * F32Bytes \in 1 .. b * kh * kw * F32Bytes
    BY <2>1, <2>2, BytesMonotone
  <2> QED BY <2>3 DEF a, b, c, kh, kw
<1>7. BytesOf(g, tiles, x) = [input  |-> g.c * u * v * F32Bytes,
                              filter |-> oc * g.c * g.kh * g.kw * F32Bytes,
                              output |-> oc * oh * ow * F32Bytes]
  BY DEF BytesOf, oc, oh, ow, u, v
<1>8. WorkingSet(g, tiles) = [input  |-> g.c * uMax * vMax * F32Bytes,
                              filter |-> ocMax * g.c * g.kh * g.kw * F32Bytes,
                              output |-> ocMax * ohMax * owMax * F32Bytes]
  BY DEF WorkingSet, ocMax, ohMax, owMax, uMax, vMax
<1> QED BY <1>5, <1>6, <1>7, <1>8 DEF Tensors

(* A tile smaller than the working set uses no more of any resource, and so  *)
(* fits where the working set fits.                                          *)
LEMMA SmallerTileFits ==
    ASSUME NEW residency, NEW bytes, NEW ws, NEW id, NEW r,
           \A tensor \in Tensors : bytes[tensor] \in 1 .. ws[tensor],
           \A tensor \in Tensors : ws[tensor] \in Int,
           ResourceValid(r),
           Holds(r, Usage(residency, ws, id))
    PROVE  Holds(r, Usage(residency, bytes, id))
<1>1. \A tensor \in Tensors :
        /\ Share(residency, bytes, tensor, id) \in Nat
        /\ Share(residency, ws, tensor, id) \in Nat
        /\ Share(residency, bytes, tensor, id) <= Share(residency, ws, tensor, id)
  <2> TAKE tensor \in Tensors
  <2>1. bytes[tensor] \in Nat /\ ws[tensor] \in Nat /\ bytes[tensor] <= ws[tensor]
    OBVIOUS
  <2> QED BY <2>1 DEF Share
<1>2. /\ Usage(residency, bytes, id) \in Nat /\ Usage(residency, ws, id) \in Nat
      /\ Usage(residency, bytes, id) <= Usage(residency, ws, id)
  <2>1. "input" \in Tensors /\ "filter" \in Tensors /\ "output" \in Tensors
    BY DEF Tensors
  <2> QED BY <1>1, <2>1 DEF Usage
<1> SUFFICES ASSUME ExplicitlyManaged(r), "capacity_bytes" \in DOMAIN r
             PROVE  Usage(residency, bytes, id) <= r.capacity_bytes
  BY DEF Holds
<1>3. r.capacity_bytes \in Int
  <2>1. r.capacity_bytes \in Positive
    BY Zenon DEF ResourceValid
  <2> QED BY <2>1 DEF Positive
<1>4. Usage(residency, ws, id) <= r.capacity_bytes
  BY DEF Holds
<1> QED BY <1>2, <1>3, <1>4

(* The bytes of a working set are integers. *)
LEMMA WorkingSetType ==
    ASSUME NEW g, ValidGeometry(g), NEW tiles, TilesValid(tiles)
    PROVE  \A tensor \in Tensors : WorkingSet(g, tiles)[tensor] \in Int
<1>1. /\ g.c \in Int /\ g.kh \in Int /\ g.kw \in Int /\ g.sh \in Int /\ g.sw \in Int
      /\ g.oc \in Int /\ OutH(g) \in Int /\ OutW(g) \in Int
  BY ExtentsPositive DEF Positive
<1>2. tiles.oc \in Int /\ tiles.oh \in Int /\ tiles.ow \in Int
  BY DEF TilesValid, TileAxes, Positive
<1>3. /\ MinOf(tiles.oc, g.oc) \in Int
      /\ MinOf(tiles.oh, OutH(g)) \in Int /\ MinOf(tiles.ow, OutW(g)) \in Int
  BY <1>1, <1>2 DEF MinOf
<1> DEFINE oc == MinOf(tiles.oc, g.oc)
           oh == MinOf(tiles.oh, OutH(g))
           ow == MinOf(tiles.ow, OutW(g))
           u == (oh - 1) * g.sh + g.kh
           v == (ow - 1) * g.sw + g.kw
<1>4. oc \in Int /\ oh \in Int /\ ow \in Int
  BY <1>3
<1> HIDE DEF oc, oh, ow
<1>5. u \in Int /\ v \in Int
  BY <1>1, <1>4
<1> HIDE DEF u, v
<1>6. WorkingSet(g, tiles) = [input  |-> g.c * u * v * F32Bytes,
                              filter |-> oc * g.c * g.kh * g.kw * F32Bytes,
                              output |-> oc * oh * ow * F32Bytes]
  BY DEF WorkingSet, oc, oh, ow, u, v
<1>7. /\ g.c * u * v * F32Bytes \in Int
      /\ oc * g.c * g.kh * g.kw * F32Bytes \in Int
      /\ oc * oh * ow * F32Bytes \in Int
  BY <1>1, <1>4, <1>5 DEF F32Bytes
<1> QED BY <1>6, <1>7 DEF Tensors

-----------------------------------------------------------------------------
(* The loops *)

(* The first tile is in the grid, and the loops never leave it. *)
LEMMA GridNonempty ==
    ASSUME NEW size \in Positive, NEW dim \in Positive
    PROVE  CeilDiv(dim, size) \in Positive
BY DEF CeilDiv, Positive

LEMMA FirstTileInGrid ==
    ASSUME NEW g, ValidGeometry(g), NEW tiles, TilesValid(tiles)
    PROVE  FirstTile \in TileType(g, tiles)
<1>1. /\ g.n \in Positive /\ g.oc \in Positive /\ OutH(g) \in Positive /\ OutW(g) \in Positive
  BY ExtentsPositive
<1>2. tiles.oc \in Positive /\ tiles.oh \in Positive /\ tiles.ow \in Positive
  BY DEF TilesValid, TileAxes
<1>3. TilesOC(g, tiles) \in Positive /\ TilesOH(g, tiles) \in Positive /\ TilesOW(g, tiles) \in Positive
  BY <1>1, <1>2, GridNonempty DEF TilesOC, TilesOH, TilesOW
<1> QED BY <1>1, <1>3 DEF FirstTile, TileType, Positive

LEMMA NextTileInGrid ==
    ASSUME NEW g, ValidGeometry(g), NEW tiles, TilesValid(tiles),
           NEW x \in TileType(g, tiles), x.n < g.n
    PROVE  NextTile(g, tiles, x) \in TileType(g, tiles)
<1>1. /\ g.n \in Positive /\ g.oc \in Positive /\ OutH(g) \in Positive /\ OutW(g) \in Positive
  BY ExtentsPositive
<1>2. tiles.oc \in Positive /\ tiles.oh \in Positive /\ tiles.ow \in Positive
  BY DEF TilesValid, TileAxes
<1>3. TilesOC(g, tiles) \in Positive /\ TilesOH(g, tiles) \in Positive /\ TilesOW(g, tiles) \in Positive
  BY <1>1, <1>2, GridNonempty DEF TilesOC, TilesOH, TilesOW
<1> DEFINE a == TilesOC(g, tiles)
           b == TilesOH(g, tiles)
           c == TilesOW(g, tiles)
<1>4. x.n \in Nat /\ x.oc \in Nat /\ x.oh \in Nat /\ x.ow \in Nat
  BY DEF TileType
<1> QED BY <1>1, <1>3, <1>4 DEF NextTile, TileType, Positive

-----------------------------------------------------------------------------
(* The inductive invariant: TypeOK; the loops start at the first tile; and   *)
(* they run only for a candidate that validate accepted.                     *)
IInv ==
    /\ TypeOK
    /\ pc = "called" => tile = FirstTile
    /\ pc = "visiting" => CandidateValid(candidate, contract, target)

LEMMA ArgumentsValid ==
    ASSUME TypeOK
    PROVE  /\ ValidGeometry(contract)
           /\ TargetValid(target)
           /\ CandidateValid(candidate, contract, target) => TilesValid(candidate.tiles)
<1>1. ValidGeometry(contract) /\ TargetValid(target)
  BY ContractsAssumption, TargetsAssumption DEF TypeOK
<1>2. CandidateValid(candidate, contract, target) => TilesValid(candidate.tiles)
  BY DEF CandidateValid, ScheduleLegal
<1> QED BY <1>1, <1>2

LEMMA InitIInv == Init => IInv
BY DEF Init, IInv, TypeOK, Tensors

LEMMA NextIInv == IInv /\ [Next]_vars => IInv'
<1> SUFFICES ASSUME IInv, [Next]_vars PROVE IInv'
  OBVIOUS
<1> USE DEF IInv
<1>1. CASE Raise
  BY <1>1 DEF Raise, TypeOK, args
<1>2. CASE Start
  <2>1. FirstTile \in TileType(contract, candidate.tiles)
    BY <1>2, ArgumentsValid, FirstTileInGrid DEF Start
  <2> QED BY <1>2, <2>1 DEF Start, TypeOK, args
<1>3. CASE VisitTile
  <2>1. ValidGeometry(contract) /\ TilesValid(candidate.tiles)
    BY <1>3, ArgumentsValid DEF VisitTile
  <2>2. tile \in TileType(contract, candidate.tiles) /\ tile.n < contract.n
    BY <1>3 DEF VisitTile, TilesLeft, TypeOK
  <2>3. tile' \in TileType(contract, candidate.tiles)
    BY <1>3, <2>1, <2>2, NextTileInGrid DEF VisitTile
  <2>4. \A tensor \in Tensors : BytesOf(contract, candidate.tiles, tile)[tensor] \in Nat
    BY <2>1, <2>2, TileWithinWorkingSet
  <2>5. traffic' \in [Tensors -> Nat]
    BY <1>3, <2>4 DEF VisitTile, TypeOK
  <2>6. visited' \subseteq TileType(contract, candidate.tiles)
    BY <1>3, <2>2 DEF VisitTile, TypeOK
  <2> QED BY <1>3, <2>3, <2>5, <2>6 DEF VisitTile, TypeOK, args
<1>4. CASE Finish
  BY <1>4 DEF Finish, TypeOK, args
<1>5. CASE UNCHANGED vars
  BY <1>5 DEF vars, TypeOK
<1> QED BY <1>1, <1>2, <1>3, <1>4, <1>5 DEF Next

LEMMA IInvFits == IInv => EveryTileFits
<1> SUFFICES ASSUME IInv, pc = "visiting", TilesLeft
             PROVE  LET bytes == BytesOf(contract, candidate.tiles, tile)
                    IN  /\ \A tensor \in Tensors :
                               bytes[tensor] \in 1 .. WorkingSet(contract, candidate.tiles)[tensor]
                        /\ \A id \in DOMAIN target.resources :
                               Holds(target.resources[id], Usage(candidate.memory_residency, bytes, id))
  BY DEF EveryTileFits
<1> DEFINE bytes == BytesOf(contract, candidate.tiles, tile)
           ws    == WorkingSet(contract, candidate.tiles)
<1>1. /\ ValidGeometry(contract) /\ TargetValid(target)
      /\ TilesValid(candidate.tiles)
      /\ FitsCapacity(candidate, contract, target)
  BY ArgumentsValid DEF IInv, CandidateValid
<1>2. tile \in TileType(contract, candidate.tiles)
  BY DEF IInv, TypeOK
<1>3. \A tensor \in Tensors : bytes[tensor] \in 1 .. ws[tensor]
  BY <1>1, <1>2, TileWithinWorkingSet
<1>4. \A tensor \in Tensors : ws[tensor] \in Int
  BY <1>1, WorkingSetType
<1>5. \A id \in DOMAIN target.resources :
        /\ ResourceValid(target.resources[id])
        /\ Holds(target.resources[id], Usage(candidate.memory_residency, ws, id))
  BY <1>1 DEF TargetValid, FitsCapacity
<1> HIDE DEF bytes, ws
<1>6. ASSUME NEW id \in DOMAIN target.resources
      PROVE  Holds(target.resources[id], Usage(candidate.memory_residency, bytes, id))
  BY <1>3, <1>4, <1>5, SmallerTileFits
<1> QED BY <1>3, <1>6 DEF bytes, ws

-----------------------------------------------------------------------------
(* Counting: the loops number the tiles in row-major order, without a gap. *)

TileIndex(g, tiles, x) ==
    ((x.n * TilesOC(g, tiles) + x.oc) * TilesOH(g, tiles) + x.oh) * TilesOW(g, tiles) + x.ow

LEMMA GridSizes ==
    ASSUME NEW g, ValidGeometry(g), NEW tiles, TilesValid(tiles)
    PROVE  /\ TilesOC(g, tiles) \in Positive /\ TilesOH(g, tiles) \in Positive
           /\ TilesOW(g, tiles) \in Positive
<1>1. g.oc \in Positive /\ OutH(g) \in Positive /\ OutW(g) \in Positive
  BY ExtentsPositive
<1>2. tiles.oc \in Positive /\ tiles.oh \in Positive /\ tiles.ow \in Positive
  BY DEF TilesValid, TileAxes
<1> QED BY <1>1, <1>2, GridNonempty DEF TilesOC, TilesOH, TilesOW

(* The last index of a dimension, plus one, is the first of the next. *)
LEMMA Carry ==
    \A a \in Nat, d \in Nat, i \in Nat : i + 1 = d => (a + 1) * d = a * d + i + 1
OBVIOUS

LEMMA NextTileIndex ==
    ASSUME NEW g, ValidGeometry(g), NEW tiles, TilesValid(tiles),
           NEW x \in TileType(g, tiles)
    PROVE  /\ TileIndex(g, tiles, x) \in Nat
           /\ TileIndex(g, tiles, NextTile(g, tiles, x)) = TileIndex(g, tiles, x) + 1
<1> DEFINE A == TilesOC(g, tiles)
           B == TilesOH(g, tiles)
           C == TilesOW(g, tiles)
           n0 == x.n
           c0 == x.oc
           r0 == x.oh
           w0 == x.ow
           a == n0 * A + c0
           b == a * B + r0
<1>1. A \in Nat /\ B \in Nat /\ C \in Nat
  BY GridSizes DEF Positive
<1>2. n0 \in Nat /\ c0 \in 0 .. A - 1 /\ r0 \in 0 .. B - 1 /\ w0 \in 0 .. C - 1
  BY DEF TileType
<1>3. TileIndex(g, tiles, x) = b * C + w0
  BY DEF TileIndex
<1>4. TileIndex(g, tiles, NextTile(g, tiles, x)) =
        IF w0 + 1 < C THEN b * C + (w0 + 1)
        ELSE IF r0 + 1 < B THEN (a * B + (r0 + 1)) * C + 0
        ELSE IF c0 + 1 < A THEN ((n0 * A + (c0 + 1)) * B + 0) * C + 0
        ELSE (((n0 + 1) * A + 0) * B + 0) * C + 0
  BY DEF TileIndex, NextTile
<1> HIDE DEF A, B, C, n0, c0, r0, w0
<1>5. a \in Nat
  BY <1>1, <1>2
<1>6. ~(c0 + 1 < A) => (n0 + 1) * A + 0 = a + 1
  BY <1>1, <1>2, Carry
<1>7. n0 * A + (c0 + 1) = a + 1
  BY <1>1, <1>2
<1> HIDE DEF a
<1>8. b \in Nat
  BY <1>1, <1>2, <1>5
<1>9. a * B + (r0 + 1) = b + 1
  BY <1>1, <1>2, <1>5
<1>10. ~(r0 + 1 < B) => (a + 1) * B + 0 = b + 1
  BY <1>1, <1>2, <1>5, Carry
<1> HIDE DEF b
<1>11. b * C + (w0 + 1) = (b * C + w0) + 1 /\ b * C + w0 \in Nat
  BY <1>1, <1>2, <1>8
<1>12. ~(w0 + 1 < C) => (b + 1) * C + 0 = (b * C + w0) + 1
  BY <1>1, <1>2, <1>8, Carry
<1> QED BY <1>1, <1>2, <1>3, <1>4, <1>6, <1>7, <1>9, <1>10, <1>11, <1>12

(* After the last tile all inner indices are zero, and every tile is counted. *)
LEMMA CountedIndex ==
    ASSUME NEW g, ValidGeometry(g), NEW tiles, TilesValid(tiles), NEW x \in TileType(g, tiles),
           x.oc = 0, x.oh = 0, x.ow = 0
    PROVE  /\ x.n = 0 => TileIndex(g, tiles, x) = 0
           /\ x.n = g.n => TileIndex(g, tiles, x) = TileCount(g, tiles)
<1> DEFINE A == TilesOC(g, tiles)
           B == TilesOH(g, tiles)
           C == TilesOW(g, tiles)
           n == x.n
<1>1. A \in Nat /\ B \in Nat /\ C \in Nat /\ n \in Nat
  BY GridSizes DEF Positive, TileType
<1>2. TileIndex(g, tiles, x) = ((n * A + 0) * B + 0) * C + 0
  BY DEF TileIndex
<1>3. x.n = g.n => TileCount(g, tiles) = n * A * B * C
  BY DEF TileCount
<1> HIDE DEF A, B, C, n
<1>4. n * A \in Nat /\ n * A * B \in Nat /\ n * A * B * C \in Nat
  BY <1>1
<1>5. ((n * A + 0) * B + 0) * C + 0 = n * A * B * C
  BY <1>1, <1>4
<1>6. n = 0 => n * A * B * C = 0
  BY <1>1
<1> QED BY <1>2, <1>3, <1>5, <1>6 DEF n

(* What visited holds: the tiles numbered below the current one. *)
VInv ==
    /\ IsFiniteSet(visited)
    /\ pc \in {"called", "raised"} => visited = {}
    /\ pc = "visiting" =>
          /\ \A x \in visited : TileIndex(contract, candidate.tiles, x)
                                   < TileIndex(contract, candidate.tiles, tile)
          /\ Cardinality(visited) = TileIndex(contract, candidate.tiles, tile)
          /\ tile.n = contract.n => tile.oc = 0 /\ tile.oh = 0 /\ tile.ow = 0
    /\ OverheadPerVisit

LEMMA InitVInv == Init => VInv
BY FS_EmptySet DEF Init, VInv, OverheadPerVisit

LEMMA NextVInv == IInv /\ VInv /\ [Next]_vars => VInv'
<1> SUFFICES ASSUME IInv, VInv, [Next]_vars PROVE VInv'
  OBVIOUS
<1>1. CASE Raise
  BY <1>1 DEF Raise, VInv, OverheadPerVisit, args
<1>2. CASE Start
  <2>1. ValidGeometry(contract) /\ TilesValid(candidate.tiles) /\ tile = FirstTile
    BY <1>2, ArgumentsValid DEF Start, IInv
  <2>2. tile \in TileType(contract, candidate.tiles)
    BY <2>1, FirstTileInGrid
  <2>3. TileIndex(contract, candidate.tiles, tile) = 0
    BY <2>1, <2>2, CountedIndex DEF FirstTile
  <2>4. visited = {} /\ Cardinality(visited) = 0
    BY <1>2, FS_EmptySet DEF Start, VInv
  <2>5. tile.oc = 0 /\ tile.oh = 0 /\ tile.ow = 0
    BY <2>1 DEF FirstTile
  <2> QED BY <1>2, <2>3, <2>4, <2>5 DEF Start, VInv, OverheadPerVisit, args
<1>3. CASE VisitTile
  <2> DEFINE index(x) == TileIndex(contract, candidate.tiles, x)
  <2>1. /\ ValidGeometry(contract) /\ TilesValid(candidate.tiles)
        /\ tile \in TileType(contract, candidate.tiles) /\ tile.n < contract.n
    BY <1>3, ArgumentsValid DEF VisitTile, IInv, TypeOK, TilesLeft
  <2>2. /\ contract' = contract /\ candidate' = candidate /\ pc = "visiting" /\ pc' = pc
        /\ tile' = NextTile(contract, candidate.tiles, tile) /\ visited' = visited \union {tile}
    BY <1>3 DEF VisitTile, args
  <2>3. index(tile) \in Nat /\ index(tile') = index(tile) + 1
    BY <2>1, <2>2, NextTileIndex
  <2>4. /\ \A x \in visited : index(x) < index(tile)
        /\ Cardinality(visited) = index(tile) /\ IsFiniteSet(visited)
    BY <2>2 DEF VInv
  <2>5. \A x \in visited : index(x) \in Nat
    <3>1. visited \subseteq TileType(contract, candidate.tiles)
      BY DEF IInv, TypeOK
    <3> QED BY <2>1, <3>1, NextTileIndex
  <2> HIDE DEF index
  <2>6. tile \notin visited
    BY <2>3, <2>4
  <2>7. IsFiniteSet(visited') /\ Cardinality(visited') = index(tile')
    BY <2>2, <2>3, <2>4, <2>6, FS_AddElement
  <2>8. \A x \in visited' : index(x) < index(tile')
    BY <2>2, <2>3, <2>4, <2>5
  <2>9. tile'.n = contract.n => tile'.oc = 0 /\ tile'.oh = 0 /\ tile'.ow = 0
    BY <2>1, <2>2 DEF NextTile, TileType
  <2> QED BY <2>2, <2>7, <2>8, <2>9 DEF VInv, OverheadPerVisit, index
<1>4. CASE Finish
  <2>1. /\ ValidGeometry(contract) /\ TilesValid(candidate.tiles)
        /\ tile \in TileType(contract, candidate.tiles) /\ ~(tile.n < contract.n)
    BY <1>4, ArgumentsValid DEF Finish, IInv, TypeOK, TilesLeft
  <2>2. tile.n = contract.n
    BY <2>1, ExtentsPositive DEF TileType, Positive
  <2>3. Cardinality(visited) = TileCount(contract, candidate.tiles)
    BY <1>4, <2>1, <2>2, CountedIndex DEF Finish, VInv
  <2>4. /\ estimate' = Estimate(contract, candidate, target, traffic) /\ pc' = "returned"
        /\ UNCHANGED <<contract, candidate, target, visited>>
    BY <1>4 DEF Finish, args
  <2>5. estimate'.overhead =
           Cardinality(visited) * Overhead(target) * FlopsPerCycle(target) * Bandwidth(target)
    BY <2>3, <2>4 DEF Estimate
  <2> QED BY <2>4, <2>5 DEF VInv, OverheadPerVisit
<1>5. CASE UNCHANGED vars
  BY <1>5 DEF vars, VInv, OverheadPerVisit
<1> QED BY <1>1, <1>2, <1>3, <1>4, <1>5 DEF Next

(* The indices of the tile loops stay in the grid of ceil-many tiles.        *)
(* performance.py 91-110.                                                    *)
THEOREM TypeCorrect == Spec => []TypeOK
<1>1. IInv => TypeOK
  BY DEF IInv
<1> QED BY InitIInv, NextIInv, <1>1, PTL DEF Spec

(* The estimator never prices a tile larger than the one the capacity check  *)
(* of MappingCandidate.validate admitted, whatever the contract, the profile *)
(* and the tile sizes: contracts.py 432-443 and 501-515 against              *)
(* performance.py 99-110.                                                    *)
THEOREM TilesFit == Spec => []EveryTileFits
BY InitIInv, NextIInv, IInvFits, PTL DEF Spec

(* The overhead of every estimate is one charge per tile visited: the product *)
(* of three ceilings and the batch counts the passes through the loop body.   *)
(* performance.py 91-110 and 116.                                             *)
THEOREM ChargedPerVisit == Spec => []OverheadPerVisit
<1>1. VInv => OverheadPerVisit
  BY DEF VInv
<1> QED BY InitIInv, NextIInv, InitVInv, NextVInv, <1>1, PTL DEF Spec

-----------------------------------------------------------------------------
(* Cardinalities of boxes *)

BoxOf4(N, P, Q, R) == [n : N, oc : P, oh : Q, ow : R]
BoxOf3(N, P, Q)    == [n : N, row : P, col : Q]

LEMMA BoxOfFour ==
    ASSUME NEW N, NEW P, NEW Q, NEW R,
           IsFiniteSet(N), IsFiniteSet(P), IsFiniteSet(Q), IsFiniteSet(R)
    PROVE  /\ IsFiniteSet(BoxOf4(N, P, Q, R))
           /\ Cardinality(BoxOf4(N, P, Q, R)) =
                 (Cardinality(N) * Cardinality(P)) * (Cardinality(Q) * Cardinality(R))
<1> DEFINE S == [n : N, oc : P, oh : Q, ow : R]
           T == (N \X P) \X (Q \X R)
           f == [t \in T |-> [n |-> t[1][1], oc |-> t[1][2], oh |-> t[2][1], ow |-> t[2][2]]]
<1>1. /\ IsFiniteSet(N \X P) /\ Cardinality(N \X P) = Cardinality(N) * Cardinality(P)
      /\ IsFiniteSet(Q \X R) /\ Cardinality(Q \X R) = Cardinality(Q) * Cardinality(R)
  BY FS_Product
<1>2. IsFiniteSet(T) /\ Cardinality(T) = (Cardinality(N) * Cardinality(P)) * (Cardinality(Q) * Cardinality(R))
  <2> DEFINE U == N \X P
             V == Q \X R
  <2>1. IsFiniteSet(U) /\ IsFiniteSet(V)
    BY <1>1
  <2> HIDE DEF U, V
  <2>2. IsFiniteSet(U \X V) /\ Cardinality(U \X V) = Cardinality(U) * Cardinality(V)
    BY <2>1, FS_Product
  <2> QED BY <1>1, <2>2 DEF U, V
<1>3. f \in [T -> S]
  OBVIOUS
<1>4. ASSUME NEW s \in T, NEW t \in T, f[s] = f[t] PROVE s = t
  <2> DEFINE p == f[s]
             q == f[t]
  <2>1. p.n = q.n /\ p.oc = q.oc /\ p.oh = q.oh /\ p.ow = q.ow
    BY <1>4
  <2>2. s[1][1] = t[1][1] /\ s[1][2] = t[1][2] /\ s[2][1] = t[2][1] /\ s[2][2] = t[2][2]
    BY <2>1
  <2>3. s[1] \in N \X P /\ t[1] \in N \X P /\ s[2] \in Q \X R /\ t[2] \in Q \X R
    OBVIOUS
  <2>4. s[1] = t[1] /\ s[2] = t[2]
    BY <2>2, <2>3
  <2> QED BY <2>4
<1>5. \A s \in S : \E t \in T : f[t] = s
  <2> TAKE s \in S
  <2> WITNESS <<<<s.n, s.oc>>, <<s.oh, s.ow>>>> \in T
  <2> QED OBVIOUS
<1> HIDE DEF f, T, S
<1>6. f \in Bijection(T, S)
  BY <1>3, <1>4, <1>5 DEF Bijection, Injection, Surjection, IsInjective
<1>7. ExistsBijection(T, S)
  BY <1>6 DEF ExistsBijection
<1> QED BY <1>2, <1>7, FS_Bijection DEF S, BoxOf4

LEMMA BoxOfThree ==
    ASSUME NEW N, NEW P, NEW Q, IsFiniteSet(N), IsFiniteSet(P), IsFiniteSet(Q)
    PROVE  /\ IsFiniteSet(BoxOf3(N, P, Q))
           /\ Cardinality(BoxOf3(N, P, Q)) = Cardinality(N) * (Cardinality(P) * Cardinality(Q))
<1> DEFINE S == [n : N, row : P, col : Q]
           T == N \X (P \X Q)
           f == [t \in T |-> [n |-> t[1], row |-> t[2][1], col |-> t[2][2]]]
<1>1. IsFiniteSet(P \X Q) /\ Cardinality(P \X Q) = Cardinality(P) * Cardinality(Q)
  BY FS_Product
<1>2. IsFiniteSet(T) /\ Cardinality(T) = Cardinality(N) * (Cardinality(P) * Cardinality(Q))
  BY <1>1, FS_Product
<1>3. f \in [T -> S]
  OBVIOUS
<1>4. \A s, t \in T : f[s] = f[t] => s = t
  OBVIOUS
<1>5. \A s \in S : \E t \in T : f[t] = s
  <2> TAKE s \in S
  <2> WITNESS <<s.n, <<s.row, s.col>>>> \in T
  <2> QED OBVIOUS
<1> HIDE DEF f, T, S
<1>6. f \in Bijection(T, S)
  BY <1>3, <1>4, <1>5 DEF Bijection, Injection, Surjection, IsInjective
<1>7. ExistsBijection(T, S)
  BY <1>6 DEF ExistsBijection
<1> QED BY <1>2, <1>7, FS_Bijection DEF S, BoxOf3

(* The size of a union, exactly when nothing is shared *)
LEMMA UnionSize ==
    ASSUME NEW S, NEW T, IsFiniteSet(S), IsFiniteSet(T)
    PROVE  /\ IsFiniteSet(S \union T)
           /\ Cardinality(S) \in Nat /\ Cardinality(T) \in Nat /\ Cardinality(S \union T) \in Nat
           /\ Cardinality(S \union T) <= Cardinality(S) + Cardinality(T)
           /\ S \intersect T = {} => Cardinality(S \union T) = Cardinality(S) + Cardinality(T)
<1>1. IsFiniteSet(S \intersect T)
  <2>1. S \intersect T \in SUBSET S
    OBVIOUS
  <2> QED BY <2>1, FS_Subset
<1>2. /\ IsFiniteSet(S \union T)
      /\ Cardinality(S \union T) = Cardinality(S) + Cardinality(T) - Cardinality(S \intersect T)
  BY FS_Union
<1>3. /\ Cardinality(S) \in Nat /\ Cardinality(T) \in Nat /\ Cardinality(S \union T) \in Nat
      /\ Cardinality(S \intersect T) \in Nat
  BY <1>1, <1>2, FS_CardinalityType
<1>4. S \intersect T = {} => Cardinality(S \intersect T) = 0
  BY FS_EmptySet
<1> QED BY <1>2, <1>3, <1>4

-----------------------------------------------------------------------------
(* One dimension cut into tiles *)

(* The cells of tile i are an interval as long as the clipped tile. *)
LEMMA TileInterval ==
    ASSUME NEW size \in Positive, NEW dim \in Positive, NEW i \in 0 .. CeilDiv(dim, size) - 1
    PROVE  /\ \A v : v \in 0 .. dim - 1 /\ v \div size = i <=>
                     v \in i * size .. i * size + Clipped(size, dim, i) - 1
           /\ i * size \in Nat
           /\ Clipped(size, dim, i) \in Positive
<1>1. Clipped(size, dim, i) \in 1 .. MinOf(size, dim) /\ i \in Nat /\ size \in Nat /\ dim \in Nat /\ size > 0
  BY ClippedRange DEF Positive, CeilDiv
<1> DEFINE lo == i * size
<1>2. lo \in Nat
  BY <1>1
<1>3. \A v \in Nat : v \div size = i <=> lo <= v /\ v < lo + size
  <2> SUFFICES ASSUME NEW v \in Nat PROVE v \div size = i <=> lo <= v /\ v < lo + size
    OBVIOUS
  <2> DEFINE q == v \div size
  <2>1. q \in Nat /\ q * size <= v /\ v < q * size + size
    BY <1>1, Z3
  <2> HIDE DEF q
  <2>2. q < i => q * size + size <= i * size
    BY <1>1, <2>1
  <2>3. q > i => i * size + size <= q * size
    BY <1>1, <2>1
  <2>4. q * size \in Nat
    BY <1>1, <2>1
  <2> QED BY <1>1, <1>2, <2>1, <2>2, <2>3, <2>4 DEF q
<1>4. Clipped(size, dim, i) = IF size <= dim - lo THEN size ELSE dim - lo
  BY DEF Clipped, MinOf
<1> HIDE DEF lo
<1>5. Clipped(size, dim, i) \in Positive
  BY <1>1, <1>2, <1>4 DEF Positive, MinOf
<1>6. ASSUME NEW v
      PROVE  v \in 0 .. dim - 1 /\ v \div size = i <=> v \in lo .. lo + Clipped(size, dim, i) - 1
  BY <1>1, <1>2, <1>3, <1>4, <1>5 DEF Positive
<1> QED BY <1>2, <1>5, <1>6 DEF lo

(* Each cell belongs to a tile of the grid. *)
LEMMA TileOfCell ==
    ASSUME NEW size \in Positive, NEW dim \in Positive, NEW v \in 0 .. dim - 1
    PROVE  v \div size \in 0 .. CeilDiv(dim, size) - 1
<1>1. size \in Nat /\ size > 0 /\ v \in Nat /\ dim \in Nat /\ v + 1 <= dim
  BY DEF Positive
<1> DEFINE q == v \div size
           m == (dim + size - 1) \div size
<1>2. q \in Nat /\ q * size <= v
  BY <1>1, Z3
<1>3. m \in Nat /\ dim + size - 1 < m * size + size
  BY <1>1, Z3
<1>4. CeilDiv(dim, size) = m
  BY DEF CeilDiv
<1> HIDE DEF q, m
<1>5. q >= m => q * size >= m * size
  BY <1>1, <1>2, <1>3
<1>6. q * size \in Nat /\ m * size \in Nat
  BY <1>1, <1>2, <1>3
<1>7. q < m
  BY <1>1, <1>2, <1>3, <1>5, <1>6
<1> QED BY <1>2, <1>3, <1>4, <1>7 DEF q

-----------------------------------------------------------------------------
(* The cells of a tile *)

(* The visited tiles of an image, without the tile after the last one. *)
Grid(g, tiles) ==
    [n : 0 .. g.n - 1, oc : 0 .. TilesOC(g, tiles) - 1,
     oh : 0 .. TilesOH(g, tiles) - 1, ow : 0 .. TilesOW(g, tiles) - 1]

(* The cells of tile number i of a dimension *)
Span(size, dim, i) == i * size .. i * size + Clipped(size, dim, i) - 1

LEMMA SpanSize ==
    ASSUME NEW size \in Positive, NEW dim \in Positive, NEW i \in 0 .. CeilDiv(dim, size) - 1
    PROVE  /\ IsFiniteSet(Span(size, dim, i))
           /\ Cardinality(Span(size, dim, i)) = Clipped(size, dim, i)
<1>1. i * size \in Int /\ Clipped(size, dim, i) \in Positive
  BY TileInterval
<1> DEFINE a == i * size
           b == a + Clipped(size, dim, i) - 1
<1>2. a \in Int /\ b \in Int /\ ~(a > b) /\ b - a + 1 = Clipped(size, dim, i)
  BY <1>1 DEF Positive
<1>3. Span(size, dim, i) = a .. b
  BY DEF Span
<1> HIDE DEF a, b
<1> QED BY <1>2, <1>3, FS_Interval

(* The sizes and extents of the three tiled dimensions *)
LEMMA GridFacts ==
    ASSUME NEW g, ValidGeometry(g), NEW tiles, TilesValid(tiles), NEW x \in Grid(g, tiles)
    PROVE  /\ tiles.oc \in Positive /\ g.oc \in Positive /\ x.oc \in 0 .. CeilDiv(g.oc, tiles.oc) - 1
           /\ tiles.oh \in Positive /\ OutH(g) \in Positive /\ x.oh \in 0 .. CeilDiv(OutH(g), tiles.oh) - 1
           /\ tiles.ow \in Positive /\ OutW(g) \in Positive /\ x.ow \in 0 .. CeilDiv(OutW(g), tiles.ow) - 1
           /\ g.n \in Positive /\ x.n \in 0 .. g.n - 1
           /\ x \in TileType(g, tiles)
<1>1. /\ g.n \in Positive /\ g.oc \in Positive /\ OutH(g) \in Positive /\ OutW(g) \in Positive
  BY ExtentsPositive
<1>2. tiles.oc \in Positive /\ tiles.oh \in Positive /\ tiles.ow \in Positive
  BY DEF TilesValid, TileAxes
<1>3. /\ x.n \in 0 .. g.n - 1 /\ x.oc \in 0 .. TilesOC(g, tiles) - 1
      /\ x.oh \in 0 .. TilesOH(g, tiles) - 1 /\ x.ow \in 0 .. TilesOW(g, tiles) - 1
  BY DEF Grid
<1>4. x \in TileType(g, tiles)
  BY <1>1 DEF Grid, TileType, Positive
<1> QED BY <1>1, <1>2, <1>3, <1>4 DEF TilesOC, TilesOH, TilesOW

(* The cells of a tile are a box, as large as the clipped tile. *)
LEMMA CellsBox ==
    ASSUME NEW g, ValidGeometry(g), NEW tiles, TilesValid(tiles), NEW x \in Grid(g, tiles)
    PROVE  /\ CellsOf(g, tiles, x) = [n : {x.n}, oc : Span(tiles.oc, g.oc, x.oc),
                                      oh : Span(tiles.oh, OutH(g), x.oh),
                                      ow : Span(tiles.ow, OutW(g), x.ow)]
           /\ IsFiniteSet(CellsOf(g, tiles, x))
           /\ Cardinality(CellsOf(g, tiles, x)) =
                 ActualOC(g, tiles, x) * ActualOH(g, tiles, x) * ActualOW(g, tiles, x)
<1> DEFINE P == Span(tiles.oc, g.oc, x.oc)
           Q == Span(tiles.oh, OutH(g), x.oh)
           R == Span(tiles.ow, OutW(g), x.ow)
           box == [n : {x.n}, oc : P, oh : Q, ow : R]
<1>1. /\ \A v : v \in 0 .. g.oc - 1 /\ v \div tiles.oc = x.oc <=> v \in P
      /\ \A v : v \in 0 .. OutH(g) - 1 /\ v \div tiles.oh = x.oh <=> v \in Q
      /\ \A v : v \in 0 .. OutW(g) - 1 /\ v \div tiles.ow = x.ow <=> v \in R
  <2>1. \A v : v \in 0 .. g.oc - 1 /\ v \div tiles.oc = x.oc <=> v \in P
    BY GridFacts, TileInterval DEF Span
  <2>2. \A v : v \in 0 .. OutH(g) - 1 /\ v \div tiles.oh = x.oh <=> v \in Q
    BY GridFacts, TileInterval DEF Span
  <2>3. \A v : v \in 0 .. OutW(g) - 1 /\ v \div tiles.ow = x.ow <=> v \in R
    BY GridFacts, TileInterval DEF Span
  <2> QED BY <2>1, <2>2, <2>3
<1>2. /\ IsFiniteSet(P) /\ Cardinality(P) = ActualOC(g, tiles, x)
      /\ IsFiniteSet(Q) /\ Cardinality(Q) = ActualOH(g, tiles, x)
      /\ IsFiniteSet(R) /\ Cardinality(R) = ActualOW(g, tiles, x)
  BY GridFacts, SpanSize DEF ActualOC, ActualOH, ActualOW
<1>3. /\ ActualOC(g, tiles, x) \in Nat /\ ActualOH(g, tiles, x) \in Nat /\ ActualOW(g, tiles, x) \in Nat
  BY GridFacts, ActualRange
<1>4. x.n \in 0 .. g.n - 1
  BY GridFacts
<1> HIDE DEF P, Q, R
<1>5. ASSUME NEW y \in CellsOf(g, tiles, x) PROVE y \in box
  BY <1>1, <1>5 DEF CellsOf, OutputCells
<1>6. ASSUME NEW y \in box PROVE y \in CellsOf(g, tiles, x)
  BY <1>1, <1>4, <1>6 DEF CellsOf, OutputCells
<1>7. CellsOf(g, tiles, x) = box
  BY <1>5, <1>6
<1>8. IsFiniteSet({x.n}) /\ Cardinality({x.n}) = 1
  BY FS_Singleton
<1>9. IsFiniteSet(box) /\ Cardinality(box) = (1 * Cardinality(P)) * (Cardinality(Q) * Cardinality(R))
  <2> DEFINE N == {x.n}
  <2>1. IsFiniteSet(N) /\ Cardinality(N) = 1
    BY <1>8
  <2> HIDE DEF N
  <2>2. /\ IsFiniteSet(BoxOf4(N, P, Q, R))
        /\ Cardinality(BoxOf4(N, P, Q, R)) =
             (Cardinality(N) * Cardinality(P)) * (Cardinality(Q) * Cardinality(R))
    BY <1>2, <2>1, BoxOfFour
  <2> QED BY <2>1, <2>2 DEF N, BoxOf4
<1>10. (1 * ActualOC(g, tiles, x)) * (ActualOH(g, tiles, x) * ActualOW(g, tiles, x)) =
         ActualOC(g, tiles, x) * ActualOH(g, tiles, x) * ActualOW(g, tiles, x)
  <2> DEFINE a == ActualOC(g, tiles, x)
             b == ActualOH(g, tiles, x)
             c == ActualOW(g, tiles, x)
  <2>1. a \in Nat /\ b \in Nat /\ c \in Nat
    BY <1>3
  <2> HIDE DEF a, b, c
  <2>2. (1 * a) * (b * c) = a * b * c
    BY <2>1
  <2> QED BY <2>2 DEF a, b, c
<1> QED BY <1>2, <1>7, <1>9, <1>10 DEF P, Q, R

(* Different tiles have no cell in common. *)
LEMMA CellsDisjoint ==
    ASSUME NEW g, NEW tiles, NEW x \in Grid(g, tiles), NEW z \in Grid(g, tiles), x # z
    PROVE  CellsOf(g, tiles, x) \intersect CellsOf(g, tiles, z) = {}
<1> SUFFICES ASSUME NEW y \in CellsOf(g, tiles, x), y \in CellsOf(g, tiles, z) PROVE FALSE
  OBVIOUS
<1>1. x.n = z.n /\ x.oc = z.oc /\ x.oh = z.oh /\ x.ow = z.ow
  BY DEF CellsOf
<1> QED BY <1>1 DEF Grid

(* Every output cell is a cell of a tile of the grid. *)
LEMMA GridCovers ==
    ASSUME NEW g, ValidGeometry(g), NEW tiles, TilesValid(tiles)
    PROVE  UNION {CellsOf(g, tiles, x) : x \in Grid(g, tiles)} = OutputCells(g)
<1>1. ASSUME NEW y \in OutputCells(g) PROVE \E x \in Grid(g, tiles) : y \in CellsOf(g, tiles, x)
  <2> DEFINE x == [n |-> y.n, oc |-> y.oc \div tiles.oc, oh |-> y.oh \div tiles.oh,
                   ow |-> y.ow \div tiles.ow]
  <2>1. /\ g.oc \in Positive /\ OutH(g) \in Positive /\ OutW(g) \in Positive
        /\ tiles.oc \in Positive /\ tiles.oh \in Positive /\ tiles.ow \in Positive
    BY ExtentsPositive DEF TilesValid, TileAxes
  <2>2. /\ y.n \in 0 .. g.n - 1 /\ y.oc \in 0 .. g.oc - 1
        /\ y.oh \in 0 .. OutH(g) - 1 /\ y.ow \in 0 .. OutW(g) - 1
    BY DEF OutputCells
  <2>3. /\ y.oc \div tiles.oc \in 0 .. TilesOC(g, tiles) - 1
        /\ y.oh \div tiles.oh \in 0 .. TilesOH(g, tiles) - 1
        /\ y.ow \div tiles.ow \in 0 .. TilesOW(g, tiles) - 1
    BY <2>1, <2>2, TileOfCell DEF TilesOC, TilesOH, TilesOW
  <2>4. x \in Grid(g, tiles)
    BY <2>2, <2>3 DEF Grid
  <2>5. y \in CellsOf(g, tiles, x)
    BY DEF CellsOf
  <2> QED BY <2>4, <2>5
<1> QED BY <1>1 DEF CellsOf

(* The grid has as many tiles as the code counts. *)
LEMMA GridSize ==
    ASSUME NEW g, ValidGeometry(g), NEW tiles, TilesValid(tiles)
    PROVE  /\ IsFiniteSet(Grid(g, tiles))
           /\ Cardinality(Grid(g, tiles)) = TileCount(g, tiles)
<1> DEFINE A == TilesOC(g, tiles)
           B == TilesOH(g, tiles)
           C == TilesOW(g, tiles)
           D == g.n
<1>1. A \in Positive /\ B \in Positive /\ C \in Positive /\ D \in Positive
  BY GridSizes, ExtentsPositive
<1>2. Grid(g, tiles) = [n : 0 .. D - 1, oc : 0 .. A - 1, oh : 0 .. B - 1, ow : 0 .. C - 1]
  BY DEF Grid
<1>3. TileCount(g, tiles) = D * A * B * C
  BY DEF TileCount
<1> HIDE DEF A, B, C, D
<1>4. \A m \in Positive : IsFiniteSet(0 .. m - 1) /\ Cardinality(0 .. m - 1) = m
  <2> SUFFICES ASSUME NEW m \in Positive
               PROVE  IsFiniteSet(0 .. m - 1) /\ Cardinality(0 .. m - 1) = m
    OBVIOUS
  <2>1. 0 \in Int /\ m - 1 \in Int /\ ~(0 > m - 1) /\ (m - 1) - 0 + 1 = m
    BY DEF Positive
  <2> QED BY <2>1, FS_Interval
<1>5. /\ IsFiniteSet(Grid(g, tiles))
      /\ Cardinality(Grid(g, tiles)) = (D * A) * (B * C)
  <2> DEFINE N == 0 .. D - 1
             P == 0 .. A - 1
             Q == 0 .. B - 1
             R == 0 .. C - 1
  <2>1. /\ IsFiniteSet(N) /\ Cardinality(N) = D /\ IsFiniteSet(P) /\ Cardinality(P) = A
        /\ IsFiniteSet(Q) /\ Cardinality(Q) = B /\ IsFiniteSet(R) /\ Cardinality(R) = C
    BY <1>1, <1>4
  <2>2. Grid(g, tiles) = BoxOf4(N, P, Q, R)
    BY <1>2 DEF BoxOf4
  <2> HIDE DEF N, P, Q, R
  <2>3. /\ IsFiniteSet(BoxOf4(N, P, Q, R))
        /\ Cardinality(BoxOf4(N, P, Q, R)) =
             (Cardinality(N) * Cardinality(P)) * (Cardinality(Q) * Cardinality(R))
    BY <2>1, BoxOfFour
  <2> QED BY <2>1, <2>2, <2>3
<1>6. (D * A) * (B * C) = D * A * B * C
  BY <1>1 DEF Positive
<1> QED BY <1>3, <1>5, <1>6

-----------------------------------------------------------------------------
(* Every output cell is counted once. *)

(* The cells covered so far, what was added for them, and where they lie *)
CoverInv ==
    /\ IsFiniteSet(Covered)
    /\ OutputCountedOnce
    /\ EstimateCoversOutput
    /\ pc = "visiting" => visited \subseteq Grid(contract, candidate.tiles)

(* At an empty history nothing is covered. *)
LEMMA NothingCovered == visited = {} => Covered = {} /\ IsFiniteSet(Covered) /\ Cardinality(Covered) = 0
BY FS_EmptySet DEF Covered

LEMMA InitCover == Init => CoverInv
<1> SUFFICES ASSUME Init PROVE CoverInv
  OBVIOUS
<1>1. Covered = {} /\ IsFiniteSet(Covered) /\ Cardinality(Covered) = 0
  BY NothingCovered DEF Init
<1>2. traffic["output"] = 0
  BY DEF Init, Tensors
<1> QED BY <1>1, <1>2 DEF Init, CoverInv, OutputCountedOnce, EstimateCoversOutput, F32Bytes

(* What the step of a tile adds *)
LEMMA VisitFacts ==
    ASSUME IInv, VInv, CoverInv, VisitTile
    PROVE  LET cells == CellsOf(contract, candidate.tiles, tile)
           IN  /\ ValidGeometry(contract) /\ TilesValid(candidate.tiles)
               /\ tile \in Grid(contract, candidate.tiles)
               /\ visited \subseteq Grid(contract, candidate.tiles)
               /\ tile \notin visited
               /\ Covered' = Covered \union cells
               /\ \A tensor \in Tensors :
                     traffic'[tensor] = traffic[tensor] + BytesOf(contract, candidate.tiles, tile)[tensor]
               /\ UNCHANGED <<contract, candidate, pc>>
<1>1. /\ ValidGeometry(contract) /\ TilesValid(candidate.tiles)
      /\ tile \in TileType(contract, candidate.tiles) /\ tile.n < contract.n
      /\ pc = "visiting" /\ visited' = visited \union {tile}
      /\ UNCHANGED <<contract, candidate, pc>>
  BY ArgumentsValid DEF VisitTile, IInv, TypeOK, TilesLeft, args
<1>2. tile \in Grid(contract, candidate.tiles)
  BY <1>1, ExtentsPositive DEF TileType, Grid, Positive
<1>3. visited \subseteq Grid(contract, candidate.tiles)
  BY <1>1 DEF CoverInv
<1>4. tile \notin visited
  <2>1. /\ TileIndex(contract, candidate.tiles, tile) \in Nat
        /\ \A x \in visited : TileIndex(contract, candidate.tiles, x) < TileIndex(contract, candidate.tiles, tile)
    BY <1>1, NextTileIndex DEF VInv
  <2> QED BY <2>1
<1>5. Covered' = Covered \union CellsOf(contract, candidate.tiles, tile)
  <2>1. Covered' = UNION {CellsOf(contract, candidate.tiles, x) : x \in visited \union {tile}}
    BY <1>1 DEF Covered
  <2> QED BY <2>1 DEF Covered
<1>6. \A tensor \in Tensors :
         traffic'[tensor] = traffic[tensor] + BytesOf(contract, candidate.tiles, tile)[tensor]
  BY DEF VisitTile
<1> QED BY <1>1, <1>2, <1>3, <1>4, <1>5, <1>6

(* Once the loops are through, every tile of the grid is visited. *)
LEMMA AllVisited ==
    ASSUME IInv, VInv, CoverInv, Finish
    PROVE  Covered = OutputCells(contract)
<1>1. /\ ValidGeometry(contract) /\ TilesValid(candidate.tiles)
      /\ tile \in TileType(contract, candidate.tiles) /\ ~(tile.n < contract.n)
  BY ArgumentsValid DEF Finish, IInv, TypeOK, TilesLeft
<1>2. tile.n = contract.n
  BY <1>1, ExtentsPositive DEF TileType, Positive
<1>3. Cardinality(visited) = TileCount(contract, candidate.tiles)
  BY <1>1, <1>2, CountedIndex DEF Finish, VInv
<1>4. visited \in SUBSET Grid(contract, candidate.tiles)
  BY DEF CoverInv, Finish
<1>5. /\ IsFiniteSet(Grid(contract, candidate.tiles))
      /\ Cardinality(Grid(contract, candidate.tiles)) = TileCount(contract, candidate.tiles)
  BY <1>1, GridSize
<1>6. Grid(contract, candidate.tiles) = visited
  BY <1>3, <1>4, <1>5, FS_Subset
<1> QED BY <1>1, <1>6, GridCovers DEF Covered

(* The bytes of all output cells are the contract's logical output bytes. *)
LEMMA OutputBytes ==
    ASSUME NEW g, ValidGeometry(g)
    PROVE  F32Bytes * Cardinality(OutputCells(g)) = LogicalBytes(g).output
<1> DEFINE D == g.n
           A == g.oc
           B == OutH(g)
           C == OutW(g)
           N == 0 .. D - 1
           P == 0 .. A - 1
           Q == 0 .. B - 1
           R == 0 .. C - 1
<1>1. D \in Positive /\ A \in Positive /\ B \in Positive /\ C \in Positive
  BY ExtentsPositive
<1>2. OutputCells(g) = BoxOf4(N, P, Q, R)
  BY DEF OutputCells, BoxOf4
<1>3. LogicalBytes(g).output = D * A * B * C * F32Bytes
  BY DEF LogicalBytes, OutputElements
<1> HIDE DEF A, B, C, D
<1>4. \A m \in Positive : IsFiniteSet(0 .. m - 1) /\ Cardinality(0 .. m - 1) = m
  <2> SUFFICES ASSUME NEW m \in Positive
               PROVE  IsFiniteSet(0 .. m - 1) /\ Cardinality(0 .. m - 1) = m
    OBVIOUS
  <2>1. 0 \in Int /\ m - 1 \in Int /\ ~(0 > m - 1) /\ (m - 1) - 0 + 1 = m
    BY DEF Positive
  <2> QED BY <2>1, FS_Interval
<1>5. /\ IsFiniteSet(N) /\ Cardinality(N) = D /\ IsFiniteSet(P) /\ Cardinality(P) = A
      /\ IsFiniteSet(Q) /\ Cardinality(Q) = B /\ IsFiniteSet(R) /\ Cardinality(R) = C
  BY <1>1, <1>4
<1> HIDE DEF N, P, Q, R
<1>6. Cardinality(OutputCells(g)) = (D * A) * (B * C)
  BY <1>2, <1>5, BoxOfFour
<1>7. F32Bytes * ((D * A) * (B * C)) = D * A * B * C * F32Bytes
  BY <1>1 DEF Positive, F32Bytes
<1> QED BY <1>3, <1>6, <1>7

LEMMA NextCover == IInv /\ VInv /\ CoverInv /\ [Next]_vars => CoverInv'
<1> SUFFICES ASSUME IInv, VInv, CoverInv, [Next]_vars PROVE CoverInv'
  OBVIOUS
<1>1. CASE Raise
  <2>1. Covered' = Covered /\ traffic' = traffic /\ pc' = "raised"
    BY <1>1 DEF Raise, Covered, args
  <2> QED BY <2>1 DEF CoverInv, OutputCountedOnce, EstimateCoversOutput
<1>2. CASE Start
  <2>1. Covered' = Covered /\ traffic' = traffic /\ pc' = "visiting" /\ visited' = {}
    BY <1>2 DEF Start, Covered, args, VInv
  <2> QED BY <2>1 DEF CoverInv, OutputCountedOnce, EstimateCoversOutput
<1>3. CASE VisitTile
  <2> DEFINE cells == CellsOf(contract, candidate.tiles, tile)
             b == BytesOf(contract, candidate.tiles, tile)["output"]
  <2>1. /\ ValidGeometry(contract) /\ TilesValid(candidate.tiles)
        /\ tile \in Grid(contract, candidate.tiles)
        /\ visited \subseteq Grid(contract, candidate.tiles) /\ tile \notin visited
        /\ Covered' = Covered \union cells
        /\ traffic'["output"] = traffic["output"] + b
        /\ UNCHANGED <<contract, candidate, pc>>
    BY <1>3, VisitFacts DEF Tensors
  <2>2. b = Cardinality(cells) * F32Bytes /\ IsFiniteSet(cells)
    BY <2>1, CellsBox DEF BytesOf
  <2>3. Covered \intersect cells = {}
    BY <2>1, CellsDisjoint DEF Covered
  <2>4. IsFiniteSet(Covered) /\ traffic["output"] = F32Bytes * Cardinality(Covered)
    BY DEF CoverInv, OutputCountedOnce
  <2>5. visited' \subseteq Grid(contract, candidate.tiles)'
    BY <1>3, <2>1 DEF VisitTile
  <2>6. pc' = "visiting"
    BY <1>3 DEF VisitTile
  <2> HIDE DEF cells, b
  <2>7. /\ IsFiniteSet(Covered')
        /\ Cardinality(Covered') = Cardinality(Covered) + Cardinality(cells)
    BY <2>1, <2>2, <2>3, <2>4, UnionSize
  <2>8. Cardinality(Covered) \in Nat /\ Cardinality(cells) \in Nat
    BY <2>2, <2>4, FS_CardinalityType
  <2>9. traffic'["output"] = F32Bytes * Cardinality(Covered')
    BY <2>1, <2>2, <2>4, <2>7, <2>8 DEF F32Bytes
  <2> QED BY <2>1, <2>5, <2>6, <2>7, <2>9 DEF CoverInv, OutputCountedOnce, EstimateCoversOutput
<1>4. CASE Finish
  <2>1. Covered' = Covered /\ traffic' = traffic /\ pc' = "returned" /\ contract' = contract
    BY <1>4 DEF Finish, Covered, args
  <2>2. Covered = OutputCells(contract)
    BY <1>4, AllVisited
  <2>3. estimate'.traffic = traffic
    BY <1>4 DEF Finish, Estimate
  <2>4. ValidGeometry(contract)
    BY ArgumentsValid DEF IInv
  <2>5. estimate'.traffic["output"] = LogicalBytes(contract).output
    BY <2>2, <2>3, <2>4, OutputBytes DEF CoverInv, OutputCountedOnce
  <2> QED BY <2>1, <2>2, <2>5 DEF CoverInv, OutputCountedOnce, EstimateCoversOutput
<1>5. CASE UNCHANGED vars
  <2>1. Covered' = Covered
    BY <1>5 DEF vars, Covered
  <2> QED BY <1>5, <2>1 DEF vars, CoverInv, OutputCountedOnce, EstimateCoversOutput
<1> QED BY <1>1, <1>2, <1>3, <1>4, <1>5 DEF Next

(* The output traffic counts each output cell once, ragged edges included.   *)
(* performance.py 93-110.                                                    *)
THEOREM CountedOnce == Spec => []OutputCountedOnce
<1>1. CoverInv => OutputCountedOnce
  BY DEF CoverInv
<1> QED BY InitIInv, NextIInv, InitVInv, NextVInv, InitCover, NextCover, <1>1, PTL DEF Spec

(* The estimate prices the whole convolution: every output cell lies in a    *)
(* visited tile, and the output traffic is the contract's logical output     *)
(* bytes.  performance.py 91-110 against contracts.py 243-257.               *)
THEOREM WholeOutputPriced == Spec => []EstimateCoversOutput
<1>1. CoverInv => EstimateCoversOutput
  BY DEF CoverInv
<1> QED BY InitIInv, NextIInv, InitVInv, NextVInv, InitCover, NextCover, <1>1, PTL DEF Spec

-----------------------------------------------------------------------------
(* What is added for a tile bounds what it reads. *)

(* The rows under the windows of A consecutive output rows *)
LEMMA RowsUnder ==
    ASSUME NEW lo \in Nat, NEW A \in Positive, NEW s \in Positive, NEW k \in Positive, NEW p \in Nat,
           NEW v \in lo .. lo + A - 1, NEW r \in Nat, r + p - v * s \in 0 .. k - 1
    PROVE  r \in lo * s - p .. lo * s - p + ((A - 1) * s + k) - 1
<1>1. v \in Nat /\ lo <= v /\ v <= lo + (A - 1) /\ A - 1 \in Nat /\ s \in Nat /\ k \in Nat
  BY DEF Positive
<1>2. lo * s <= v * s /\ v * s <= (lo + (A - 1)) * s
  BY <1>1, ProductMonotone
<1>3. (lo + (A - 1)) * s = lo * s + (A - 1) * s
  BY <1>1
<1>4. lo * s \in Nat /\ v * s \in Nat /\ (A - 1) * s \in Nat
  BY <1>1
<1> DEFINE a == lo * s
           b == v * s
           c == (A - 1) * s
<1>5. a \in Nat /\ b \in Nat /\ c \in Nat /\ a <= b /\ b <= a + c
  BY <1>2, <1>3, <1>4
<1>6. r + p - b \in 0 .. k - 1
  OBVIOUS
<1> HIDE DEF a, b, c
<1>7. r \in a - p .. a - p + (c + k) - 1
  BY <1>1, <1>5, <1>6
<1> QED BY <1>7 DEF a, c

(* A window's rows: how many, at most *)
Window(lo, A, s, k, p) == lo * s - p .. lo * s - p + ((A - 1) * s + k) - 1

LEMMA WindowSize ==
    ASSUME NEW lo \in Nat, NEW A \in Positive, NEW s \in Positive, NEW k \in Positive, NEW p \in Nat
    PROVE  /\ IsFiniteSet(Window(lo, A, s, k, p))
           /\ Cardinality(Window(lo, A, s, k, p)) = (A - 1) * s + k
<1> DEFINE a == lo * s - p
           m == (A - 1) * s + k
           b == a + m - 1
<1>1. lo * s \in Nat
  BY DEF Positive
<1>2. a \in Int
  BY <1>1
<1>3. m \in Positive
  BY WindowMonotone DEF Positive
<1>4. Window(lo, A, s, k, p) = a .. b
  BY DEF Window
<1> HIDE DEF a, m
<1>5. b \in Int /\ ~(a > b) /\ b - a + 1 = m
  BY <1>2, <1>3 DEF Positive
<1> HIDE DEF b
<1>6. IsFiniteSet(a .. b) /\ Cardinality(a .. b) = m
  BY <1>2, <1>5, FS_Interval
<1> QED BY <1>4, <1>6 DEF m

(* The input elements a tile reads, and the filters *)
LEMMA TileReads ==
    ASSUME NEW g, ValidGeometry(g), NEW tiles, TilesValid(tiles), NEW x \in Grid(g, tiles)
    PROVE  LET cells == CellsOf(g, tiles, x)
               rows  == (ActualOH(g, tiles, x) - 1) * g.sh + g.kh
               cols  == (ActualOW(g, tiles, x) - 1) * g.sw + g.kw
           IN  /\ rows \in Nat /\ cols \in Nat
               /\ IsFiniteSet(InputRead(g, cells)) /\ Cardinality(InputRead(g, cells)) <= rows * cols
               /\ IsFiniteSet(FilterRead(cells)) /\ Cardinality(FilterRead(cells)) <= ActualOC(g, tiles, x)
<1> DEFINE cells == CellsOf(g, tiles, x)
           A == ActualOH(g, tiles, x)
           B == ActualOW(g, tiles, x)
           C == ActualOC(g, tiles, x)
           i == x.oh * tiles.oh
           j == x.ow * tiles.ow
           P == Window(i, A, g.sh, g.kh, g.pt)
           Q == Window(j, B, g.sw, g.kw, g.pl)
           F == Span(tiles.oc, g.oc, x.oc)
           rows == (A - 1) * g.sh + g.kh
           cols == (B - 1) * g.sw + g.kw
           N == {x.n}
           read == InputRead(g, cells)
<1>1. /\ i \in Nat /\ j \in Nat /\ A \in Positive /\ B \in Positive
  BY GridFacts, TileInterval DEF ActualOH, ActualOW
<1>2. /\ g.sh \in Positive /\ g.sw \in Positive /\ g.kh \in Positive /\ g.kw \in Positive
      /\ g.pt \in Nat /\ g.pl \in Nat
  BY DEF ValidGeometry, Geometry
<1>3. \A y \in cells : /\ y.n = x.n /\ y.oc \in F
                       /\ y.oh \in i .. i + A - 1 /\ y.ow \in j .. j + B - 1
  <2> DEFINE U == i .. i + A - 1
             V == j .. j + B - 1
  <2>1. cells = [n : {x.n}, oc : F, oh : Span(tiles.oh, OutH(g), x.oh), ow : Span(tiles.ow, OutW(g), x.ow)]
    BY CellsBox
  <2>2. Span(tiles.oh, OutH(g), x.oh) = U /\ Span(tiles.ow, OutW(g), x.ow) = V
    BY DEF Span, ActualOH, ActualOW
  <2> HIDE DEF U, V, F, cells
  <2>3. \A y \in cells : y.n = x.n /\ y.oc \in F /\ y.oh \in U /\ y.ow \in V
    BY <2>1, <2>2
  <2> QED BY <2>3 DEF U, V
<1>4. /\ IsFiniteSet(P) /\ Cardinality(P) = rows /\ IsFiniteSet(Q) /\ Cardinality(Q) = cols
  <2> HIDE DEF i, j, A, B
  <2> QED BY <1>1, <1>2, WindowSize
<1>5. IsFiniteSet(F) /\ Cardinality(F) = C
  BY GridFacts, SpanSize DEF ActualOC
<1>6. rows \in Nat /\ cols \in Nat
  <2> HIDE DEF A, B
  <2> QED BY <1>1, <1>2, WindowMonotone DEF Positive
<1>7. IsFiniteSet(N) /\ Cardinality(N) = 1
  BY FS_Singleton
<1>8. ASSUME NEW e \in read PROVE e.n \in N /\ e.row \in P /\ e.col \in Q
  <2>1. /\ e.row \in 0 .. g.h - 1 /\ e.col \in 0 .. g.w - 1
        /\ \E y \in cells : /\ y.n = e.n
                            /\ e.row + g.pt - y.oh * g.sh \in 0 .. g.kh - 1
                            /\ e.col + g.pl - y.ow * g.sw \in 0 .. g.kw - 1
    BY <1>8 DEF InputRead
  <2>2. PICK y \in cells : /\ y.n = e.n
                           /\ e.row + g.pt - y.oh * g.sh \in 0 .. g.kh - 1
                           /\ e.col + g.pl - y.ow * g.sw \in 0 .. g.kw - 1
    BY <2>1
  <2>3. e.row \in Nat /\ e.col \in Nat
    BY <2>1
  <2>4. e.n = x.n /\ y.oh \in i .. i + A - 1 /\ y.ow \in j .. j + B - 1
    BY <1>3, <2>2
  <2> HIDE DEF i, j, A, B, cells
  <2>5. e.row \in P
    BY <1>1, <1>2, <2>2, <2>3, <2>4, RowsUnder DEF Window
  <2>6. e.col \in Q
    BY <1>1, <1>2, <2>2, <2>3, <2>4, RowsUnder DEF Window
  <2> QED BY <2>4, <2>5, <2>6
<1>9. read \subseteq [n : 0 .. g.n - 1, row : 0 .. g.h - 1, col : 0 .. g.w - 1]
  BY DEF InputRead
<1>10. FilterRead(cells) \in SUBSET F
  BY <1>3 DEF FilterRead
<1> HIDE DEF cells, A, B, C, i, j, P, Q, F, rows, cols, N, read
<1>11. read \in SUBSET BoxOf3(N, P, Q)
  BY <1>8, <1>9 DEF BoxOf3
<1>12. /\ IsFiniteSet(BoxOf3(N, P, Q))
       /\ Cardinality(BoxOf3(N, P, Q)) = 1 * (rows * cols)
  BY <1>4, <1>7, BoxOfThree
<1>13. IsFiniteSet(read) /\ Cardinality(read) <= 1 * (rows * cols)
  BY <1>11, <1>12, FS_Subset
<1>14. 1 * (rows * cols) = rows * cols
  BY <1>6
<1>15. IsFiniteSet(FilterRead(cells)) /\ Cardinality(FilterRead(cells)) <= C
  BY <1>5, <1>10, FS_Subset
<1> QED BY <1>6, <1>13, <1>14, <1>15 DEF cells, A, B, C, rows, cols, read

(* The reads are counted at least as often as they are distinct. *)
ReadsInv ==
    /\ IsFiniteSet(InputRead(contract, Covered))
    /\ IsFiniteSet(FilterRead(Covered))
    /\ TrafficIsUpperBound

LEMMA NothingRead ==
    ASSUME Covered = {}
    PROVE  InputRead(contract, Covered) = {} /\ FilterRead(Covered) = {}
BY DEF InputRead, FilterRead

LEMMA InitReads == Init => ReadsInv
<1> SUFFICES ASSUME Init PROVE ReadsInv
  OBVIOUS
<1>1. Covered = {}
  BY NothingCovered DEF Init
<1>2. InputRead(contract, Covered) = {} /\ FilterRead(Covered) = {}
  BY <1>1, NothingRead
<1>3. IsFiniteSet({}) /\ Cardinality({}) = 0
  BY FS_EmptySet
<1>4. traffic["input"] = 0 /\ traffic["filter"] = 0
  BY DEF Init, Tensors
<1>5. contract.c \in Nat /\ contract.kh \in Nat /\ contract.kw \in Nat
  BY ContractsAssumption, ExtentsPositive DEF Init, Positive
<1>6. F32Bytes * contract.c * 0 = 0 /\ F32Bytes * contract.c * contract.kh * contract.kw * 0 = 0
  <2> DEFINE c == contract.c
             kh == contract.kh
             kw == contract.kw
  <2>1. c \in Nat /\ kh \in Nat /\ kw \in Nat
    BY <1>5
  <2> HIDE DEF c, kh, kw
  <2>2. F32Bytes * c * 0 = 0 /\ F32Bytes * c * kh * kw * 0 = 0
    BY <2>1 DEF F32Bytes
  <2> QED BY <2>2 DEF c, kh, kw
<1> QED BY <1>2, <1>3, <1>4, <1>6 DEF ReadsInv, TrafficIsUpperBound

(* A bound on what was read, raised by the bytes of a tile *)
LEMMA RaisedBound ==
    \A t \in Nat, m \in Nat, old \in Nat, new \in Nat, d \in Nat :
        t >= m * old /\ new <= old + d => t + m * d >= m * new
<1> SUFFICES ASSUME NEW t \in Nat, NEW m \in Nat, NEW old \in Nat, NEW new \in Nat, NEW d \in Nat,
                    t >= m * old, new <= old + d
             PROVE  t + m * d >= m * new
  OBVIOUS
<1>1. m * new <= m * (old + d)
  BY ProductMonotone
<1>2. m * (old + d) = m * old + m * d
  OBVIOUS
<1>3. m * new \in Nat /\ m * old \in Nat /\ m * d \in Nat
  OBVIOUS
<1> QED BY <1>1, <1>2, <1>3

LEMMA VisitReads ==
    ASSUME IInv, VInv, CoverInv, ReadsInv, VisitTile
    PROVE  ReadsInv'
<1> DEFINE cells == CellsOf(contract, candidate.tiles, tile)
           bytes == BytesOf(contract, candidate.tiles, tile)
           oc == ActualOC(contract, candidate.tiles, tile)
           rows == (ActualOH(contract, candidate.tiles, tile) - 1) * contract.sh + contract.kh
           cols == (ActualOW(contract, candidate.tiles, tile) - 1) * contract.sw + contract.kw
           c == contract.c
           kh == contract.kh
           kw == contract.kw
           R == InputRead(contract, Covered)
           S == InputRead(contract, cells)
           F == FilterRead(Covered)
           G == FilterRead(cells)
<1>1. /\ ValidGeometry(contract) /\ TilesValid(candidate.tiles)
      /\ tile \in Grid(contract, candidate.tiles)
      /\ Covered' = Covered \union cells
      /\ traffic'["input"] = traffic["input"] + bytes["input"]
      /\ traffic'["filter"] = traffic["filter"] + bytes["filter"]
      /\ contract' = contract
  BY VisitFacts DEF Tensors
<1>2. /\ rows \in Nat /\ cols \in Nat
      /\ IsFiniteSet(S) /\ Cardinality(S) <= rows * cols
      /\ IsFiniteSet(G) /\ Cardinality(G) <= oc
  BY <1>1, TileReads
<1>3. /\ bytes["input"] = c * rows * cols * F32Bytes
      /\ bytes["filter"] = oc * c * kh * kw * F32Bytes
  BY DEF BytesOf
<1>4. c \in Nat /\ kh \in Nat /\ kw \in Nat
  BY <1>1, ExtentsPositive DEF Positive
<1>5. oc \in Nat
  BY <1>1, GridFacts, ActualRange DEF Positive
<1>6. /\ InputRead(contract, Covered)' = R \union S
      /\ FilterRead(Covered)' = F \union G
  BY <1>1 DEF InputRead, FilterRead
<1>7. /\ IsFiniteSet(R) /\ IsFiniteSet(F)
      /\ traffic["input"] >= F32Bytes * c * Cardinality(R)
      /\ traffic["filter"] >= F32Bytes * c * kh * kw * Cardinality(F)
  BY DEF ReadsInv, TrafficIsUpperBound
<1>8. traffic["input"] \in Nat /\ traffic["filter"] \in Nat
  BY DEF IInv, TypeOK, Tensors
<1>9. TrafficIsUpperBound' =
        (/\ traffic'["input"] >= F32Bytes * c * Cardinality(R \union S)
         /\ traffic'["filter"] >= F32Bytes * c * kh * kw * Cardinality(F \union G))
  BY <1>1, <1>6 DEF TrafficIsUpperBound
<1> HIDE DEF cells, bytes, oc, rows, cols, c, kh, kw, R, S, F, G
<1>10. /\ IsFiniteSet(R \union S) /\ Cardinality(R) \in Nat /\ Cardinality(S) \in Nat
       /\ Cardinality(R \union S) \in Nat /\ Cardinality(R \union S) <= Cardinality(R) + rows * cols
  <2>1. rows * cols \in Nat
    BY <1>2
  <2>2. /\ IsFiniteSet(R \union S) /\ Cardinality(R) \in Nat /\ Cardinality(S) \in Nat
        /\ Cardinality(R \union S) \in Nat /\ Cardinality(R \union S) <= Cardinality(R) + Cardinality(S)
    BY <1>2, <1>7, UnionSize
  <2> QED BY <1>2, <2>1, <2>2
<1>11. /\ IsFiniteSet(F \union G) /\ Cardinality(F) \in Nat
       /\ Cardinality(F \union G) \in Nat /\ Cardinality(F \union G) <= Cardinality(F) + oc
  <2>1. /\ IsFiniteSet(F \union G) /\ Cardinality(F) \in Nat /\ Cardinality(G) \in Nat
        /\ Cardinality(F \union G) \in Nat /\ Cardinality(F \union G) <= Cardinality(F) + Cardinality(G)
    BY <1>2, <1>7, UnionSize
  <2> QED BY <1>2, <1>5, <2>1
<1>12. traffic'["input"] >= F32Bytes * c * Cardinality(R \union S)
  <2> DEFINE m == F32Bytes * c
             d == rows * cols
  <2>1. m \in Nat /\ d \in Nat
    BY <1>2, <1>4 DEF F32Bytes
  <2>2. bytes["input"] = m * d
    <3>1. c * rows * cols * F32Bytes = (F32Bytes * c) * (rows * cols)
      BY <1>2, <1>4 DEF F32Bytes
    <3> QED BY <1>3, <3>1
  <2>3. traffic["input"] >= m * Cardinality(R) /\ Cardinality(R \union S) <= Cardinality(R) + d
    BY <1>7, <1>10
  <2> HIDE DEF m, d
  <2>4. traffic["input"] + m * d >= m * Cardinality(R \union S)
    BY <1>8, <1>10, <2>1, <2>3, RaisedBound
  <2> QED BY <1>1, <2>2, <2>4 DEF m
<1>13. traffic'["filter"] >= F32Bytes * c * kh * kw * Cardinality(F \union G)
  <2> DEFINE m == F32Bytes * c * kh * kw
  <2>1. m \in Nat
    BY <1>4 DEF F32Bytes
  <2>2. bytes["filter"] = m * oc
    <3>1. oc * c * kh * kw * F32Bytes = (F32Bytes * c * kh * kw) * oc
      BY <1>4, <1>5 DEF F32Bytes
    <3> QED BY <1>3, <3>1
  <2>3. traffic["filter"] >= m * Cardinality(F) /\ Cardinality(F \union G) <= Cardinality(F) + oc
    BY <1>7, <1>11
  <2> HIDE DEF m
  <2>4. traffic["filter"] + m * oc >= m * Cardinality(F \union G)
    BY <1>5, <1>8, <1>11, <2>1, <2>3, RaisedBound
  <2> QED BY <1>1, <2>2, <2>4 DEF m
<1> QED BY <1>6, <1>9, <1>10, <1>11, <1>12, <1>13 DEF ReadsInv

LEMMA NextReads == IInv /\ VInv /\ CoverInv /\ ReadsInv /\ [Next]_vars => ReadsInv'
<1> SUFFICES ASSUME IInv, VInv, CoverInv, ReadsInv, [Next]_vars PROVE ReadsInv'
  OBVIOUS
<1>1. ASSUME UNCHANGED <<contract, candidate, visited, traffic>> PROVE ReadsInv'
  <2>1. Covered' = Covered
    BY <1>1 DEF Covered
  <2> QED BY <1>1, <2>1 DEF ReadsInv, TrafficIsUpperBound
<1>2. CASE Raise
  BY <1>1, <1>2 DEF Raise, args
<1>3. CASE Start
  BY <1>1, <1>3 DEF Start, args
<1>4. CASE VisitTile
  BY <1>4, VisitReads
<1>5. CASE Finish
  BY <1>1, <1>5 DEF Finish, args
<1>6. CASE UNCHANGED vars
  BY <1>1, <1>6 DEF vars
<1> QED BY <1>2, <1>3, <1>4, <1>5, <1>6 DEF Next

(* The estimate's own assumption, that its traffic is an upper bound, is     *)
(* true at every tile: the traffic is never below the bytes of the distinct  *)
(* input and filter elements the tiles visited so far read, whatever overlap,*)
(* skipped rows, padding and ragged edges.  performance.py 97-110 and 127.   *)
THEOREM UpperBoundHolds == Spec => []TrafficIsUpperBound
<1>1. ReadsInv => TrafficIsUpperBound
  BY DEF ReadsInv
<1> QED BY InitIInv, NextIInv, InitVInv, NextVInv, InitCover, NextCover, InitReads, NextReads, <1>1,
           PTL DEF Spec
-----------------------------------------------------------------------------
(* Counting with a rounded quotient *)

(* The equation of Power2 has a solution, so Power2 satisfies it. *)
LEMMA PowerEquation == Power2 = [i \in Nat |-> IF i = 0 THEN 1 ELSE 2 * Power2[i - 1]]
<1> DEFINE h == [i \in Nat |-> i]
           F == [g \in [Nat -> Nat] |-> [i \in Nat |-> IF i = 0 THEN 1 ELSE 2 * g[i - 1]]]
<1>1. h \in [Nat -> Nat] /\ \A i \in Nat : h[i] = i
  OBVIOUS
<1>2. \A g \in [Nat -> Nat] : F[g] = [i \in Nat |-> IF i = 0 THEN 1 ELSE 2 * g[i - 1]]
  OBVIOUS
<1>3. F \in [[Nat -> Nat] -> [Nat -> Nat]]
  <2>1. ASSUME NEW g \in [Nat -> Nat], NEW i \in Nat
        PROVE  (IF i = 0 THEN 1 ELSE 2 * g[i - 1]) \in Nat
    <3>1. i # 0 => i - 1 \in Nat
      OBVIOUS
    <3> QED BY <3>1
  <2> QED BY <2>1
<1>4. ASSUME NEW f \in [Nat -> Nat], NEW g \in [Nat -> Nat], NEW s \in Nat,
             \A t \in Nat : h[t] < h[s] => f[t] = g[t]
      PROVE  F[f][s] = F[g][s]
  <2>1. s # 0 => s - 1 \in Nat /\ s - 1 < s
    OBVIOUS
  <2>2. s # 0 => f[s - 1] = g[s - 1]
    BY <1>1, <1>4, <2>1
  <2> QED BY <1>2, <2>2
<1> HIDE DEF F, h
<1>5. Contractive(F, Nat, Nat, h)
  BY <1>1, <1>3, <1>4 DEF Contractive
<1>6. PICK f \in [Nat -> Nat] : f = F[f]
  BY <1>5, Recursive
<1>7. f = [i \in Nat |-> IF i = 0 THEN 1 ELSE 2 * f[i - 1]]
  BY <1>2, <1>6
<1>8. \E g : g = [i \in Nat |-> IF i = 0 THEN 1 ELSE 2 * g[i - 1]]
  BY <1>7, Zenon
<1> QED BY <1>8 DEF Power2

(* The powers of two are positive, each twice the one before. *)
LEMMA PowerFacts ==
    /\ Power2[0] = 1
    /\ \A n \in Nat : Power2[n] \in Positive /\ Power2[n + 1] = 2 * Power2[n]
<1>1. \A i \in Nat : Power2[i] = IF i = 0 THEN 1 ELSE 2 * Power2[i - 1]
  <2> DEFINE E == [i \in Nat |-> IF i = 0 THEN 1 ELSE 2 * Power2[i - 1]]
  <2>1. \A i \in Nat : E[i] = IF i = 0 THEN 1 ELSE 2 * Power2[i - 1]
    OBVIOUS
  <2> HIDE DEF E
  <2>2. Power2 = E
    BY PowerEquation DEF E
  <2> QED BY <2>1, <2>2
<1>2. Power2[0] = 1
  BY <1>1
<1>3. \A n \in Nat : Power2[n + 1] = 2 * Power2[n]
  <2> TAKE n \in Nat
  <2>1. n + 1 \in Nat /\ n + 1 # 0 /\ (n + 1) - 1 = n
    OBVIOUS
  <2> QED BY <1>1, <2>1
<1> DEFINE S == {n \in Nat : Power2[n] \in Positive}
<1>4. 0 \in S
  BY <1>2 DEF Positive
<1>5. \A n \in S : n + 1 \in S
  BY <1>3 DEF Positive
<1>6. S \in SUBSET Nat
  OBVIOUS
<1>7. S = Nat
  <2> HIDE DEF S
  <2> QED BY <1>4, <1>5, <1>6, Induction
<1> QED BY <1>2, <1>3, <1>7

(* k more factors of two are worth a factor k + 1 at least. *)
LEMMA PowerGrows ==
    ASSUME NEW p \in Nat, NEW k \in Nat
    PROVE  Power2[p] * (k + 1) <= Power2[p + k]
<1> DEFINE S == {n \in Nat : Power2[p] * (n + 1) <= Power2[p + n]}
<1>1. 0 \in S
  BY PowerFacts DEF Positive
<1>2. ASSUME NEW n \in S PROVE n + 1 \in S
  <2>1. /\ n \in Nat /\ p + n \in Nat /\ p + (n + 1) = (p + n) + 1
        /\ Power2[p] * (n + 1) <= Power2[p + n]
    OBVIOUS
  <2>2. Power2[p + (n + 1)] = 2 * Power2[p + n]
    BY <2>1, PowerFacts
  <2>3. Power2[p] \in Positive /\ Power2[p + n] \in Positive
    BY <2>1, PowerFacts
  <2>4. Power2[p] * (n + 2) = Power2[p] * (n + 1) + Power2[p]
    BY <2>1, <2>3 DEF Positive
  <2>5. Power2[p] <= Power2[p] * (n + 1) /\ Power2[p] * (n + 1) \in Nat
    BY <2>1, <2>3 DEF Positive
  <2>6. Power2[p] * ((n + 1) + 1) <= Power2[p + (n + 1)]
    BY <2>1, <2>2, <2>3, <2>4, <2>5 DEF Positive
  <2> QED BY <2>1, <2>6
<1>3. S \in SUBSET Nat
  OBVIOUS
<1>4. S = Nat
  <2> HIDE DEF S
  <2> QED BY <1>1, <1>2, <1>3, Induction
<1> QED BY <1>4

(* A quotient rounded up is the least integer not below it. *)
LEMMA CeilDivIs ==
    ASSUME NEW a \in Nat, NEW b \in Positive, NEW q \in Int
    PROVE  CeilDiv(a, b) = q <=> b * (q - 1) < a /\ a <= b * q
<1> DEFINE c == (a + b - 1) \div b
<1>1. c \in Int /\ b * c <= a + b - 1 /\ a + b - 1 < b * (c + 1)
  BY DEF Positive
<1>2. ASSUME NEW n \in Int, b * n <= a + b - 1, a + b - 1 < b * (n + 1)
      PROVE  n = c
  <2>1. ASSUME NEW x \in Int, NEW y \in Int, x < y PROVE b * (x + 1) <= b * y
    BY <2>1 DEF Positive
  <2> HIDE DEF c
  <2>2. b * (n + 1) \in Int /\ b * (c + 1) \in Int /\ b * n \in Int /\ b * c \in Int /\ a + b - 1 \in Int
    BY <1>1 DEF Positive
  <2>3. CASE n < c
    BY <1>1, <1>2, <2>1, <2>2, <2>3
  <2>4. CASE c < n
    BY <1>1, <1>2, <2>1, <2>2, <2>4
  <2> QED BY <1>1, <2>3, <2>4
<1> HIDE DEF c
<1>3. \A n \in Int : b * (n - 1) = b * n - b /\ b * (n + 1) = b * n + b /\ b * n \in Int
  BY DEF Positive
<1>4. CeilDiv(a, b) = c
  BY DEF CeilDiv, c
<1>5. b \in Int /\ a \in Int
  BY DEF Positive
<1>6. b * (q - 1) < a /\ a <= b * q <=> b * q <= a + b - 1 /\ a + b - 1 < b * (q + 1)
  BY <1>3, <1>5
<1>7. b * q <= a + b - 1 /\ a + b - 1 < b * (q + 1) <=> q = c
  BY <1>1, <1>2
<1> QED BY <1>4, <1>6, <1>7

(* Every quotient of up to 2^Precision has a scaling among Scalings: doubling *)
(* the dividend reaches the significand's range, and first reaches it at or   *)
(* below its top.                                                             *)
LEMMA ScalingExists ==
    ASSUME NEW a \in Positive, NEW b \in Positive, a <= Power2[Precision]
    PROVE  \E s \in Scalings(b) : IsScaling(s, a, b, Precision)
<1> DEFINE H == Power2[Precision - 1]
           U == {k \in Nat : H * b <= a * Power2[k]}
<1>1. /\ Precision \in Nat /\ Precision - 1 \in Nat /\ b \in Nat /\ a \in Nat /\ b >= 1 /\ a >= 1
      /\ (Precision - 1) + b \in Nat
  BY PrecisionAssumption DEF Positive
<1>2. H \in Positive /\ Power2[Precision] = 2 * H
  <2>1. (Precision - 1) + 1 = Precision
    BY <1>1
  <2> QED BY <1>1, <2>1, PowerFacts
<1>3. \A k \in Nat : Power2[k] \in Nat /\ Power2[k] >= 1
  BY PowerFacts DEF Positive
<1>4. (Precision - 1) + b \in U
  <2>1. H * (b + 1) <= Power2[(Precision - 1) + b]
    BY <1>1, PowerGrows
  <2> DEFINE p == Power2[(Precision - 1) + b]
  <2>2. p \in Nat /\ H \in Nat
    BY <1>1, <1>2, <1>3 DEF Positive
  <2> HIDE DEF p, H
  <2>3. H * (b + 1) = H * b + H /\ H * b \in Nat
    BY <1>1, <2>2
  <2>4. p <= a * p
    BY <1>1, <2>2
  <2>5. H * b <= a * p
    <3>1. a * p \in Nat
      BY <1>1, <2>2
    <3>2. H * (b + 1) <= p
      BY <2>1 DEF p, H
    <3> HIDE DEF U
    <3> QED BY <2>2, <2>3, <2>4, <3>1, <3>2
  <2> QED BY <1>1, <2>5 DEF p
<1>5. PICK m \in U : \A k \in U : m <= k
  <2>1. U \in SUBSET Nat /\ U # {}
    BY <1>4
  <2> HIDE DEF U
  <2> QED BY <2>1, Least
<1>6. m \in 0 .. Precision + b /\ m \in Nat /\ H * b <= a * Power2[m]
  <2>1. m \in Nat /\ H * b <= a * Power2[m]
    OBVIOUS
  <2>2. m <= (Precision - 1) + b
    BY <1>4, <1>5
  <2> QED BY <1>1, <2>1, <2>2
<1>7. \A i \in 0 .. Precision + b : /\ [up |-> Power2[i], down |-> 1] \in Scalings(b)
                                    /\ [up |-> 1, down |-> Power2[i]] \in Scalings(b)
  BY DEF Scalings
<1>8. CASE m = 0 /\ (b > 1 \/ a < Power2[Precision])
  <2> DEFINE s == [up |-> Power2[0], down |-> 1]
  <2>1. s \in Scalings(b) /\ s.up = 1 /\ s.down = 1
    BY <1>6, <1>7, <1>8, PowerFacts
  <2>2. H * b <= a * 1
    BY <1>6, <1>8, PowerFacts
  <2>3. 2 * H < 2 * H * b \/ b = 1
    BY <1>1, <1>2 DEF Positive
  <2>4. a < Power2[Precision] * b
    <3> HIDE DEF H
    <3> QED BY <1>1, <1>2, <1>8, <2>3 DEF Positive
  <2>5. IsScaling(s, a, b, Precision)
    <3>1. H * b * 1 <= a * 1 /\ a * 1 < Power2[Precision] * b * 1
      <4> DEFINE T == Power2[Precision]
      <4>1. T \in Nat /\ H \in Nat
        BY <1>1, <1>2, <1>3 DEF Positive
      <4>2. a < T * b
        BY <2>4
      <4> HIDE DEF T, H
      <4>3. T * b * 1 = T * b /\ H * b * 1 = H * b /\ a * 1 = a
        BY <1>1, <4>1
      <4> QED BY <2>2, <4>2, <4>3 DEF T
    <3> HIDE DEF s
    <3> QED BY <2>1, <3>1 DEF IsScaling
  <2> QED BY <2>1, <2>5
<1>9. CASE m = 0 /\ ~(b > 1 \/ a < Power2[Precision])
  <2> DEFINE s == [up |-> 1, down |-> Power2[1]]
  <2>1. b = 1 /\ a = 2 * H
    BY <1>1, <1>2, <1>9 DEF Positive
  <2>2. Power2[1] = 2
    <3>1. Power2[0 + 1] = 2 * Power2[0]
      BY PowerFacts
    <3> QED BY <3>1, PowerFacts
  <2>3. s \in Scalings(b) /\ s.up = 1 /\ s.down = 2
    <3>1. 1 \in 0 .. Precision + b
      BY <1>1
    <3>2. s \in Scalings(b)
      BY <1>7, <3>1
    <3> QED BY <2>2, <3>2
  <2>4. IsScaling(s, a, b, Precision)
    <3>1. H * 1 * 2 <= (2 * H) * 1 /\ (2 * H) * 1 < (2 * H) * 1 * 2
      BY <1>2 DEF Positive
    <3> HIDE DEF s
    <3> QED BY <1>2, <2>1, <2>3, <3>1 DEF IsScaling
  <2> QED BY <2>3, <2>4
<1>10. CASE m # 0
  <2> DEFINE s == [up |-> Power2[m], down |-> 1]
             v == Power2[m - 1]
  <2>1. m - 1 \in Nat /\ (m - 1) + 1 = m /\ m - 1 < m
    BY <1>6, <1>10
  <2>2. Power2[m] = 2 * v /\ v \in Nat
    <3>1. Power2[(m - 1) + 1] = 2 * v
      BY <2>1, PowerFacts
    <3> QED BY <1>3, <2>1, <3>1
  <2>3. ~(H * b <= a * v)
    BY <1>5, <1>6, <2>1
  <2>4. s \in Scalings(b) /\ s.up = Power2[m] /\ s.down = 1
    BY <1>6, <1>7
  <2> HIDE DEF U, H, v, s
  <2>5. H \in Nat
    BY <1>2 DEF Positive
  <2>6. a * (2 * v) < (2 * H) * b
    <3>1. H * b \in Nat /\ a * v \in Nat /\ a * (2 * v) = 2 * (a * v) /\ (2 * H) * b = 2 * (H * b)
      BY <1>1, <2>2, <2>5
    <3> QED BY <2>3, <3>1
  <2>7. H * b * 1 <= a * Power2[m] /\ a * Power2[m] < Power2[Precision] * b * 1
    <3>1. H * b * 1 = H * b /\ (2 * H) * b * 1 = (2 * H) * b
      BY <1>1, <2>5
    <3> QED BY <1>2, <1>6, <2>2, <2>6, <3>1
  <2> QED BY <2>4, <2>7 DEF IsScaling, H
<1> QED BY <1>8, <1>9, <1>10

(* The nearest integer to x / b is one of the two next to it: the lower one   *)
(* when the remainder is less than half of b, the upper one when it is more.  *)
LEMMA NearestIs ==
    ASSUME NEW x \in Nat, NEW b \in Positive, NEW q \in Nat
    PROVE  /\ x <= b * q => Nearest(x, b) <= q
           /\ b * q <= x => q <= Nearest(x, b)
           /\ b * q < x /\ b < 2 * (x - b * q) => q < Nearest(x, b)
           /\ Nearest(x, b) \in Nat
<1> DEFINE d == x \div b
           r == x % b
           n == Nearest(x, b)
<1>1. d \in Nat /\ r \in 0 .. b - 1 /\ x = b * d + r
  BY DEF Positive
<1>2. /\ n \in {d, d + 1}
      /\ r = 0 => n = d
      /\ b < 2 * r => n = d + 1
  <2>1. r = 0 => ~(2 * r > b) /\ ~(2 * r = b)
    BY DEF Positive
  <2> HIDE DEF d, r
  <2>2. n = IF 2 * r > b \/ (2 * r = b /\ d % 2 = 1) THEN d + 1 ELSE d
    BY DEF Nearest, d, r
  <2>3. r \in Int /\ b \in Int
    BY <1>1 DEF Positive
  <2>4. b < 2 * r => 2 * r > b
    BY <2>3
  <2> HIDE DEF n
  <2> QED BY <2>1, <2>2, <2>4
<1> HIDE DEF d, r, n
<1>3. \A y, z \in Nat : y < z => b * y + b <= b * z
  <2> SUFFICES ASSUME NEW y \in Nat, NEW z \in Nat, y < z PROVE b * y + b <= b * z
    OBVIOUS
  <2>1. b * (y + 1) <= b * z
    BY DEF Positive
  <2> QED BY <2>1 DEF Positive
<1>4. b \in Nat /\ b >= 1 /\ b * q \in Nat /\ b * d \in Nat /\ r \in Nat /\ r < b
  BY <1>1 DEF Positive
<1>5. x <= b * q => n <= q
  <2> HAVE x <= b * q
  <2>1. CASE q < d
    BY <1>1, <1>3, <1>4, <2>1
  <2>2. CASE q = d
    <3>1. r = 0
      BY <1>1, <1>4, <2>2
    <3> QED BY <1>1, <1>2, <2>2, <3>1
  <2>3. CASE d < q
    BY <1>1, <1>2, <2>3
  <2> QED BY <1>1, <2>1, <2>2, <2>3
<1>6. b * q <= x => q <= n
  <2> HAVE b * q <= x
  <2>1. ~(d < q)
    BY <1>1, <1>3, <1>4
  <2> QED BY <1>1, <1>2, <2>1
<1>7. b * q < x /\ b < 2 * (x - b * q) => q < n
  <2> HAVE b * q < x /\ b < 2 * (x - b * q)
  <2>1. ~(d < q)
    BY <1>1, <1>3, <1>4
  <2>2. CASE q = d
    <3>1. b < 2 * r
      BY <1>1, <1>4, <2>2
    <3> QED BY <1>1, <1>2, <2>2, <3>1
  <2>3. CASE q < d
    BY <1>1, <1>2, <2>3
  <2> QED BY <1>1, <2>1, <2>2, <2>3
<1> QED BY <1>1, <1>2, <1>5, <1>6, <1>7 DEF n

(* Rounding a scaled-up quotient to the nearest integer, and that up to the   *)
(* next multiple of the scale, ends where rounding the quotient up does.      *)
LEMMA ScaledUp ==
    ASSUME NEW H \in Positive, NEW a \in Positive, NEW b \in Positive, NEW u \in Positive,
           a <= 2 * H, H * b <= a * u
    PROVE  CeilDiv(Nearest(a * u, b), u) = CeilDiv(a, b)
<1> DEFINE q == CeilDiv(a, b)
           n == Nearest(a * u, b)
<1>0. a \in Nat /\ b \in Nat /\ u \in Nat /\ H \in Nat /\ a >= 1 /\ b >= 1 /\ u >= 1 /\ H >= 1
  BY DEF Positive
<1>1. q \in Int
  BY <1>0 DEF CeilDiv
<1>2. b * (q - 1) < a /\ a <= b * q
  BY <1>0, <1>1, CeilDivIs
<1> HIDE DEF q
<1>3. q >= 1
  <2>1. ASSUME q <= 0 PROVE b * q <= 0
    BY <1>0, <1>1, <2>1
  <2>2. b * q \in Int
    BY <1>0, <1>1
  <2> QED BY <1>0, <1>1, <1>2, <2>1, <2>2
<1>4. a * u \in Nat /\ q - 1 \in Nat /\ q \in Nat /\ q * u \in Nat /\ (q - 1) * u \in Nat
  <2>1. q - 1 \in Nat /\ q \in Nat
    BY <1>1, <1>3
  <2> QED BY <1>0, <2>1
<1>5. b <= 2 * u
  <2>1. a * u <= (2 * H) * u
    BY <1>0, ProductMonotone
  <2>2. H * b <= H * (2 * u)
    <3>1. (2 * H) * u = H * (2 * u)
      BY <1>0
    <3>2. H * b \in Nat /\ H * (2 * u) \in Nat
      BY <1>0
    <3> QED BY <1>4, <2>1, <3>1, <3>2
  <2>3. ASSUME 2 * u < b PROVE FALSE
    <3>1. H * (2 * u + 1) <= H * b
      BY <1>0, <2>3, ProductMonotone
    <3>2. H * (2 * u + 1) = H * (2 * u) + H
      BY <1>0
    <3>3. H * (2 * u) \in Nat /\ H * b \in Nat
      BY <1>0
    <3> QED BY <1>0, <2>2, <3>1, <3>2, <3>3
  <2> QED BY <1>0, <2>3
<1>6. n <= q * u /\ n \in Nat
  <2>1. a * u <= b * (q * u)
    <3>1. a * u <= (b * q) * u
      BY <1>0, <1>2, <1>4, ProductMonotone
    <3>2. (b * q) * u = b * (q * u)
      BY <1>0, <1>4
    <3> QED BY <3>1, <3>2
  <2> QED BY <1>0, <1>4, <2>1, NearestIs
<1>7. (q - 1) * u < n
  <2> DEFINE p == q - 1
             y == b * (p * u)
  <2>1. p \in Nat /\ p * u \in Nat /\ y \in Nat /\ y = (b * p) * u /\ b * p \in Nat
    BY <1>0, <1>4
  <2>2. b * p + 1 <= a
    BY <1>0, <1>2, <1>4, <2>1
  <2>3. y + u <= a * u
    <3>1. (b * p + 1) * u <= a * u
      BY <1>0, <2>1, <2>2, ProductMonotone
    <3>2. (b * p + 1) * u = (b * p) * u + u
      BY <1>0, <2>1
    <3> QED BY <2>1, <3>1, <3>2
  <2>4. y < a * u
    BY <1>0, <1>4, <2>1, <2>3
  <2>5. CASE b < 2 * (a * u - y)
    BY <1>0, <1>4, <2>1, <2>4, <2>5, NearestIs
  <2>6. CASE ~(b < 2 * (a * u - y))
    <3>1. a * u = y + u /\ b = 2 * u
      <4> HIDE DEF p, y
      <4> QED BY <1>0, <1>4, <1>5, <2>1, <2>3, <2>6
    <3>2. a = b * p + 1
      <4>1. ASSUME b * p + 2 <= a PROVE FALSE
        <5>1. (b * p + 2) * u <= a * u
          BY <1>0, <2>1, <4>1, ProductMonotone
        <5>2. (b * p + 2) * u = (b * p) * u + 2 * u
          BY <1>0, <2>1
        <5> HIDE DEF p, y
        <5> QED BY <1>0, <1>4, <2>1, <3>1, <5>1, <5>2
      <4> QED BY <1>0, <2>1, <2>2, <4>1
    <3>3. 2 * H <= a
      <4>1. (2 * H) * u <= a * u
        <5>1. H * b = (2 * H) * u
          BY <1>0, <3>1
        <5> QED BY <5>1
      <4>2. ASSUME a < 2 * H PROVE FALSE
        <5>1. (a + 1) * u <= (2 * H) * u
          BY <1>0, <4>2, ProductMonotone
        <5>2. (a + 1) * u = a * u + u /\ (2 * H) * u \in Nat
          BY <1>0
        <5> QED BY <1>0, <1>4, <4>1, <5>1, <5>2
      <4> QED BY <1>0, <4>2
    <3>4. b * p = 2 * (u * p)
      BY <1>0, <2>1, <3>1
    <3>5. 2 * H = 2 * (u * p) + 1 /\ u * p \in Nat
      BY <1>0, <2>1, <3>2, <3>3, <3>4
    <3> HIDE DEF p
    <3> QED BY <1>0, <3>5
  <2> QED BY <2>5, <2>6
<1> HIDE DEF n
<1>8. u * (q - 1) < n /\ n <= u * q
  <2>1. u * (q - 1) = (q - 1) * u /\ u * q = q * u
    BY <1>0, <1>4
  <2> QED BY <1>6, <1>7, <2>1
<1>9. CeilDiv(n, u) = q
  BY <1>1, <1>6, <1>8, CeilDivIs
<1> QED BY <1>9 DEF n, q

(* math.ceil of the rounded quotient of a dividend of up to 2^Precision is   *)
(* the quotient rounded up, whatever the divisor.                            *)
LEMMA CeilQuotientExact ==
    ASSUME NEW a \in Positive, NEW b \in Positive, a <= Power2[Precision]
    PROVE  CeilQuotient(a, b) = CeilDiv(a, b)
<1> DEFINE s == CHOOSE s \in Scalings(b) : IsScaling(s, a, b, Precision)
           H == Power2[Precision - 1]
<1>1. s \in Scalings(b) /\ IsScaling(s, a, b, Precision)
  BY ScalingExists
<1>2. CeilQuotient(a, b) = CeilDiv(Nearest(a * s.up, b * s.down) * s.down, s.up)
  BY DEF CeilQuotient
<1> HIDE DEF s
<1>3. a \in Nat /\ b \in Nat /\ a >= 1 /\ b >= 1
  BY DEF Positive
<1>4. H \in Positive /\ Power2[Precision] = 2 * H
  <2>1. (Precision - 1) + 1 = Precision /\ Precision - 1 \in Nat
    BY PrecisionAssumption
  <2> QED BY <2>1, PowerFacts
<1>5. H * b * s.down <= a * s.up
  BY <1>1 DEF IsScaling
<1>6. s.up \in Positive /\ s.down \in Positive /\ (s.up = 1 \/ s.down = 1)
  <2>1. \A i \in 0 .. Precision + b : Power2[i] \in Positive
    <3>1. \A i \in 0 .. Precision + b : i \in Nat
      BY PrecisionAssumption, <1>3
    <3> QED BY <3>1, PowerFacts
  <2>2. 1 \in Positive
    BY DEF Positive
  <2> QED BY <1>1, <2>1, <2>2 DEF Scalings
<1> DEFINE u == s.up
           d == s.down
<1>7. u \in Positive /\ d \in Positive /\ H * b * d <= a * u /\ a <= 2 * H
  BY <1>4, <1>5, <1>6
<1>8. CeilQuotient(a, b) = CeilDiv(Nearest(a * u, b * d) * d, u)
  BY <1>2
<1>9. u = 1 \/ d = 1
  BY <1>6
<1> HIDE DEF u, d, H
<1>10. u \in Nat /\ u >= 1 /\ d \in Nat /\ d >= 1 /\ H \in Nat /\ H >= 1
  BY <1>4, <1>7 DEF Positive
<1>11. CASE d = 1
  <2>1. H * b * 1 = H * b /\ b * 1 = b /\ a * u \in Nat
    BY <1>3, <1>10
  <2>2. CeilDiv(Nearest(a * u, b), u) = CeilDiv(a, b)
    BY <1>4, <1>7, <1>11, <2>1, ScaledUp
  <2>3. Nearest(a * u, b) \in Nat
    BY <2>1, NearestIs
  <2>4. Nearest(a * u, b) * 1 = Nearest(a * u, b)
    BY <2>3
  <2> QED BY <1>8, <1>11, <2>1, <2>2, <2>4
<1>12. CASE u = 1 /\ d # 1
  <2>1. H * (b * d) <= 2 * H
    <3>1. H * b * d = H * (b * d) /\ a * 1 = a
      BY <1>3, <1>10
    <3>2. H * b * d <= a * 1 /\ a <= 2 * H
      BY <1>7, <1>12
    <3>3. H * (b * d) \in Nat
      BY <1>3, <1>10
    <3> QED BY <1>3, <1>10, <3>1, <3>2, <3>3
  <2>2. b * d <= 2
    <3>1. ASSUME 3 <= b * d PROVE FALSE
      <4>1. b * d \in Nat
        BY <1>3, <1>10
      <4>2. H * 3 <= H * (b * d)
        BY <1>10, <3>1, <4>1, ProductMonotone
      <4>3. H * (b * d) \in Nat
        BY <1>10, <4>1
      <4> QED BY <1>10, <2>1, <4>2, <4>3
    <3>2. b * d \in Nat
      BY <1>3, <1>10
    <3> QED BY <3>1, <3>2
  <2>3. d = 2 /\ b = 1
    <3>1. 2 * b <= b * d
      BY <1>3, <1>10, <1>12
    <3>2. b = 1
      BY <1>3, <1>10, <2>2, <3>1
    <3> QED BY <1>10, <1>12, <2>2, <3>2
  <2>4. a = 2 * H
    <3>1. H * 1 * 2 <= a * 1 /\ a <= 2 * H
      BY <1>7, <1>12, <2>3
    <3> QED BY <1>3, <1>10, <3>1
  <2>5. Nearest(2 * H, 2) = H
    <3>1. (2 * H) \div 2 = H /\ (2 * H) % 2 = 0
      BY <1>10
    <3> QED BY <3>1 DEF Nearest
  <2>6. CeilDiv(2 * H, 1) = 2 * H
    BY <1>10 DEF CeilDiv
  <2>7. CeilQuotient(a, b) = CeilDiv(Nearest((2 * H) * 1, 1 * 2) * 2, 1) /\ CeilDiv(a, b) = CeilDiv(2 * H, 1)
    BY <1>8, <1>12, <2>3, <2>4
  <2>8. (2 * H) * 1 = 2 * H /\ 1 * 2 = 2 /\ H * 2 = 2 * H
    BY <1>10
  <2> QED BY <2>5, <2>7, <2>8
<1> QED BY <1>9, <1>11, <1>12

(* Every tile loop of a validated candidate has the extent's exact count. *)
LEMMA IInvCounts == IInv => TileCountsExact
<1> SUFFICES ASSUME IInv, pc = "visiting", NEW axis \in TileAxes
             PROVE  LET extent == [oc |-> contract.oc, oh |-> OutH(contract), ow |-> OutW(contract)][axis]
                        size   == candidate.tiles[axis]
                    IN  extent <= Power2[Precision] => CeilQuotient(extent, size) = CeilDiv(extent, size)
  BY DEF TileCountsExact
<1>1. ValidGeometry(contract) /\ TilesValid(candidate.tiles)
  BY ArgumentsValid DEF IInv
<1>2. candidate.tiles[axis] \in Positive
  BY <1>1 DEF TilesValid
<1>3. [oc |-> contract.oc, oh |-> OutH(contract), ow |-> OutW(contract)][axis] \in Positive
  BY <1>1, ExtentsPositive DEF TileAxes
<1> QED BY <1>2, <1>3, CeilQuotientExact

(* The loops leave out no tile and repeat none although the code counts them  *)
(* with math.ceil of a rounded quotient: for every significand length, every  *)
(* tile size and every extent that a float holds exactly, the rounded         *)
(* quotient rounds up to the exact count.  performance.py 92-94.              *)
THEOREM CountsExact == Spec => []TileCountsExact
BY InitIInv, NextIInv, IInvCounts, PTL DEF Spec
=============================================================================
