---------------------------- MODULE TileTraffic ----------------------------
(***************************************************************************)
(* estimate_direct_conv (performance.py): the analytical model that prices  *)
(* a mapping candidate by visiting every tile of the output.                *)
(*                                                                          *)
(* The call first validates the candidate; then each pass through the body  *)
(* of the four tile loops is a step (VisitTile) that adds the tile's bytes  *)
(* to the traffic; Finish forms the estimate.  The loop variables batch,    *)
(* oc_tile, oh_tile and ow_tile are the record tile.                        *)
(*                                                                          *)
(* Cycles are quotients of floats in the code.  Here the terms of an        *)
(* estimate are exact and kept over the common denominator flops_per_cycle  *)
(* * bandwidth; the rounding of the floats is left out.                     *)
(*                                                                          *)
(* visited is a history variable: the tiles visited so far.  The code keeps *)
(* no such set; the properties say what the sums it does keep stand for.    *)
(***************************************************************************)
EXTENDS Mapping, FloatQuotient

CONSTANTS
    Contracts,               \* geometries of the validated contracts
    Targets,                 \* profiles that TargetProfile.validate accepted
    Proposals(_, _)          \* the candidates offered for a contract and a target

ASSUME ContractsAssumption == \A g \in Contracts : ValidGeometry(g)
ASSUME TargetsAssumption == \A t \in Targets : TargetValid(t)

VARIABLES
    contract, candidate, target,   \* the arguments
    pc,         \* "called", "visiting", "returned" or "raised"
    tile,       \* batch, oc_tile, oh_tile, ow_tile
    traffic,    \* bytes per tensor
    estimate,   \* the PerformanceEstimate returned, or None
    visited     \* history: the tiles visited

args == <<contract, candidate, target>>
vars == <<contract, candidate, target, pc, tile, traffic, estimate, visited>>

-----------------------------------------------------------------------------
(* The tile grid.  CeilDiv stands for math.ceil of a float quotient: that it *)
(* may is TileCountsExact.                                                   *)

TilesOC(g, tiles) == CeilDiv(g.oc, tiles.oc)
TilesOH(g, tiles) == CeilDiv(OutH(g), tiles.oh)
TilesOW(g, tiles) == CeilDiv(OutW(g), tiles.ow)
(* Mutant of TileCount: the batch is forgotten. *)
TileCount_NoBatch(g, tiles) == TilesOC(g, tiles) * TilesOH(g, tiles) * TilesOW(g, tiles)

TileCount(g, tiles) == g.n * TilesOC(g, tiles) * TilesOH(g, tiles) * TilesOW(g, tiles)

(* Mutant of Clipped: the last tile is not clipped. *)
Clipped_Never(size, dim, i) == size

(* The extent of tile number i of a dimension cut into tiles of the given    *)
(* size: the last tile is clipped.                                           *)
Clipped(size, dim, i) == MinOf(size, dim - i * size)

ActualOC(g, tiles, x) == Clipped(tiles.oc, g.oc, x.oc)
ActualOH(g, tiles, x) == Clipped(tiles.oh, OutH(g), x.oh)
ActualOW(g, tiles, x) == Clipped(tiles.ow, OutW(g), x.ow)

FirstTile == [n |-> 0, oc |-> 0, oh |-> 0, ow |-> 0]

(* Mutants of NextTile: rows restart at the second tile; one row of tiles too many. *)
NextTile_SkipsRow(g, tiles, x) ==
    IF x.ow + 1 < TilesOW(g, tiles) THEN [n |-> x.n, oc |-> x.oc, oh |-> x.oh, ow |-> x.ow + 1]
    ELSE IF x.oh + 1 < TilesOH(g, tiles) THEN [x EXCEPT !.oh = @ + 1, !.ow = MinOf(1, TilesOW(g, tiles) - 1)]
    ELSE IF x.oc + 1 < TilesOC(g, tiles) THEN [n |-> x.n, oc |-> x.oc + 1, oh |-> 0, ow |-> 0]
    ELSE [n |-> x.n + 1, oc |-> 0, oh |-> 0, ow |-> 0]

NextTile_ExtraRow(g, tiles, x) ==
    IF x.ow + 1 < TilesOW(g, tiles) THEN [n |-> x.n, oc |-> x.oc, oh |-> x.oh, ow |-> x.ow + 1]
    ELSE IF x.oh + 1 <= TilesOH(g, tiles) THEN [n |-> x.n, oc |-> x.oc, oh |-> x.oh + 1, ow |-> 0]
    ELSE IF x.oc + 1 < TilesOC(g, tiles) THEN [n |-> x.n, oc |-> x.oc + 1, oh |-> 0, ow |-> 0]
    ELSE [n |-> x.n + 1, oc |-> 0, oh |-> 0, ow |-> 0]

NextTile(g, tiles, x) ==
    IF x.ow + 1 < TilesOW(g, tiles) THEN [n |-> x.n, oc |-> x.oc, oh |-> x.oh, ow |-> x.ow + 1]
    ELSE IF x.oh + 1 < TilesOH(g, tiles) THEN [n |-> x.n, oc |-> x.oc, oh |-> x.oh + 1, ow |-> 0]
    ELSE IF x.oc + 1 < TilesOC(g, tiles) THEN [n |-> x.n, oc |-> x.oc + 1, oh |-> 0, ow |-> 0]
    ELSE [n |-> x.n + 1, oc |-> 0, oh |-> 0, ow |-> 0]

(* Mutant of BytesOf: the halo of the kernel is forgotten. *)
BytesOf_NoHalo(g, tiles, x) ==
    [input  |-> g.c * (ActualOH(g, tiles, x) * g.sh) * (ActualOW(g, tiles, x) * g.sw) * F32Bytes,
     filter |-> ActualOC(g, tiles, x) * g.c * g.kh * g.kw * F32Bytes,
     output |-> ActualOC(g, tiles, x) * ActualOH(g, tiles, x) * ActualOW(g, tiles, x) * F32Bytes]

(* What one pass through the loop body adds to the traffic *)
BytesOf(g, tiles, x) ==
    LET inputH == (ActualOH(g, tiles, x) - 1) * g.sh + g.kh
        inputW == (ActualOW(g, tiles, x) - 1) * g.sw + g.kw
    IN  [input  |-> g.c * inputH * inputW * F32Bytes,
         filter |-> ActualOC(g, tiles, x) * g.c * g.kh * g.kw * F32Bytes,
         output |-> ActualOC(g, tiles, x) * ActualOH(g, tiles, x) * ActualOW(g, tiles, x) * F32Bytes]

-----------------------------------------------------------------------------
FlopsPerCycle(t) == GetOr(t.performance, "f32_flops_per_cycle", 1)
Bandwidth(t)     == GetOr(t.performance, "memory_bandwidth_bytes_per_cycle", 16)
Overhead(t)      == GetOr(t.performance, "overhead_cycles_per_tile", 8)
Confidence(t)    == GetOr(t.performance, "model_confidence", 0)

MaxOf(a, b) == IF a >= b THEN a ELSE b

(* The estimate for the traffic summed over the tiles *)
Estimate(g, c, t, bytes) ==
    LET compute  == Flops(g) * Bandwidth(t)
        memory   == (bytes.input + bytes.filter + bytes.output) * FlopsPerCycle(t)
        overhead == TileCount(g, c.tiles) * Overhead(t) * FlopsPerCycle(t) * Bandwidth(t)
    IN  [candidate_ref |-> CandidateFingerprint(c),
         flops         |-> Flops(g),
         traffic       |-> bytes,
         compute       |-> compute,
         memory        |-> memory,
         overhead      |-> overhead,
         latency       |-> MaxOf(compute, memory) + overhead,
         bottleneck    |-> CASE compute > memory -> "compute"
                             [] memory > compute -> "memory"
                             [] OTHER            -> "balanced",
         confidence    |-> Confidence(t)]

TilesLeft == tile.n < contract.n

Init ==
    /\ contract \in Contracts
    /\ target \in Targets
    /\ candidate \in Proposals(contract, target)
    /\ pc = "called"
    /\ tile = FirstTile
    /\ traffic = [tensor \in Tensors |-> 0]
    /\ estimate = None
    /\ visited = {}

(* candidate.validate(contract, target) raises *)
Raise ==
    /\ pc = "called" /\ ~CandidateValid(candidate, contract, target)
    /\ pc' = "raised"
    /\ UNCHANGED <<args, tile, traffic, estimate, visited>>

Start ==
    /\ pc = "called" /\ CandidateValid(candidate, contract, target)
    /\ pc' = "visiting"
    /\ UNCHANGED <<args, tile, traffic, estimate, visited>>

VisitTile ==
    /\ pc = "visiting" /\ TilesLeft
    /\ traffic' = [tensor \in Tensors |->
                      traffic[tensor] + BytesOf(contract, candidate.tiles, tile)[tensor]]
    /\ tile' = NextTile(contract, candidate.tiles, tile)
    /\ visited' = visited \union {tile}
    /\ UNCHANGED <<args, pc, estimate>>

Finish ==
    /\ pc = "visiting" /\ ~TilesLeft
    /\ estimate' = Estimate(contract, candidate, target, traffic)
    /\ pc' = "returned"
    /\ UNCHANGED <<args, tile, traffic, visited>>

Next == Raise \/ Start \/ VisitTile \/ Finish

Spec == Init /\ [][Next]_vars

-----------------------------------------------------------------------------
(* Properties *)

OutputCells(g) == [n : 0 .. g.n - 1, oc : 0 .. g.oc - 1, oh : 0 .. OutH(g) - 1, ow : 0 .. OutW(g) - 1]

TileType(g, tiles) ==
    [n : 0 .. g.n, oc : 0 .. TilesOC(g, tiles) - 1,
     oh : 0 .. TilesOH(g, tiles) - 1, ow : 0 .. TilesOW(g, tiles) - 1]

(* The output cells inside the box of a tile *)
CellsOf(g, tiles, x) ==
    {y \in OutputCells(g) : /\ y.n = x.n
                            /\ y.oc \div tiles.oc = x.oc
                            /\ y.oh \div tiles.oh = x.oh
                            /\ y.ow \div tiles.ow = x.ow}

Covered == UNION {CellsOf(contract, candidate.tiles, x) : x \in visited}

(* The tile indices stay inside the grid of ceil-many tiles. *)
TypeOK ==
    /\ contract \in Contracts /\ target \in Targets /\ candidate \in Proposals(contract, target)
    /\ pc \in {"called", "visiting", "returned", "raised"}
    /\ pc = "visiting" => tile \in TileType(contract, candidate.tiles)
    /\ traffic \in [Tensors -> Nat]
    /\ visited # {} => visited \subseteq TileType(contract, candidate.tiles)

(* No tile the model prices ever needs more bytes of any tensor than         *)
(* tile_working_set_by_tensor_bytes told the legality check it would, so in  *)
(* a validated candidate every tile fits every explicitly managed resource   *)
(* (contracts.py 432-443 and 501-515 against performance.py 99-110: the two  *)
(* clip and size tiles in code of their own).                                *)
EveryTileFits ==
    (pc = "visiting" /\ TilesLeft) =>
        LET bytes == BytesOf(contract, candidate.tiles, tile)
        IN  /\ \A tensor \in Tensors :
                   bytes[tensor] \in 1 .. WorkingSet(contract, candidate.tiles)[tensor]
            /\ \A id \in DOMAIN target.resources :
                   Holds(target.resources[id], Usage(candidate.memory_residency, bytes, id))

(* The output traffic counts each output cell once: the tiles visited so far *)
(* are disjoint, ragged edges included (performance.py 93-110).              *)
OutputCountedOnce == traffic["output"] = F32Bytes * Cardinality(Covered)

(* The estimate prices the whole convolution: at the return every output     *)
(* cell lies in a visited tile and the output traffic is the contract's      *)
(* logical output bytes (performance.py 91-110 against contracts.py 243-257).*)
EstimateCoversOutput ==
    pc = "returned" =>
        /\ Covered = OutputCells(contract)
        /\ estimate.traffic["output"] = LogicalBytes(contract).output

(* The input elements inside the image that a set of output cells reads, and *)
(* the filter elements it reads *)
InputRead(g, cells) ==
    {x \in [n : 0 .. g.n - 1, row : 0 .. g.h - 1, col : 0 .. g.w - 1] :
        \E y \in cells : /\ y.n = x.n
                         /\ x.row + g.pt - y.oh * g.sh \in 0 .. g.kh - 1
                         /\ x.col + g.pl - y.ow * g.sw \in 0 .. g.kw - 1}

FilterRead(cells) == {y.oc : y \in cells}

(* The assumption every estimate states, "traffic is a tile-level            *)
(* upper-bound" (performance.py 127): at each point the traffic is at least  *)
(* the bytes of the distinct input and filter elements the visited tiles     *)
(* read.                                                                     *)
TrafficIsUpperBound ==
    /\ traffic["input"] >= F32Bytes * contract.c * Cardinality(InputRead(contract, Covered))
    /\ traffic["filter"] >=
           F32Bytes * contract.c * contract.kh * contract.kw * Cardinality(FilterRead(Covered))

(* The overhead term charges each visited tile once: the product of line 95  *)
(* agrees with the iterations of the loops of 97-110.                        *)
OverheadPerVisit ==
    pc = "returned" =>
        estimate.overhead = Cardinality(visited) * Overhead(target) * FlopsPerCycle(target) * Bandwidth(target)

(* The tiles the code counts are the tiles there are, although it counts     *)
(* with math.ceil of a rounded quotient: a quotient a little above an        *)
(* integer must not round down to it, or the loops would leave out the last  *)
(* tile (performance.py 92-94).  An extent of up to 2^Precision is safe;     *)
(* 2^Precision + 1 cut by 2^Precision is not.                                *)
TileCountsExact ==
    pc = "visiting" =>
        \A axis \in TileAxes :
            LET extent == [oc |-> contract.oc, oh |-> OutH(contract), ow |-> OutW(contract)][axis]
                size   == candidate.tiles[axis]
            IN  extent <= Power2[Precision] => CeilQuotient(extent, size) = CeilDiv(extent, size)
=============================================================================
