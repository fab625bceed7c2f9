------------------------------ MODULE Mapping ------------------------------
(***************************************************************************)
(* TargetProfile and MappingCandidate (contracts.py): what a profile states *)
(* about a target, what a candidate proposes for one contract on one        *)
(* profile, and which of them validate accepts.                             *)
(*                                                                          *)
(* validate collects every issue and raises one error if there is any, so   *)
(* the order of its checks shows nowhere but in the message: acceptance is  *)
(* the conjunction of the checks.  A mapping with optional keys is a        *)
(* function on the keys it has.                                             *)
(***************************************************************************)
EXTENDS ConvShape, Sequences, FiniteSets

CONSTANT None    \* Python's None

MinOf(a, b) == IF a <= b THEN a ELSE b

(* mapping.get(key, default) *)
GetOr(m, key, default) == IF key \in DOMAIN m THEN m[key] ELSE default

(* content_fingerprint: SHA-256 of the canonical JSON, taken to be injective *)
Fingerprint(kind, content) == <<"sha256", kind, content>>

ConvAxes == {"n", "oc", "oh", "ow", "ic", "kh", "kw"}
TileAxes == {"oc", "oh", "ow"}
Tensors  == {"input", "filter", "output"}

-----------------------------------------------------------------------------
(* TargetProfile *)

Metrics == {"f32_flops_per_cycle", "memory_bandwidth_bytes_per_cycle", "overhead_cycles_per_tile"}

TargetRef(t) == <<t.target_id, t.profile_version>>

TargetFingerprint(t) == Fingerprint("target", t)

ResourceValid(r) ==
    /\ GetOr(r, "kind", "") # ""
    /\ "capacity_bytes" \in DOMAIN r => r.capacity_bytes \in Positive

(* TargetProfile.validate; model_confidence is a percentage here. *)
TargetValid(t) ==
    /\ t.schema_version = 1
    /\ t.target_id # "" /\ t.backend # ""
    /\ t.profile_version > 0
    /\ DOMAIN t.resources # {}
    /\ \A id \in DOMAIN t.resources : ResourceValid(t.resources[id])
    /\ DOMAIN t.performance \subseteq (Metrics \union {"model_confidence"})
    /\ \A m \in Metrics \intersect DOMAIN t.performance : t.performance[m] > 0
    /\ GetOr(t.performance, "model_confidence", 0) \in 0 .. 100

ManagedKinds == {"register", "sram", "scratchpad", "shared_memory"}

ExplicitlyManaged(r) == GetOr(r, "explicitly_managed", r.kind \in ManagedKinds)

-----------------------------------------------------------------------------
(* MappingCandidate *)

ContractFingerprint(g) == Fingerprint("contract", g)

CandidateFingerprint(c) == Fingerprint("candidate", c)

(* Mutant of WorkingSet: the stride between the windows of a tile is forgotten. *)
WorkingSet_NoStride(g, tiles) ==
    LET oc == MinOf(tiles.oc, g.oc)
        oh == MinOf(tiles.oh, OutH(g))
        ow == MinOf(tiles.ow, OutW(g))
    IN  [input  |-> g.c * (oh - 1 + g.kh) * (ow - 1 + g.kw) * F32Bytes,
         filter |-> oc * g.c * g.kh * g.kw * F32Bytes,
         output |-> oc * oh * ow * F32Bytes]

(* tile_working_set_by_tensor_bytes *)
WorkingSet(g, tiles) ==
    LET oc == MinOf(tiles.oc, g.oc)
        oh == MinOf(tiles.oh, OutH(g))
        ow == MinOf(tiles.ow, OutW(g))
        inputH == (oh - 1) * g.sh + g.kh
        inputW == (ow - 1) * g.sw + g.kw
    IN  [input  |-> g.c * inputH * inputW * F32Bytes,
         filter |-> oc * g.c * g.kh * g.kw * F32Bytes,
         output |-> oc * oh * ow * F32Bytes]

(* The bytes that a tile of the given size keeps in one resource *)
Share(residency, bytes, tensor, id) ==
    IF tensor \in DOMAIN residency /\ residency[tensor] = id THEN bytes[tensor] ELSE 0

Usage(residency, bytes, id) ==
    Share(residency, bytes, "input", id) + Share(residency, bytes, "filter", id)
        + Share(residency, bytes, "output", id)

(* An explicitly managed resource with a capacity must hold the working set. *)
Holds(r, bytes) ==
    (ExplicitlyManaged(r) /\ "capacity_bytes" \in DOMAIN r) => bytes <= r.capacity_bytes

TilesValid(tiles) == \A axis \in TileAxes : axis \in DOMAIN tiles /\ tiles[axis] \in Positive

FitsCapacity(c, g, t) ==
    \A id \in DOMAIN t.resources :
        Holds(t.resources[id], Usage(c.memory_residency, WorkingSet(g, c.tiles), id))

VectorAxes(t) == GetOr(t.features, "vectorizable_axes", {"ow"})
Masked(t)     == GetOr(t.features, "supports_masked_ops", FALSE)
Dtypes(t)     == GetOr(t.features, "supported_dtypes", {"f32"})
Topology(t)   == GetOr(t.features, "topology_dimensions", {"single_thread"})

(* The two entries of decomposition_provenance that are looked at; others may be there. *)
ProvenanceMatches(c, g) ==
    c.provenance.name = c.algorithm /\ c.provenance.source_operator_ref = ContractFingerprint(g)

(* Mutant of RefsMatch: a profile is known by its name and version alone. *)
RefsMatch_ByVersion(c, g, t) ==
    /\ c.compute_contract_ref = ContractFingerprint(g)
    /\ c.target_profile_ref = TargetRef(t)
    /\ ProvenanceMatches(c, g)

(* The candidate names the very contract and the very profile it is checked with. *)
RefsMatch(c, g, t) ==
    /\ c.compute_contract_ref = ContractFingerprint(g)
    /\ c.target_profile_ref = TargetRef(t)
    /\ c.target_profile_fingerprint = TargetFingerprint(t)
    /\ ProvenanceMatches(c, g)

(* The proposed schedule is one the target's features admit. *)
ScheduleLegal(c, t) ==
    /\ c.algorithm = "direct"
    /\ {c.loop_order[i] : i \in DOMAIN c.loop_order} = ConvAxes /\ Len(c.loop_order) = 7
    /\ TilesValid(c.tiles) /\ DOMAIN c.tiles \subseteq TileAxes
    /\ c.vectorize_axis \in VectorAxes(t) \union {None}
    /\ c.vector_length # None => c.vector_length > 0
    /\ c.tail_policy \in {"masked", "scalar_epilogue", "padded"}
    /\ c.tail_policy = "masked" => Masked(t)
    /\ "f32" \in Dtypes(t)
    /\ \A axis \in DOMAIN c.parallel_binding :
          axis \in ConvAxes /\ c.parallel_binding[axis] \in Topology(t)

(* Every binding is of a tensor the convolution has to a resource the target has. *)
ResidencyKnown(c, t) ==
    \A tensor \in DOMAIN c.memory_residency :
        tensor \in Tensors /\ c.memory_residency[tensor] \in DOMAIN t.resources

(* MappingCandidate.validate *)
CandidateValid(c, g, t) ==
    /\ c.candidate_id # ""
    /\ RefsMatch(c, g, t)
    /\ ScheduleLegal(c, t)
    /\ ResidencyKnown(c, t)
    /\ FitsCapacity(c, g, t)
=============================================================================
