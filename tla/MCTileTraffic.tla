--------------------------- MODULE MCTileTraffic ---------------------------
(***************************************************************************)
(* Small contracts, profiles and candidates for TLC: tile sizes below, at   *)
(* and above the output extents, capacities below and above the working     *)
(* sets, and candidates that are stale or illegal in one respect each.      *)
(***************************************************************************)
EXTENDS TileTraffic

Geo(n, c, h, w, oc, k, s, p) ==
    [n |-> n, c |-> c, h |-> h, w |-> w, oc |-> oc, kh |-> k, kw |-> 1, sh |-> s, sw |-> 1,
     pt |-> p, pb |-> 0, pl |-> 0, pr |-> p]

(* Sixteen rows, to be cut by every size *)
Tall == [Geo(1, 1, 16, 1, 1, 1, 1, 0) EXCEPT !.pr = 0]

MCContracts ==
    {Geo(2, 1, 4, 3, 3, 2, 1, 1), Geo(1, 2, 5, 2, 2, 3, 2, 0), Geo(2, 1, 3, 3, 1, 1, 2, 1), Tall}

Loops == <<"n", "oc", "oh", "ow", "ic", "kh", "kw">>

Profile(version, resources, features) ==
    [schema_version |-> 1, target_id |-> "rvv", backend |-> "rvv", profile_version |-> version,
     features |-> features, resources |-> resources,
     performance |-> [f32_flops_per_cycle |-> 8, overhead_cycles_per_tile |-> 8]]

Vector == [vectorizable_axes |-> {"ow", "oc"}, supports_masked_ops |-> TRUE]

Cache(bytes)      == [kind |-> "cache", capacity_bytes |-> bytes]
Scratchpad(bytes) == [kind |-> "scratchpad", capacity_bytes |-> bytes]
Unmanaged(bytes)  == [kind |-> "sram", capacity_bytes |-> bytes, explicitly_managed |-> FALSE]

MCTargets ==
    {Profile(1, [l1 |-> Cache(8), reg |-> [kind |-> "register"]], Vector),
     Profile(2, [l1 |-> Scratchpad(48), reg |-> Scratchpad(24)], Vector),
     Profile(2, [l1 |-> Unmanaged(8), reg |-> Scratchpad(40)], Vector),
     Profile(3, [l1 |-> Cache(64), reg |-> Cache(64)], [vectorizable_axes |-> {"ow"}])}

Candidate(g, t, tiles, residency) ==
    [candidate_id |-> "c", compute_contract_ref |-> ContractFingerprint(g),
     target_profile_ref |-> TargetRef(t), target_profile_fingerprint |-> TargetFingerprint(t),
     algorithm |-> "direct", loop_order |-> Loops, tiles |-> tiles,
     vectorize_axis |-> "ow", vector_length |-> None, tail_policy |-> "scalar_epilogue",
     memory_residency |-> residency, parallel_binding |-> [n |-> "single_thread"],
     provenance |-> [name |-> "direct", source_operator_ref |-> ContractFingerprint(g)]]

MCTiles(g) ==
    IF g = Tall THEN [oc : {1}, oh : 1 .. 17, ow : {1}] ELSE [oc : 1 .. 3, oh : 1 .. 4, ow : 1 .. 3]

MCResidency == {[input |-> "l1", filter |-> "l1", output |-> "reg"],
                [input |-> "reg", output |-> "reg"]}

(* One respect in which the candidate is stale or illegal *)
Spoiled(c, g, t) ==
    {[c EXCEPT !.compute_contract_ref = ContractFingerprint([g EXCEPT !.pb = @ + 1])],
     [c EXCEPT !.target_profile_ref = <<"rvv", 9>>],
     [c EXCEPT !.target_profile_fingerprint = TargetFingerprint([t EXCEPT !.profile_version = 9])],
     [c EXCEPT !.loop_order = Tail(Loops)],
     [c EXCEPT !.tiles.oh = 0],
     [c EXCEPT !.tiles = [oc |-> 1, ow |-> 1]],
     [c EXCEPT !.vectorize_axis = "kh"],
     [c EXCEPT !.vector_length = 0],
     [c EXCEPT !.tail_policy = "masked"],
     [c EXCEPT !.memory_residency = [input |-> "l3"]],
     [c EXCEPT !.memory_residency = [bias |-> "l1"]],
     [c EXCEPT !.parallel_binding = [n |-> "cluster"]],
     [c EXCEPT !.provenance.name = "winograd"]}

MCProposals(g, t) ==
    {Candidate(g, t, tiles, r) : tiles \in MCTiles(g), r \in MCResidency}
    \union Spoiled(Candidate(g, t, [oc |-> 2, oh |-> 2, ow |-> 2], [input |-> "l1"]), g, t)
=============================================================================
