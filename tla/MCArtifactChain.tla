--------------------------- MODULE MCArtifactChain ---------------------------
(***************************************************************************)
(* Two contracts, three profiles of one target (two of them with different  *)
(* facts under the same version), a schedule that needs the large           *)
(* scratchpad, and single edits of each document, a version from before     *)
(* among them.                                                              *)
(***************************************************************************)
EXTENDS ArtifactChain

Geo(h) == [n |-> 1, c |-> 1, h |-> h, w |-> 2, oc |-> 1, kh |-> 1, kw |-> 1, sh |-> 1, sw |-> 1,
           pt |-> 0, pb |-> 0, pl |-> 0, pr |-> 0]

Profile(version, bytes) ==
    [schema_version |-> 1, target_id |-> "rvv", backend |-> "rvv", profile_version |-> version,
     features |-> [supported_dtypes |-> {"f32"}],
     resources |-> [spm |-> [kind |-> "scratchpad", capacity_bytes |-> bytes]],
     performance |-> [model_confidence |-> 50]]

MCContracts == {Geo(2), Geo(3)}
MCTargets   == {Profile(1, 8), Profile(1, 16), Profile(2, 16)}
MCSchedules == {[tiles |-> [oc |-> 1, oh |-> 2, ow |-> 2], memory_residency |-> [input |-> "spm"]]}
MCLatency(g, c, t) == OutputElements(g)
MCSamples   == {<<2, 1>>}

Other == Fingerprint("candidate", None)

(* What the fixture weighs, and a choice that DecisionRecord refuses *)
MCWeighed(c) ==
    {[generated |-> <<CandidateFingerprint(c), Other>>, rejected |-> {Other}],
     [generated |-> <<Other>>, rejected |-> {}]}

NoEdits(name, doc) == {}

(* The estimates and measurements of every chain: somebody may put back one  *)
(* from before a remaking.                                                   *)
Chains       == {<<g, NewCandidate(s, g, t), t>> : g \in MCContracts, s \in MCSchedules, t \in MCTargets}
Estimates    == {NewEstimate(x[1], x[2], x[3]) : x \in Chains}
Measurements == {NewMeasurement(x[2], x[3], s) : x \in Chains, s \in MCSamples}

MCEdits(name, doc) ==
    CASE name = "contract"  -> {[doc EXCEPT !.h = @ + 1]}
      [] name = "target"    -> {[doc EXCEPT !.schema_version = 2], [doc EXCEPT !.profile_version = @ + 1]}
      [] name = "candidate" -> {[doc EXCEPT !.target_profile_fingerprint = None], [doc EXCEPT !.tiles.oh = 4],
                                [doc EXCEPT !.memory_residency = [input |-> "l3"]]}
      [] name = "estimate"  -> {[doc EXCEPT !.confidence = 101], [doc EXCEPT !.latency_cycles = 0]}
                                \union Estimates
      [] name = "measurement" -> {[doc EXCEPT !.source_kind = "functional_emulator"], [doc EXCEPT !.unit = "us"],
                                  [doc EXCEPT !.samples = <<5>>]}
                                \union Measurements
      [] name = "trace"     -> {[doc EXCEPT !.decisions[1].candidates_legal = <<>>],
                                [doc EXCEPT !.measurement_refs = <<>>],
                                [doc EXCEPT !.target_profile_ref = None]}
=============================================================================
