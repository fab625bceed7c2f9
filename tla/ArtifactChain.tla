---------------------------- MODULE ArtifactChain ----------------------------
(***************************************************************************)
(* One convolution on one target, from contract to evidence.  Authors edit  *)
(* the contract and the target profile (with or without raising its         *)
(* version), a mapper proposes a candidate, the estimator prices it, a      *)
(* harness measures it, a decision is recorded in a trace; each may redo    *)
(* its step at any time, so every artifact may be older or newer than those *)
(* it refers to.  The latest six are written to a bundle, in which somebody *)
(* may edit one document, and read by ocf-contract-check and by             *)
(* CompilationTrace.from_dict.                                              *)
(*                                                                          *)
(* The steps are the calls of tools/ocf_phase0.py and of the fixture behind *)
(* tests/run_cpp_contract_test.py.  A constructor or an estimate that       *)
(* raises changes nothing and is no step.                                   *)
(*                                                                          *)
(* priced and measured are history variables: what the estimator and the    *)
(* harness were given when they made the current estimate and measurement.  *)
(***************************************************************************)
EXTENDS Evidence

CONSTANTS
    Contracts,            \* geometries of the contracts an author may write
    Targets,              \* profiles of one target that TargetProfile.validate accepts
    Schedules,            \* [tiles, memory_residency]: what the mapper may propose
    Latency(_, _, _),     \* the estimator's cycles for a contract, candidate, target
    Samples,              \* what the harness may observe
    Weighed(_),           \* [generated, rejected]: what else a decision for a candidate names
    Edits(_, _),          \* documents somebody may put in the place of one of a bundle
    MaxEdits              \* bound on the edits of contract and profile

ASSUME ContractsAssumption == \A g \in Contracts : ValidGeometry(g)
ASSUME TargetsAssumption == \A t \in Targets : TargetValid(t)
ASSUME SamplesAssumption == \A s \in Samples : SamplesValid(s)
ASSUME MaxEditsAssumption == MaxEdits \in Nat

VARIABLES
    contract, target,                         \* current
    candidate, estimate, measurement, trace,  \* latest, or None
    edits,                                    \* contract and profile edits so far
    priced,      \* history: [contract, candidate, target] of the estimate
    measured,    \* history: [candidate, target] of the measurement
    read         \* the bundle a reader has just accepted, with the reader, priced
                 \* and measured of that moment; None after any other step

vars == <<contract, target, candidate, estimate, measurement, trace, edits,
          priced, measured, read>>

-----------------------------------------------------------------------------
(* The artifacts *)

NewCandidate(s, g, t) ==
    [candidate_id               |-> "conv",
     compute_contract_ref       |-> ContractFingerprint(g),
     target_profile_ref         |-> TargetRef(t),
     target_profile_fingerprint |-> TargetFingerprint(t),
     algorithm                  |-> "direct",
     loop_order                 |-> <<"n", "oc", "oh", "ow", "ic", "kh", "kw">>,
     tiles                      |-> s.tiles,
     vectorize_axis             |-> "ow",
     vector_length              |-> None,
     tail_policy                |-> "scalar_epilogue",
     memory_residency           |-> s.memory_residency,
     parallel_binding           |-> [n |-> "single_thread"],
     provenance                 |-> [name |-> "direct", source_operator_ref |-> ContractFingerprint(g)]]

NewEstimate(g, c, t) ==
    [candidate_ref  |-> CandidateFingerprint(c),
     confidence     |-> GetOr(t.performance, "model_confidence", 0),
     latency_cycles |-> Latency(g, c, t)]

NewMeasurement(c, t, samples) ==
    [measurement_id             |-> "measurement",
     candidate_ref              |-> CandidateFingerprint(c),
     target_profile_fingerprint |-> TargetFingerprint(t),
     source_kind |-> "cycle_accurate_model", metric |-> "latency_cycles", unit |-> "cycles",
     collected_at |-> "with timezone", warmup_runs |-> 0,
     environment |-> [device_id |-> "d", backend_version |-> "b", clock_policy |-> "fixed", threads |-> 1],
     samples |-> samples, summary |-> PySummary(samples)]

NewDecision(c, e, w) ==
    [site                 |-> "conv2d_0",
     candidates_generated |-> w.generated,
     candidates_legal     |-> <<CandidateFingerprint(c)>>,
     selected_ref         |-> CandidateFingerprint(c),
     estimate_refs        |-> [ref \in {CandidateFingerprint(c)} |-> Fingerprint("estimate", e)],
     rejected             |-> w.rejected]

NewTrace(g, t, decision, m) ==
    [trace_id |-> "trace", pipeline_version |-> 1, backend_version |-> "b", cost_model_id |-> "analytical-v1",
     input_fingerprint          |-> ContractFingerprint(g),
     target_profile_ref         |-> TargetRef(t),
     target_profile_fingerprint |-> TargetFingerprint(t),
     decisions                  |-> <<decision>>,
     measurement_refs           |-> IF m = None THEN <<>> ELSE <<Fingerprint("measurement", m)>>]

(* No artifact and no reference in one is the mark of a missing one. *)
ASSUME NoneAssumption ==
    /\ None \notin {"measurement", "trace", "b", "analytical-v1"}
    /\ \A g \in Contracts, t \in Targets :
          /\ None \notin {ContractFingerprint(g), TargetRef(t), TargetFingerprint(t)}
          /\ \A s \in Schedules :
                /\ CandidateFingerprint(NewCandidate(s, g, t)) # None
                /\ NewEstimate(g, NewCandidate(s, g, t), t) # None

Bundle == [contract |-> contract, target |-> target, candidate |-> candidate,
           estimate |-> estimate, measurement |-> measurement, trace |-> trace]

(* The bundle as written, or with one of its documents edited *)
Written ==
    {Bundle} \union UNION {{[Bundle EXCEPT ![name] = doc] : doc \in Edits(name, Bundle[name])}
                             : name \in ArtifactNames}

-----------------------------------------------------------------------------
Init ==
    /\ contract \in Contracts /\ target \in Targets
    /\ candidate = None /\ estimate = None /\ measurement = None /\ trace = None
    /\ edits = 0
    /\ priced = None /\ measured = None
    /\ read = None

EditContract ==
    /\ edits < MaxEdits
    /\ contract' \in Contracts \ {contract}
    /\ edits' = edits + 1
    /\ read' = None
    /\ UNCHANGED <<target, candidate, estimate, measurement, trace, priced, measured>>

EditProfile ==
    /\ edits < MaxEdits
    /\ target' \in Targets \ {target}
    /\ edits' = edits + 1
    /\ read' = None
    /\ UNCHANGED <<contract, candidate, estimate, measurement, trace, priced, measured>>

Propose ==
    /\ \E s \in Schedules : candidate' = NewCandidate(s, contract, target)
    /\ read' = None
    /\ UNCHANGED <<contract, target, estimate, measurement, trace, edits, priced, measured>>

(* Mutant of Price: the candidate is not validated. *)
Price_Unvalidated ==
    /\ candidate # None
    /\ estimate' = NewEstimate(contract, candidate, target)
    /\ priced' = [contract |-> contract, candidate |-> candidate, target |-> target]
    /\ read' = None
    /\ UNCHANGED <<contract, target, candidate, measurement, trace, edits, measured>>

(* estimate_direct_conv: it validates the candidate first *)
Price ==
    /\ candidate # None /\ CandidateValid(candidate, contract, target)
    /\ estimate' = NewEstimate(contract, candidate, target)
    /\ priced' = [contract |-> contract, candidate |-> candidate, target |-> target]
    /\ read' = None
    /\ UNCHANGED <<contract, target, candidate, measurement, trace, edits, measured>>

(* Measurement(...): it names a candidate and a profile and looks at neither *)
Measure ==
    /\ candidate # None
    /\ \E samples \in Samples : measurement' = NewMeasurement(candidate, target, samples)
    /\ measured' = [candidate |-> candidate, target |-> target]
    /\ read' = None
    /\ UNCHANGED <<contract, target, candidate, estimate, trace, edits, priced>>

(* DecisionRecord(...), CompilationTrace(...) *)
Decide ==
    /\ candidate # None /\ estimate # None
    /\ \E w \in Weighed(candidate) :
          /\ DecisionValid(NewDecision(candidate, estimate, w))
          /\ trace' = NewTrace(contract, target, NewDecision(candidate, estimate, w), measurement)
    /\ read' = None
    /\ UNCHANGED <<contract, target, candidate, estimate, measurement, edits, priced, measured>>

Reads(reader, b) == read' = [reader |-> reader, bundle |-> b, priced |-> priced, measured |-> measured]

(* ocf-contract-check, run with the golden fingerprints of what it reads;   *)
(* with any others it only rejects.                                         *)
CppCheck ==
    /\ measurement # None /\ trace # None
    /\ \E b \in Written : CppAccepts(b, HashesOf(b)) /\ Reads("cpp", b)
    /\ UNCHANGED <<contract, target, candidate, estimate, measurement, trace, edits, priced, measured>>

(* CompilationTrace.from_dict: it is given the trace alone. *)
PyLoad ==
    /\ measurement # None /\ trace # None
    /\ \E t \in {trace} \union Edits("trace", trace) :
          TraceLoads(t) /\ Reads("python", [Bundle EXCEPT !.trace = t])
    /\ UNCHANGED <<contract, target, candidate, estimate, measurement, trace, edits, priced, measured>>

Next == EditContract \/ EditProfile \/ Propose \/ Price \/ Measure \/ Decide \/ CppCheck \/ PyLoad

Spec == Init /\ [][Next]_vars

-----------------------------------------------------------------------------
(* Properties *)

AcceptedBy(reader) == read # None /\ read.reader = reader

(* Every artifact is one its own class accepts, one that refers to another   *)
(* was made from one, and what was priced was legal when it was.             *)
TypeOK ==
    /\ contract \in Contracts /\ target \in Targets /\ edits \in 0 .. MaxEdits
    /\ estimate # None =>
          /\ estimate = NewEstimate(priced.contract, priced.candidate, priced.target)
          /\ CandidateValid(priced.candidate, priced.contract, priced.target)
    /\ measurement # None => MeasurementLoads(measurement)
    /\ trace # None => estimate # None /\ TraceLoads(trace)

(* ocf-contract-check looks at neither loop order, vectorization, residency  *)
(* nor capacity, and yet the mapping of a bundle it accepts is legal for the *)
(* bundle's contract and profile: the estimator prices only what it          *)
(* validated, and fingerprints tie the estimate to the candidate and the     *)
(* candidate to exactly that contract and profile (contracts.py 448-517,     *)
(* performance.py 77, ocf_contract_check.cpp 329-369 and 426-444).  It takes *)
(* a profile changed without a new version, priced and changed back, to see  *)
(* a reference by version alone go wrong.                                    *)
AcceptedMappingIsLegal ==
    AcceptedBy("cpp") =>
        LET b == read.bundle IN CandidateValid(b.candidate, b.contract, b.target)

(* The estimate and the measurement of an accepted bundle are what estimator *)
(* and harness make of the very contract, candidate and profile in it, not   *)
(* of ones of the same name; and unless somebody put them there (a version   *)
(* that fits, from before), they were made of them (SCHEMA_VERSIONING 3;     *)
(* ocf_contract_check.cpp 358-376 and 426-444).                              *)
AcceptedEvidenceIsOfThisChain ==
    AcceptedBy("cpp") =>
        LET b == read.bundle
        IN  /\ b.estimate = NewEstimate(b.contract, b.candidate, b.target)
            /\ \E s \in Samples : b.measurement = NewMeasurement(b.candidate, b.target, s)
            /\ b.estimate = estimate =>
                  read.priced = [contract |-> b.contract, candidate |-> b.candidate, target |-> b.target]
            /\ b.measurement = measurement =>
                  read.measured = [candidate |-> b.candidate, target |-> b.target]

(* SCHEMA_VERSIONING 3: when a trace is loaded and something it refers to is *)
(* missing or has another fingerprint, loading fails.                        *)
LoadedTraceResolves ==
    AcceptedBy("python") =>
        LET b == read.bundle
        IN  /\ b.trace.target_profile_fingerprint = TargetFingerprint(b.target)
            /\ Items(b.trace.measurement_refs) \subseteq {Fingerprint("measurement", b.measurement)}

(* SCHEMA_VERSIONING 5: the Python and C++ verifiers check the relations     *)
(* between the candidate sets of a decision.                                 *)
AcceptedDecisionIsValid ==
    AcceptedBy("cpp") => \A d \in Items(read.bundle.trace.decisions) : DecisionValid(d)
=============================================================================
