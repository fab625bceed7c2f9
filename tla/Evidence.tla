------------------------------ MODULE Evidence ------------------------------
(***************************************************************************)
(* The checks of measurements, decisions and traces: the validate methods   *)
(* of evidence.py, and the validators of ocf-contract-check, which reads a  *)
(* bundle of six artifacts and relates them by their content fingerprints.  *)
(*                                                                          *)
(* A document is the record of its fields.  None stands for null, for an    *)
(* absent field and for an empty string.  A document carries schema_version *)
(* only where it is not the supported one.  A contract document is its      *)
(* geometry: that validateContract accepts what Conv2DContract writes is    *)
(* ContractReaders!ExportIsAccepted.                                        *)
(***************************************************************************)
EXTENDS Mapping, Summary

(* requireSchemaVersion, and the version tests of the Python classes *)
SupportedVersion(doc) == GetOr(doc, "schema_version", 1) = 1

Items(seq) == {seq[i] : i \in DOMAIN seq}

Distinct(seq) == Cardinality(Items(seq)) = Len(seq)

-----------------------------------------------------------------------------
(* Python: evidence.py *)

MeasurementSources == {"real_hardware", "cycle_accurate_model"}

UnitOf == [latency_cycles |-> "cycles", latency_us |-> "us"]

QualifiedSource(m) == m.source_kind \in MeasurementSources

UnitFits(m) == m.metric \in DOMAIN UnitOf /\ m.unit = UnitOf[m.metric]

SamplesValid(samples) == samples # <<>> /\ \A x \in Items(samples) : x >= 0

RequiredEnvironment == {"device_id", "backend_version", "clock_policy", "threads"}

(* Measurement.validate *)
MeasurementValid(m) ==
    /\ SupportedVersion(m)
    /\ m.measurement_id # None /\ m.candidate_ref # None /\ m.target_profile_fingerprint # None
    /\ QualifiedSource(m) /\ UnitFits(m)
    /\ m.collected_at = "with timezone"
    /\ SamplesValid(m.samples)
    /\ m.warmup_runs >= 0
    /\ RequiredEnvironment \subseteq DOMAIN m.environment
    /\ m.environment.threads # None => m.environment.threads > 0

(* Mutant of MeasurementLoads: the declared summary is believed. *)
MeasurementLoads_AnySummary(m) == MeasurementValid(m)

(* Measurement.from_dict: a declared summary must be the recomputed one. *)
MeasurementLoads(m) ==
    /\ MeasurementValid(m)
    /\ m.summary # None => m.summary = PySummary(m.samples)

(* DecisionRecord.validate *)
DecisionValid(d) ==
    LET generated == Items(d.candidates_generated)
        legal     == Items(d.candidates_legal)
    IN  /\ d.site # None
        /\ Distinct(d.candidates_generated)
        /\ legal \subseteq generated
        /\ d.rejected \subseteq generated
        /\ legal \intersect d.rejected = {}
        /\ d.selected_ref \in legal
        /\ DOMAIN d.estimate_refs = legal

(* CompilationTrace.validate *)
TraceValid(t) ==
    /\ SupportedVersion(t) /\ t.pipeline_version > 0
    /\ t.trace_id # None /\ t.backend_version # None /\ t.cost_model_id # None
    /\ t.input_fingerprint # None
    /\ t.target_profile_ref # None /\ t.target_profile_fingerprint # None
    /\ t.decisions # <<>>
    /\ Distinct(t.measurement_refs)

(* CompilationTrace.from_dict *)
TraceLoads(t) == (\A d \in Items(t.decisions) : DecisionValid(d)) /\ TraceValid(t)

-----------------------------------------------------------------------------
(* C++: ocf_contract_check.cpp *)

ArtifactNames == {"contract", "target", "candidate", "estimate", "measurement", "trace"}

(* Hashes[name] *)
HashesOf(bundle) == [name \in ArtifactNames |-> Fingerprint(name, bundle[name])]

(* validateContract, for a document a Conv2DContract wrote *)
CppContract(doc) == SupportedVersion(doc)

(* validateTarget *)
CppTarget(doc) ==
    /\ SupportedVersion(doc)
    /\ doc.target_id # "" /\ doc.backend # "" /\ doc.profile_version > 0
    /\ DOMAIN doc.resources # {}

(* validateCandidate *)
CppCandidate(doc, hashes, target) ==
    /\ SupportedVersion(doc)
    /\ doc.compute_contract_ref = hashes["contract"]
    /\ doc.target_profile_fingerprint = hashes["target"]
    /\ doc.algorithm = "direct"
    /\ doc.target_profile_ref = TargetRef(target)
    /\ TilesValid(doc.tiles)
    /\ doc.provenance.name = "direct" /\ doc.provenance.source_operator_ref = hashes["contract"]

(* Mutant of CppEstimate: any candidate's estimate will do. *)
CppEstimate_AnyCandidate(doc, hashes) ==
    SupportedVersion(doc) /\ doc.confidence \in 0 .. 100 /\ doc.latency_cycles >= 0

(* validateEstimate *)
CppEstimate(doc, hashes) ==
    /\ SupportedVersion(doc)
    /\ doc.candidate_ref = hashes["candidate"]
    /\ doc.confidence \in 0 .. 100 /\ doc.latency_cycles >= 0

SummaryFields == {"min", "twice_median", "p90", "max"}

(* What validateMeasurement checks of a measurement on its own *)
CppMeasurementContent(doc) ==
    /\ QualifiedSource(doc) /\ UnitFits(doc)
    /\ SamplesValid(doc.samples)
    /\ doc.summary # None
    /\ \A field \in SummaryFields :
          field \in DOMAIN doc.summary /\ doc.summary[field] = CppSummary(doc.samples)[field]

(* Mutant of CppMeasurement: a measurement taken on any profile will do. *)
CppMeasurement_AnyTarget(doc, hashes) ==
    SupportedVersion(doc) /\ doc.candidate_ref = hashes["candidate"] /\ CppMeasurementContent(doc)

(* validateMeasurement *)
CppMeasurement(doc, hashes) ==
    /\ SupportedVersion(doc)
    /\ doc.candidate_ref = hashes["candidate"]
    /\ doc.target_profile_fingerprint = hashes["target"]
    /\ CppMeasurementContent(doc)

(* validateTrace *)
CppTrace(doc, hashes) ==
    /\ SupportedVersion(doc)
    /\ doc.input_fingerprint = hashes["contract"]
    /\ doc.target_profile_fingerprint = hashes["target"]
    /\ hashes["measurement"] \in Items(doc.measurement_refs)
    /\ Len(doc.decisions) = 1
    /\ doc.decisions[1].selected_ref = hashes["candidate"]
    /\ hashes["candidate"] \in DOMAIN doc.decisions[1].estimate_refs
    /\ doc.decisions[1].estimate_refs[hashes["candidate"]] = hashes["estimate"]

(* main: exit 0 *)
CppAccepts(bundle, golden) ==
    LET hashes == HashesOf(bundle)
    IN  /\ CppContract(bundle.contract)
        /\ CppTarget(bundle.target)
        /\ CppCandidate(bundle.candidate, hashes, bundle.target)
        /\ CppEstimate(bundle.estimate, hashes)
        /\ CppMeasurement(bundle.measurement, hashes)
        /\ CppTrace(bundle.trace, hashes)
        /\ golden = hashes
=============================================================================
