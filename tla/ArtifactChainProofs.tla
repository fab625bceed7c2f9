------------------------ MODULE ArtifactChainProofs ------------------------
(***************************************************************************)
(* Proofs that a bundle accepted by ocf-contract-check maps its contract    *)
(* legally and holds the estimate and a measurement of that very mapping,   *)
(* for every set of contracts, profiles and schedules, every estimator, and *)
(* every way to edit one document of the bundle.                            *)
(***************************************************************************)
EXTENDS ArtifactChain, FiniteSetTheorems, TLAPS

(* e is what the estimator made of a legal candidate. *)
IsPriced(e) == \E g, c, t : CandidateValid(c, g, t) /\ e = NewEstimate(g, c, t)

(* An edited estimate is no longer the current one, so the trace has to      *)
(* vouch for it: whatever estimate it names was priced too.                  *)
NamesPriced(t) ==
    \E e : /\ IsPriced(e)
           /\ \A ref \in DOMAIN t.decisions[1].estimate_refs :
                 t.decisions[1].estimate_refs[ref] = Fingerprint("estimate", e)

IInv ==
    /\ estimate # None => IsPriced(estimate)
    /\ trace # None => IsPriced(estimate) /\ NamesPriced(trace)
    /\ AcceptedMappingIsLegal

-----------------------------------------------------------------------------
(* What an accepted estimate says of the mapping it names: fingerprints      *)
(* lead from it to the candidate, and from there to contract and profile.    *)
LEMMA PricedMappingIsLegal ==
    ASSUME NEW b, CppAccepts(b, HashesOf(b)), IsPriced(b.estimate)
    PROVE  /\ CandidateValid(b.candidate, b.contract, b.target)
           /\ b.estimate = NewEstimate(b.contract, b.candidate, b.target)
<1>1. PICK g, c, t : CandidateValid(c, g, t) /\ b.estimate = NewEstimate(g, c, t)
  BY DEF IsPriced
<1> DEFINE hashes == HashesOf(b)
<1>2. /\ hashes["contract"] = Fingerprint("contract", b.contract)
      /\ hashes["target"] = Fingerprint("target", b.target)
      /\ hashes["candidate"] = Fingerprint("candidate", b.candidate)
  BY DEF HashesOf, ArtifactNames
<1>3. CppEstimate(b.estimate, hashes) /\ CppCandidate(b.candidate, hashes, b.target)
  BY DEF CppAccepts
<1>4. b.candidate = c
  <2>1. b.estimate.candidate_ref = Fingerprint("candidate", c)
    BY <1>1 DEF NewEstimate, CandidateFingerprint
  <2>2. b.estimate.candidate_ref = Fingerprint("candidate", b.candidate)
    BY <1>2, <1>3 DEF CppEstimate
  <2> QED BY <2>1, <2>2 DEF Fingerprint
<1>5. b.contract = g
  <2>1. c.compute_contract_ref = Fingerprint("contract", g)
    BY <1>1 DEF CandidateValid, RefsMatch, ContractFingerprint
  <2>2. c.compute_contract_ref = Fingerprint("contract", b.contract)
    BY <1>2, <1>3, <1>4 DEF CppCandidate
  <2> QED BY <2>1, <2>2 DEF Fingerprint
<1>6. b.target = t
  <2>1. c.target_profile_fingerprint = Fingerprint("target", t)
    BY <1>1 DEF CandidateValid, RefsMatch, TargetFingerprint
  <2>2. c.target_profile_fingerprint = Fingerprint("target", b.target)
    BY <1>2, <1>3, <1>4 DEF CppCandidate
  <2> QED BY <2>1, <2>2 DEF Fingerprint
<1> QED BY <1>1, <1>4, <1>5, <1>6

(* Only one document is edited: the estimate or the trace is as written.     *)
LEMMA OneEdit ==
    ASSUME NEW b \in Written
    PROVE  b.estimate = estimate \/ b.trace = trace
<1>1. CASE b = Bundle
  BY <1>1 DEF Bundle
<1>2. CASE b # Bundle
  <2>1. PICK name \in ArtifactNames : \E doc : b = [Bundle EXCEPT ![name] = doc]
    BY <1>2 DEF Written
  <2>2. CASE name = "estimate"
    BY <2>1, <2>2 DEF Bundle
  <2>3. CASE name # "estimate"
    BY <2>1, <2>3 DEF Bundle
  <2> QED BY <2>2, <2>3
<1> QED BY <1>1, <1>2

(* Either way the estimate of an accepted bundle was priced. *)
LEMMA AcceptedEstimateIsPriced ==
    ASSUME IInv, trace # None, NEW b \in Written, CppAccepts(b, HashesOf(b))
    PROVE  IsPriced(b.estimate)
<1>1. CASE b.estimate = estimate
  BY <1>1 DEF IInv
<1>2. CASE b.trace = trace
  <2>1. PICK e : /\ IsPriced(e)
                 /\ \A ref \in DOMAIN trace.decisions[1].estimate_refs :
                       trace.decisions[1].estimate_refs[ref] = Fingerprint("estimate", e)
    BY DEF IInv, NamesPriced
  <2> DEFINE hashes == HashesOf(b)
             refs == trace.decisions[1].estimate_refs
  <2>2. hashes["candidate"] \in DOMAIN refs /\ refs[hashes["candidate"]] = hashes["estimate"]
    BY <1>2 DEF CppAccepts, CppTrace
  <2>3. hashes["estimate"] = Fingerprint("estimate", b.estimate)
    BY DEF HashesOf, ArtifactNames
  <2>4. Fingerprint("estimate", b.estimate) = Fingerprint("estimate", e)
    BY <2>1, <2>2, <2>3
  <2>5. b.estimate = e
    BY <2>4 DEF Fingerprint
  <2> QED BY <2>1, <2>5
<1> QED BY <1>1, <1>2, OneEdit

(* A new trace names the estimate it was made with, and no other.            *)
LEMMA NewTraceNamesPriced ==
    ASSUME NEW g, NEW t, NEW c, NEW e, NEW w, NEW m, IsPriced(e)
    PROVE  NamesPriced(NewTrace(g, t, NewDecision(c, e, w), m))
<1> DEFINE new == NewTrace(g, t, NewDecision(c, e, w), m)
<1>1. new.decisions[1] = NewDecision(c, e, w)
  BY DEF NewTrace
<1>2. new.decisions[1].estimate_refs = [ref \in {CandidateFingerprint(c)} |-> Fingerprint("estimate", e)]
  BY <1>1 DEF NewDecision
<1> HIDE DEF new
<1>3. \A ref \in DOMAIN new.decisions[1].estimate_refs :
          new.decisions[1].estimate_refs[ref] = Fingerprint("estimate", e)
  BY <1>2
<1>4. NamesPriced(new)
  BY <1>3 DEF NamesPriced
<1> QED BY <1>4 DEF new

-----------------------------------------------------------------------------
LEMMA InitIInv == Init => IInv
BY DEF Init, IInv, AcceptedMappingIsLegal, AcceptedBy

(* A step that reads nothing leaves nothing accepted. *)
LEMMA NothingRead ==
    ASSUME read' = None
    PROVE  AcceptedMappingIsLegal'
BY DEF AcceptedMappingIsLegal, AcceptedBy

LEMMA NextIInv == IInv /\ [Next]_vars => IInv'
<1> SUFFICES ASSUME IInv, [Next]_vars PROVE IInv'
  OBVIOUS
<1>1. CASE EditContract \/ EditProfile \/ Propose \/ Measure
  BY <1>1, NothingRead DEF IInv, EditContract, EditProfile, Propose, Measure
<1>2. CASE Price
  <2>1. IsPriced(estimate')
    BY <1>2 DEF Price, IsPriced
  <2> QED BY <1>2, <2>1, NothingRead DEF IInv, Price
<1>3. CASE Decide
  <2>1. IsPriced(estimate) /\ estimate' = estimate
    BY <1>3 DEF IInv, Decide
  <2>2. NamesPriced(trace')
    BY <1>3, <2>1, NewTraceNamesPriced DEF Decide
  <2> QED BY <1>3, <2>1, <2>2, NothingRead DEF IInv, Decide
<1>4. CASE CppCheck
  <2>1. PICK b \in Written : CppAccepts(b, HashesOf(b)) /\ Reads("cpp", b)
    BY <1>4 DEF CppCheck
  <2>2. CandidateValid(b.candidate, b.contract, b.target)
    BY <1>4, <2>1, AcceptedEstimateIsPriced, PricedMappingIsLegal DEF CppCheck
  <2>3. AcceptedMappingIsLegal'
    BY <2>1, <2>2 DEF Reads, AcceptedMappingIsLegal, AcceptedBy
  <2> QED BY <1>4, <2>3 DEF IInv, CppCheck
<1>5. CASE PyLoad
  <2>1. read'.reader = "python"
    BY <1>5 DEF PyLoad, Reads
  <2>2. AcceptedMappingIsLegal'
    BY <2>1 DEF AcceptedMappingIsLegal, AcceptedBy
  <2> QED BY <1>5, <2>2 DEF IInv, PyLoad
<1>6. CASE UNCHANGED vars
  BY <1>6 DEF IInv, vars, AcceptedMappingIsLegal, AcceptedBy
<1> QED BY <1>1, <1>2, <1>3, <1>4, <1>5, <1>6 DEF Next

(* Whatever contracts, profiles and schedules there are, whatever the        *)
(* estimator computes and whichever document is edited: a bundle that        *)
(* ocf-contract-check accepts maps its contract legally on its profile.      *)
THEOREM AcceptedIsLegal == Spec => []AcceptedMappingIsLegal
<1>1. IInv => AcceptedMappingIsLegal
  BY DEF IInv
<1> QED BY <1>1, InitIInv, NextIInv, PTL DEF Spec

-----------------------------------------------------------------------------
(* Measurements *)

(* m is what a harness wrote. *)
IsMeasured(m) == \E c, t : \E s \in Samples : m = NewMeasurement(c, t, s)

(* Every measurement a trace names is one a harness wrote. *)
NamesMeasured(t) ==
    \A ref \in Items(t.measurement_refs) :
        \E m : IsMeasured(m) /\ ref = Fingerprint("measurement", m)

(* What the history variables say: estimator and harness made the current   *)
(* estimate and measurement of what they were given.                        *)
HistoryTrue ==
    /\ estimate # None \/ trace # None =>
          \E g, c, t : /\ CandidateValid(c, g, t) /\ estimate = NewEstimate(g, c, t)
                       /\ priced = [contract |-> g, candidate |-> c, target |-> t]
    /\ measurement # None =>
          \E c, t : \E s \in Samples : /\ measurement = NewMeasurement(c, t, s)
                                       /\ measured = [candidate |-> c, target |-> t]

MInv ==
    /\ HistoryTrue
    /\ trace # None => NamesMeasured(trace)
    /\ AcceptedEvidenceIsOfThisChain

LEMMA CurrentIsMeasured == HistoryTrue => (measurement # None => IsMeasured(measurement))
BY DEF HistoryTrue, IsMeasured

(* The measurement is as written, or the trace vouches for it.               *)
LEMMA AcceptedMeasurementIsOurs ==
    ASSUME MInv, measurement # None, trace # None, NEW b \in Written, CppAccepts(b, HashesOf(b))
    PROVE  \E s \in Samples : b.measurement = NewMeasurement(b.candidate, b.target, s)
<1> DEFINE hashes == HashesOf(b)
<1>1. /\ hashes["target"] = Fingerprint("target", b.target)
      /\ hashes["candidate"] = Fingerprint("candidate", b.candidate)
      /\ hashes["measurement"] = Fingerprint("measurement", b.measurement)
  BY DEF HashesOf, ArtifactNames
<1>2. CppMeasurement(b.measurement, hashes) /\ CppTrace(b.trace, hashes)
  BY DEF CppAccepts
<1> HIDE DEF hashes
<1>3. b.measurement = measurement \/ b.trace = trace
  <2>1. CASE b = Bundle
    BY <2>1 DEF Bundle
  <2>2. CASE b # Bundle
    <3>1. PICK name \in ArtifactNames : \E doc : b = [Bundle EXCEPT ![name] = doc]
      BY <2>2 DEF Written
    <3>2. CASE name = "measurement"
      BY <3>1, <3>2 DEF Bundle
    <3>3. CASE name # "measurement"
      BY <3>1, <3>3 DEF Bundle
    <3> QED BY <3>2, <3>3
  <2> QED BY <2>1, <2>2
<1>4. IsMeasured(b.measurement)
  <2>1. CASE b.measurement = measurement
    BY <2>1, CurrentIsMeasured DEF MInv
  <2>2. CASE b.trace = trace
    <3>1. hashes["measurement"] \in Items(trace.measurement_refs)
      BY <1>2, <2>2 DEF CppTrace
    <3>2. PICK m : IsMeasured(m) /\ hashes["measurement"] = Fingerprint("measurement", m)
      BY <3>1 DEF MInv, NamesMeasured
    <3>3. b.measurement = m
      BY <1>1, <3>2 DEF Fingerprint
    <3> QED BY <3>2, <3>3
  <2> QED BY <1>3, <2>1, <2>2
<1>5. PICK c, t : \E s \in Samples : b.measurement = NewMeasurement(c, t, s)
  BY <1>4 DEF IsMeasured
<1>6. /\ b.measurement.candidate_ref = Fingerprint("candidate", c)
      /\ b.measurement.target_profile_fingerprint = Fingerprint("target", t)
  <2>1. PICK s \in Samples : b.measurement = NewMeasurement(c, t, s)
    BY <1>5
  <2>2. NewMeasurement(c, t, s).candidate_ref = CandidateFingerprint(c)
    BY DEF NewMeasurement
  <2>3. NewMeasurement(c, t, s).target_profile_fingerprint = TargetFingerprint(t)
    BY DEF NewMeasurement
  <2> QED BY <2>1, <2>2, <2>3 DEF CandidateFingerprint, TargetFingerprint
<1>7. /\ b.measurement.candidate_ref = Fingerprint("candidate", b.candidate)
      /\ b.measurement.target_profile_fingerprint = Fingerprint("target", b.target)
  BY <1>1, <1>2 DEF CppMeasurement
<1>8. c = b.candidate /\ t = b.target
  BY <1>6, <1>7 DEF Fingerprint
<1> QED BY <1>5, <1>8

(* References lead from the evidence of an accepted bundle to its candidate,  *)
(* and so to what estimator and harness were given.                           *)
LEMMA AcceptedEvidenceIsCurrent ==
    ASSUME IInv, MInv, measurement # None, trace # None, NEW b \in Written, CppAccepts(b, HashesOf(b))
    PROVE  /\ b.estimate = estimate =>
                 priced = [contract |-> b.contract, candidate |-> b.candidate, target |-> b.target]
           /\ b.measurement = measurement => measured = [candidate |-> b.candidate, target |-> b.target]
<1>1. CandidateValid(b.candidate, b.contract, b.target) /\ b.estimate = NewEstimate(b.contract, b.candidate, b.target)
  BY AcceptedEstimateIsPriced, PricedMappingIsLegal
<1>2. ASSUME b.estimate = estimate
      PROVE  priced = [contract |-> b.contract, candidate |-> b.candidate, target |-> b.target]
  <2>1. PICK g, c, t : /\ CandidateValid(c, g, t) /\ estimate = NewEstimate(g, c, t)
                       /\ priced = [contract |-> g, candidate |-> c, target |-> t]
    BY DEF MInv, HistoryTrue
  <2>2. c = b.candidate
    <3>1. NewEstimate(g, c, t).candidate_ref = NewEstimate(b.contract, b.candidate, b.target).candidate_ref
      BY <1>1, <1>2, <2>1
    <3>2. CandidateFingerprint(c) = CandidateFingerprint(b.candidate)
      BY <3>1 DEF NewEstimate
    <3> QED BY <3>2 DEF CandidateFingerprint, Fingerprint
  <2>3. RefsMatch(c, g, t) /\ RefsMatch(c, b.contract, b.target)
    BY <1>1, <2>1, <2>2 DEF CandidateValid
  <2>4. ContractFingerprint(g) = ContractFingerprint(b.contract) /\ TargetFingerprint(t) = TargetFingerprint(b.target)
    BY <2>3 DEF RefsMatch
  <2>5. g = b.contract /\ t = b.target
    BY <2>4 DEF ContractFingerprint, TargetFingerprint, Fingerprint
  <2> QED BY <2>1, <2>2, <2>5
<1>3. ASSUME b.measurement = measurement
      PROVE  measured = [candidate |-> b.candidate, target |-> b.target]
  <2>1. PICK c, t : \E s \in Samples : /\ measurement = NewMeasurement(c, t, s)
                                       /\ measured = [candidate |-> c, target |-> t]
    BY DEF MInv, HistoryTrue
  <2>2. PICK r \in Samples : b.measurement = NewMeasurement(b.candidate, b.target, r)
    BY AcceptedMeasurementIsOurs
  <2>3. PICK s \in Samples : b.measurement = NewMeasurement(c, t, s)
    BY <1>3, <2>1
  <2>4. /\ NewMeasurement(c, t, s).candidate_ref = CandidateFingerprint(c)
        /\ NewMeasurement(c, t, s).target_profile_fingerprint = TargetFingerprint(t)
        /\ NewMeasurement(b.candidate, b.target, r).candidate_ref = CandidateFingerprint(b.candidate)
        /\ NewMeasurement(b.candidate, b.target, r).target_profile_fingerprint = TargetFingerprint(b.target)
    BY DEF NewMeasurement
  <2>5. CandidateFingerprint(c) = CandidateFingerprint(b.candidate) /\ TargetFingerprint(t) = TargetFingerprint(b.target)
    BY <2>2, <2>3, <2>4
  <2>6. c = b.candidate /\ t = b.target
    BY <2>5 DEF CandidateFingerprint, TargetFingerprint, Fingerprint
  <2> QED BY <2>1, <2>6
<1> QED BY <1>2, <1>3

LEMMA NewTraceNamesMeasured ==
    ASSUME NEW g, NEW t, NEW d, NEW m, m # None => IsMeasured(m)
    PROVE  NamesMeasured(NewTrace(g, t, d, m))
<1>1. NewTrace(g, t, d, m).measurement_refs = IF m = None THEN <<>> ELSE <<Fingerprint("measurement", m)>>
  BY DEF NewTrace
<1>2. CASE m = None
  BY <1>1, <1>2 DEF NamesMeasured, Items
<1>3. CASE m # None
  <2>1. Items(NewTrace(g, t, d, m).measurement_refs) = {Fingerprint("measurement", m)}
    BY <1>1, <1>3 DEF Items
  <2> QED BY <1>3, <2>1 DEF NamesMeasured
<1> QED BY <1>2, <1>3

LEMMA InitMInv == Init => MInv
BY DEF Init, MInv, HistoryTrue, AcceptedEvidenceIsOfThisChain, AcceptedBy

LEMMA NextMInv == IInv /\ MInv /\ [Next]_vars => MInv'
<1> SUFFICES ASSUME IInv, MInv, [Next]_vars PROVE MInv'
  OBVIOUS
<1>1. ASSUME read' = None PROVE AcceptedEvidenceIsOfThisChain'
  BY <1>1 DEF AcceptedEvidenceIsOfThisChain, AcceptedBy
<1>2. CASE EditContract \/ EditProfile \/ Propose
  BY <1>1, <1>2 DEF MInv, HistoryTrue, EditContract, EditProfile, Propose
<1>3. CASE Price
  <2>1. /\ CandidateValid(candidate, contract, target)
        /\ estimate' = NewEstimate(contract, candidate, target)
        /\ priced' = [contract |-> contract, candidate |-> candidate, target |-> target]
        /\ UNCHANGED <<measurement, measured, trace>>
    BY <1>3 DEF Price
  <2>2. HistoryTrue'
    BY <2>1 DEF MInv, HistoryTrue
  <2> QED BY <1>1, <1>3, <2>2 DEF MInv, Price
<1>4. CASE Measure
  <2>1. HistoryTrue'
    BY <1>4 DEF MInv, HistoryTrue, Measure
  <2> QED BY <1>1, <1>4, <2>1 DEF MInv, Measure
<1>5. CASE Decide
  <2>1. NamesMeasured(trace')
    BY <1>5, NewTraceNamesMeasured, CurrentIsMeasured DEF Decide, MInv
  <2>2. HistoryTrue'
    BY <1>5 DEF MInv, HistoryTrue, Decide
  <2> QED BY <1>1, <1>5, <2>1, <2>2 DEF MInv, Decide
<1>6. CASE CppCheck
  <2>1. PICK b \in Written : CppAccepts(b, HashesOf(b)) /\ Reads("cpp", b)
    BY <1>6 DEF CppCheck
  <2>2. /\ measurement # None /\ trace # None
        /\ UNCHANGED <<estimate, measurement, trace, priced, measured>>
    BY <1>6 DEF CppCheck
  <2>3. b.estimate = NewEstimate(b.contract, b.candidate, b.target)
    BY <2>1, <2>2, AcceptedEstimateIsPriced, PricedMappingIsLegal
  <2>4. \E s \in Samples : b.measurement = NewMeasurement(b.candidate, b.target, s)
    BY <2>1, <2>2, AcceptedMeasurementIsOurs
  <2>5. /\ b.estimate = estimate =>
              priced = [contract |-> b.contract, candidate |-> b.candidate, target |-> b.target]
        /\ b.measurement = measurement => measured = [candidate |-> b.candidate, target |-> b.target]
    BY <2>1, <2>2, AcceptedEvidenceIsCurrent
  <2>6. read'.bundle = b /\ read'.priced = priced /\ read'.measured = measured
    BY <2>1 DEF Reads
  <2>7. AcceptedEvidenceIsOfThisChain'
    BY <2>2, <2>3, <2>4, <2>5, <2>6 DEF AcceptedEvidenceIsOfThisChain
  <2>8. HistoryTrue'
    BY <2>2 DEF MInv, HistoryTrue
  <2> QED BY <2>2, <2>7, <2>8 DEF MInv
<1>7. CASE PyLoad
  <2>1. read'.reader = "python" /\ UNCHANGED <<estimate, measurement, trace, priced, measured>>
    BY <1>7 DEF PyLoad, Reads
  <2>2. AcceptedEvidenceIsOfThisChain'
    BY <2>1 DEF AcceptedEvidenceIsOfThisChain, AcceptedBy
  <2>3. HistoryTrue'
    BY <2>1 DEF MInv, HistoryTrue
  <2> QED BY <2>1, <2>2, <2>3 DEF MInv
<1>8. CASE UNCHANGED vars
  BY <1>8 DEF MInv, HistoryTrue, vars, AcceptedEvidenceIsOfThisChain, AcceptedBy
<1> QED BY <1>2, <1>3, <1>4, <1>5, <1>6, <1>7, <1>8 DEF Next

(* Whatever is remade, edited or changed back, and whichever document of the *)
(* bundle is edited: a bundle that ocf-contract-check accepts holds the      *)
(* estimate of its very contract, candidate and profile, and a measurement a *)
(* harness wrote for them; and evidence that nobody edited was made of them  *)
(* (ocf_contract_check.cpp 329-376 and 426-444).                             *)
THEOREM AcceptedEvidence == Spec => []AcceptedEvidenceIsOfThisChain
<1>1. MInv => AcceptedEvidenceIsOfThisChain
  BY DEF MInv
<1> QED BY <1>1, InitIInv, NextIInv, InitMInv, NextMInv, PTL DEF Spec

-----------------------------------------------------------------------------
(* Types: every artifact is one its own class accepts.                       *)

Candidates == {NewCandidate(s, g, t) : s \in Schedules, g \in Contracts, t \in Targets}

TInv == TypeOK /\ (candidate # None => candidate \in Candidates)

LEMMA CandidatesNamed ==
    /\ \A c \in Candidates : CandidateFingerprint(c) # None
    /\ \A g \in Contracts, t \in Targets :
          ContractFingerprint(g) # None /\ TargetRef(t) # None /\ TargetFingerprint(t) # None
<1>1. \A g \in Contracts, t \in Targets : \A s \in Schedules :
         CandidateFingerprint(NewCandidate(s, g, t)) # None
  BY NoneAssumption
<1>2. \A g \in Contracts, t \in Targets :
         ContractFingerprint(g) # None /\ TargetRef(t) # None /\ TargetFingerprint(t) # None
  BY NoneAssumption
<1> QED BY <1>1, <1>2 DEF Candidates

LEMMA MeasurementAccepted ==
    ASSUME NEW c \in Candidates, NEW t \in Targets, NEW g \in Contracts, NEW s \in Samples
    PROVE  MeasurementLoads(NewMeasurement(c, t, s))
<1> DEFINE m == NewMeasurement(c, t, s)
<1>1. CandidateFingerprint(c) # None /\ TargetFingerprint(t) # None /\ "measurement" # None
  BY CandidatesNamed, NoneAssumption
<1>2. SamplesValid(s)
  BY SamplesAssumption
<1>3. /\ m.measurement_id = "measurement" /\ m.candidate_ref = CandidateFingerprint(c)
      /\ m.target_profile_fingerprint = TargetFingerprint(t)
      /\ m.source_kind = "cycle_accurate_model" /\ m.metric = "latency_cycles" /\ m.unit = "cycles"
      /\ m.collected_at = "with timezone" /\ m.warmup_runs = 0
      /\ m.samples = s /\ m.summary = PySummary(s)
      /\ DOMAIN m.environment = {"device_id", "backend_version", "clock_policy", "threads"}
      /\ m.environment.threads = 1
      /\ "schema_version" \notin DOMAIN m
  BY DEF NewMeasurement
<1> HIDE DEF m
<1>4. SupportedVersion(m)
  BY <1>3 DEF SupportedVersion, GetOr
<1>5. QualifiedSource(m) /\ UnitFits(m)
  <2>1. DOMAIN UnitOf = {"latency_cycles", "latency_us"} /\ UnitOf["latency_cycles"] = "cycles"
    BY DEF UnitOf
  <2>2. UnitFits(m)
    BY <1>3, <2>1 DEF UnitFits
  <2>3. QualifiedSource(m)
    BY <1>3 DEF QualifiedSource, MeasurementSources
  <2> QED BY <2>2, <2>3
<1>6. RequiredEnvironment \subseteq DOMAIN m.environment
  BY <1>3 DEF RequiredEnvironment
<1>7. m.warmup_runs >= 0 /\ m.environment.threads > 0 /\ SamplesValid(m.samples)
  <2>1. m.warmup_runs = 0 /\ m.environment.threads = 1 /\ m.samples = s
    BY <1>3
  <2>2. m.warmup_runs >= 0 /\ m.environment.threads > 0
    BY <2>1
  <2>3. SamplesValid(m.samples)
    BY <1>2, <2>1, Zenon
  <2> QED BY <2>2, <2>3
<1>8. m.measurement_id # None /\ m.candidate_ref # None /\ m.target_profile_fingerprint # None
  BY <1>1, <1>3
<1>9. MeasurementValid(m)
  <2>1. m.collected_at = "with timezone"
    BY <1>3
  <2> QED BY <1>4, <1>5, <1>6, <1>7, <1>8, <2>1, Zenon DEF MeasurementValid
<1>10. m.summary = PySummary(m.samples)
  BY <1>3
<1> QED BY <1>9, <1>10 DEF MeasurementLoads, m

LEMMA TraceAccepted ==
    ASSUME NEW d, DecisionValid(d), NEW g \in Contracts, NEW t \in Targets, NEW m
    PROVE  TraceLoads(NewTrace(g, t, d, m))
<1> DEFINE new == NewTrace(g, t, d, m)
<1>1. ContractFingerprint(g) # None /\ TargetRef(t) # None /\ TargetFingerprint(t) # None
  BY CandidatesNamed
<1>2. "trace" # None /\ "b" # None /\ "analytical-v1" # None
  BY NoneAssumption
<1>3. /\ new.trace_id = "trace" /\ new.pipeline_version = 1 /\ new.backend_version = "b"
      /\ new.cost_model_id = "analytical-v1" /\ new.input_fingerprint = ContractFingerprint(g)
      /\ new.target_profile_ref = TargetRef(t) /\ new.target_profile_fingerprint = TargetFingerprint(t)
      /\ new.decisions = <<d>>
      /\ new.measurement_refs = IF m = None THEN <<>> ELSE <<Fingerprint("measurement", m)>>
      /\ "schema_version" \notin DOMAIN new
  BY DEF NewTrace
<1> HIDE DEF new
<1>4. SupportedVersion(new)
  BY <1>3 DEF SupportedVersion, GetOr
<1>5. Distinct(new.measurement_refs)
  <2>1. CASE m = None
    <3>1. new.measurement_refs = <<>> /\ Items(<<>>) = {} /\ Len(<<>>) = 0
      BY <1>3, <2>1 DEF Items
    <3> QED BY <3>1, FS_EmptySet DEF Distinct
  <2>2. CASE m # None
    <3> DEFINE f == Fingerprint("measurement", m)
    <3>1. new.measurement_refs = <<f>>
      BY <1>3, <2>2
    <3> HIDE DEF f
    <3>2. Items(<<f>>) = {f} /\ Len(<<f>>) = 1
      BY DEF Items
    <3>3. Cardinality({f}) = 1
      BY FS_Singleton
    <3> QED BY <3>1, <3>2, <3>3 DEF Distinct
  <2> QED BY <2>1, <2>2
<1>6. new.decisions # <<>> /\ \A e \in Items(new.decisions) : e = d
  BY <1>3 DEF Items
<1>7. TraceValid(new)
  BY <1>1, <1>2, <1>3, <1>4, <1>5, <1>6 DEF TraceValid
<1> QED BY <1>6, <1>7 DEF TraceLoads, new

LEMMA InitTInv == Init => TInv
BY MaxEditsAssumption DEF Init, TInv, TypeOK

LEMMA NextTInv == TInv /\ [Next]_vars => TInv'
<1> SUFFICES ASSUME TInv, [Next]_vars PROVE TInv'
  OBVIOUS
<1> USE DEF TInv, TypeOK
<1>1. CASE EditContract
  BY <1>1, MaxEditsAssumption DEF EditContract
<1>2. CASE EditProfile
  BY <1>2, MaxEditsAssumption DEF EditProfile
<1>3. CASE Propose
  BY <1>3 DEF Propose, Candidates
<1>4. CASE Price
  <2>1. /\ CandidateValid(candidate, contract, target)
        /\ estimate' = NewEstimate(contract, candidate, target)
        /\ UNCHANGED <<contract, target, candidate, measurement, trace, edits>>
    BY <1>4 DEF Price
  <2>2. priced'.contract = contract /\ priced'.candidate = candidate /\ priced'.target = target
    BY <1>4 DEF Price
  <2>3. estimate' # None
    <3>1. candidate \in Candidates
      BY <1>4 DEF Price
    <3>2. PICK s \in Schedules, g \in Contracts, t \in Targets : candidate = NewCandidate(s, g, t)
      BY <3>1 DEF Candidates
    <3>3. /\ candidate.compute_contract_ref = ContractFingerprint(g)
          /\ candidate.target_profile_fingerprint = TargetFingerprint(t)
      BY <3>2 DEF NewCandidate
    <3>4. /\ candidate.compute_contract_ref = ContractFingerprint(contract)
          /\ candidate.target_profile_fingerprint = TargetFingerprint(target)
      BY <2>1 DEF CandidateValid, RefsMatch
    <3>5. g = contract /\ t = target
      BY <3>3, <3>4 DEF ContractFingerprint, TargetFingerprint, Fingerprint
    <3>6. NewEstimate(g, NewCandidate(s, g, t), t) # None
      BY NoneAssumption
    <3> QED BY <2>1, <3>2, <3>5, <3>6
  <2> QED BY <2>1, <2>2, <2>3
<1>5. CASE Measure
  <2>1. MeasurementLoads(measurement')
    BY <1>5, MeasurementAccepted DEF Measure
  <2> QED BY <1>5, <2>1 DEF Measure
<1>6. CASE Decide
  <2>1. TraceLoads(trace')
    BY <1>6, TraceAccepted DEF Decide
  <2> QED BY <1>6, <2>1 DEF Decide
<1>7. CASE CppCheck
  BY <1>7 DEF CppCheck
<1>8. CASE PyLoad
  BY <1>8 DEF PyLoad
<1>9. CASE UNCHANGED vars
  BY <1>9 DEF vars
<1> QED BY <1>1, <1>2, <1>3, <1>4, <1>5, <1>6, <1>7, <1>8, <1>9 DEF Next

(* Every artifact is one its own class accepts, and what was priced was      *)
(* legal when it was.  evidence.py 37-71 and 226-271, performance.py 77.     *)
THEOREM TypeCorrect == Spec => []TypeOK
<1>1. TInv => TypeOK
  BY DEF TInv
<1> QED BY <1>1, InitTInv, NextTInv, PTL DEF Spec
=============================================================================
