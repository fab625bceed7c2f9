------------------------- MODULE MeasurementReaders -------------------------
(***************************************************************************)
(* One measurement document: a harness collects the samples and writes what *)
(* Measurement makes of them, somebody edits the document, and Python       *)
(* (Measurement.from_dict) and C++ (validateMeasurement) read it.           *)
(*                                                                          *)
(* The references to candidate and profile are right throughout: they are   *)
(* the subject of ArtifactChain.                                            *)
(***************************************************************************)
EXTENDS Evidence

CONSTANTS
    Observations,   \* the sample lists a harness may collect
    Levels,         \* what an edited sample may read
    Edited(_)       \* what somebody may make of the other fields of a document

VARIABLES
    samples,        \* what the harness really observed
    doc,            \* the document, or None before it is written
    touched,        \* somebody has edited the document
    verdict         \* verdict[r]: what reader r said of doc

vars == <<samples, doc, touched, verdict>>

Readers == {"python", "cpp"}

Unread == [r \in Readers |-> "none"]

Candidate == <<"sha256", "candidate">>
Profile   == <<"sha256", "target">>

(* Measurement(...).to_dict() *)
Document(s) ==
    [measurement_id |-> "m", candidate_ref |-> Candidate, target_profile_fingerprint |-> Profile,
     source_kind |-> "real_hardware", metric |-> "latency_us", unit |-> "us",
     collected_at |-> "with timezone", warmup_runs |-> 1,
     environment |-> [device_id |-> "d", backend_version |-> "b", clock_policy |-> "fixed", threads |-> 1],
     samples |-> s, summary |-> PySummary(s)]

ASSUME ObservationsAssumption == \A s \in Observations : s \in Seq(Int)
ASSUME LevelsAssumption == \A x \in Levels : x \in Int

(* Nothing a document must have is the mark of a missing field. *)
ASSUME NoneAssumption == None \notin {"m", Candidate, Profile}

(* Edits leave the two references alone, and fields of the types a reader    *)
(* can compare.                                                              *)
ASSUME EditedAssumption ==
    \A s \in Observations : s # <<>> =>
        \A d \in Edited(Document(s)) :
            /\ DOMAIN d = DOMAIN Document(s)
            /\ d.candidate_ref = Candidate /\ d.target_profile_fingerprint = Profile
            /\ d.samples \in Seq(Int)
            /\ d.summary # None => d.summary = [f \in DOMAIN d.summary |-> d.summary[f]]

-----------------------------------------------------------------------------
Init ==
    /\ samples \in Observations
    /\ doc = None /\ touched = FALSE /\ verdict = Unread

(* Mutant of Write: the constructor does not validate. *)
Write_Unvalidated ==
    /\ doc = None
    /\ samples # <<>>
    /\ doc' = Document(samples)
    /\ UNCHANGED <<samples, touched, verdict>>

(* The constructor validates; a flawed measurement is never written. *)
Write ==
    /\ doc = None
    /\ samples # <<>>
    /\ MeasurementValid(Document(samples))
    /\ doc' = Document(samples)
    /\ UNCHANGED <<samples, touched, verdict>>

(* One sample is edited, and the summary left as it was or removed. *)
EditSample ==
    /\ doc # None /\ ~touched
    /\ \E i \in DOMAIN samples, x \in Levels, s \in {doc.summary, None} :
          doc' = [doc EXCEPT !.samples[i] = x, !.summary = s]
    /\ touched' = TRUE /\ verdict' = Unread
    /\ UNCHANGED samples

EditField ==
    /\ doc # None /\ ~touched
    /\ doc' \in Edited(doc)
    /\ touched' = TRUE /\ verdict' = Unread
    /\ UNCHANGED samples

Says(r, accepts) ==
    /\ doc # None /\ verdict[r] = "none"
    /\ verdict' = [verdict EXCEPT ![r] = IF accepts THEN "accept" ELSE "reject"]
    /\ UNCHANGED <<samples, doc, touched>>

PyRead == Says("python", MeasurementLoads(doc))

CppRead == Says("cpp", CppMeasurement(doc, [candidate |-> Candidate, target |-> Profile]))

Next == Write \/ EditSample \/ EditField \/ PyRead \/ CppRead

Spec == Init /\ [][Next]_vars

-----------------------------------------------------------------------------
(* Properties *)

(* The document has the fields of a Measurement and the readers' verdicts    *)
(* are of it; before anybody edits it, it is one Python can construct.       *)
TypeOK ==
    /\ samples \in Observations
    /\ touched \in BOOLEAN
    /\ verdict \in [Readers -> {"none", "accept", "reject"}]
    /\ doc # None => DOMAIN doc = DOMAIN Document(<<1>>)
    /\ (doc # None /\ ~touched) => MeasurementLoads(doc)

Count(s, P(_)) == Cardinality({i \in DOMAIN s : P(s[i])})

(* v is the value of rank ceil(q / 10 of the samples): at least that share    *)
(* of them is at most v, and less than that share is below v.                *)
IsRank(s, v, q) ==
    /\ \E i \in DOMAIN s : s[i] = v
    /\ 10 * Count(s, LAMBDA x : x <= v) >= q * Len(s)
    /\ 10 * Count(s, LAMBDA x : x < v) < q * Len(s)

(* v2 is twice the mean of the middle sample or the two middle samples.      *)
IsTwiceMedian(s, v2) ==
    \E i, j \in DOMAIN s :
        /\ v2 = s[i] + s[j] /\ s[i] <= s[j]
        /\ IsRank(s, s[i], 5)
        /\ 2 * Count(s, LAMBDA x : x >= s[j]) >= Len(s)
        /\ 2 * Count(s, LAMBDA x : x > s[j]) < Len(s)

(* A summary that a reader accepted says of the samples beside it what its   *)
(* names say: least, greatest, median and nearest-rank p90, whichever sample *)
(* was edited (evidence.py 73-82 and 115-117, ocf_contract_check.cpp         *)
(* 398-415).                                                                 *)
AcceptedSummaryIsTrue ==
    (\E r \in Readers : verdict[r] = "accept" /\ doc.summary # None) =>
        /\ \E x \in Items(doc.samples) : x = doc.summary.min
        /\ \E x \in Items(doc.samples) : x = doc.summary.max
        /\ \A x \in Items(doc.samples) : doc.summary.min <= x /\ x <= doc.summary.max
        /\ IsRank(doc.samples, doc.summary.p90, 9)
        /\ IsTwiceMedian(doc.samples, doc.summary.twice_median)

(* The two recomputations agree: whatever was edited in samples, summary,    *)
(* source and unit, C++ accepts exactly the documents Python accepts that    *)
(* have a summary; without one Python recomputes it and C++ refuses          *)
(* (evidence.py 43-60 and 115-117, ocf_contract_check.cpp 377-415).  Fields  *)
(* C++ does not read (time, warm-up, environment, statistics beside the four *)
(* it recomputes) are left as written.                                       *)
ReadersAgree ==
    (/\ \A r \in Readers : verdict[r] # "none"
     /\ doc.summary # None => DOMAIN doc.summary = SummaryFields
     /\ \A f \in {"measurement_id", "collected_at", "warmup_runs", "environment"} : doc[f] = Document(<<1>>)[f])
        => (verdict["cpp"] = "accept" <=> verdict["python"] = "accept" /\ doc.summary # None)
=============================================================================
