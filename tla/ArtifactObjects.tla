-------------------------- MODULE ArtifactObjects --------------------------
(***************************************************************************)
(* Artifacts as Python objects: from_dict makes an artifact of a document   *)
(* its caller keeps, to_dict makes a document of the artifact, and each     *)
(* copies or shares the containers in it (contracts.py, performance.py,     *)
(* evidence.py).  The caller edits its documents at any time.               *)
(*                                                                          *)
(* A value has two levels: what it holds itself, and what the containers in *)
(* it hold.  A level is a place, either a cell of the heap or a constant,   *)
(* which is all an int or a str is.  A cell holds "v" or "w", two contents  *)
(* that are both valid.  Conv2DContract, which holds tuples and scalars     *)
(* only, is in ContractReaders.                                             *)
(***************************************************************************)
EXTENDS Naturals

CONSTANT MaxEdits    \* bound on the edits of documents

ASSUME MaxEditsAssumption == MaxEdits \in Nat

VARIABLES
    class,       \* the class of the artifact
    heap,        \* what each cell holds
    payload,     \* the document handed to from_dict: a value for each key
    artifact,    \* the artifact: a value for each attribute, none before
    saved,       \* the latest result of to_dict: a value for each key
    read,        \* what the payload said when the artifact was made (history)
    reference,   \* what the artifact said then, its fingerprint (history)
    edits        \* how often a document was edited

vars == <<class, heap, payload, artifact, saved, read, reference, edits>>

-----------------------------------------------------------------------------
(* What from_dict reads: the keys it fails without, and those it has a      *)
(* default for.  TargetProfile has one for its resources, which its         *)
(* validate refuses.                                                        *)

TargetKeys == [
    required |-> {"schema_version", "target_id", "backend", "resources"},
    optional |-> {"profile_version", "features", "performance", "capabilities"}]

CandidateKeys == [
    required |-> {"schema_version", "candidate_id", "compute_contract_ref", "target_profile_ref",
                  "target_profile_fingerprint"},
    optional |-> {"algorithm", "loop_order", "tiles", "vectorize_axis", "vector_length", "tail_policy",
                  "memory_residency", "parallel_binding", "decomposition_provenance"}]

(* A decomposition is not a container of the artifact: its members are read one by one. *)
EstimateKeys == [
    required |-> {"schema_version", "model_id", "candidate_ref", "flops", "traffic_bytes", "compute_cycles",
                  "memory_cycles", "overhead_cycles", "latency_cycles", "predicted_bottleneck", "confidence"},
    optional |-> {"assumptions"}]

MeasurementKeys == [
    required |-> {"schema_version", "measurement_id", "candidate_ref", "target_profile_fingerprint",
                  "source_kind", "metric", "unit", "collected_at", "samples", "warmup_runs", "environment"},
    optional |-> {"summary"}]

DecisionKeys == [
    required |-> {"site", "candidates_generated", "candidates_legal", "selected_ref", "estimate_refs"},
    optional |-> {"rejected"}]

(* Nor is a cost model, of an id and a calibration_id. *)
TraceKeys == [
    required |-> {"schema_version", "trace_id", "input_fingerprint", "target_profile_ref",
                  "target_profile_fingerprint", "backend_version", "cost_model_id", "decisions",
                  "pipeline_version"},
    optional |-> {"calibration_id", "measurement_refs"}]

-----------------------------------------------------------------------------
(* How a container is copied on the way in and out: not at all, its outer   *)
(* level (dict, tuple, list), or both (copy.deepcopy, or rebuilt by item).  *)

Deep   == [in |-> "both",  out |-> "both"]
Flat   == [in |-> "outer", out |-> "outer"]
Kept   == [in |-> "both",  out |-> "outer"]
Shared == [in |-> "none",  out |-> "outer"]

(* Mutant of TargetCopies: dict() where the code has copy.deepcopy. *)
TargetCopies_Flat == [features |-> Flat, resources |-> Flat, performance |-> Flat, capabilities |-> Flat]

TargetCopies == [features |-> Deep, resources |-> Deep, performance |-> Deep, capabilities |-> Flat]

CandidateCopies ==
    [loop_order |-> Flat, tiles |-> Kept, memory_residency |-> Kept, parallel_binding |-> Kept,
     decomposition_provenance |-> Kept]

EstimateCopies == [traffic_bytes |-> Shared, assumptions |-> Flat]

MeasurementCopies == [samples |-> Flat, environment |-> Deep]

DecisionCopies ==
    [candidates_generated |-> Flat, candidates_legal |-> Flat, estimate_refs |-> Flat, rejected |-> Deep]

TraceCopies == [decisions |-> Deep, measurement_refs |-> Flat]

(* The containers whose members may be containers themselves: features.vector, *)
(* each resource, a device's own entries, the items of rejected and decisions  *)
Nested == {"features", "resources", "environment", "rejected", "decisions"}

-----------------------------------------------------------------------------
Reads == [target |-> TargetKeys, candidate |-> CandidateKeys, estimate |-> EstimateKeys,
          measurement |-> MeasurementKeys, decision |-> DecisionKeys, trace |-> TraceKeys]

Copies == [target |-> TargetCopies, candidate |-> CandidateCopies, estimate |-> EstimateCopies,
           measurement |-> MeasurementCopies, decision |-> DecisionCopies, trace |-> TraceCopies]

Classes == DOMAIN Reads

Keys == [c \in Classes |-> Reads[c].required \union Reads[c].optional]

Containers == [c \in Classes |-> DOMAIN Copies[c]]

(* A version is compared and a summary recomputed: neither is an attribute. *)
Attributes == [c \in Classes |-> Keys[c] \ {"schema_version", "summary"}]

-----------------------------------------------------------------------------
(* Places and values *)

Cell(holder, key, level) == [holder |-> holder, key |-> key, level |-> level]

Constant(content) == Cell("constant", content, "inner")

Value(outer, inner) == [outer |-> outer, inner |-> inner]

Literal(content) == Value(Constant(content), Constant("none"))

At(place, cells) == IF place.holder = "constant" THEN place.key ELSE cells[place]

(* The values' cells do not matter to their content. *)
ContentOf(values, cells) ==
    [key \in DOMAIN values |-> <<At(values[key].outer, cells), At(values[key].inner, cells)>>]

OwnCell(holder, key, level) ==
    IF level = "inner" /\ key \notin Nested THEN Constant("none") ELSE Cell(holder, key, level)

OwnValue(holder, key) == Value(OwnCell(holder, key, "outer"), OwnCell(holder, key, "inner"))

OwnCells(holder, c) ==
    {OwnCell(holder, key, level) : key \in Containers[c], level \in {"outer", "inner"}} \ {Constant("none")}

(* What the holder has of the values after a copy in the given direction *)
Copied(values, c, direction, holder) ==
    [key \in DOMAIN values |->
        IF key \notin Containers[c] \/ Copies[c][key][direction] = "none" THEN values[key]
        ELSE IF Copies[c][key][direction] = "both" THEN OwnValue(holder, key)
        ELSE [OwnValue(holder, key) EXCEPT !.inner = values[key].inner]]

(* The heap with the holder's cells filled from the values they are copies of *)
Filled(values, cells, c, holder) ==
    [cell \in OwnCells(holder, c) \union DOMAIN cells |->
        IF cell \in OwnCells(holder, c) THEN At(values[cell.key][cell.level], cells) ELSE cells[cell]]

-----------------------------------------------------------------------------
(* from_dict and to_dict, before anything is copied *)

(* Mutant of FromDict: calibration_id is never read. *)
FromDict_NoCalibration(c, document) ==
    [key \in Attributes[c] |->
        IF key \in DOMAIN document /\ key # "calibration_id" THEN document[key] ELSE Literal("default")]

(* A default is made anew in each call, and shared with nobody. *)
FromDict(c, document) ==
    [key \in Attributes[c] |-> IF key \in DOMAIN document THEN document[key] ELSE Literal("default")]

Accepts(c, document, cells) ==
    /\ Reads[c].required \subseteq DOMAIN document
    /\ "schema_version" \in Keys[c] => At(document["schema_version"].outer, cells) = "v"
    /\ "summary" \in DOMAIN document =>
          At(document["summary"].outer, cells) = At(document["samples"].outer, cells)

(* Mutant of ToDict: the tail policy is not written. *)
ToDict_NoTailPolicy(c, values, cells) ==
    [key \in Keys[c] \ {"tail_policy"} |->
        CASE key = "schema_version" -> Literal("v")
          [] key = "summary"        -> Literal(At(values["samples"].outer, cells))
          [] OTHER                  -> values[key]]

ToDict(c, values, cells) ==
    [key \in Keys[c] |->
        CASE key = "schema_version" -> Literal("v")
          [] key = "summary"        -> Literal(At(values["samples"].outer, cells))
          [] OTHER                  -> values[key]]

Fingerprint(c, values, cells) == ContentOf(ToDict(c, values, cells), cells)

(* json.loads(json.dumps(document)) *)
Parsed(content) == [key \in DOMAIN content |-> Value(Constant(content[key][1]), Constant(content[key][2]))]

-----------------------------------------------------------------------------
None == <<>>

Init ==
    /\ class \in Classes
    /\ heap = [cell \in OwnCells("payload", class) |-> "v"]
    /\ payload = [key \in Keys[class] |->
                     IF key \in Containers[class] THEN OwnValue("payload", key) ELSE Literal("v")]
    /\ artifact = None /\ saved = None /\ read = None /\ reference = None
    /\ edits = 0

(* The constructor's copies are part of the call. *)
Load ==
    /\ artifact = None /\ Accepts(class, payload, heap)
    /\ LET values == FromDict(class, payload)
       IN  /\ artifact' = Copied(values, class, "in", "artifact")
           /\ heap' = Filled(values, heap, class, "artifact")
    /\ read' = ContentOf(payload, heap)
    /\ reference' = Fingerprint(class, artifact', heap')
    /\ UNCHANGED <<class, payload, saved, edits>>

Save ==
    /\ artifact # None
    /\ LET values == ToDict(class, artifact, heap)
       IN  /\ saved' = Copied(values, class, "out", "saved")
           /\ heap' = Filled(values, heap, class, "saved")
    /\ UNCHANGED <<class, payload, artifact, read, reference, edits>>

EditKeys(document) ==
    /\ edits < MaxEdits /\ document # payload
    /\ payload' = document
    /\ edits' = edits + 1
    /\ UNCHANGED <<class, heap, artifact, saved, read, reference>>

(* A member of a container is set in place. *)
EditInPlace(cell) ==
    /\ edits < MaxEdits
    /\ heap' = [heap EXCEPT ![cell] = IF @ = "w" THEN "v" ELSE "w"]
    /\ edits' = edits + 1
    /\ UNCHANGED <<class, payload, artifact, saved, read, reference>>

With(document, key) ==
    [k \in DOMAIN document \union {key} |-> IF k = key THEN Literal("w") ELSE document[k]]

Without(document, key) == [k \in DOMAIN document \ {key} |-> document[k]]

CellsOf(values) ==
    {values[key][level] : key \in DOMAIN values, level \in {"outer", "inner"}} \intersect DOMAIN heap

Next ==
    \/ Load
    \/ Save
    \/ \E key \in Keys[class] \ Containers[class] : EditKeys(With(payload, key))
    \/ \E key \in DOMAIN payload : EditKeys(Without(payload, key))
    \/ \E cell \in CellsOf(payload) \union CellsOf(saved) : EditInPlace(cell)

Spec == Init /\ [][Next]_vars

-----------------------------------------------------------------------------
(* Properties *)

(* An artifact has every attribute of its class, whichever keys its document *)
(* had, and every place is a constant or a cell of the heap.                 *)
TypeOK ==
    /\ class \in Classes /\ edits \in 0 .. MaxEdits
    /\ DOMAIN payload \subseteq Keys[class]
    /\ artifact # None => DOMAIN artifact = Attributes[class]
    /\ saved # None => DOMAIN saved = Keys[class]
    /\ \A values \in {payload, artifact, saved} :
          \A key \in DOMAIN values, level \in {"outer", "inner"} :
              values[key][level].holder = "constant" \/ values[key][level] \in DOMAIN heap
    /\ \A cell \in DOMAIN heap : heap[cell] \in {"v", "w", "default", "none"}

(* A frozen artifact is frozen in depth: whatever its caller does afterwards *)
(* to the document it was loaded from, or to a document it was saved to, it  *)
(* keeps the content it was validated with, and a fingerprint taken of it    *)
(* stays true (contracts.py 271-280, 328-339, 381-402; evidence.py 32-36,    *)
(* 84-98, 156-161, 185-193).  The exception is traffic_bytes, which          *)
(* PerformanceEstimate shares with its payload (performance.py 60).          *)
ReferenceStaysTrue ==
    artifact # None =>
        \A key \in Keys[class] \ {"traffic_bytes"} : Fingerprint(class, artifact, heap)[key] = reference[key]

(* An artifact loaded from a document with every key, as the schema demands, *)
(* has the fingerprint of that document, which ocf-contract-check takes of   *)
(* the file: from_dict skips no key, and to_dict writes each.                *)
CompleteFileKeepsFingerprint ==
    artifact # None /\ DOMAIN read = Keys[class] => reference = read

(* to_dict's document, written as JSON and parsed, loads again, to the same  *)
(* artifact with the same fingerprint, also when the first document left     *)
(* keys to their defaults (DESIGN_ZH.md 960; contracts.py 328-352, 388-426;  *)
(* performance.py 26-68; evidence.py 84-118, 185-204, 247-279).              *)
RoundTrip ==
    artifact # None =>
        LET document == Parsed(Fingerprint(class, artifact, heap))
            restored == FromDict(class, document)
        IN  /\ Accepts(class, document, heap)
            /\ ContentOf(restored, heap) = ContentOf(artifact, heap)
            /\ Fingerprint(class, restored, heap) = Fingerprint(class, artifact, heap)
=============================================================================
