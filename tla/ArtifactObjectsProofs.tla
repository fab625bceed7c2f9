------------------------ MODULE ArtifactObjectsProofs ------------------------
(***************************************************************************)
(* Proofs about ArtifactObjects, for every bound on the edits.  The         *)
(* inductive invariant IInv says who owns the containers of each document:  *)
(* the caller those of the payload and of what to_dict returned, the        *)
(* artifact its own, traffic_bytes excepted.  An edit then reaches no cell  *)
(* the artifact's content is read from.                                     *)
(***************************************************************************)
EXTENDS ArtifactObjects, TLAPS

(* What the tables of keys say of each class *)
LEMMA Tables ==
    ASSUME NEW c \in Classes
    PROVE  /\ Containers[c] \subseteq Attributes[c]
           /\ Attributes[c] = Keys[c] \ {"schema_version", "summary"}
           /\ Reads[c].required \subseteq Keys[c]
           /\ "summary" \in Keys[c] => "samples" \in Containers[c] /\ "samples" \in Reads[c].required
           /\ "traffic_bytes" \in Keys[c] =>
                 "traffic_bytes" \in Containers[c] /\ "traffic_bytes" \in Reads[c].required
<1>1. CASE c = "target"
  BY <1>1 DEF Classes, Containers, Copies, Keys, Attributes, Reads, TargetCopies, TargetKeys
<1>2. CASE c = "candidate"
  BY <1>2 DEF Classes, Containers, Copies, Keys, Attributes, Reads, CandidateCopies, CandidateKeys
<1>3. CASE c = "estimate"
  BY <1>3 DEF Classes, Containers, Copies, Keys, Attributes, Reads, EstimateCopies, EstimateKeys
<1>4. CASE c = "measurement"
  BY <1>4 DEF Classes, Containers, Copies, Keys, Attributes, Reads, MeasurementCopies, MeasurementKeys
<1>5. CASE c = "decision"
  BY <1>5 DEF Classes, Containers, Copies, Keys, Attributes, Reads, DecisionCopies, DecisionKeys
<1>6. CASE c = "trace"
  BY <1>6 DEF Classes, Containers, Copies, Keys, Attributes, Reads, TraceCopies, TraceKeys
<1> QED
  BY <1>1, <1>2, <1>3, <1>4, <1>5, <1>6 DEF Classes, Reads

(* Only an outer level of plain values is copied alone. *)
LEMMA CopyModes ==
    ASSUME NEW c \in Classes, NEW key \in Containers[c]
    PROVE  /\ Copies[c][key].in \in {"both", "outer", "none"}
           /\ Copies[c][key].out \in {"both", "outer"}
           /\ Copies[c][key].in = "none" <=> key = "traffic_bytes"
           /\ Copies[c][key].in # "both" => key \notin Nested
           /\ Copies[c][key].out = "outer" => key \notin Nested
<1> USE DEF Nested, Deep, Flat, Kept, Shared
<1>1. CASE c = "target"
  BY <1>1 DEF Containers, Copies, Reads, Classes, TargetCopies
<1>2. CASE c = "candidate"
  BY <1>2 DEF Containers, Copies, Reads, Classes, CandidateCopies
<1>3. CASE c = "estimate"
  BY <1>3 DEF Containers, Copies, Reads, Classes, EstimateCopies
<1>4. CASE c = "measurement"
  BY <1>4 DEF Containers, Copies, Reads, Classes, MeasurementCopies
<1>5. CASE c = "decision"
  BY <1>5 DEF Containers, Copies, Reads, Classes, DecisionCopies
<1>6. CASE c = "trace"
  BY <1>6 DEF Containers, Copies, Reads, Classes, TraceCopies
<1> QED
  BY <1>1, <1>2, <1>3, <1>4, <1>5, <1>6 DEF Classes, Reads

-----------------------------------------------------------------------------
Levels == {"outer", "inner"}

(* Every container of the payload is the caller's own; the rest are constants. *)
PayloadOK ==
    /\ DOMAIN payload \subseteq Keys[class]
    /\ \A key \in DOMAIN payload :
          IF key \in Containers[class] THEN payload[key] = OwnValue("payload", key)
          ELSE \E content \in {"v", "w"} : payload[key] = Literal(content)

ArtifactOK ==
    artifact # None =>
        /\ DOMAIN artifact = Attributes[class]
        /\ \A key \in Attributes[class] :
              IF key = "traffic_bytes" THEN artifact[key] = OwnValue("payload", key)
              ELSE IF key \in Containers[class] THEN artifact[key] = OwnValue("artifact", key)
              ELSE \E content \in {"v", "w", "default"} : artifact[key] = Literal(content)

SavedOK ==
    saved # None =>
        /\ DOMAIN saved = Keys[class]
        /\ \A key \in Keys[class] :
              IF key \in Containers[class] THEN saved[key] = OwnValue("saved", key)
              ELSE \E content : saved[key] = Literal(content)

HeapOK ==
    /\ OwnCells("payload", class) \subseteq DOMAIN heap
    /\ artifact # None => OwnCells("artifact", class) \subseteq DOMAIN heap
    /\ saved # None => OwnCells("saved", class) \subseteq DOMAIN heap

IInv == class \in Classes /\ PayloadOK /\ ArtifactOK /\ SavedOK /\ HeapOK

-----------------------------------------------------------------------------
(* Places *)
LEMMA OwnPlaces ==
    ASSUME NEW c \in Classes, NEW key \in Containers[c], NEW holder, holder # "constant"
    PROVE  /\ OwnValue(holder, key).outer = Cell(holder, key, "outer")
           /\ OwnValue(holder, key).inner = IF key \in Nested THEN Cell(holder, key, "inner")
                                            ELSE Constant("none")
           /\ Cell(holder, key, "outer") \in OwnCells(holder, c)
           /\ key \in Nested => Cell(holder, key, "inner") \in OwnCells(holder, c)
<1>1. OwnValue(holder, key).outer = Cell(holder, key, "outer")
  BY DEF OwnValue, Value, OwnCell
<1>2. OwnValue(holder, key).inner = IF key \in Nested THEN Cell(holder, key, "inner")
                                    ELSE Constant("none")
  BY DEF OwnValue, Value, OwnCell
<1>3. \A level \in {"outer", "inner"} : Cell(holder, key, level) # Constant("none")
  BY DEF Cell, Constant
<1>4. OwnCell(holder, key, "outer") = Cell(holder, key, "outer")
  BY DEF OwnCell
<1>5. key \in Nested => OwnCell(holder, key, "inner") = Cell(holder, key, "inner")
  BY DEF OwnCell
<1> QED
  BY <1>1, <1>2, <1>3, <1>4, <1>5 DEF OwnCells

LEMMA OwnCellsForm ==
    ASSUME NEW c, NEW holder, NEW cell \in OwnCells(holder, c)
    PROVE  /\ cell.holder = holder
           /\ cell.key \in Containers[c]
           /\ cell.level \in {"outer", "inner"}
           /\ cell.level = "inner" => cell.key \in Nested
<1>1. PICK key \in Containers[c], level \in {"outer", "inner"} : cell = OwnCell(holder, key, level)
  BY DEF OwnCells
<1>2. cell = Cell(holder, key, level) /\ ~(level = "inner" /\ key \notin Nested)
  BY <1>1 DEF OwnCells, OwnCell
<1> QED
  BY <1>2 DEF Cell

(* Filling the cells of one holder changes no other place. *)
LEMMA AtFilled ==
    ASSUME NEW values, NEW cells, NEW c, NEW holder, NEW place,
           place.holder = "constant" \/ (place \in DOMAIN cells /\ place.holder # holder)
    PROVE  At(place, Filled(values, cells, c, holder)) = At(place, cells)
<1>1. CASE place.holder = "constant"
  BY <1>1 DEF At
<1>2. CASE place \in DOMAIN cells /\ place.holder # holder
  <2>1. place \notin OwnCells(holder, c)
    BY <1>2, OwnCellsForm
  <2>2. Filled(values, cells, c, holder)[place] = cells[place]
    BY <1>2, <2>1 DEF Filled
  <2> QED
    BY <2>2 DEF At
<1> QED
  BY <1>1, <1>2

(* The cells it fills hold what they are copies of. *)
LEMMA FilledOwn ==
    ASSUME NEW values, NEW cells, NEW c, NEW holder, holder # "constant",
           NEW key, NEW level, Cell(holder, key, level) \in OwnCells(holder, c)
    PROVE  At(Cell(holder, key, level), Filled(values, cells, c, holder)) = At(values[key][level], cells)
<1> DEFINE cell == Cell(holder, key, level)
<1>1. cell.holder = holder /\ cell.key = key /\ cell.level = level
  BY DEF Cell
<1>2. Filled(values, cells, c, holder)[cell] = At(values[cell.key][cell.level], cells)
  BY DEF Filled
<1> QED
  BY <1>1, <1>2 DEF At

LEMMA FilledDomain ==
    ASSUME NEW values, NEW cells, NEW c, NEW holder
    PROVE  DOMAIN Filled(values, cells, c, holder) = OwnCells(holder, c) \union DOMAIN cells
BY DEF Filled

LEMMA ConstantAt ==
    ASSUME NEW content, NEW cells
    PROVE  /\ At(Constant(content), cells) = content
           /\ At(Literal(content).outer, cells) = content
           /\ At(Literal(content).inner, cells) = "none"
           /\ Literal(content).outer.holder = "constant"
           /\ Literal(content).inner.holder = "constant"
           /\ Literal(content).outer = Constant(content)
           /\ Literal(content).inner = Constant("none")
BY DEF At, Constant, Literal, Value, Cell

(* Each place of a container is the holder's own, or a constant. *)
LEMMA OwnReadable ==
    ASSUME NEW c \in Classes, NEW key \in Containers[c], NEW holder, holder # "constant",
           NEW cells, OwnCells(holder, c) \subseteq DOMAIN cells, NEW level \in Levels
    PROVE  LET place == OwnValue(holder, key)[level]
           IN  \/ place = Constant("none") /\ place.holder = "constant"
               \/ place \in DOMAIN cells /\ place.holder = holder
<1>1. Constant("none").holder = "constant"
  BY DEF Constant, Cell
<1>2. \A l : Cell(holder, key, l).holder = holder
  BY DEF Cell
<1>3. CASE level = "outer"
  BY <1>2, <1>3, OwnPlaces
<1>4. CASE level = "inner"
  BY <1>1, <1>2, <1>4, OwnPlaces
<1> QED
  BY <1>3, <1>4 DEF Levels

-----------------------------------------------------------------------------
(* What from_dict makes of the payload *)
LEMMA LoadedValues ==
    ASSUME PayloadOK, class \in Classes, Accepts(class, payload, heap),
           NEW key \in Attributes[class]
    PROVE  LET values == FromDict(class, payload)
               loaded == Copied(values, class, "in", "artifact")
           IN  /\ key = "traffic_bytes" =>
                     /\ key \in Containers[class]
                     /\ values[key] = OwnValue("payload", key)
                     /\ loaded[key] = OwnValue("payload", key)
               /\ key \in Containers[class] =>
                     values[key] \in {OwnValue("payload", key), Literal("default")}
               /\ key \in Containers[class] /\ key # "traffic_bytes" =>
                     loaded[key] = OwnValue("artifact", key)
               /\ key \notin Containers[class] =>
                     /\ loaded[key] = values[key]
                     /\ \E content \in {"v", "w", "default"} : values[key] = Literal(content)
<1> DEFINE values == FromDict(class, payload)
           loaded == Copied(values, class, "in", "artifact")
<1>1. values[key] = IF key \in DOMAIN payload THEN payload[key] ELSE Literal("default")
  BY DEF FromDict
<1>2. DOMAIN values = Attributes[class]
  BY DEF FromDict
<1>3. key \in Containers[class] => values[key] \in {OwnValue("payload", key), Literal("default")}
  BY <1>1 DEF PayloadOK
<1>4. key = "traffic_bytes" => key \in Containers[class] /\ values[key] = OwnValue("payload", key)
  BY <1>1, Tables DEF PayloadOK, Accepts
<1>5. key \notin Containers[class] =>
         \E content \in {"v", "w", "default"} : values[key] = Literal(content)
  BY <1>1 DEF PayloadOK
<1>6. loaded[key] =
         IF key \notin Containers[class] \/ Copies[class][key].in = "none" THEN values[key]
         ELSE IF Copies[class][key].in = "both" THEN OwnValue("artifact", key)
         ELSE [OwnValue("artifact", key) EXCEPT !.inner = values[key].inner]
  BY <1>2 DEF Copied
<1>7. ASSUME key \in Containers[class], key \notin Nested
      PROVE  [OwnValue("artifact", key) EXCEPT !.inner = values[key].inner] = OwnValue("artifact", key)
  <2>1. values[key].inner = Constant("none")
    BY <1>3, <1>7, OwnPlaces, ConstantAt
  <2>2. OwnValue("artifact", key).inner = Constant("none")
    BY <1>7, OwnPlaces
  <2> QED
    BY <2>1, <2>2 DEF OwnValue, Value
<1> HIDE DEF values, loaded
<1>8. key \in Containers[class] /\ key # "traffic_bytes" => loaded[key] = OwnValue("artifact", key)
  BY <1>6, <1>7, CopyModes
<1>9. key = "traffic_bytes" => loaded[key] = OwnValue("payload", key)
  BY <1>4, <1>6, CopyModes
<1> QED
  BY <1>3, <1>4, <1>5, <1>6, <1>8, <1>9 DEF values, loaded

(* What to_dict makes of the artifact *)
LEMMA SavedValues ==
    ASSUME ArtifactOK, artifact # None, class \in Classes, NEW key \in Keys[class]
    PROVE  LET values == ToDict(class, artifact, heap)
               written == Copied(values, class, "out", "saved")
           IN  /\ key \in Containers[class] => written[key] = OwnValue("saved", key)
               /\ key \notin Containers[class] => \E content : written[key] = Literal(content)
<1> DEFINE values == ToDict(class, artifact, heap)
           written == Copied(values, class, "out", "saved")
<1>1. DOMAIN values = Keys[class]
  BY DEF ToDict
<1>2. written[key] =
         IF key \notin Containers[class] \/ Copies[class][key].out = "none" THEN values[key]
         ELSE IF Copies[class][key].out = "both" THEN OwnValue("saved", key)
         ELSE [OwnValue("saved", key) EXCEPT !.inner = values[key].inner]
  BY <1>1 DEF Copied
<1>3. ASSUME key \in Containers[class], key \notin Nested
      PROVE  [OwnValue("saved", key) EXCEPT !.inner = values[key].inner] = OwnValue("saved", key)
  <2>1. values[key] = artifact[key] /\ key \in Attributes[class]
    BY <1>3, Tables DEF ToDict
  <2>2. artifact[key].inner = Constant("none")
    BY <1>3, <2>1, OwnPlaces DEF ArtifactOK
  <2>3. OwnValue("saved", key).inner = Constant("none")
    BY <1>3, OwnPlaces
  <2> QED
    BY <2>1, <2>2, <2>3 DEF OwnValue, Value
<1>4. ASSUME key \notin Containers[class]
      PROVE  \E content : values[key] = Literal(content)
  <2>1. CASE key \in {"schema_version", "summary"}
    BY <2>1 DEF ToDict
  <2>2. CASE key \notin {"schema_version", "summary"}
    <3>1. values[key] = artifact[key] /\ key \in Attributes[class]
      BY <2>2, Tables DEF ToDict
    <3>2. key # "traffic_bytes"
      BY <1>4, Tables
    <3> QED
      BY <1>4, <3>1, <3>2 DEF ArtifactOK
  <2> QED
    BY <2>1, <2>2
<1> HIDE DEF values, written
<1>5. key \in Containers[class] => written[key] = OwnValue("saved", key)
  BY <1>2, <1>3, CopyModes
<1> QED
  BY <1>2, <1>4, <1>5 DEF values, written

(* An artifact has the content of what it was loaded from. *)
LEMMA LoadKeepsContent ==
    ASSUME PayloadOK, HeapOK, class \in Classes, Accepts(class, payload, heap),
           NEW key \in Attributes[class], NEW level \in Levels
    PROVE  LET values == FromDict(class, payload)
               loaded == Copied(values, class, "in", "artifact")
           IN  At(loaded[key][level], Filled(values, heap, class, "artifact"))
                  = At(values[key][level], heap)
<1> DEFINE values == FromDict(class, payload)
           loaded == Copied(values, class, "in", "artifact")
           filled == Filled(values, heap, class, "artifact")
<1>1. CASE key \notin Containers[class]
  <2>1. PICK content \in {"v", "w", "default"} :
           loaded[key] = Literal(content) /\ values[key] = Literal(content)
    BY <1>1, LoadedValues
  <2> QED
    BY <2>1, ConstantAt DEF Levels
<1>2. CASE key = "traffic_bytes"
  <2>1. /\ key \in Containers[class]
        /\ loaded[key] = OwnValue("payload", key) /\ values[key] = OwnValue("payload", key)
    BY <1>2, LoadedValues
  <2>2. \/ loaded[key][level].holder = "constant"
        \/ loaded[key][level] \in DOMAIN heap /\ loaded[key][level].holder # "artifact"
    <3>1. OwnCells("payload", class) \subseteq DOMAIN heap
      BY DEF HeapOK
    <3> QED
      BY <2>1, <3>1, OwnReadable
  <2> QED
    BY <2>1, <2>2, AtFilled
<1>3. CASE key \in Containers[class] /\ key # "traffic_bytes"
  <2>1. loaded[key] = OwnValue("artifact", key)
    BY <1>3, LoadedValues
  <2>2. CASE level = "outer"
    BY <1>3, <2>1, <2>2, OwnPlaces, FilledOwn
  <2>3. CASE level = "inner" /\ key \in Nested
    BY <1>3, <2>1, <2>3, OwnPlaces, FilledOwn
  <2>4. CASE level = "inner" /\ key \notin Nested
    <3>1. values[key].inner = Constant("none")
      BY <1>3, <2>4, LoadedValues, OwnPlaces, ConstantAt
    <3>2. loaded[key].inner = Constant("none")
      BY <1>3, <2>1, <2>4, OwnPlaces
    <3> QED
      BY <2>4, <3>1, <3>2, ConstantAt
  <2> QED
    BY <2>2, <2>3, <2>4 DEF Levels
<1> QED
  BY <1>1, <1>2, <1>3

-----------------------------------------------------------------------------
(* But for traffic_bytes, the artifact's content depends on its own cells. *)
LEMMA FingerprintDependsOn ==
    ASSUME ArtifactOK, HeapOK, artifact # None, class \in Classes,
           NEW cells, \A cell \in DOMAIN heap : cell.holder = "artifact" => cells[cell] = heap[cell],
           NEW key \in Keys[class] \ {"traffic_bytes"}
    PROVE  Fingerprint(class, artifact, cells)[key] = Fingerprint(class, artifact, heap)[key]
<1>1. ASSUME NEW k \in Attributes[class] \ {"traffic_bytes"}, NEW level \in Levels
      PROVE  At(artifact[k][level], cells) = At(artifact[k][level], heap)
  <2>1. CASE k \in Containers[class]
    <3>1. artifact[k] = OwnValue("artifact", k) /\ OwnCells("artifact", class) \subseteq DOMAIN heap
      BY <1>1, <2>1 DEF ArtifactOK, HeapOK
    <3>2. \/ artifact[k][level].holder = "constant" /\ artifact[k][level] = Constant("none")
          \/ artifact[k][level] \in DOMAIN heap /\ artifact[k][level].holder = "artifact"
      BY <2>1, <3>1, OwnReadable
    <3> QED
      BY <3>2 DEF At
  <2>2. CASE k \notin Containers[class]
    <3>1. PICK content : artifact[k] = Literal(content)
      BY <1>1, <2>2 DEF ArtifactOK
    <3> QED
      BY <3>1, ConstantAt DEF Levels
  <2> QED
    BY <2>1, <2>2
<1>2. \A other : Fingerprint(class, artifact, other)[key] =
         LET value == ToDict(class, artifact, other)[key]
         IN  <<At(value.outer, other), At(value.inner, other)>>
  BY DEF Fingerprint, ContentOf, ToDict
<1>3. CASE key = "schema_version"
  <2>1. \A other : ToDict(class, artifact, other)[key] = Literal("v")
    BY <1>3 DEF ToDict
  <2> QED
    BY <1>2, <2>1, ConstantAt
<1>4. CASE key = "summary"
  <2>1. \A other : ToDict(class, artifact, other)[key] = Literal(At(artifact["samples"].outer, other))
    BY <1>4 DEF ToDict
  <2>2. At(artifact["samples"].outer, cells) = At(artifact["samples"].outer, heap)
    BY <1>1, <1>4, Tables DEF Levels
  <2> QED
    BY <1>2, <2>1, <2>2, ConstantAt
<1>5. CASE key \notin {"schema_version", "summary"}
  <2>1. \A other : ToDict(class, artifact, other)[key] = artifact[key]
    BY <1>5 DEF ToDict
  <2>2. key \in Attributes[class] \ {"traffic_bytes"}
    BY <1>5, Tables
  <2> QED
    BY <1>1, <1>2, <2>1, <2>2 DEF Levels
<1> QED
  BY <1>3, <1>4, <1>5

(* Nothing is loaded yet. *)
LEMMA InvInit == Init => IInv /\ ReferenceStaysTrue /\ CompleteFileKeepsFingerprint
<1> SUFFICES ASSUME Init PROVE IInv /\ artifact = None
  BY DEF ReferenceStaysTrue, CompleteFileKeepsFingerprint
<1>1. class \in Classes /\ artifact = None /\ saved = None
  BY DEF Init
<1>2. PayloadOK
  BY DEF Init, PayloadOK
<1>3. OwnCells("payload", class) \subseteq DOMAIN heap
  BY DEF Init
<1> QED
  BY <1>1, <1>2, <1>3 DEF IInv, ArtifactOK, SavedOK, HeapOK

(* Editing a document in place touches no cell of the artifact. *)
LEMMA EditedCells ==
    ASSUME IInv, NEW cell \in CellsOf(payload) \union CellsOf(saved)
    PROVE  cell \in DOMAIN heap /\ cell.holder # "artifact"
<1>1. ASSUME NEW values, NEW holder \in {"payload", "saved"}, cell \in CellsOf(values),
             OwnCells(holder, class) \subseteq DOMAIN heap,
             \A key \in DOMAIN values :
                \/ key \in Containers[class] /\ values[key] = OwnValue(holder, key)
                \/ \E content : values[key] = Literal(content)
      PROVE  cell.holder # "artifact"
  <2>1. PICK key \in DOMAIN values, level \in Levels : cell = values[key][level]
    BY <1>1 DEF CellsOf, Levels
  <2>2. CASE key \in Containers[class] /\ values[key] = OwnValue(holder, key)
    BY <1>1, <2>1, <2>2, OwnReadable DEF IInv
  <2>3. CASE \E content : values[key] = Literal(content)
    BY <2>1, <2>3, ConstantAt DEF Levels
  <2> QED
    BY <1>1, <2>2, <2>3
<1>2. cell \in DOMAIN heap
  BY DEF CellsOf
<1>3. CASE cell \in CellsOf(payload)
  <2>1. \A key \in DOMAIN payload :
           \/ key \in Containers[class] /\ payload[key] = OwnValue("payload", key)
           \/ \E content : payload[key] = Literal(content)
    BY DEF IInv, PayloadOK
  <2> QED
    BY <1>1, <1>2, <1>3, <2>1 DEF IInv, HeapOK
<1>4. CASE cell \in CellsOf(saved)
  <2>1. saved # None
    BY <1>4 DEF CellsOf, None
  <2>2. \A key \in DOMAIN saved :
           \/ key \in Containers[class] /\ saved[key] = OwnValue("saved", key)
           \/ \E content : saved[key] = Literal(content)
    BY <2>1 DEF IInv, SavedOK
  <2> QED
    BY <1>1, <1>2, <1>4, <2>1, <2>2 DEF IInv, HeapOK
<1> QED
  BY <1>3, <1>4, <1>2

-----------------------------------------------------------------------------
(* Each step keeps IInv and the two properties of the artifact. *)
LEMMA LoadStep ==
    ASSUME IInv, Load
    PROVE  IInv' /\ ReferenceStaysTrue' /\ CompleteFileKeepsFingerprint'
<1> DEFINE values == FromDict(class, payload)
<1>1. /\ class' = class /\ payload' = payload /\ saved' = saved
      /\ Accepts(class, payload, heap)
      /\ artifact' = Copied(values, class, "in", "artifact")
      /\ heap' = Filled(values, heap, class, "artifact")
      /\ read' = ContentOf(payload, heap)
      /\ reference' = Fingerprint(class, artifact', heap')
  BY DEF Load
<1>2. class \in Classes /\ PayloadOK /\ HeapOK /\ SavedOK
  BY DEF IInv
<1>3. ArtifactOK'
  <2>1. DOMAIN artifact' = Attributes[class]
    BY <1>1 DEF Copied, FromDict
  <2>2. ASSUME NEW key \in Attributes[class]
        PROVE  IF key = "traffic_bytes" THEN artifact'[key] = OwnValue("payload", key)
               ELSE IF key \in Containers[class] THEN artifact'[key] = OwnValue("artifact", key)
               ELSE \E content \in {"v", "w", "default"} : artifact'[key] = Literal(content)
    BY <1>1, <1>2, LoadedValues
  <2> QED
    BY <1>1, <2>1, <2>2 DEF ArtifactOK
<1>4. HeapOK'
  <2>1. DOMAIN heap' = OwnCells("artifact", class) \union DOMAIN heap
    BY <1>1, FilledDomain
  <2> QED
    BY <1>1, <1>2, <2>1 DEF HeapOK
<1>5. IInv'
  BY <1>1, <1>2, <1>3, <1>4 DEF IInv, PayloadOK, SavedOK
<1>6. ReferenceStaysTrue'
  BY <1>1 DEF ReferenceStaysTrue
<1>7. CompleteFileKeepsFingerprint'
  <2> SUFFICES ASSUME DOMAIN read' = Keys[class]
               PROVE  reference' = read'
    BY <1>1 DEF CompleteFileKeepsFingerprint
  <2>1. DOMAIN payload = Keys[class]
    BY <1>1 DEF ContentOf
  <2>2. \A key \in Attributes[class] : values[key] = payload[key]
    BY <1>2, <2>1, Tables DEF FromDict
  <2>3. ASSUME NEW key \in Attributes[class], NEW level \in Levels
        PROVE  At(artifact'[key][level], heap') = At(payload[key][level], heap)
    BY <1>1, <1>2, <2>2, <2>3, LoadKeepsContent
  <2>4. ASSUME NEW key \in Keys[class]
        PROVE  LET value == ToDict(class, artifact', heap')[key]
               IN  /\ At(value.outer, heap') = At(payload[key].outer, heap)
                   /\ At(value.inner, heap') = At(payload[key].inner, heap)
    <3>1. CASE key \in {"schema_version", "summary"}
      <4>1. PICK content : payload[key] = Literal(content)
        BY <1>2, <2>1, <3>1, Tables DEF PayloadOK
      <4>2. CASE key = "schema_version"
        <5>1. content = "v"
          BY <1>1, <4>1, <4>2, ConstantAt DEF Accepts
        <5>2. ToDict(class, artifact', heap')[key] = Literal("v")
          BY <4>2 DEF ToDict
        <5> QED
          BY <4>1, <5>1, <5>2, ConstantAt
      <4>3. CASE key = "summary"
        <5>1. content = At(payload["samples"].outer, heap)
          BY <1>1, <2>1, <4>1, <4>3, ConstantAt DEF Accepts
        <5>2. ToDict(class, artifact', heap')[key] = Literal(At(artifact'["samples"].outer, heap'))
          BY <4>3 DEF ToDict
        <5>3. At(artifact'["samples"].outer, heap') = At(payload["samples"].outer, heap)
          BY <1>2, <2>3, <4>3, Tables DEF Levels
        <5> QED
          BY <4>1, <5>1, <5>2, <5>3, ConstantAt
      <4> QED
        BY <3>1, <4>2, <4>3
    <3>2. CASE key \notin {"schema_version", "summary"}
      <4>1. ToDict(class, artifact', heap')[key] = artifact'[key]
        BY <3>2 DEF ToDict
      <4>2. key \in Attributes[class]
        BY <1>2, <3>2, Tables
      <4> QED
        BY <2>3, <4>1, <4>2 DEF Levels
    <3> QED
      BY <3>1, <3>2
  <2>5. DOMAIN ToDict(class, artifact', heap') = Keys[class]
    BY DEF ToDict
  <2> QED
    BY <1>1, <2>1, <2>4, <2>5 DEF Fingerprint, ContentOf
<1> QED
  BY <1>5, <1>6, <1>7

LEMMA SaveStep ==
    ASSUME IInv, ReferenceStaysTrue, CompleteFileKeepsFingerprint, Save
    PROVE  IInv' /\ ReferenceStaysTrue' /\ CompleteFileKeepsFingerprint'
<1> DEFINE values == ToDict(class, artifact, heap)
<1>1. /\ class' = class /\ payload' = payload /\ artifact' = artifact /\ artifact # None
      /\ read' = read /\ reference' = reference
      /\ saved' = Copied(values, class, "out", "saved")
      /\ heap' = Filled(values, heap, class, "saved")
  BY DEF Save
<1>2. class \in Classes /\ PayloadOK /\ HeapOK /\ ArtifactOK
  BY DEF IInv
<1>3. SavedOK'
  <2>1. DOMAIN saved' = Keys[class]
    BY <1>1 DEF Copied, ToDict
  <2>2. ASSUME NEW key \in Keys[class]
        PROVE  IF key \in Containers[class] THEN saved'[key] = OwnValue("saved", key)
               ELSE \E content : saved'[key] = Literal(content)
    BY <1>1, <1>2, SavedValues
  <2> QED
    BY <1>1, <2>1, <2>2 DEF SavedOK
<1>4. HeapOK'
  <2>1. DOMAIN heap' = OwnCells("saved", class) \union DOMAIN heap
    BY <1>1, FilledDomain
  <2> QED
    BY <1>1, <1>2, <2>1 DEF HeapOK
<1>5. IInv'
  BY <1>1, <1>2, <1>3, <1>4 DEF IInv, PayloadOK, ArtifactOK
<1>6. \A cell \in DOMAIN heap : cell.holder = "artifact" => heap'[cell] = heap[cell]
  BY <1>1, OwnCellsForm DEF Filled
<1>7. ReferenceStaysTrue'
  BY <1>1, <1>2, <1>6, FingerprintDependsOn DEF ReferenceStaysTrue
<1>8. CompleteFileKeepsFingerprint'
  BY <1>1 DEF CompleteFileKeepsFingerprint
<1> QED
  BY <1>5, <1>7, <1>8

LEMMA EditKeysStep ==
    ASSUME IInv, ReferenceStaysTrue, CompleteFileKeepsFingerprint,
           NEW document, EditKeys(document),
           \/ \E key \in Keys[class] \ Containers[class] : document = With(payload, key)
           \/ \E key \in DOMAIN payload : document = Without(payload, key)
    PROVE  IInv' /\ ReferenceStaysTrue' /\ CompleteFileKeepsFingerprint'
<1>1. UNCHANGED <<class, heap, artifact, saved, read, reference>> /\ payload' = document
  BY DEF EditKeys
<1>2. PayloadOK'
  <2>1. CASE \E key \in Keys[class] \ Containers[class] : document = With(payload, key)
    BY <1>1, <2>1 DEF IInv, PayloadOK, With
  <2>2. CASE \E key \in DOMAIN payload : document = Without(payload, key)
    BY <1>1, <2>2 DEF IInv, PayloadOK, Without
  <2> QED
    BY <2>1, <2>2
<1>3. IInv'
  BY <1>1, <1>2 DEF IInv, ArtifactOK, SavedOK, HeapOK
<1> QED
  BY <1>1, <1>3 DEF ReferenceStaysTrue, CompleteFileKeepsFingerprint

LEMMA EditInPlaceStep ==
    ASSUME IInv, ReferenceStaysTrue, CompleteFileKeepsFingerprint,
           NEW cell \in CellsOf(payload) \union CellsOf(saved), EditInPlace(cell)
    PROVE  IInv' /\ ReferenceStaysTrue' /\ CompleteFileKeepsFingerprint'
<1>1. /\ UNCHANGED <<class, payload, artifact, saved, read, reference>>
      /\ DOMAIN heap' = DOMAIN heap
      /\ \A other \in DOMAIN heap : other # cell => heap'[other] = heap[other]
  BY DEF EditInPlace
<1>2. IInv'
  BY <1>1 DEF IInv, PayloadOK, ArtifactOK, SavedOK, HeapOK
<1>3. \A other \in DOMAIN heap : other.holder = "artifact" => heap'[other] = heap[other]
  BY <1>1, EditedCells
<1>4. ReferenceStaysTrue'
  BY <1>1, <1>3, FingerprintDependsOn DEF ReferenceStaysTrue, IInv
<1>5. CompleteFileKeepsFingerprint'
  BY <1>1 DEF CompleteFileKeepsFingerprint
<1> QED
  BY <1>2, <1>4, <1>5

LEMMA InvStep ==
    ASSUME IInv, ReferenceStaysTrue, CompleteFileKeepsFingerprint, [Next]_vars
    PROVE  IInv' /\ ReferenceStaysTrue' /\ CompleteFileKeepsFingerprint'
<1>1. CASE Load
  BY <1>1, LoadStep
<1>2. CASE Save
  BY <1>2, SaveStep
<1>3. CASE \E key \in Keys[class] \ Containers[class] : EditKeys(With(payload, key))
  BY <1>3, EditKeysStep
<1>4. CASE \E key \in DOMAIN payload : EditKeys(Without(payload, key))
  BY <1>4, EditKeysStep
<1>5. CASE \E cell \in CellsOf(payload) \union CellsOf(saved) : EditInPlace(cell)
  BY <1>5, EditInPlaceStep
<1>6. CASE UNCHANGED vars
  BY <1>6 DEF vars, IInv, PayloadOK, ArtifactOK, SavedOK, HeapOK, ReferenceStaysTrue,
              CompleteFileKeepsFingerprint
<1> QED
  BY <1>1, <1>2, <1>3, <1>4, <1>5, <1>6 DEF Next

-----------------------------------------------------------------------------
(* What to_dict wrote is read back: in each state, whatever the cells hold. *)
LEMMA RoundTripHere ==
    ASSUME ArtifactOK, class \in Classes
    PROVE  RoundTrip
<1> DEFINE content == Fingerprint(class, artifact, heap)
           document == Parsed(content)
           restored == FromDict(class, document)
<1> SUFFICES ASSUME artifact # None
             PROVE  /\ Accepts(class, document, heap)
                    /\ ContentOf(restored, heap) = ContentOf(artifact, heap)
                    /\ Fingerprint(class, restored, heap) = content
  BY DEF RoundTrip
<1>1. DOMAIN artifact = Attributes[class]
  BY DEF ArtifactOK
<1>2. /\ DOMAIN content = Keys[class] /\ DOMAIN document = Keys[class]
      /\ DOMAIN restored = Attributes[class]
  BY DEF Fingerprint, ContentOf, ToDict, Parsed, FromDict
<1>3. ASSUME NEW key \in Keys[class]
      PROVE  /\ At(document[key].outer, heap) = At(ToDict(class, artifact, heap)[key].outer, heap)
             /\ At(document[key].inner, heap) = At(ToDict(class, artifact, heap)[key].inner, heap)
  <2>1. content[key] = <<At(ToDict(class, artifact, heap)[key].outer, heap),
                         At(ToDict(class, artifact, heap)[key].inner, heap)>>
    BY DEF Fingerprint, ContentOf, ToDict
  <2>2. document[key] = Value(Constant(content[key][1]), Constant(content[key][2]))
    BY <1>2 DEF Parsed
  <2> QED
    BY <2>1, <2>2, ConstantAt DEF Value
<1> HIDE DEF document, content
<1>4. ASSUME NEW key \in Attributes[class], NEW level \in Levels
      PROVE  At(restored[key][level], heap) = At(artifact[key][level], heap)
  <2>1. key \in Keys[class] /\ key \notin {"schema_version", "summary"}
    BY Tables
  <2>2. restored[key] = document[key]
    BY <1>2, <2>1 DEF FromDict
  <2>3. ToDict(class, artifact, heap)[key] = artifact[key]
    BY <2>1 DEF ToDict
  <2> QED
    BY <1>3, <2>1, <2>2, <2>3 DEF Levels
<1>5. Accepts(class, document, heap)
  <2>1. Reads[class].required \subseteq DOMAIN document
    BY <1>2, Tables
  <2>2. "schema_version" \in Keys[class] => At(document["schema_version"].outer, heap) = "v"
    <3>1. "schema_version" \in Keys[class] =>
             ToDict(class, artifact, heap)["schema_version"] = Literal("v")
      BY DEF ToDict
    <3> QED
      BY <1>3, <3>1, ConstantAt
  <2>3. "summary" \in Keys[class] =>
           At(document["summary"].outer, heap) = At(document["samples"].outer, heap)
    <3> SUFFICES ASSUME "summary" \in Keys[class]
                 PROVE  At(document["summary"].outer, heap) = At(document["samples"].outer, heap)
      OBVIOUS
    <3>1. "samples" \in Keys[class]
      BY Tables
    <3>2. ToDict(class, artifact, heap)["summary"] = Literal(At(artifact["samples"].outer, heap))
      BY DEF ToDict
    <3>3. ToDict(class, artifact, heap)["samples"] = artifact["samples"]
      BY <3>1 DEF ToDict
    <3> QED
      BY <1>3, <3>1, <3>2, <3>3, ConstantAt
  <2> QED
    BY <1>2, <2>1, <2>2, <2>3 DEF Accepts
<1> HIDE DEF restored
<1>6. ContentOf(restored, heap) = ContentOf(artifact, heap)
  BY <1>1, <1>2, <1>4 DEF ContentOf, Levels
<1>7. ASSUME NEW key \in Keys[class]
      PROVE  LET old == ToDict(class, artifact, heap)[key]
                 new == ToDict(class, restored, heap)[key]
             IN  At(new.outer, heap) = At(old.outer, heap) /\ At(new.inner, heap) = At(old.inner, heap)
  <2>1. CASE key = "schema_version"
    BY <2>1 DEF ToDict
  <2>2. CASE key = "summary"
    <3>1. At(restored["samples"].outer, heap) = At(artifact["samples"].outer, heap)
      BY <1>4, <2>2, Tables DEF Levels
    <3> QED
      BY <2>2, <3>1 DEF ToDict
  <2>3. CASE key \notin {"schema_version", "summary"}
    <3>1. key \in Attributes[class]
      BY <2>3, Tables
    <3>2. \A values : ToDict(class, values, heap)[key] = values[key]
      BY <2>3 DEF ToDict
    <3> QED
      BY <1>4, <3>1, <3>2 DEF Levels
  <2> QED
    BY <2>1, <2>2, <2>3
<1>8. Fingerprint(class, restored, heap) = content
  <2>1. \A values : DOMAIN ToDict(class, values, heap) = Keys[class]
    BY DEF ToDict
  <2> QED
    BY <1>7, <2>1 DEF Fingerprint, ContentOf, content
<1> QED
  BY <1>5, <1>6, <1>8

-----------------------------------------------------------------------------
(* Types *)

Contents == {"v", "w", "default", "none"}

TInv ==
    /\ IInv
    /\ edits \in 0 .. MaxEdits
    /\ \A cell \in DOMAIN heap : heap[cell] \in Contents

LEMMA TypeHere ==
    ASSUME TInv
    PROVE  TypeOK
<1> USE DEF TInv, IInv
<1>1. ASSUME NEW values, NEW key \in DOMAIN values, NEW level \in Levels,
             \/ key \in Containers[class] /\ \E holder \in {"payload", "artifact", "saved"} :
                   values[key] = OwnValue(holder, key) /\ OwnCells(holder, class) \subseteq DOMAIN heap
             \/ \E content : values[key] = Literal(content)
      PROVE  values[key][level].holder = "constant" \/ values[key][level] \in DOMAIN heap
  <2>1. CASE \E content : values[key] = Literal(content)
    BY <1>1, <2>1, ConstantAt DEF Levels
  <2>2. CASE key \in Containers[class] /\ \E holder \in {"payload", "artifact", "saved"} :
                values[key] = OwnValue(holder, key) /\ OwnCells(holder, class) \subseteq DOMAIN heap
    BY <1>1, <2>2, OwnReadable
  <2> QED
    BY <1>1, <2>1, <2>2
<1>2. ASSUME NEW key \in DOMAIN payload, NEW level \in Levels
      PROVE  payload[key][level].holder = "constant" \/ payload[key][level] \in DOMAIN heap
  BY <1>1 DEF PayloadOK, HeapOK
<1>3. ASSUME artifact # None, NEW key \in DOMAIN artifact, NEW level \in Levels
      PROVE  artifact[key][level].holder = "constant" \/ artifact[key][level] \in DOMAIN heap
  <2>1. key \in Attributes[class]
    BY <1>3 DEF ArtifactOK
  <2>2. key = "traffic_bytes" => key \in Containers[class]
    BY <2>1, Tables
  <2> QED
    BY <1>1, <1>3, <2>1, <2>2 DEF ArtifactOK, HeapOK
<1>4. ASSUME saved # None, NEW key \in DOMAIN saved, NEW level \in Levels
      PROVE  saved[key][level].holder = "constant" \/ saved[key][level] \in DOMAIN heap
  BY <1>1, <1>4 DEF SavedOK, HeapOK
<1>5. ASSUME NEW values \in {payload, artifact, saved}, NEW key \in DOMAIN values, NEW level \in Levels
      PROVE  values[key][level].holder = "constant" \/ values[key][level] \in DOMAIN heap
  <2>1. values # None
    BY <1>5 DEF None
  <2> QED
    BY <1>2, <1>3, <1>4, <1>5, <2>1
<1> QED
  BY <1>5 DEF TypeOK, PayloadOK, ArtifactOK, SavedOK, Levels, Contents

(* Copying fills cells with what cells and constants held. *)
LEMMA FilledContents ==
    ASSUME TInv, NEW values, NEW holder, NEW source \in {"payload", "artifact"},
           OwnCells(source, class) \subseteq DOMAIN heap,
           \A key \in Containers[class] :
               values[key] \in {OwnValue(source, key), OwnValue("payload", key), Literal("default")}
    PROVE  \A cell \in DOMAIN Filled(values, heap, class, holder) :
               Filled(values, heap, class, holder)[cell] \in Contents
<1> USE DEF TInv, IInv
<1>1. ASSUME NEW key \in Containers[class], NEW level \in Levels
      PROVE  At(values[key][level], heap) \in Contents
  <2>1. CASE values[key] = Literal("default")
    BY <2>1, ConstantAt DEF Levels, Contents
  <2>2. CASE values[key] # Literal("default")
    <3>1. PICK h \in {"payload", "artifact"} :
             values[key] = OwnValue(h, key) /\ OwnCells(h, class) \subseteq DOMAIN heap
      BY <1>1, <2>2 DEF HeapOK
    <3>2. \/ values[key][level] = Constant("none")
          \/ values[key][level] \in DOMAIN heap /\ values[key][level].holder = h
      BY <3>1, OwnReadable
    <3>3. CASE values[key][level] = Constant("none")
      BY <3>3, ConstantAt DEF Contents
    <3>4. CASE values[key][level] \in DOMAIN heap /\ values[key][level].holder = h
      BY <3>4 DEF At
    <3> QED
      BY <3>2, <3>3, <3>4
  <2> QED
    BY <2>1, <2>2
<1>2. ASSUME NEW cell \in OwnCells(holder, class)
      PROVE  Filled(values, heap, class, holder)[cell] \in Contents
  <2>1. Filled(values, heap, class, holder)[cell] = At(values[cell.key][cell.level], heap)
    BY DEF Filled
  <2> QED
    BY <1>1, <2>1, OwnCellsForm DEF Levels
<1>3. ASSUME NEW cell \in DOMAIN heap, cell \notin OwnCells(holder, class)
      PROVE  Filled(values, heap, class, holder)[cell] \in Contents
  BY <1>3 DEF Filled
<1>4. DOMAIN Filled(values, heap, class, holder) = OwnCells(holder, class) \union DOMAIN heap
  BY FilledDomain
<1> QED
  BY <1>2, <1>3, <1>4

LEMMA TypeStep ==
    ASSUME TInv, ReferenceStaysTrue, CompleteFileKeepsFingerprint, [Next]_vars
    PROVE  TInv'
<1>1. IInv'
  BY InvStep DEF TInv
<1>2. edits' \in 0 .. MaxEdits
  BY MaxEditsAssumption DEF TInv, Next, Load, Save, EditKeys, EditInPlace, vars
<1>3. \A cell \in DOMAIN heap' : heap'[cell] \in Contents
  <2>1. CASE Load
    <3>1. /\ heap' = Filled(FromDict(class, payload), heap, class, "artifact")
          /\ Accepts(class, payload, heap)
      BY <2>1 DEF Load
    <3>2. \A key \in Containers[class] :
             FromDict(class, payload)[key] \in {OwnValue("payload", key), Literal("default")}
      BY <3>1, LoadedValues, Tables DEF TInv, IInv
    <3>3. OwnCells("payload", class) \subseteq DOMAIN heap
      BY DEF TInv, IInv, HeapOK
    <3> QED
      BY <3>1, <3>2, <3>3, FilledContents
  <2>2. CASE Save
    <3>1. heap' = Filled(ToDict(class, artifact, heap), heap, class, "saved") /\ artifact # None
      BY <2>2 DEF Save
    <3>2. ASSUME NEW key \in Containers[class]
          PROVE  ToDict(class, artifact, heap)[key]
                    \in {OwnValue("artifact", key), OwnValue("payload", key)}
      <4>1. key \in Attributes[class] /\ key \in Keys[class] /\ key \notin {"schema_version", "summary"}
        BY Tables DEF TInv, IInv
      <4>2. ToDict(class, artifact, heap)[key] = artifact[key]
        BY <4>1 DEF ToDict
      <4> QED
        BY <3>1, <4>1, <4>2 DEF TInv, IInv, ArtifactOK
    <3>3. OwnCells("artifact", class) \subseteq DOMAIN heap
      BY <3>1 DEF TInv, IInv, HeapOK
    <3> QED
      BY <3>1, <3>2, <3>3, FilledContents
  <2>3. CASE \E cell \in CellsOf(payload) \union CellsOf(saved) : EditInPlace(cell)
    BY <2>3 DEF EditInPlace, TInv, Contents
  <2>4. CASE UNCHANGED heap
    BY <2>4 DEF TInv
  <2> QED
    BY <2>1, <2>2, <2>3, <2>4 DEF Next, EditKeys, vars
<1> QED
  BY <1>1, <1>2, <1>3 DEF TInv

-----------------------------------------------------------------------------
(* Type correctness: whatever its document left out, an artifact has every   *)
(* attribute of its class, and holds constants and cells of the heap only.   *)
THEOREM TypeCorrect == Spec => []TypeOK
<1>1. Init => TInv
  BY InvInit, MaxEditsAssumption DEF Init, TInv, Contents
<1>2. TInv /\ ReferenceStaysTrue /\ CompleteFileKeepsFingerprint /\ [Next]_vars
         => (TInv /\ ReferenceStaysTrue /\ CompleteFileKeepsFingerprint)'
  BY TypeStep, InvStep DEF TInv
<1>3. TInv => TypeOK
  BY TypeHere
<1> QED
  BY <1>1, <1>2, <1>3, InvInit, PTL DEF Spec

(* A frozen artifact is frozen in depth, after any number of edits: a        *)
(* fingerprint taken when it was loaded stays true, whatever is done to its  *)
(* document or to what to_dict returned, except through traffic_bytes.       *)
THEOREM FrozenInDepth == Spec => []ReferenceStaysTrue
<1>1. IInv /\ ReferenceStaysTrue /\ CompleteFileKeepsFingerprint /\ [Next]_vars
         => (IInv /\ ReferenceStaysTrue /\ CompleteFileKeepsFingerprint)'
  BY InvStep
<1> QED
  BY <1>1, InvInit, PTL DEF Spec

(* An artifact loaded from a complete file has the fingerprint that          *)
(* ocf-contract-check takes of the file.                                     *)
THEOREM SameFingerprintAsFile == Spec => []CompleteFileKeepsFingerprint
<1>1. IInv /\ ReferenceStaysTrue /\ CompleteFileKeepsFingerprint /\ [Next]_vars
         => (IInv /\ ReferenceStaysTrue /\ CompleteFileKeepsFingerprint)'
  BY InvStep
<1> QED
  BY <1>1, InvInit, PTL DEF Spec

(* to_dict's document, printed and parsed, loads to an artifact of the same  *)
(* content and the same fingerprint, in each state of the documents.         *)
THEOREM ReadsBack == Spec => []RoundTrip
<1>1. IInv /\ ReferenceStaysTrue /\ CompleteFileKeepsFingerprint /\ [Next]_vars
         => (IInv /\ ReferenceStaysTrue /\ CompleteFileKeepsFingerprint)'
  BY InvStep
<1>2. IInv => RoundTrip
  BY RoundTripHere DEF IInv
<1> QED
  BY <1>1, <1>2, InvInit, PTL DEF Spec
=============================================================================
