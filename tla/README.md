# OpenComputeFlow in TLA+

This directory holds TLA+ models of the Phase 0 core of OpenComputeFlow, the TLC
configurations that check them on small instances, and TLAPS proofs of the
properties that matter most. Everything is translated from the code
(`python/opencomputeflow`, `tools/ocf-contract-check`, `lib/Dialect/Conv`); the
design documents are used only as the source of what the code ought to satisfy.

## 1. The system

OpenComputeFlow maps one operator, a direct f32 Conv2D, to a target. Its parts
exchange *artifacts*: JSON documents named by the SHA-256 of their canonical
text.

| Component | State it keeps | Operations | Talks to |
|---|---|---|---|
| `Conv2DContract` (contracts.py) | one frozen contract | construct, `validate`, `output_shape`, `to_dict`, `from_dict`, `work_summary`, `fingerprint` | every other part consumes it |
| `ocf-contract-check` (C++) | six documents and their hashes | `validateContract` ... `validateTrace`, hash, compare with golden | reads what Python writes |
| `Conv2DOp::verify` (MLIR) | none | verify an `ocf.conv2d` op | the same contract as tensor types and attributes |
| `direct_conv2d` (reference.py) | the output list and seven loop variables | one call | the numerical oracle of the other backends |
| `TargetProfile`, `MappingCandidate` (contracts.py) | one frozen profile or candidate | construct, `validate`, working set, fingerprints, JSON | the estimator, evidence |
| `estimate_direct_conv` (performance.py) | traffic counters, four loop variables | one call | needs a legal candidate; yields an estimate |
| `Measurement`, `DecisionRecord`, `CompilationTrace` (evidence.py) | frozen records with references to other artifacts | construct, `validate`, `summary`, JSON | name the artifacts above by fingerprint |
| canonical JSON and fingerprints (contracts.py, C++) | none | `_canonical_json` / `appendCanonical`, SHA-256 | both languages must print the same bytes |
| JSON schema | none | shape, types and ranges of the six documents | stands before the semantic checks |
| `ocf_phase0.py`, `ocf-opt`, build, CI | none | glue | |

What is hard here is not concurrency: nothing in the code runs in parallel. It is

* **three programs for one contract.** Python, C++ and MLIR each decide whether
  a document is a Conv2D contract, in different arithmetic and with different
  checks; they must agree, and the repository says they do;
* **closed formulas against loops.** The output shape, the tile counts, the
  working set and the traffic are each computed twice, by a formula and by a
  loop, or in two files; strides, asymmetric padding and ragged tiles are where
  two such copies part;
* **silent errors.** A wrong flat index in Python reads another element, or
  wraps to the end of the list; nothing raises;
* **staleness.** A candidate is checked against a contract and a profile by
  fingerprint, and either may have changed since it was proposed;
* **evidence chains.** A trace names its candidates, estimates and measurements
  by fingerprint, and each reader checks a different part of the chain;
* **shared containers.** Artifacts are frozen dataclasses that hold dictionaries;
  one that the caller also holds is not frozen at all;
* **two canonical texts.** The fingerprint of an artifact is taken in Python and
  again in C++, each with its own printing of numbers and strings.

The hazards, line by line, are in `PROJECT.json`.

What makes each component correct:

* *contract*: the inferred output is exactly the set of windows inside the padded
  input; no reader indexes past the end of a tuple or divides by zero; readers agree;
  export and re-read lose nothing;
* *reference*: every access in bounds, every cell assigned once, the result is
  the ordered cross-correlation with zero padding;
* *mapping and estimator*: a tile that is priced fits where the candidate says
  its tensors live, each output cell is counted once, traffic is an upper bound
  on the distinct bytes read, the overhead is charged once per tile;
* *evidence*: whatever a reader accepts is one coherent chain of artifacts, and a
  summary that is accepted is that of the samples beside it;
* *fingerprints*: a reader finds a match exactly when the content is the same, and
  both languages find it alike;
* *artifact objects*: an artifact never changes with its caller's documents, and
  saving and loading it gives the same artifact.

## 2. Modules

| Module | Models | Kind |
|---|---|---|
| `ConvShape` | geometry of a contract, Python and C++ output extents, work summary | operators |
| `ContractReaders` | one document, three readers, Python's rewrite of it | state machine |
| `ContractReadersProofs` | theorems about `ContractReaders` | proofs |
| `ConvSpec` | what `direct_conv2d` promises, without loops or buffers | abstract specification |
| `DirectConv` | `direct_conv2d`: loops over flat buffers; implements `ConvSpec` | state machine |
| `DirectConvProofs` | its invariants; that it implements `ConvSpec` | proofs |
| `Mapping` | `TargetProfile.validate`, `MappingCandidate.validate`, working sets | operators |
| `FloatQuotient` | `math.ceil(a / b)` through a rounded quotient | operators |
| `TileTraffic` | `estimate_direct_conv` tile by tile | state machine |
| `TileTrafficProofs` | its tiles fit and are counted, partition the output and bound the traffic; the rounded quotient counts them | proofs |
| `Summary` | the statistics of samples, in Python and in C++ | operators |
| `Evidence` | `validate` and loading of measurements, decisions and traces; the validators of `ocf-contract-check` | operators |
| `MeasurementReaders` | one measurement document, edited, and its two readers | state machine |
| `MeasurementReadersProofs` | theorems about `MeasurementReaders` | proofs |
| `ArtifactChain` | composes `Mapping` and `Evidence`: six artifacts remade in any order, bundled and read | state machine |
| `ArtifactChainProofs` | theorems about `ArtifactChain` | proofs |
| `CanonicalJson` | both canonical writers; an artifact fingerprinted, saved, edited and read | state machine |
| `CanonicalJsonProofs` | theorems about `CanonicalJson` | proofs |
| `ArtifactObjects` | the containers that six classes share or copy; `from_dict` and `to_dict` | state machine |
| `ArtifactObjectsProofs` | theorems about `ArtifactObjects` | proofs |
| `Recursion` | induction on naturals and on heights; recursive functions satisfy their equations | proofs |
| `MC...` | bounded inputs for TLC | instances |

### ContractReaders

State: the document `doc`, who wrote it (`origin`), the contract Python holds, and
each reader's verdict. `PyAccept`/`PyRaise` are `Conv2DContract.from_dict`
returning or raising, `CppCheck` is `validateContract`, `MlirVerify` is
`Conv2DOp::verify` on an op with the document's types and attributes, `PyExport`
is `to_dict`. The readers run in any order; after the export they read again.

A fixed-value string is "the value the schema demands" or `"other"`; tuples are
sequences of integers of any length and sign. The members of `numerical_policy` are
fields of their own (`PolicyFields`), each the default, another value of its type or one
it may not have. `doc.floats` names the fields whose integers are written as floats:
Python refuses `1.0` in a tuple of the formula, `getAsInteger` takes it.
A reader *faults* when it unpacks or indexes a tuple that is too short, or divides by a
stride of 0. `PyFaults`, `CppFaults` and `MlirFaults` say, of each place where a reader
does so, which checks stand before it and what the place needs; that the checks give
what is needed is the property `NoReaderFaults`.
`//` of Python is `\div`; `/` of C++ is `TruncDiv`. int64 is scaled to `IntMax`;
a signed overflow in the C++ sums is undefined, so the reader may then answer
either way.

Run **ContractReaders** (9426 states): all one-axis geometries with extents up to 3,
kernels up to 4, strides up to 3 and declared outputs up to 3, a valid contract with
each field wrong, missing, malformed or (one or two at a time, beside a right and a
wrong output) written as floats, zero-dimension shapes, and extents at the edge of
int64. Every rule of the three readers is triggered by some document; the two spatial
axes are computed independently and from the same formula, so one axis at a time covers
the arithmetic, and extents up to 3 with strides up to 3 meet every case of the division
(kernel fits exactly, with remainder, or not at all, by less and by more than a stride).
It shows that no reader faults, that the three readers agree when the kernel fits, save
that Python refuses a tuple of the formula in floats, that Python's export is accepted
by all, that it says of each field what the author said and re-reading it changes
nothing, and that the formula is the set of windows. Where a sum leaves int64 nothing is
claimed: no document bounds the extents.

Run **TruncatedOutput** (violation): without the proviso the readers part. C++
division truncates, so a kernel larger than the padded input by less than the
stride has an inferred extent of 1 in C++ and 0 in Python; DESIGN 918 and 927 give
the Python answer. Run **MlirEmptyDims** (violation): the MLIR verifier accepts
zero dimensions that DESIGN 909 and 981 rule out.

### ConvSpec and DirectConv

`DirectConv` has one step per iteration of the innermost loop (`Accumulate`), one
per assignment to the output (`Store`), and `Raise`, `Start`, `Return`. A float is
kept as the list of products it folds over, and an element of a buffer as its
coordinates, so both the index arithmetic and the order of the additions (which
decides an f32 result) are visible. `ConvSpec` says the same without loops: any
order of cells, each cell the ordered list of products of its padded window.
`ImplementsConvolution` is the refinement, mapping `Y[cell]` to
`output[OutputIndex(cell)]` and "running" to "called".

Run **DirectConv** (56915 states): all geometries of two families (batch, channels
and filters up to 2, height 3, kernels up to 3, strides up to 3, padding up to 2 on
one side) with at most `MaxWork` = 24 multiply-accumulates, each with buffers one
short, right and one long. Two values of each outer dimension tell apart all row
and column orders; a stride above the kernel and padding on one side only are
included. That the call ends is not a property here: the loops are `range` loops over
numbers fixed before they start, which end whatever their bodies do.

### Mapping and TileTraffic

`Mapping` keeps the names of the code; acceptance is a conjunction because
`validate` collects all issues before it raises. `Fingerprint` is an injective
constructor: SHA-256 of the canonical JSON, collisions ignored. Optional keys of a
mapping are functions on the keys present (`GetOr`).

`TileTraffic` has one step per tile (`VisitTile`). The cycle terms are exact over
the common denominator `flops_per_cycle * bandwidth`. `visited` is a history
variable: the code keeps no set of tiles, the properties say what its sums stand
for. `CeilQuotient` is what the code computes, the float nearest to the quotient
rounded up, with `Precision` significant bits in the place of 53; the loops are
written with `CeilDiv`, and `TileCountsExact` says that the two are the same for
extents up to 2^`Precision`.

Run **TileTraffic** (11580 states): four contracts (batches, strides above and
below the kernel, asymmetric padding, and one of sixteen rows, `Tall`, which is
2^`Precision` and is cut by every size from 1 to 17), four profiles (cache, scratchpad, sram
declared unmanaged, capacities below and above the working sets, features present
and absent), every tile size from 1 to past the extents, and candidates that are
stale or illegal in one respect each.

### Summary, Evidence and MeasurementReaders

`Evidence` has one operator per `validate` or `from_dict` of evidence.py and one per
validator of `ocf-contract-check`; `CppAccepts` is `main` returning 0. A contract
document is its geometry: that `validateContract` accepts what `Conv2DContract`
writes is `ExportIsAccepted` of `ContractReaders`. Samples are integers and the
median is doubled, so that halves stay exact. Sorting is by place: a sample stands
behind the smaller ones and the equal ones before it.

`MeasurementReaders`: the harness's samples are written (`Write`, which the
constructor's validation guards), one sample or one field is edited, and
`Measurement.from_dict` and `validateMeasurement` give their verdicts.

Run **MeasurementReaders** (24462 states): all lists of up to four samples of three
values in every order, falling lists of 9, 10, 11, 20 and 21 (where
`ceil(0.9 * n)` steps and where it does not), every replacement of a sample by a
lower, equal, higher or negative one with the summary kept or removed, and edits
of source, unit, metric, time, warm-up, threads and summary. It shows that a
summary either reader accepted is minimum, median, nearest-rank p90 and maximum of
the samples beside it, by a definition that counts instead of sorting, and that
C++ accepts exactly the documents that Python accepts and that have a summary.

### ArtifactChain

State: the current contract and profile, the latest candidate, estimate,
measurement and trace (or `None`), and what the estimator and the harness were given
(`priced`, `measured`: history). `EditContract` and `EditProfile` are the authors;
`Propose`, `Price`, `Measure`, `Decide` are the calls of `ocf_phase0.py` and of
`tests/phase0_fixture.py`, each of which may be made again at any time; `Price`
validates first, as `estimate_direct_conv` does, and `Measure` looks at neither
candidate nor profile, as `Measurement` does. `CppCheck` and `PyLoad` read the
bundle, as written or with one document edited; `read` holds what was accepted until
the next step.

Run **ArtifactChain** (19968 states): two contracts, three profiles (two with
different capacities under one version), a schedule that is legal on the larger
ones only, `MaxEdits` = 2, which is enough to change a profile and change it back, and
two or three edits of each document, among them an estimate, a measurement and a
trace that would hide staleness, and an estimate and a measurement from before put
back. It shows that an accepted bundle's mapping is legal although
`ocf-contract-check` checks no capacity, residency or loop order, and that its
estimate and measurement are what estimator and harness make of exactly its contract,
candidate and profile. Whoever edits the bundle may put an older one of these back, so
that they also were *made* of this chain, as the history says, is claimed only of
documents nobody replaced.

Two runs show where code and documents part. **StaleTrace**: a trace is loaded
without resolving its references (SCHEMA_VERSIONING 3 says loading must fail).
**CppDecision**: `ocf-contract-check` ignores the candidate sets of a decision
(SCHEMA_VERSIONING 5 lists them among what it checks).

### CanonicalJson

State: the artifact, the file it was saved in, the canonical text its reference is a
hash of, and the verdict of each reader. `Build` and `TakeFingerprint` are Python's;
`Edit` sets or removes a member of the file; `Read` is either language taking the
fingerprint again (`content_fingerprint`, `appendCanonical`) and comparing. A text is
written code by code, because which codes are written is the property; a number comes as its
sign, digits and decimal exponent, and what is modelled is the notation each language
chooses. The digits are those of the exact value for an integer (both languages print
all of them) and the shortest that identify the double for a fraction, which is where
`repr` and `std::to_chars` start. C++ sees a string as the UTF-8 its parser made of
it. A value may have parts: the text of an array or object is defined from the texts
of the parts (`PyText`, `CppText`), and `PyTexts` and `CppTexts` are the recursive
functions that apply the definition to a set `Values` closed under taking parts.
`Depth`, which falls from a value to its parts, says that values are finite trees.

Run **CanonicalJson** (59725 states): artifacts of up to two members and one edit of
the file. A reader compares two texts, and one edit already gives, for every two
member values, an artifact and a file that differ in just that, beside a member that
is added or removed; further edits only pile up such differences. The members are
numbers on both sides of every change of notation (zero and -0.0, integers as int and
as float, 10^-5 and 10^-4, a fraction just below 10^6, 10^16), booleans and null,
strings with every kind of escape, one that spells an escape out, keys that UTF-16
would sort the other way, an array, an array with a NaN in it, a nested object, and a
NaN. A reader finds a match exactly when the file says what the artifact said, and the
two languages decide alike.

Run **FractionalMillions** (violation): for a value with a fraction from 10^6 on the
two texts differ, so `ocf-contract-check` finds the reference to an untouched file
wrong; a `latency_cycles` of 1234567.5 is enough.

The values of the first run are `CommonValues` (TLC evaluates this as an assumption of
`MCCanonicalJson`), the hypothesis of the theorems. It excludes the three values that
the code really writes in two ways: a fraction from 10^6 to 10^16, U+007F (Python
escapes all but 32 to 126, C++ keeps 127), and a lone surrogate (Python escapes it, the
C++ parser replaces it by U+FFFD). A fourth difference, integers past 64 bits, which
the C++ parser makes doubles, is outside the model: an int has at most 18 digits
(`NumberValid`).

### ArtifactObjects

State: the class, a heap of containers, and the document, the artifact and the saved
document as values that lie in cells of the heap. A value has two levels, what it
holds and what the containers in it hold; a table per class (`TargetCopies` ...) says
for each container whether the constructor and `to_dict` copy both levels
(`copy.deepcopy`, or rebuilt item by item), the outer one (`dict`, `tuple`, `list`) or
none. `Load` is `from_dict` with the constructor, `Save` is `to_dict`; between them
the caller adds, replaces and removes keys and changes containers in place.
`Conv2DContract` holds tuples and scalars only and is in `ContractReaders`.

Run **ArtifactObjects** (131656 states): all six classes with `MaxEdits` = 3, enough
to shorten a document or change it before it is loaded, then to change a container on
the outer and on the inner level after. No edit reaches an artifact; one loaded from a
complete document has its fingerprint; saving and loading loses nothing, also when
the document left keys to their defaults. The one exception is in the statement:
`PerformanceEstimate.from_dict` keeps the `traffic_bytes` of its payload
(performance.py 60). `to_dict` of a candidate copies its maps on the outer level
only, which is enough because the schema makes their members strings and integers.

No run assumes fairness: nothing in the code waits, and all properties are safety
properties. Where a run says `CHECK_DEADLOCK FALSE`, the program it models may
stop: a document has been read, a call has returned. `ArtifactChain` never stops.

## 3. Proofs

`tlapm` checks the eight proof modules to the last leaf. The theorems hold for every
value of the constants the ASSUMEs allow: any set of valid contracts, profiles and
schedules, any documents, lists of samples of any length, any number of edits.

**DirectConvProofs**, for every set of valid contracts and every buffer length:
`TypeCorrect`, `NoAccessOutOfBounds`, `FillsInOrder`, `AssignedOnce`. The inductive
invariant is

    IInv == TypeOK
            /\ OutputFillsInOrder
            /\ pc = "running" => LengthsMatch
            /\ tap = FirstTap \/ accumulator # <<>>

The last conjunct is what `OutputFillsInOrder` needs to be inductive: a cell is
recognised as computed because its list of products is not empty, and it is not
empty because each contract has at least one tap. The arithmetic lemmas say that
a row-major index is below the product of the extents, that `NextCell` advances the
flat output index by exactly one, and that the padded coordinates tested by
`InImage` are valid input coordinates.

The refinement is `ImplementsConv`, that every behaviour of the loops is one of
`ConvSpec`: the initial states map to its initial state, `Raise`, `Start`, `Store` and
`Return` to its steps, `Accumulate` to a stutter. The invariant is

    RInv == IInv /\ ReductionInv /\ ValuesInv

where `ReductionInv` says that the accumulator is the ordered list of the products of
the taps before the current one, `Zero` in the place of an input in the padding, and
`ValuesInv` that each cell stored so far holds the abstract value. The mixed-radix
lemmas (`Decode`, `Decode3`) take a flat index apart again: what the loops read at an
index they computed is the element the abstract product names.

**TileTrafficProofs**, for every set of valid contracts, valid profiles and any
proposals: `TypeCorrect`, `TilesFit`, `ChargedPerVisit`, `CountedOnce`,
`WholeOutputPriced`, `UpperBoundHolds` and `CountsExact`. The central lemmas: a
tile number below
`CeilDiv(dim, size)` leaves at least one element, so `Clipped` is between 1 and the
tile size of the working set; and the byte formula is monotone in the clipped
extents. From these a tile's bytes are bounded by the working set that
`validate` admitted, resource by resource. For `ChargedPerVisit`, `TileIndex` numbers the
tiles in the order of the loops, `NextTile` advances it by one, so the tiles visited
are as many as the index, and the index past the last tile is the code's product.

For `CountedOnce`, `WholeOutputPriced` and `UpperBoundHolds`: a tile is
a box of intervals, whose cardinality is the product of its clipped extents; two
tiles of the grid have disjoint intervals on some axis; so each visit adds as many
cells as the code adds output bytes for (`CoverInv`). When the loops end the visited
tiles are as many as the grid has, and a subset of it, therefore all of it, and
every output cell lies in one. For the bound, the input a tile reads lies in the
box of its windows, whose size is what the code charges; the union of what the tiles
read is never larger than the sum (`ReadsInv`).

`CountsExact` says that `math.ceil` of the rounded quotient is the exact count for every
`Precision`, every tile size and every extent up to 2^`Precision`. Doubling the dividend
(or the divisor) leads to a scaling that gives the quotient a significand of `Precision`
bits (`ScalingExists`). An extent of at most 2^`Precision` makes the grid of floats so fine
that a quotient past an integer is at least half a step of it past (the divisor is at
most twice the scale), so that rounding to the nearest float does not bring it back to
the integer (`ScaledUp`; exactly half a step would need an odd power of two); and a
quotient that rounds up to the next integer is counted as that integer anyway.

**ArtifactChainProofs**, for all contracts, profiles, schedules and estimators and
every way to edit one document: `TypeCorrect`, `AcceptedIsLegal` and
`AcceptedEvidence`. The invariant of the second adds to the property
that the current estimate was priced for a legal candidate, and that the one a trace
names was. The latter is needed because the edited document may be the estimate
itself; then the trace is as written, and vouches for it. From a priced estimate the
injectivity of fingerprints leads to the candidate, and from the candidate to
contract and profile. `AcceptedEvidence` has an invariant of its own, `MInv`. It says
what the history variables mean (`HistoryTrue`: there are a contract, a candidate and a
profile of which the current estimate was made, and which `priced` remembers; likewise
the measurement), and that each measurement a trace names is one a harness wrote. An
accepted estimate has the fingerprint the trace names or is the current one, so it was
made by the estimator of some chain; that its candidate, contract and profile are
those of the bundle follows from the fingerprints in it.

**ContractReadersProofs**, for every set of documents whose tuples hold integers:
`TypeCorrect`, `NeverFaults`, `ReadersConclude`, `ExportsAreAccepted`,
`FormulaCountsWindows`, `ExportsReadBack`. Its `IInv` says that each verdict is one the
reader may give of the current document, that a contract Python holds is `FromDict` of
the author's document and passed the checks (`Held`), and that a document Python wrote is
its export. `NeverFaults` shows, reader by reader, that a tuple of the checked length has
the entries that are indexed (`WellSizedEntries`) and that checked strides are not 0
(`SizedAndPositive`), for tuples of any length and entries. The readers are
compared by showing that on a document where they can be (`Comparable`: schema-valid,
kernel fits, sums within 64 bits) each one accepts exactly if `Agreed`, Python if besides
no tuple of the formula is in floats; an export of such sums is such a document, and
agreed. `FormulaCountsWindows` is a lemma on division. `ExportKeeps` is the part of
`ExportsReadBack` about the author's fields: those that are not members of the contract
are the two literals and the output, which acceptance has compared with the formula.

**ArtifactObjectsProofs**, for all six classes and any `MaxEdits`: `TypeCorrect`,
`FrozenInDepth`, `SameFingerprintAsFile`, `ReadsBack`. `IInv` says who owns what: each
place of the artifact is a constant, a cell of its own or `traffic_bytes`, and neither
the document nor the saved one has a place in a cell of the artifact.

**MeasurementReadersProofs**, for lists of samples of any length: `TypeCorrect`,
`AcceptedIsTrue`, `ReadersConclude`. No two samples have the same place, so by the
pigeonhole principle the places are exactly 1 to n; the k-th sample then has fewer
than k below it and at least k up to it, which is the definition by counting that
the property uses. The invariant ties each verdict to the current document.

**CanonicalJsonProofs**, for every set of keys and of nested values: `TypeCorrect`, and
under `CommonValues`, `Agreement` and `Identification`. `VerdictsCorrect`, which both
rest on, ties a verdict to the texts of file and artifact; the rest is about texts.

* *Agreement* is `CppTexts = PyTexts`. UTF-8 bytes are compared as the code points are
  (`BytesOrder`), so the two languages sort keys alike (`SortsAgree`); decoding what
  the parser encoded gives the code point back; the notations differ only for
  fractions with an exponent from 6 to 15. Each of the three parts of `CommonValues`
  is used for one of these.
* *Identification* decodes a text from the left (`TextsIdentify`). Its first code tells
  the kind of value. Then each part is told by the code that closes it: an escape has
  a length its second code gives, a string ends at the first bare quote
  (`StringDecoded`), an item at a comma or bracket, a key at its colon. A number is the
  longest run of number codes, and from its text, whatever the notation, come its sign,
  digits and exponent (`NumberTextDecoded`): the first digit, the point and the
  exponent determine where the digits stand, and digits do not begin or end with 0.
  The order of sorted keys is determined by their set. Conversely, values that say the
  same have one text; 2 and 2.0 do because the notation depends on whether the value is
  an integer and not on how it is held. Strings may not hold surrogates here, since a
  pair of lone ones is written like one character past 16 bits.

**Recursion** has what these proofs need of induction. The library's induction theorems
take an operator as parameter, which no installed prover can instantiate, so the module
derives induction over a *set* from the well-foundedness of `<` on the naturals (`Least`,
`Induction`, `Descent`, and `HeightInduction` for values ordered by their depth). A
recursively defined function is a CHOOSE; `Recursive` shows that its equation has a
solution when each value depends on arguments of smaller height only, so the function
satisfies it. `Power2`, `Suffixes`, `PyTexts`, `CppTexts` and `Same` get their equations
from it.

Assumptions used are the ASSUMEs of the modules, which TLC evaluates on every run:
contracts are valid geometries, profiles passed `TargetProfile.validate`, length errors
are integers including 0, samples are integers, edits of a measurement leave its two
references alone, keys and values are JSON's and finite trees, and `None` is none of the
values it marks the absence of.

Every property of a passing run is stated by a theorem. Out of the prover's reach would be
liveness under fairness and induction over an operator; no property here needs the first,
and `Recursion` does without the second. The five properties that the code
violates are shown by counterexamples, and there is nothing to prove about them.

## 4. Abstractions and what is not modelled

* f32 rounding: symbolic in `DirectConv`, left out of `TileTraffic`.
* The loops of `TileTraffic` run to exact quotients. `CountsExact` justifies it for extents
  up to 2^`Precision`; with an extent of 2^53 + 1 and a tile of 2^53 the code's quotient
  rounds down to 1 and the last tile is lost.
* SHA-256 is injective, and where only fingerprints matter so is the canonical text;
  the theorem `Identification` is the latter, for values in `CommonValues`.
* Digits are taken as given: that `repr` and `std::to_chars` find the shortest ones, and
  that the JSON parsers read them back, is the libraries' promise.
* Python's type tests (`bool`, `float` in an integer's place) appear only as
  `doc.floats`.
* Two things the code does have no property because none could hold: a signed overflow
  in the sums of the C++ readers (undefined; the model lets them answer either way), and
  the `traffic_bytes` that `PerformanceEstimate` shares with its caller.
* Reading files, argument parsing, messages, dialect registration, build and CI.
* Samples and model confidence are integers, times are with or without a zone; texts
  such as the reason of a rejection are left out.
* `ocf-opt` and the dialect registration call upstream MLIR and keep no state of their
  own; the JSON schema of the other five documents is modelled for which keys it
  requires and which are containers, not for its ranges.

## 5. Plan

Done: the readers of a contract, the reference and its refinement, the estimator,
measurements, the artifact chain, canonical texts, artifact objects, and proofs of all
their safety properties that the prover can reach. What is left:

1. The ranges of the other five schema definitions, as conditions under which Python's
   and C++'s validators are compared field by field, like `SchemaValid` of contracts.
2. Python's type tests (`bool` or `float` where an integer is due) in profiles,
   candidates and estimates; today only the contract has them (`doc.floats`).
3. `AcceptedSummaryIsTrue` for samples that are floats: the median of two samples is
   then rounded, in both languages alike.
4. The texts written in the three excluded cases: which pairs of values a mixed bundle
   could confuse, if any (lone surrogates next to each other are one).
