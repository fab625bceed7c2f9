--------------------------- MODULE CanonicalJson ---------------------------
(***************************************************************************)
(* Content fingerprints across languages: Python takes the fingerprint of   *)
(* an artifact (_canonical_json, content_fingerprint in contracts.py), and  *)
(* a Python or C++ reader (appendCanonical in ocf_contract_check.cpp) takes *)
(* it again from the file the artifact was saved in, which may have been    *)
(* edited since.  SHA-256 is left out: a fingerprint is the text it hashes. *)
(*                                                                          *)
(* A text is the sequence of its ASCII codes, a string the sequence of its  *)
(* code points.  A number is its sign, its digits (those of its value for   *)
(* an integer, the shortest that identify the double for another, none for  *)
(* zero; without the zeros at the end), and the decimal exponent of the     *)
(* first; an integer and a float of one value differ in the field float.    *)
(* An object is a function on its keys.  A text is defined from those of    *)
(* the parts of a value.                                                    *)
(***************************************************************************)
EXTENDS Integers, Sequences, FiniteSets

CONSTANTS
    Keys,        \* the keys of artifacts
    Values,      \* the values a member may have, and their parts
    Depth,       \* how deep a value is: a part is less deep than the whole
    MaxMembers,  \* bound on the members of an artifact
    MaxEdits     \* bound on the edits of a saved artifact

VARIABLES
    artifact,    \* the members of the artifact the fingerprint is taken of
    file,        \* the members the file has
    edits,       \* how often the file was edited
    reference,   \* the canonical text behind the fingerprint, <<>> before
    verdict      \* each reader's comparison of file and reference

vars == <<artifact, file, edits, reference, verdict>>

Readers == {"python", "c++"}

-----------------------------------------------------------------------------
(* Values: null, bool with its truth, number, nonfinite (a NaN or an         *)
(* infinity), string with its chars, array with its items, object            *)

ObjectValue(f) == [kind |-> "object", members |-> f]

Parts(v) ==
    CASE v.kind = "array"  -> {v.items[i] : i \in DOMAIN v.items}
      [] v.kind = "object" -> {v.members[k] : k \in DOMAIN v.members}
      [] OTHER -> {}

Below(limit) == {n \in Nat : n < limit}

CodePoints == Below(1114112)

Strings == Seq(CodePoints)

Number == [kind : {"number"}, float : BOOLEAN, negative : BOOLEAN, digits : Seq(Below(10)), exponent : Int]

(* An integer ends before the point: 25 is 2.5e1. *)
IsInteger(v) == v.exponent >= Len(v.digits) - 1

(* The digits begin and end with a digit other than 0.  An int has at most   *)
(* 18, which 64 bits hold: past those the C++ parser rounds to a double.     *)
NumberValid(v) ==
    /\ v \in Number
    /\ v.digits = <<>> => v.exponent = 0
    /\ v.digits # <<>> => v.digits[1] # 0 /\ v.digits[Len(v.digits)] # 0
    /\ ~v.float => IsInteger(v) /\ v.exponent < 18
    /\ ~IsInteger(v) => -999 <= v.exponent /\ v.exponent <= 999

ValueValid(v) ==
    CASE v.kind = "number" -> NumberValid(v)
      [] v.kind = "string" -> v \in [kind : {"string"}, chars : Strings]
      [] v.kind = "array"  -> v \in [kind : {"array"}, items : Seq(Values)]
      [] v.kind = "object" -> /\ v = ObjectValue(v.members)
                              /\ DOMAIN v.members \subseteq Strings /\ IsFiniteSet(DOMAIN v.members)
                              /\ v.members \in [DOMAIN v.members -> Values]
      [] v.kind = "bool"   -> v \in [kind : {"bool"}, truth : BOOLEAN]
      [] OTHER -> v \in [kind : {"null", "nonfinite"}]

ASSUME KeysAssumption == Keys \subseteq Strings
ASSUME ValuesAssumption == \A v \in Values : ValueValid(v)
ASSUME DepthAssumption ==
    Depth \in [Values -> Nat] /\ \A v \in Values : \A w \in Parts(v) : Depth[w] < Depth[v]
ASSUME BoundsAssumption == MaxMembers \in Nat /\ MaxEdits \in Nat

Surrogate(c) == 55296 <= c /\ c <= 57343

(* Values that the two languages write alike: no fraction from 10^6 to 10^16 *)
(* in a number, and neither U+007F nor a lone surrogate in a string          *)
CommonNumber(v) == IsInteger(v) \/ v.exponent < 6 \/ v.exponent > 15

CommonString(s) == \A i \in DOMAIN s : s[i] # 127 /\ ~Surrogate(s[i])

CommonValue(v) ==
    CASE v.kind = "number" -> CommonNumber(v)
      [] v.kind = "string" -> CommonString(v.chars)
      [] v.kind = "object" -> \A key \in DOMAIN v.members : CommonString(key)
      [] OTHER -> TRUE

CommonValues == (\A key \in Keys : CommonString(key)) /\ \A v \in Values : CommonValue(v)

-----------------------------------------------------------------------------
(* Texts.  Writing a non-finite number raises, shown as a code that no text  *)
(* contains; the C++ parser refuses a file with one.                         *)

Ascii == [quote |-> 34, plus |-> 43, comma |-> 44, minus |-> 45, dot |-> 46, colon |-> 58,
          open |-> 91, backslash |-> 92, close |-> 93, e |-> 101, u |-> 117, begin |-> 123, end |-> 125]

Raises == <<0>>
Refused(text) == \E i \in DOMAIN text : text[i] = 0

DigitsText(digits) == [i \in DOMAIN digits |-> 48 + digits[i]]

(* suffixes[i] is the concatenation of the texts from the i-th on. *)
Suffixes(texts) ==
    LET suffixes[i \in Nat] ==
            IF i \in DOMAIN texts THEN texts[i] \o suffixes[i + 1] ELSE <<>>
    IN  suffixes

Concat(texts) == Suffixes(texts)[1]

Quoted(text) == <<Ascii.quote>> \o text \o <<Ascii.quote>>

JoinedByCommas(texts) ==
    Concat([i \in DOMAIN texts |-> (IF i = 1 THEN <<>> ELSE <<Ascii.comma>>) \o texts[i]])

(* The order of two sequences of numbers *)
LexLess(s, t) ==
    \E i \in DOMAIN t : /\ \A j \in 1 .. i - 1 : j \in DOMAIN s /\ s[j] = t[j]
                        /\ i \notin DOMAIN s \/ s[i] < t[i]

-----------------------------------------------------------------------------
(* Numbers *)

SignText(v) == IF v.negative THEN <<Ascii.minus>> ELSE <<>>

(* The digit that stands for 10^place *)
DigitAt(digits, exponent, place) ==
    IF exponent - place + 1 \in DOMAIN digits THEN digits[exponent - place + 1] ELSE 0

FixedText(digits, exponent) ==
    LET top      == IF exponent < 0 THEN 0 ELSE exponent
        whole    == [i \in 1 .. top + 1 |-> DigitAt(digits, exponent, top + 1 - i)]
        fraction == [i \in 1 .. Len(digits) - 1 - exponent |-> DigitAt(digits, exponent, -i)]
    IN  DigitsText(whole) \o (IF fraction = <<>> THEN <<>> ELSE <<Ascii.dot>>) \o DigitsText(fraction)

(* At least two digits: repr, and to_chars followed by normalizeExponent *)
ExponentText(n) ==
    DigitsText(IF n < 100 THEN <<n \div 10, n % 10>> ELSE <<n \div 100, (n \div 10) % 10, n % 10>>)

(* One digit before the point *)
ScientificText(digits, exponent) ==
    FixedText(digits, 0)
    \o (IF exponent < 0 THEN <<Ascii.e, Ascii.minus>> \o ExponentText(-exponent)
                        ELSE <<Ascii.e, Ascii.plus>> \o ExponentText(exponent))

NumberText(v, fixed) ==
    IF v.digits = <<>> THEN DigitsText(<<0>>)
    ELSE SignText(v) \o (IF fixed THEN FixedText(v.digits, v.exponent) ELSE ScientificText(v.digits, v.exponent))

(* str of an integer or an integral float, repr of any other *)
PyNumber(v) == NumberText(v, IsInteger(v) \/ v.exponent \in -4 .. 15)

(* Mutant of CppNumber: to_chars is left to choose for integers too. *)
CppNumber_General(v) == NumberText(v, v.exponent \in -4 .. 5)

(* to_chars: fixed for an integer, else general, scientific from 10^6 on *)
CppNumber(v) == NumberText(v, IsInteger(v) \/ v.exponent \in -4 .. 5)

-----------------------------------------------------------------------------
(* Strings *)

(* \" \\ \b \f \n \r \t *)
ShortEscapes == [c \in {34, 92, 8, 12, 10, 13, 9} |->
    CASE c = 34 -> 34 [] c = 92 -> 92 [] c = 8 -> 98 [] c = 12 -> 102 [] c = 10 -> 110 [] c = 13 -> 114 [] c = 9 -> 116]

HexDigit(d) == IF d < 10 THEN 48 + d ELSE 87 + d

Hex16(unit) ==
    <<Ascii.backslash, Ascii.u, HexDigit(unit \div 4096), HexDigit((unit \div 256) % 16),
      HexDigit((unit \div 16) % 16), HexDigit(unit % 16)>>

(* A code point past 0xFFFF is a pair of surrogates. *)
CodePointText(c) ==
    IF c <= 65535 THEN Hex16(c)
    ELSE Hex16(55296 + (c - 65536) \div 1024) \o Hex16(56320 + ((c - 65536) % 1024))

(* json.dumps with ensure_ascii *)
PyCharText(c) ==
    IF c \in DOMAIN ShortEscapes THEN <<Ascii.backslash, ShortEscapes[c]>>
    ELSE IF 32 <= c /\ c <= 126 THEN <<c>>
    ELSE CodePointText(c)

(* The bytes the C++ parser hands over for a character of the file: UTF-8,   *)
(* with U+FFFD for a surrogate that is not one of a pair                     *)
Utf8(c) ==
    IF c < 128 THEN <<c>>
    ELSE IF c < 2048 THEN <<192 + c \div 64, 128 + (c % 64)>>
    ELSE IF Surrogate(c) THEN <<239, 191, 189>>
    ELSE IF c < 65536 THEN <<224 + c \div 4096, 128 + ((c \div 64) % 64), 128 + (c % 64)>>
    ELSE <<240 + c \div 262144, 128 + ((c \div 4096) % 64), 128 + ((c \div 64) % 64), 128 + (c % 64)>>

(* The leading byte gives the number of continuation bytes, six bits each. *)
CodePoint(bytes) ==
    LET first == bytes[1]
        next(sofar, byte) == sofar * 64 + (byte % 64)
    IN  IF first \div 32 = 6 THEN next(first % 32, bytes[2])
        ELSE IF first \div 16 = 14 THEN next(next(first % 16, bytes[2]), bytes[3])
        ELSE next(next(next(first % 8, bytes[2]), bytes[3]), bytes[4])

(* appendCanonicalString, one character at a time *)
CppCharText(bytes) ==
    IF bytes[1] >= 128 THEN CodePointText(CodePoint(bytes))
    ELSE IF bytes[1] \in DOMAIN ShortEscapes THEN <<Ascii.backslash, ShortEscapes[bytes[1]]>>
    ELSE IF bytes[1] < 32 THEN CodePointText(bytes[1])
    ELSE bytes

(* Mutant of PyString: json.dumps without ensure_ascii. *)
PyString_Utf8(s) ==
    Quoted(Concat([i \in DOMAIN s |-> IF s[i] < 128 THEN PyCharText(s[i]) ELSE <<s[i]>>]))

PyString(s)  == Quoted(Concat([i \in DOMAIN s |-> PyCharText(s[i])]))
CppString(s) == Quoted(Concat([i \in DOMAIN s |-> CppCharText(Utf8(s[i]))]))

-----------------------------------------------------------------------------
(* Objects: sorted by code point in Python, by UTF-8 byte in C++ *)

Utf8Bytes(s) == Concat([i \in DOMAIN s |-> Utf8(s[i])])

(* The keys in the order of their codes, no two of which are equal *)
Sorted(code) ==
    LET keys == DOMAIN code
        rank == [key \in keys |-> Cardinality({other \in keys : LexLess(code[other], code[key])})]
    IN  [i \in 1 .. Cardinality(keys) |-> CHOOSE key \in keys : rank[key] = i - 1]

SortedByCodePoint(keys) == Sorted([key \in keys |-> key])

(* Mutant of SortedByBytes: by UTF-16 unit, as a language with UTF-16 strings sorts. *)
SortedByBytes_Utf16(keys) ==
    LET units(s) == Concat([i \in DOMAIN s |->
                        IF s[i] <= 65535 THEN <<s[i]>>
                        ELSE <<55296 + (s[i] - 65536) \div 1024, 56320 + ((s[i] - 65536) % 1024)>>])
    IN  Sorted([key \in keys |-> units(key)])

SortedByBytes(keys) == Sorted([key \in keys |-> Utf8Bytes(key)])

LiteralText(v) ==
    CASE v.kind = "null" -> <<110, 117, 108, 108>>
      [] v.kind = "bool" -> IF v.truth THEN <<116, 114, 117, 101>> ELSE <<102, 97, 108, 115, 101>>
      [] v.kind = "nonfinite" -> Raises

ArrayText(items) == <<Ascii.open>> \o JoinedByCommas(items) \o <<Ascii.close>>

ObjectText(keys, values) ==
    LET members == [i \in DOMAIN keys |-> keys[i] \o <<Ascii.colon>> \o values[i]]
    IN  <<Ascii.begin>> \o JoinedByCommas(members) \o <<Ascii.end>>

(* _canonical_json, given the texts of the parts *)
PyText(v, text) ==
    CASE v.kind = "number" -> PyNumber(v)
      [] v.kind = "string" -> PyString(v.chars)
      [] v.kind = "array"  -> ArrayText([i \in DOMAIN v.items |-> text[v.items[i]]])
      [] v.kind = "object" -> LET keys == SortedByCodePoint(DOMAIN v.members)
                              IN  ObjectText([i \in DOMAIN keys |-> PyString(keys[i])],
                                             [i \in DOMAIN keys |-> text[v.members[keys[i]]]])
      [] OTHER -> LiteralText(v)

PyTexts[v \in Values] == PyText(v, [part \in Parts(v) |-> PyTexts[part]])

(* appendCanonical, given the texts of the parts *)
CppText(v, text) ==
    CASE v.kind = "number" -> CppNumber(v)
      [] v.kind = "string" -> CppString(v.chars)
      [] v.kind = "array"  -> ArrayText([i \in DOMAIN v.items |-> text[v.items[i]]])
      [] v.kind = "object" -> LET keys == SortedByBytes(DOMAIN v.members)
                              IN  ObjectText([i \in DOMAIN keys |-> CppString(keys[i])],
                                             [i \in DOMAIN keys |-> text[v.members[keys[i]]]])
      [] OTHER -> LiteralText(v)

CppTexts[v \in Values] == CppText(v, [part \in Parts(v) |-> CppTexts[part]])

TextOf(reader, members) ==
    IF reader = "python" THEN PyText(ObjectValue(members), PyTexts) ELSE CppText(ObjectValue(members), CppTexts)

-----------------------------------------------------------------------------
Open == [r \in Readers |-> "open"]

Init ==
    /\ artifact = [key \in {} |-> {}] /\ file = artifact
    /\ edits = 0
    /\ reference = <<>>
    /\ verdict = Open

With(members, key, value) == [k \in DOMAIN members \union {key} |-> IF k = key THEN value ELSE members[k]]

Without(members, key) == [k \in DOMAIN members \ {key} |-> members[k]]

(* The artifact is built and saved. *)
Build(key, value) ==
    /\ reference = <<>>
    /\ key \notin DOMAIN artifact /\ Cardinality(DOMAIN artifact) < MaxMembers
    /\ artifact' = With(artifact, key, value) /\ file' = artifact'
    /\ UNCHANGED <<edits, reference, verdict>>

(* content_fingerprint; a non-finite number raises. *)
TakeFingerprint ==
    /\ reference = <<>>
    /\ reference' = TextOf("python", artifact)
    /\ UNCHANGED <<artifact, file, edits, verdict>>

Referenced == reference # <<>> /\ ~Refused(reference)

(* The file changes under the reference: a member is set, or removed. *)
Edit(edited) ==
    /\ Referenced /\ edits < MaxEdits /\ edited # file
    /\ file' = edited
    /\ edits' = edits + 1
    /\ verdict' = Open
    /\ UNCHANGED <<artifact, reference>>

Read(reader) ==
    /\ Referenced /\ verdict[reader] = "open"
    /\ LET text == TextOf(reader, file)
       IN  verdict' = [verdict EXCEPT ![reader] = IF Refused(text) THEN "refused"
                                                  ELSE IF text = reference THEN "match" ELSE "mismatch"]
    /\ UNCHANGED <<artifact, file, edits, reference>>

Next ==
    \/ \E key \in Keys, value \in Values : Build(key, value)
    \/ TakeFingerprint
    \/ \E key \in Keys, value \in Values : Edit(With(file, key, value))
    \/ \E key \in DOMAIN file : Edit(Without(file, key))
    \/ \E reader \in Readers : Read(reader)

Spec == Init /\ [][Next]_vars

-----------------------------------------------------------------------------
(* Properties *)

Objects == {f \in UNION {[K -> Values] : K \in SUBSET Keys} : IsFiniteSet(DOMAIN f)}

Text == Seq(Below(128))

(* The artifact and the file are objects on the keys, the text is ASCII, and *)
(* nothing is read before there is a reference.                              *)
TypeOK ==
    /\ artifact \in Objects /\ file \in Objects
    /\ edits \in 0 .. MaxEdits
    /\ reference \in Text
    /\ verdict \in [Readers -> {"open", "match", "mismatch", "refused"}]
    /\ verdict # Open => Referenced

(* Two values say the same, however numbers are held: 2 and 2.0 are one      *)
(* number, and so are 0.0 and -0.0.  same is the relation on the parts.      *)
SaysTheSame(v, w, same) ==
    /\ v.kind = w.kind
    /\ CASE v.kind = "number" -> /\ v.digits = w.digits /\ v.exponent = w.exponent
                                 /\ v.negative = w.negative \/ v.digits = <<>>
         [] v.kind = "array"  -> /\ DOMAIN v.items = DOMAIN w.items
                                 /\ \A i \in DOMAIN v.items : same[v.items[i]][w.items[i]]
         [] v.kind = "object" -> /\ DOMAIN v.members = DOMAIN w.members
                                 /\ \A k \in DOMAIN v.members : same[v.members[k]][w.members[k]]
         [] OTHER -> v = w

Same[v \in Values] == [w \in Values |-> SaysTheSame(v, w, [part \in Parts(v) |-> Same[part]])]

(* A fingerprint identifies content in both languages: a reader finds the    *)
(* file to match exactly if it says what the fingerprinted artifact said,    *)
(* however deep, in whatever key order, and however numbers are held         *)
(* (contracts.py 23-53, ocf_contract_check.cpp 36-223).  The chain's checks  *)
(* rest on it.                                                               *)
ReferenceIdentifiesContent ==
    \A r \in Readers : verdict[r] \in {"match", "mismatch"} =>
        (verdict[r] = "match" <=> SaysTheSame(ObjectValue(file), ObjectValue(artifact), Same))

(* The two languages decide alike on one file: match, mismatch, or refusal   *)
(* of a NaN or an infinity (contracts.py 31-32, ocf_contract_check.cpp       *)
(* 150-151).  SCHEMA_VERSIONING_ZH.md 25 makes the C++ reader a reference    *)
(* reader for the fingerprints Python takes.                                 *)
ReadersAgree ==
    \A r, s \in Readers : verdict[r] # "open" /\ verdict[s] # "open" => verdict[r] = verdict[s]
=============================================================================
