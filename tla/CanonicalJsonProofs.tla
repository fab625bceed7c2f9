------------------------ MODULE CanonicalJsonProofs ------------------------
(***************************************************************************)
(* Proofs about CanonicalJson, for every set of keys and values: verdicts   *)
(* are true of the file, and, on values that both languages write alike,    *)
(* the two readers agree and a fingerprint identifies content.  The text of *)
(* a value is decoded from the left: each part of it is told by the code    *)
(* that closes it.  A predicate named ...At holds the statement of a lemma  *)
(* at given arguments.                                                      *)
(***************************************************************************)
EXTENDS CanonicalJson, Recursion, FiniteSetTheorems, SequenceTheorems

-----------------------------------------------------------------------------
(* Concatenations and what they decode to *)

(* The recursion of Suffixes has its solution, a function to sequences. *)
LEMMA SuffixesAre ==
    ASSUME NEW C, NEW n \in Nat, NEW texts \in [1 .. n -> Seq(C)]
    PROVE  /\ Suffixes(texts) \in [Nat -> Seq(C)]
           /\ \A i \in Nat : Suffixes(texts)[i] =
                  IF i \in DOMAIN texts THEN texts[i] \o Suffixes(texts)[i + 1] ELSE <<>>
<1> DEFINE Step(f) == [i \in Nat |-> IF i \in DOMAIN texts THEN texts[i] \o f[i + 1] ELSE <<>>]
           F == [f \in [Nat -> Seq(C)] |-> Step(f)]
           h == [i \in Nat |-> IF i \in DOMAIN texts THEN n + 1 - i ELSE 0]
<1>1. DOMAIN texts = 1 .. n
  OBVIOUS
<1>1a. \A i \in DOMAIN texts : texts[i] \in Seq(C)
  OBVIOUS
<1>2. ASSUME NEW f \in [Nat -> Seq(C)] PROVE Step(f) \in [Nat -> Seq(C)]
  <2>1. ASSUME NEW i \in Nat PROVE (IF i \in DOMAIN texts THEN texts[i] \o f[i + 1] ELSE <<>>) \in Seq(C)
    <3>1. f[i + 1] \in Seq(C)
      OBVIOUS
    <3>2. CASE i \in DOMAIN texts
      BY <1>1a, <3>1, <3>2, ConcatProperties
    <3>3. CASE i \notin DOMAIN texts
      BY <3>3, EmptySeq
    <3> QED BY <3>2, <3>3
  <2> QED BY <2>1
<1>3. h \in [Nat -> Nat]
  BY <1>1
<1>4. ASSUME NEW f \in [Nat -> Seq(C)], NEW g \in [Nat -> Seq(C)], NEW i \in Nat,
             \A j \in Nat : h[j] < h[i] => f[j] = g[j]
      PROVE  F[f][i] = F[g][i]
  <2>1. CASE i \in DOMAIN texts
    <3>1. i + 1 \in Nat /\ h[i + 1] < h[i]
      <4>1. i \in 1 .. n /\ i + 1 \in Nat
        BY <1>1, <2>1
      <4>2. h[i] = n + 1 - i
        BY <2>1
      <4>3. CASE i + 1 \in 1 .. n
        <5>1. h[i + 1] = n + 1 - (i + 1)
          BY <1>1, <4>1, <4>3
        <5> HIDE DEF h
        <5> QED BY <4>1, <4>2, <5>1
      <4>4. CASE i + 1 \notin 1 .. n
        <5>1. h[i + 1] = 0
          BY <1>1, <4>1, <4>4
        <5> HIDE DEF h
        <5> QED BY <4>1, <4>2, <5>1
      <4> QED BY <4>3, <4>4
    <3>2. f[i + 1] = g[i + 1]
      <4> HIDE DEF h
      <4> QED BY <1>4, <3>1
    <3> QED BY <3>2
  <2>2. CASE i \notin DOMAIN texts
    BY <2>2
  <2> QED BY <2>1, <2>2
<1>5. F \in [[Nat -> Seq(C)] -> [Nat -> Seq(C)]]
  <2> HIDE DEF Step
  <2> QED BY <1>2
<1>6. Contractive(F, Nat, Seq(C), h)
  <2>1. Seq(C) # {}
    BY EmptySeq
  <2> HIDE DEF F, h
  <2> QED BY <1>3, <1>4, <1>5, <2>1 DEF Contractive
<1>7. PICK f \in [Nat -> Seq(C)] : f = F[f]
  <2> HIDE DEF F, h
  <2> QED BY <1>6, Recursive
<1>8. f = Step(f)
  <2> HIDE DEF Step
  <2> QED BY <1>7
<1>9. Suffixes(texts) = Step(Suffixes(texts))
  <2> DEFINE g == CHOOSE g : g = Step(g)
  <2>1. Suffixes(texts) = g
    BY DEF Suffixes
  <2> HIDE DEF Step
  <2>2. \E k : k = Step(k)
    BY <1>8
  <2>3. g = Step(g)
    BY <2>2, Zenon
  <2> HIDE DEF g
  <2> QED BY ONLY <2>1, <2>3
<1> DEFINE s == Suffixes(texts)
<1>10. s \in [Nat -> Seq(C)]
  <2> DEFINE D == {i \in Nat : s[i] \in Seq(C)}
  <2>1. s = [i \in Nat |-> s[i]] /\ \A i \in Nat : s[i] = IF i \in DOMAIN texts THEN texts[i] \o s[i + 1] ELSE <<>>
    <3> HIDE DEF s
    <3>1. s = [i \in Nat |-> IF i \in DOMAIN texts THEN texts[i] \o s[i + 1] ELSE <<>>]
      BY <1>9 DEF s
    <3> QED BY <3>1
  <2> HIDE DEF s
  <2>2. ASSUME NEW i \in Nat, i \notin 1 .. n PROVE i \in D
    <3>1. s[i] = <<>>
      BY <1>1, <2>1, <2>2, Zenon
    <3> QED BY <3>1, EmptySeq
  <2>3. ASSUME NEW i \in 1 .. n, i + 1 \in D PROVE i \in D
    <3>1. i \in Nat /\ i + 1 \in Nat /\ s[i + 1] \in Seq(C)
      BY <2>3
    <3>2. s[i] = texts[i] \o s[i + 1]
      BY <1>1, <2>1, <2>3, <3>1, Zenon
    <3>3. texts[i] \in Seq(C)
      BY <1>1, <1>1a, <2>3, Zenon
    <3>4. s[i] \in Seq(C)
      BY <3>1, <3>2, <3>3, ConcatProperties
    <3> QED BY <3>1, <3>4
  <2>4. D \in SUBSET Nat
    OBVIOUS
  <2>5. D = Nat
    <3> HIDE DEF D
    <3>1. \A i \in Nat : i > n => i \in D
      BY <2>2
    <3>2. \A i \in 0 .. n : i + 1 \in D => i \in D
      BY <2>2, <2>3
    <3> QED BY <2>4, <3>1, <3>2, Descent
  <2> QED BY <2>1, <2>5
<1> QED
  <2>1. \A i \in Nat : Step(s)[i] = IF i \in DOMAIN texts THEN texts[i] \o s[i + 1] ELSE <<>>
    OBVIOUS
  <2> HIDE DEF Step
  <2> QED BY <1>9, <1>10, <2>1

(* What follows a concatenation follows the rest of it. *)
LEMMA SuffixRemainder ==
    ASSUME NEW C, NEW n \in Nat, NEW texts \in [1 .. n -> Seq(C)], NEW x \in Seq(C), NEW i \in Nat
    PROVE  /\ i \in 1 .. n => Suffixes(texts)[i] \o x = texts[i] \o (Suffixes(texts)[i + 1] \o x)
           /\ i \notin 1 .. n => Suffixes(texts)[i] \o x = x
           /\ Suffixes(texts)[i] \o x \in Seq(C)
<1> DEFINE s == Suffixes(texts)
<1>1. /\ s \in [Nat -> Seq(C)]
      /\ \A j \in Nat : s[j] = IF j \in DOMAIN texts THEN texts[j] \o s[j + 1] ELSE <<>>
  BY SuffixesAre
<1>2. DOMAIN texts = 1 .. n /\ i + 1 \in Nat
  OBVIOUS
<1>3. ASSUME i \in 1 .. n PROVE texts[i] \in Seq(C)
  BY <1>3
<1> HIDE DEF s
<1>4. s[i] \in Seq(C) /\ s[i + 1] \in Seq(C)
  BY <1>1, <1>2, Zenon
<1>5. ASSUME i \in 1 .. n PROVE s[i] \o x = texts[i] \o (s[i + 1] \o x)
  <2>1. s[i] = texts[i] \o s[i + 1]
    BY <1>1, <1>2, <1>5, Zenon
  <2>2. texts[i] \in Seq(C)
    BY <1>3, <1>5
  <2>3. (texts[i] \o s[i + 1]) \o x = texts[i] \o (s[i + 1] \o x)
    <3>1. x \in Seq(C) /\ texts[i] \in Seq(C) /\ s[i + 1] \in Seq(C)
      BY <1>4, <2>2
    <3>2. \A a, b, c \in Seq(C) : (a \o b) \o c = a \o (b \o c)
      BY SMT
    <3> QED BY <3>1, <3>2, Zenon
  <2> QED BY <2>1, <2>3
<1>6. ASSUME i \notin 1 .. n PROVE s[i] \o x = x
  <2>1. s[i] = <<>>
    BY <1>1, <1>2, <1>6, Zenon
  <2> QED BY <2>1, ConcatEmptySeq
<1>7. s[i] \o x \in Seq(C)
  BY <1>4, ConcatProperties
<1> QED BY <1>5, <1>6, <1>7 DEF s

Decodable(C, G, m, ss, n, tt, x, y) ==
    /\ m \in Nat /\ ss \in [1 .. m -> Seq(C)]
    /\ n \in Nat /\ tt \in [1 .. n -> Seq(C)]
    /\ G \in SUBSET Seq(C) /\ x \in G /\ y \in G
    /\ \A i \in 1 .. m : i > 1 => \A a \in Seq(C) : ss[i] \o a \in G
    /\ \A i \in 1 .. n : i > 1 => \A a \in Seq(C) : tt[i] \o a \in G
    /\ \A i \in (1 .. m) \cap (1 .. n) : \A a, b \in G : ss[i] \o a = tt[i] \o b => ss[i] = tt[i] /\ a = b
    /\ \A i \in 1 .. m : \A a \in G : ss[i] \o a # y
    /\ \A i \in 1 .. n : \A a \in G : tt[i] \o a # x

DecodesAt(m, ss, n, tt, x, y) == Concat(ss) \o x = Concat(tt) \o y => m = n /\ ss = tt /\ x = y

(* Two concatenations of tokens are equal only token by token, if equal *)
(* tokens are told from what follows them and no token begins like what *)
(* follows the last.                                                    *)
LEMMA Decoded ==
    ASSUME NEW C, NEW G, NEW m, NEW ss, NEW n, NEW tt, NEW x, NEW y,
           Decodable(C, G, m, ss, n, tt, x, y)
    PROVE  DecodesAt(m, ss, n, tt, x, y)
<1> SUFFICES ASSUME Concat(ss) \o x = Concat(tt) \o y PROVE m = n /\ ss = tt /\ x = y
  BY DEF DecodesAt
<1>1. /\ m \in Nat /\ ss \in [1 .. m -> Seq(C)]
      /\ n \in Nat /\ tt \in [1 .. n -> Seq(C)]
      /\ G \in SUBSET Seq(C) /\ x \in G /\ y \in G
      /\ \A i \in 1 .. m : i > 1 => \A a \in Seq(C) : ss[i] \o a \in G
      /\ \A i \in 1 .. n : i > 1 => \A a \in Seq(C) : tt[i] \o a \in G
      /\ \A i \in (1 .. m) \cap (1 .. n) : \A a, b \in G : ss[i] \o a = tt[i] \o b => ss[i] = tt[i] /\ a = b
      /\ \A i \in 1 .. m : \A a \in G : ss[i] \o a # y
      /\ \A i \in 1 .. n : \A a \in G : tt[i] \o a # x
  BY Zenon DEF Decodable
<1> DEFINE S(i) == Suffixes(ss)[i] \o x
           T(i) == Suffixes(tt)[i] \o y
<1>2. x \in Seq(C) /\ y \in Seq(C)
  BY <1>1, Zenon
<1>3. ASSUME NEW i \in Nat
      PROVE  /\ i \in 1 .. m => S(i) = ss[i] \o S(i + 1)
             /\ i \notin 1 .. m => S(i) = x
             /\ S(i) \in Seq(C)
             /\ i \in 1 .. n => T(i) = tt[i] \o T(i + 1)
             /\ i \notin 1 .. n => T(i) = y
             /\ T(i) \in Seq(C)
  <2>1. m \in Nat /\ ss \in [1 .. m -> Seq(C)] /\ n \in Nat /\ tt \in [1 .. n -> Seq(C)]
    BY <1>1
  <2>2. /\ i \in 1 .. m => S(i) = ss[i] \o S(i + 1)
        /\ i \notin 1 .. m => S(i) = x
        /\ S(i) \in Seq(C)
    BY <1>2, <2>1, SuffixRemainder, Zenon
  <2>3. /\ i \in 1 .. n => T(i) = tt[i] \o T(i + 1)
        /\ i \notin 1 .. n => T(i) = y
        /\ T(i) \in Seq(C)
    BY <1>2, <2>1, SuffixRemainder, Zenon
  <2> QED BY <2>2, <2>3
<1>4. S(1) = T(1)
  BY DEF Concat
<1> HIDE DEF S, T
<1>5. ASSUME NEW i \in Nat, i > 1 PROVE S(i) \in G /\ T(i) \in G
  <2>1. i + 1 \in Nat
    OBVIOUS
  <2>2. S(i + 1) \in Seq(C) /\ T(i + 1) \in Seq(C)
    BY <1>3, <2>1, Zenon
  <2>3. S(i) \in G
    <3>1. CASE i \in 1 .. m
      <4>1. S(i) = ss[i] \o S(i + 1)
        BY <1>3, <3>1, Zenon
      <4>2. ss[i] \o S(i + 1) \in G
        BY <1>1, <1>5, <2>2, <3>1, Zenon
      <4> QED BY <4>1, <4>2
    <3>2. CASE i \notin 1 .. m
      BY <1>1, <1>3, <3>2, Zenon
    <3> QED BY <3>1, <3>2
  <2>4. T(i) \in G
    <3>1. CASE i \in 1 .. n
      <4>1. T(i) = tt[i] \o T(i + 1)
        BY <1>3, <3>1, Zenon
      <4>2. tt[i] \o T(i + 1) \in G
        BY <1>1, <1>5, <2>2, <3>1, Zenon
      <4> QED BY <4>1, <4>2
    <3>2. CASE i \notin 1 .. n
      BY <1>1, <1>3, <3>2, Zenon
    <3> QED BY <3>1, <3>2
  <2> QED BY <2>3, <2>4
<1> DEFINE Alike(k) == k <= n /\ (\A j \in 1 .. k : ss[j] = tt[j]) /\ S(k + 1) = T(k + 1)
           D == {k \in Nat : k <= m => Alike(k)}
<1>6. 0 \in D
  <2>1. 0 \in Nat /\ 0 <= n /\ 0 + 1 = 1 /\ 1 .. 0 = {}
    BY <1>1
  <2> QED BY <1>4, <2>1
<1>7. ASSUME NEW k \in D PROVE k + 1 \in D
  <2> SUFFICES ASSUME k + 1 <= m PROVE Alike(k + 1)
    OBVIOUS
  <2> DEFINE i == k + 1
  <2>1. k \in Nat /\ i \in Nat /\ i \in 1 .. m /\ i + 1 \in Nat /\ i + 1 > 1 /\ k <= m
    BY <1>1
  <2>2. Alike(k)
    BY <2>1
  <2>3. S(i) = T(i) /\ S(i) = ss[i] \o S(i + 1)
    BY <1>3, <2>1, <2>2
  <2> HIDE DEF i
  <2>4. S(i + 1) \in G /\ T(i + 1) \in G
    BY <1>5, <2>1
  <2>5. i \in 1 .. n
    <3> SUFFICES ASSUME i \notin 1 .. n PROVE FALSE
      OBVIOUS
    <3>1. T(i) = y
      BY <1>3, <2>1
    <3>2. ss[i] \o S(i + 1) # y
      BY <1>1, <2>1, <2>4
    <3> QED BY <2>3, <3>1, <3>2
  <2>6. T(i) = tt[i] \o T(i + 1)
    BY <1>3, <2>1, <2>5
  <2>7. ss[i] = tt[i] /\ S(i + 1) = T(i + 1)
    <3>1. i \in (1 .. m) \cap (1 .. n)
      BY <2>1, <2>5
    <3>2. ss[i] \o S(i + 1) = tt[i] \o T(i + 1)
      BY <2>3, <2>6
    <3> QED BY <1>1, <2>4, <3>1, <3>2, Zenon
  <2>8. \A j \in 1 .. k + 1 : j \in 1 .. k \/ j = i
    BY <2>1 DEF i
  <2>9. \A j \in 1 .. k + 1 : ss[j] = tt[j]
    BY <2>2, <2>7, <2>8, Zenon
  <2>10. k + 1 <= n
    BY <1>1, <2>5 DEF i
  <2> QED BY <2>7, <2>9, <2>10 DEF i
<1>8. D = Nat
  <2>1. D \in SUBSET Nat
    OBVIOUS
  <2> HIDE DEF D
  <2> QED BY <1>6, <1>7, <2>1, Induction
<1>9. Alike(m)
  <2>1. m \in Nat /\ m <= m
    BY <1>1
  <2>2. m \in D
    <3> HIDE DEF D
    <3> QED BY <1>8, <2>1
  <2> HIDE DEF Alike
  <2> QED BY <2>1, <2>2
<1>10. m + 1 \in Nat /\ m + 1 \notin 1 .. m /\ m + 1 + 1 \in Nat /\ m + 1 + 1 > 1
  BY <1>1
<1>11. S(m + 1) = x
  BY <1>3, <1>10
<1>12. m = n
  <2> SUFFICES ASSUME m # n PROVE FALSE
    OBVIOUS
  <2>1. m + 1 \in 1 .. n
    BY <1>1, <1>9
  <2>2. T(m + 1) = tt[m + 1] \o T(m + 1 + 1)
    BY <1>3, <1>10, <2>1
  <2>3. T(m + 1 + 1) \in G
    BY <1>5, <1>10
  <2>4. tt[m + 1] \o T(m + 1 + 1) = x
    BY <1>9, <1>11, <2>2
  <2> QED BY <1>1, <2>1, <2>3, <2>4, Zenon
<1>13. T(m + 1) = y
  BY <1>3, <1>10, <1>12
<1>14. x = y
  BY <1>9, <1>11, <1>13
<1>15. ss = tt
  <2>1. \A j \in 1 .. m : ss[j] = tt[j]
    BY <1>9
  <2> QED BY <1>1, <1>12, <2>1
<1> QED BY <1>12, <1>14, <1>15

-----------------------------------------------------------------------------
(* Characters *)

PrefixAt(t, x) ==
    /\ t \o x \in Seq(Int) /\ Len(t \o x) = Len(t) + Len(x)
    /\ \A i \in 1 .. Len(t) : (t \o x)[i] = t[i]

(* A sequence begins its concatenations. *)
LEMMA Prefix == \A t, x \in Seq(Int) : PrefixAt(t, x)
BY DEF PrefixAt

CutAt(t, u, x, y) == Len(t) = Len(u) /\ t \o x = u \o y => t = u /\ x = y

(* Equal concatenations are cut alike by parts of one length. *)
LEMMA Cut == \A t, u, x, y \in Seq(Int) : CutAt(t, u, x, y)
<1> SUFFICES ASSUME NEW t \in Seq(Int), NEW u \in Seq(Int), NEW x \in Seq(Int), NEW y \in Seq(Int),
                    Len(t) = Len(u), t \o x = u \o y
             PROVE  t = u /\ x = y
  BY DEF CutAt
<1>1. \A i \in 1 .. Len(t) : t[i] = u[i]
  <2> TAKE i \in 1 .. Len(t)
  <2>1. (t \o x)[i] = t[i] /\ (u \o y)[i] = u[i]
    BY Prefix DEF PrefixAt
  <2> QED BY <2>1
<1>2. t = u
  BY <1>1, SeqEqual
<1>3. x = y
  BY <1>2, ConcatSimplifications, Zenon
<1> QED BY <1>2, <1>3

Nibbles == Below(16)

Units == Below(65536)

UnitOf(a, b, c, d) == 4096 * a + 256 * b + 16 * c + d

(* A hexadecimal digit is ASCII, and tells its nibble. *)
LEMMA HexDigitOf ==
    /\ \A d \in Nibbles : HexDigit(d) \in Below(128)
    /\ \A d, e \in Nibbles : HexDigit(d) = HexDigit(e) => d = e
BY DEF HexDigit, Nibbles, Below

(* The four nibbles of a 16-bit unit, and the unit they make. *)
LEMMA Hex16Places ==
    ASSUME NEW u \in Units
    PROVE  /\ u \div 4096 \in Nibbles /\ (u \div 256) % 16 \in Nibbles
           /\ (u \div 16) % 16 \in Nibbles /\ u % 16 \in Nibbles
           /\ u = UnitOf(u \div 4096, (u \div 256) % 16, (u \div 16) % 16, u % 16)
BY DEF Units, Nibbles, Below, UnitOf

(* An escape \uXXXX is ASCII text. *)
LEMMA Hex16Text ==
    ASSUME NEW u \in Units
    PROVE  Hex16(u) \in Text
<1> DEFINE a == u \div 4096
           b == (u \div 256) % 16
           c == (u \div 16) % 16
           d == u % 16
<1>1. a \in Nibbles /\ b \in Nibbles /\ c \in Nibbles /\ d \in Nibbles
  BY Hex16Places
<1>2. Hex16(u) = <<92, 117, HexDigit(a), HexDigit(b), HexDigit(c), HexDigit(d)>>
  BY DEF Hex16, Ascii
<1> HIDE DEF a, b, c, d
<1>3. HexDigit(a) \in Below(128) /\ HexDigit(b) \in Below(128) /\ HexDigit(c) \in Below(128) /\ HexDigit(d) \in Below(128)
  BY <1>1, HexDigitOf
<1>4. 92 \in Below(128) /\ 117 \in Below(128)
  BY DEF Below
<1> QED BY <1>2, <1>3, <1>4 DEF Text

(* A text is a sequence of integers. *)
LEMMA TextIsSeqInt == Text \subseteq Seq(Int)
<1>1. Below(128) \subseteq Int
  BY DEF Below
<1> QED BY <1>1, SeqMonotonic DEF Text

Hex16DecodesAt(u, w, x, y) == Hex16(u) \o x = Hex16(w) \o y => u = w /\ x = y

(* An escape \uXXXX tells its unit, whatever follows. *)
LEMMA Hex16Decoded == \A u, w \in Units, x, y \in Seq(Int) : Hex16DecodesAt(u, w, x, y)
<1> SUFFICES ASSUME NEW u \in Units, NEW w \in Units, NEW x \in Seq(Int), NEW y \in Seq(Int),
                    Hex16(u) \o x = Hex16(w) \o y
             PROVE  u = w /\ x = y
  BY DEF Hex16DecodesAt
<1> DEFINE H(v) == <<92, 117, HexDigit(v \div 4096), HexDigit((v \div 256) % 16), HexDigit((v \div 16) % 16), HexDigit(v % 16)>>
<1>1. Hex16(u) = H(u) /\ Hex16(w) = H(w)
  BY DEF Hex16, Ascii
<1>2. Hex16(u) \in Seq(Int) /\ Hex16(w) \in Seq(Int)
  BY TextIsSeqInt, Hex16Text
<1>2a. Len(Hex16(u)) = 6 /\ Len(Hex16(w)) = 6
  BY <1>1
<1>3. Hex16(u) = Hex16(w) /\ x = y
  <2>1. Len(Hex16(u)) = Len(Hex16(w))
    BY <1>2a
  <2>2. CutAt(Hex16(u), Hex16(w), x, y)
    BY <1>2, Cut
  <2> QED BY <2>1, <2>2 DEF CutAt
<1>4. /\ HexDigit(u \div 4096) = HexDigit(w \div 4096)
      /\ HexDigit((u \div 256) % 16) = HexDigit((w \div 256) % 16)
      /\ HexDigit((u \div 16) % 16) = HexDigit((w \div 16) % 16)
      /\ HexDigit(u % 16) = HexDigit(w % 16)
  <2>1. H(u) = H(w)
    BY <1>1, <1>3
  <2> QED BY <2>1
<1>5. u \div 4096 = w \div 4096
  BY <1>4, HexDigitOf, Hex16Places
<1>6. (u \div 256) % 16 = (w \div 256) % 16
  BY <1>4, HexDigitOf, Hex16Places
<1>7. (u \div 16) % 16 = (w \div 16) % 16
  BY <1>4, HexDigitOf, Hex16Places
<1>8. u % 16 = w % 16
  BY <1>4, HexDigitOf, Hex16Places
<1>9. u = w
  <2>1. u = UnitOf(u \div 4096, (u \div 256) % 16, (u \div 16) % 16, u % 16)
    BY Hex16Places
  <2>2. w = UnitOf(w \div 4096, (w \div 256) % 16, (w \div 16) % 16, w % 16)
    BY Hex16Places
  <2> QED BY <1>5, <1>6, <1>7, <1>8, <2>1, <2>2
<1> QED BY <1>3, <1>9


High(c) == 55296 + (c - 65536) \div 1024

Low(c) == 56320 + ((c - 65536) % 1024)

Escaped == DOMAIN ShortEscapes

Plain == {c \in CodePoints : 32 <= c /\ c <= 126 /\ c \notin Escaped}

Characters == {c \in CodePoints : ~Surrogate(c)}

(* A code point past 16 bits is told by its two surrogates. *)
LEMMA HighLow ==
    /\ \A c \in CodePoints \ Units : High(c) \in Units /\ Low(c) \in Units /\ Surrogate(High(c))
    /\ \A c, d \in CodePoints \ Units : High(c) = High(d) /\ Low(c) = Low(d) => c = d
BY DEF High, Low, CodePoints, Units, Below, Surrogate

(* The short escapes are ASCII, distinct, and none is the u of \uXXXX. *)
LEMMA EscapedAre ==
    /\ Escaped = {34, 92, 8, 12, 10, 13, 9}
    /\ \A c \in Escaped : ShortEscapes[c] \in Below(128) /\ ShortEscapes[c] # 117
    /\ \A c, d \in Escaped : ShortEscapes[c] = ShortEscapes[d] => c = d
<1>1. Escaped = {34, 92, 8, 12, 10, 13, 9}
  BY DEF Escaped, ShortEscapes
<1>2. /\ ShortEscapes[34] = 34 /\ ShortEscapes[92] = 92 /\ ShortEscapes[8] = 98 /\ ShortEscapes[12] = 102
      /\ ShortEscapes[10] = 110 /\ ShortEscapes[13] = 114 /\ ShortEscapes[9] = 116
  BY DEF ShortEscapes
<1>3. \A c \in Escaped : ShortEscapes[c] \in Below(128) /\ ShortEscapes[c] # 117
  BY <1>1, <1>2 DEF Below
<1>4. \A c, d \in Escaped : ShortEscapes[c] = ShortEscapes[d] => c = d
  BY <1>1, <1>2
<1> QED BY <1>1, <1>3, <1>4

(* How Python writes each kind of character. *)
LEMMA CharTexts ==
    ASSUME NEW c \in CodePoints
    PROVE  /\ c \in Escaped => PyCharText(c) = <<92, ShortEscapes[c]>>
           /\ c \in Plain => PyCharText(c) = <<c>> /\ c # 92 /\ c # 34
           /\ c \notin Escaped \union Plain /\ c \in Units => PyCharText(c) = Hex16(c)
           /\ c \notin Escaped \union Plain /\ c \notin Units => PyCharText(c) = Hex16(High(c)) \o Hex16(Low(c))
<1>1. c \in Int
  BY DEF CodePoints, Below
<1>2. ASSUME c \in Escaped PROVE PyCharText(c) = <<92, ShortEscapes[c]>>
  BY <1>2 DEF PyCharText, Ascii, Escaped
<1>3. ASSUME c \in Plain PROVE PyCharText(c) = <<c>> /\ c # 92 /\ c # 34
  <2>1. c \notin Escaped /\ 32 <= c /\ c <= 126
    BY <1>3 DEF Plain
  <2> QED BY <2>1, EscapedAre DEF PyCharText, Escaped
<1>4. ASSUME c \notin Escaped \union Plain PROVE PyCharText(c) = CodePointText(c)
  <2>1. c \notin Escaped /\ ~(32 <= c /\ c <= 126)
    BY <1>4 DEF Plain
  <2> QED BY <2>1 DEF PyCharText, Escaped
<1>5. c \in Units <=> c <= 65535
  BY DEF CodePoints, Below, Units
<1>6. CodePointText(c) = IF c \in Units THEN Hex16(c) ELSE Hex16(High(c)) \o Hex16(Low(c))
  BY <1>5 DEF CodePointText, High, Low
<1> QED BY <1>2, <1>3, <1>4, <1>6

(* The text of a character is ASCII, and begins neither with a quote nor, *)
(* unless it stands for itself, other than with a backslash.              *)
LEMMA CharTextType ==
    ASSUME NEW c \in CodePoints
    PROVE  /\ PyCharText(c) \in Text
           /\ PyCharText(c) # <<>>
           /\ PyCharText(c)[1] # 34
           /\ c \notin Plain => Len(PyCharText(c)) >= 2 /\ PyCharText(c)[1] = 92
           /\ c \notin Escaped \union Plain => PyCharText(c)[2] = 117
<1>1. \A u \in Units : Hex16(u) \in Text /\ Len(Hex16(u)) = 6 /\ Hex16(u)[1] = 92 /\ Hex16(u)[2] = 117
  <2> SUFFICES ASSUME NEW u \in Units PROVE Len(Hex16(u)) = 6 /\ Hex16(u)[1] = 92 /\ Hex16(u)[2] = 117
    BY Hex16Text
  <2> QED BY DEF Hex16, Ascii
<1>2. 92 \in Below(128)
  BY DEF Below
<1>3. CASE c \in Escaped
  <2>1. c \notin Plain
    BY <1>3 DEF Plain
  <2>2. PyCharText(c) = <<92, ShortEscapes[c]>> /\ ShortEscapes[c] \in Below(128)
    BY <1>3, CharTexts, EscapedAre
  <2> QED BY <1>2, <1>3, <2>1, <2>2 DEF Text
<1>4. CASE c \in Plain
  <2>1. PyCharText(c) = <<c>> /\ c # 34
    BY <1>4, CharTexts
  <2>2. c \in Below(128)
    BY <1>4 DEF Plain, Below, CodePoints
  <2> QED BY <1>4, <2>1, <2>2 DEF Text
<1>5. CASE c \notin Escaped \union Plain /\ c \in Units
  <2>1. PyCharText(c) = Hex16(c)
    BY <1>5, CharTexts
  <2>2. Hex16(c) \in Text /\ Len(Hex16(c)) = 6 /\ Hex16(c)[1] = 92 /\ Hex16(c)[2] = 117
    BY <1>1, <1>5
  <2> QED BY <2>1, <2>2
<1>6. CASE c \notin Escaped \union Plain /\ c \notin Units
  <2> DEFINE h == Hex16(High(c))
             l == Hex16(Low(c))
  <2>1. PyCharText(c) = h \o l
    BY <1>6, CharTexts
  <2>2. High(c) \in Units /\ Low(c) \in Units
    BY <1>6, HighLow
  <2>3. h \in Text /\ l \in Text /\ Len(h) = 6 /\ h[1] = 92 /\ h[2] = 117
    BY <1>1, <2>2
  <2> HIDE DEF h, l
  <2>4. h \o l \in Text
    BY <2>3 DEF Text
  <2>5. Len(h \o l) >= 6 /\ (h \o l)[1] = 92 /\ (h \o l)[2] = 117
    <3>1. h \in Seq(Int) /\ l \in Seq(Int)
      BY <2>3, TextIsSeqInt
    <3>2. PrefixAt(h, l)
      BY <3>1, Prefix
    <3>3. Len(l) \in Nat
      BY <3>1
    <3>4. Len(h \o l) = Len(h) + Len(l) /\ \A i \in 1 .. Len(h) : (h \o l)[i] = h[i]
      BY <3>2, Zenon DEF PrefixAt
    <3>5. (h \o l)[1] = h[1] /\ (h \o l)[2] = h[2]
      BY <2>3, <3>4
    <3>6. Len(h \o l) >= 6
      BY <2>3, <3>3, <3>4
    <3> QED BY <2>3, <3>5, <3>6
  <2> QED BY <2>1, <2>4, <2>5
<1> QED BY <1>3, <1>4, <1>5, <1>6

AssociatesAt(t, u, x) == t \o u \in Seq(Int) /\ u \o x \in Seq(Int) /\ (t \o u) \o x = t \o (u \o x)

(* Concatenation associates. *)
LEMMA Associates == \A t, u, x \in Seq(Int) : AssociatesAt(t, u, x)
BY SMT DEF AssociatesAt

CharDecodesAt(c, d, x, y) == PyCharText(c) \o x = PyCharText(d) \o y => c = d /\ x = y

(* The text of a character that is no surrogate tells the character, *)
(* whatever follows.                                                 *)
LEMMA CharDecoded == \A c, d \in Characters, x, y \in Seq(Int) : CharDecodesAt(c, d, x, y)
<1> SUFFICES ASSUME NEW c \in Characters, NEW d \in Characters, NEW x \in Seq(Int), NEW y \in Seq(Int),
                    PyCharText(c) \o x = PyCharText(d) \o y
             PROVE  c = d /\ x = y
  BY DEF CharDecodesAt
<1> DEFINE t == PyCharText(c)
           u == PyCharText(d)
<1>1. c \in CodePoints /\ d \in CodePoints /\ ~Surrogate(c) /\ ~Surrogate(d)
  BY DEF Characters
<1>2. t \in Seq(Int) /\ u \in Seq(Int)
  BY <1>1, CharTextType, TextIsSeqInt
<1>3. t \o x = u \o y
  OBVIOUS
<1>4. t # <<>> /\ u # <<>>
  BY <1>1, CharTextType
<1>5. /\ c \notin Plain => Len(t) >= 2 /\ t[1] = 92
      /\ c \notin Escaped \union Plain => t[2] = 117
      /\ d \notin Plain => Len(u) >= 2 /\ u[1] = 92
      /\ d \notin Escaped \union Plain => u[2] = 117
  BY <1>1, CharTextType
<1>6. /\ c \in Escaped => t = <<92, ShortEscapes[c]>>
      /\ c \in Plain => t = <<c>> /\ c # 92
      /\ c \notin Escaped \union Plain /\ c \in Units => t = Hex16(c)
      /\ c \notin Escaped \union Plain /\ c \notin Units => t = Hex16(High(c)) \o Hex16(Low(c))
  BY <1>1, CharTexts
<1>7. /\ d \in Escaped => u = <<92, ShortEscapes[d]>>
      /\ d \in Plain => u = <<d>> /\ d # 92
      /\ d \notin Escaped \union Plain /\ d \in Units => u = Hex16(d)
      /\ d \notin Escaped \union Plain /\ d \notin Units => u = Hex16(High(d)) \o Hex16(Low(d))
  BY <1>1, CharTexts
<1> HIDE DEF t, u
<1>8. /\ \A i \in 1 .. Len(t) : (t \o x)[i] = t[i]
      /\ \A i \in 1 .. Len(u) : (u \o y)[i] = u[i]
  <2>1. PrefixAt(t, x) /\ PrefixAt(u, y)
    BY <1>2, Prefix
  <2> QED BY <2>1, Zenon DEF PrefixAt
<1>9. 1 \in 1 .. Len(t) /\ 1 \in 1 .. Len(u)
  BY <1>2, <1>4
<1>10. t[1] = u[1]
  <2>1. (t \o x)[1] = t[1] /\ (u \o y)[1] = u[1]
    BY <1>8, <1>9, Zenon
  <2> QED BY <1>3, <2>1
<1>11. ASSUME c \notin Plain, d \notin Plain PROVE t[2] = u[2]
  <2>1. 2 \in 1 .. Len(t) /\ 2 \in 1 .. Len(u)
    BY <1>2, <1>5, <1>11
  <2>2. (t \o x)[2] = t[2] /\ (u \o y)[2] = u[2]
    BY <1>8, <2>1, Zenon
  <2> QED BY <1>3, <2>2
<1>12. Len(t) = Len(u) => t = u /\ x = y
  <2>1. CutAt(t, u, x, y)
    BY <1>2, Cut
  <2> QED BY <1>3, <2>1, Zenon DEF CutAt
<1>13. CASE c \in Plain
  <2>1. t = <<c>> /\ c # 92
    BY <1>6, <1>13
  <2>2. t[1] # 92
    BY <2>1
  <2>3. d \in Plain
    BY <1>5, <1>10, <2>2
  <2>4. u = <<d>>
    BY <1>7, <2>3
  <2>5. Len(t) = Len(u)
    BY <2>1, <2>4
  <2> QED BY <1>12, <2>1, <2>4, <2>5
<1>14. CASE c \in Escaped
  <2>1. c \notin Plain /\ t = <<92, ShortEscapes[c]>>
    BY <1>6, <1>14 DEF Plain
  <2>2. t[1] = 92 /\ t[2] # 117
    BY <1>14, <2>1, EscapedAre
  <2>3. d \notin Plain
    <3> SUFFICES ASSUME d \in Plain PROVE FALSE
      OBVIOUS
    <3>1. u = <<d>> /\ d # 92
      BY <1>7
    <3> QED BY <1>10, <2>2, <3>1
  <2>4. d \in Escaped
    BY <1>5, <1>11, <2>1, <2>2, <2>3
  <2>5. u = <<92, ShortEscapes[d]>>
    BY <1>7, <2>4
  <2>6. Len(t) = Len(u)
    BY <2>1, <2>5
  <2>7. ShortEscapes[c] = ShortEscapes[d]
    BY <1>12, <2>1, <2>5, <2>6
  <2>8. c = d
    <3>1. \A a, b \in Escaped : ShortEscapes[a] = ShortEscapes[b] => a = b
      BY EscapedAre
    <3> QED BY <1>14, <2>4, <2>7, <3>1, Zenon
  <2>9. x = y
    BY <1>12, <2>6
  <2> QED BY <2>8, <2>9
<1>15. CASE c \notin Escaped \union Plain
  <2>1. t[1] = 92 /\ t[2] = 117
    BY <1>5, <1>15
  <2>2. d \notin Plain
    <3> SUFFICES ASSUME d \in Plain PROVE FALSE
      OBVIOUS
    <3>1. u = <<d>> /\ d # 92
      BY <1>7
    <3> QED BY <1>10, <2>1, <3>1
  <2>3. d \notin Escaped
    <3> SUFFICES ASSUME d \in Escaped PROVE FALSE
      OBVIOUS
    <3>1. u[2] = 117
      BY <1>11, <1>15, <2>1, <2>2
    <3>2. u = <<92, ShortEscapes[d]>>
      BY <1>7
    <3> QED BY <3>1, <3>2, EscapedAre
  <2> DEFINE first(a) == IF a \in Units THEN a ELSE High(a)
             rest(a, z) == IF a \in Units THEN z ELSE Hex16(Low(a)) \o z
  <2>4. ASSUME NEW a \in CodePoints, ~Surrogate(a), a \notin Escaped \union Plain, NEW z \in Seq(Int)
        PROVE  /\ PyCharText(a) \o z = Hex16(first(a)) \o rest(a, z)
               /\ first(a) \in Units /\ rest(a, z) \in Seq(Int)
               /\ a \in Units <=> ~Surrogate(first(a))
    <3>1. CASE a \in Units
      <4>1. PyCharText(a) = Hex16(a)
        BY <2>4, <3>1, CharTexts
      <4> QED BY <2>4, <3>1, <4>1
    <3>2. CASE a \notin Units
      <4>1. PyCharText(a) = Hex16(High(a)) \o Hex16(Low(a))
        BY <2>4, <3>2, CharTexts
      <4>2. High(a) \in Units /\ Low(a) \in Units /\ Surrogate(High(a))
        BY <3>2, HighLow
      <4>3. Hex16(High(a)) \in Seq(Int) /\ Hex16(Low(a)) \in Seq(Int)
        BY <4>2, Hex16Text, TextIsSeqInt
      <4>4. AssociatesAt(Hex16(High(a)), Hex16(Low(a)), z)
        BY <4>3, Associates
      <4>5. /\ (Hex16(High(a)) \o Hex16(Low(a))) \o z = Hex16(High(a)) \o (Hex16(Low(a)) \o z)
            /\ Hex16(Low(a)) \o z \in Seq(Int)
        BY <4>4, Zenon DEF AssociatesAt
      <4> QED BY <3>2, <4>1, <4>2, <4>5, Zenon
    <3> QED BY <3>1, <3>2
  <2>5. /\ t \o x = Hex16(first(c)) \o rest(c, x) /\ first(c) \in Units /\ rest(c, x) \in Seq(Int)
        /\ c \in Units <=> ~Surrogate(first(c))
    BY <1>1, <1>15, <2>4 DEF t
  <2>6. /\ u \o y = Hex16(first(d)) \o rest(d, y) /\ first(d) \in Units /\ rest(d, y) \in Seq(Int)
        /\ d \in Units <=> ~Surrogate(first(d))
    BY <1>1, <2>2, <2>3, <2>4 DEF u
  <2>7. first(c) = first(d) /\ rest(c, x) = rest(d, y)
    <3> HIDE DEF first, rest
    <3>1. Hex16(first(c)) \o rest(c, x) = Hex16(first(d)) \o rest(d, y)
      BY <1>3, <2>5, <2>6, Zenon
    <3>2. Hex16DecodesAt(first(c), first(d), rest(c, x), rest(d, y))
      BY <2>5, <2>6, Hex16Decoded
    <3> QED BY <3>1, <3>2, Zenon DEF Hex16DecodesAt
  <2>8. CASE c \in Units
    <3>1. d \in Units
      BY <2>5, <2>6, <2>7, <2>8
    <3> QED BY <2>7, <2>8, <3>1
  <2>9. CASE c \notin Units
    <3>1. d \notin Units
      BY <2>5, <2>6, <2>7, <2>9
    <3>2. High(c) = High(d) /\ Hex16(Low(c)) \o x = Hex16(Low(d)) \o y
      BY <2>7, <2>9, <3>1
    <3>3. Low(c) \in Units /\ Low(d) \in Units
      BY <1>1, <2>9, <3>1, HighLow
    <3>4. Low(c) = Low(d) /\ x = y
      <4>1. Hex16DecodesAt(Low(c), Low(d), x, y)
        BY <3>3, Hex16Decoded
      <4> QED BY <3>2, <4>1, Zenon DEF Hex16DecodesAt
    <3> QED BY <1>1, <2>9, <3>1, <3>2, <3>4, HighLow
  <2> QED BY <2>8, <2>9
<1> QED BY <1>13, <1>14, <1>15

-----------------------------------------------------------------------------
(* Strings *)

(* Texts concatenate to a text. *)
LEMMA ConcatType ==
    ASSUME NEW C, NEW n \in Nat, NEW texts \in [1 .. n -> Seq(C)]
    PROVE  Concat(texts) \in Seq(C)
<1>1. Suffixes(texts) \in [Nat -> Seq(C)]
  BY SuffixesAre
<1>2. 1 \in Nat
  OBVIOUS
<1> QED BY <1>1, <1>2, Zenon DEF Concat

UnquoteAt(t, x) ==
    /\ Quoted(t) \o x = <<34>> \o (t \o (<<34>> \o x))
    /\ Quoted(t) \in Seq(Int) /\ <<34>> \o x \in Seq(Int) /\ t \o (<<34>> \o x) \in Seq(Int)

(* A quoted text is the quote, the text and the quote. *)
LEMMA Unquote == \A t, x \in Seq(Int) : UnquoteAt(t, x)
<1> SUFFICES ASSUME NEW t \in Seq(Int), NEW x \in Seq(Int) PROVE UnquoteAt(t, x)
  OBVIOUS
<1> DEFINE q == <<34>>
<1>1. q \in Seq(Int) /\ Quoted(t) = (q \o t) \o q
  BY DEF Quoted, Ascii
<1> HIDE DEF q
<1>2. AssociatesAt(q, t, q)
  BY <1>1, Associates
<1>3. q \o t \in Seq(Int)
  BY <1>2, Zenon DEF AssociatesAt
<1>4. AssociatesAt(q \o t, q, x)
  BY <1>1, <1>3, Associates
<1>5. (q \o t) \o q \in Seq(Int) /\ q \o x \in Seq(Int) /\ ((q \o t) \o q) \o x = (q \o t) \o (q \o x)
  BY <1>4, Zenon DEF AssociatesAt
<1>6. AssociatesAt(q, t, q \o x)
  BY <1>1, <1>5, Associates
<1>7. t \o (q \o x) \in Seq(Int) /\ (q \o t) \o (q \o x) = q \o (t \o (q \o x))
  BY <1>6, Zenon DEF AssociatesAt
<1>8. Quoted(t) \o x = q \o (t \o (q \o x))
  BY <1>1, <1>5, <1>7
<1>9. Quoted(t) \in Seq(Int)
  BY <1>1, <1>5
<1> QED BY <1>5, <1>7, <1>8, <1>9 DEF UnquoteAt, q

CharTextsOf(s) == [i \in DOMAIN s |-> PyCharText(s[i])]

(* A string is written as ASCII text that begins with a quote. *)
LEMMA StringType ==
    ASSUME NEW s \in Strings
    PROVE  PyString(s) \in Text /\ PyString(s) # <<>> /\ PyString(s)[1] = 34
<1>1. PICK n \in Nat : s \in [1 .. n -> CodePoints]
  BY SeqDef DEF Strings
<1>2. CharTextsOf(s) \in [1 .. n -> Seq(Below(128))]
  <2>1. \A i \in 1 .. n : PyCharText(s[i]) \in Seq(Below(128))
    BY <1>1, CharTextType DEF Text
  <2> QED BY <1>1, <2>1 DEF CharTextsOf
<1> DEFINE t == Concat(CharTextsOf(s))
<1>3. t \in Text
  BY <1>2, ConcatType DEF Text
<1>4. PyString(s) = <<34>> \o t \o <<34>>
  BY DEF PyString, Quoted, CharTextsOf, Ascii
<1> HIDE DEF t
<1>5. 34 \in Below(128)
  BY DEF Below
<1>6. PyString(s) \in Text
  BY <1>3, <1>4, <1>5 DEF Text
<1>7. t \in Seq(Int)
  BY <1>3, TextIsSeqInt
<1>8. Len(PyString(s)) > 0 /\ PyString(s)[1] = 34
  <2> HIDE DEF Text
  <2>1. UnquoteAt(t, <<>>)
    BY <1>7, Unquote, EmptySeq
  <2> QED BY <1>4, <1>7
<1> QED BY <1>6, <1>8

StringDecodesAt(s, t, x, y) == PyString(s) \o x = PyString(t) \o y => s = t /\ x = y

(* The text of a string without surrogates tells the string, whatever *)
(* follows.                                                           *)
LEMMA StringDecoded == \A s, t \in Seq(Characters), x, y \in Seq(Int) : StringDecodesAt(s, t, x, y)
<1> SUFFICES ASSUME NEW s \in Seq(Characters), NEW t \in Seq(Characters), NEW x \in Seq(Int), NEW y \in Seq(Int),
                    PyString(s) \o x = PyString(t) \o y
             PROVE  s = t /\ x = y
  BY DEF StringDecodesAt
<1>1. PICK m \in Nat : s \in [1 .. m -> Characters]
  BY SeqDef
<1>2. PICK n \in Nat : t \in [1 .. n -> Characters]
  BY SeqDef
<1> DEFINE ss == CharTextsOf(s)
           tt == CharTextsOf(t)
           q == <<34>>
<1>3. \A c \in Characters : PyCharText(c) \in Seq(Int) /\ PyCharText(c) # <<>> /\ PyCharText(c)[1] # 34
  BY CharTextType, TextIsSeqInt DEF Characters
<1>4. /\ ss \in [1 .. m -> Seq(Int)] /\ \A i \in 1 .. m : s[i] \in Characters /\ ss[i] = PyCharText(s[i])
      /\ tt \in [1 .. n -> Seq(Int)] /\ \A i \in 1 .. n : t[i] \in Characters /\ tt[i] = PyCharText(t[i])
  BY <1>1, <1>2, <1>3 DEF CharTextsOf
<1>5. Concat(ss) \in Seq(Int) /\ Concat(tt) \in Seq(Int)
  <2> HIDE DEF ss, tt
  <2> QED BY <1>4, ConcatType
<1>6. PyString(s) = Quoted(Concat(ss)) /\ PyString(t) = Quoted(Concat(tt))
  BY DEF PyString, CharTextsOf
<1> HIDE DEF ss, tt
<1>7. /\ Quoted(Concat(ss)) \o x = q \o (Concat(ss) \o (q \o x))
      /\ Quoted(Concat(tt)) \o y = q \o (Concat(tt) \o (q \o y))
      /\ q \o x \in Seq(Int) /\ Concat(ss) \o (q \o x) \in Seq(Int)
      /\ q \o y \in Seq(Int) /\ Concat(tt) \o (q \o y) \in Seq(Int)
  <2>1. UnquoteAt(Concat(ss), x) /\ UnquoteAt(Concat(tt), y)
    BY <1>5, Unquote
  <2> QED BY <2>1 DEF UnquoteAt
<1>8. q \in Seq(Int) /\ Len(q) = Len(q) /\ q[1] = 34 /\ Len(q) = 1
  OBVIOUS
<1> HIDE DEF q
<1>9. Concat(ss) \o (q \o x) = Concat(tt) \o (q \o y)
  <2>1. CutAt(q, q, Concat(ss) \o (q \o x), Concat(tt) \o (q \o y))
    BY <1>7, <1>8, Cut
  <2>2. q \o (Concat(ss) \o (q \o x)) = q \o (Concat(tt) \o (q \o y))
    BY <1>6, <1>7
  <2> QED BY <2>1, <2>2, Zenon DEF CutAt
<1>10. \A z \in Seq(Int) : (q \o z)[1] = 34
  <2> TAKE z \in Seq(Int)
  <2>1. PrefixAt(q, z) /\ 1 \in 1 .. Len(q)
    BY <1>8, Prefix
  <2>2. (q \o z)[1] = q[1]
    BY <2>1, Zenon DEF PrefixAt
  <2> QED BY <1>8, <2>2
<1>11. ASSUME NEW c \in Characters, NEW a \in Seq(Int), NEW z \in Seq(Int) PROVE PyCharText(c) \o a # q \o z
  <2> DEFINE u == PyCharText(c)
  <2>1. u \in Seq(Int) /\ u # <<>> /\ u[1] # 34
    BY <1>3
  <2> HIDE DEF u
  <2>2. PrefixAt(u, a) /\ 1 \in 1 .. Len(u)
    BY <2>1, Prefix
  <2>3. (u \o a)[1] = u[1]
    BY <2>2, Zenon DEF PrefixAt
  <2>4. u \o a # q \o z
    BY <1>10, <2>1, <2>3
  <2> QED BY <2>4 DEF u
<1>12. Decodable(Int, Seq(Int), m, ss, n, tt, q \o x, q \o y)
  <2>1. Seq(Int) \in SUBSET Seq(Int)
    OBVIOUS
  <2>2. \A i \in 1 .. m : i > 1 => \A a \in Seq(Int) : ss[i] \o a \in Seq(Int)
    <3> TAKE i \in 1 .. m
    <3> HAVE i > 1
    <3> TAKE a \in Seq(Int)
    <3>1. PrefixAt(ss[i], a)
      BY <1>4, Prefix
    <3> QED BY <3>1, Zenon DEF PrefixAt
  <2>3. \A i \in 1 .. n : i > 1 => \A a \in Seq(Int) : tt[i] \o a \in Seq(Int)
    <3> TAKE i \in 1 .. n
    <3> HAVE i > 1
    <3> TAKE a \in Seq(Int)
    <3>1. PrefixAt(tt[i], a)
      BY <1>4, Prefix
    <3> QED BY <3>1, Zenon DEF PrefixAt
  <2>4. \A i \in (1 .. m) \cap (1 .. n) : \A a, b \in Seq(Int) : ss[i] \o a = tt[i] \o b => ss[i] = tt[i] /\ a = b
    <3> SUFFICES ASSUME NEW i \in (1 .. m) \cap (1 .. n), NEW a \in Seq(Int), NEW b \in Seq(Int), ss[i] \o a = tt[i] \o b
                 PROVE  ss[i] = tt[i] /\ a = b
      OBVIOUS
    <3>1. /\ s[i] \in Characters /\ ss[i] = PyCharText(s[i])
          /\ t[i] \in Characters /\ tt[i] = PyCharText(t[i])
      BY <1>4
    <3>2. PyCharText(s[i]) \o a = PyCharText(t[i]) \o b
      BY <3>1
    <3>3. CharDecodesAt(s[i], t[i], a, b)
      BY <3>1, CharDecoded
    <3>4. s[i] = t[i] /\ a = b
      BY <3>2, <3>3, Zenon DEF CharDecodesAt
    <3> QED BY <3>1, <3>4
  <2>5. \A i \in 1 .. m : \A a \in Seq(Int) : ss[i] \o a # q \o y
    BY <1>4, <1>7, <1>11
  <2>6. \A i \in 1 .. n : \A a \in Seq(Int) : tt[i] \o a # q \o x
    BY <1>4, <1>7, <1>11
  <2> QED BY <1>4, <1>7, <2>1, <2>2, <2>3, <2>4, <2>5, <2>6, Zenon DEF Decodable
<1>13. m = n /\ ss = tt /\ q \o x = q \o y
  <2>1. DecodesAt(m, ss, n, tt, q \o x, q \o y)
    BY <1>12, Decoded, Zenon
  <2> QED BY <1>9, <2>1, Zenon DEF DecodesAt
<1>14. x = y
  <2>1. CutAt(q, q, x, y)
    BY <1>8, Cut
  <2> QED BY <1>13, <2>1, Zenon DEF CutAt
<1>15. \A i \in 1 .. m : s[i] = t[i]
  <2> TAKE i \in 1 .. m
  <2>1. s[i] \in Characters /\ t[i] \in Characters /\ PyCharText(s[i]) \o x = PyCharText(t[i]) \o x
    BY <1>4, <1>13, Zenon
  <2>2. CharDecodesAt(s[i], t[i], x, x)
    BY <2>1, CharDecoded
  <2> QED BY <2>1, <2>2, Zenon DEF CharDecodesAt
<1>16. s = t
  BY <1>1, <1>2, <1>13, <1>15
<1> QED BY <1>14, <1>16

-----------------------------------------------------------------------------
(* Digits and notations *)

Digits == Below(10)

(* A place holds a digit, and 0 outside those of the digits. *)
LEMMA DigitAtType ==
    ASSUME NEW d \in Seq(Digits), NEW e \in Int, NEW p \in Int
    PROVE  /\ DigitAt(d, e, p) \in Digits
           /\ p > e \/ p < e + 1 - Len(d) => DigitAt(d, e, p) = 0
<1>1. 0 \in Digits
  BY DEF Digits, Below
<1>2. DOMAIN d = 1 .. Len(d) /\ Len(d) \in Nat
  OBVIOUS
<1>3. CASE e - p + 1 \in DOMAIN d
  <2>1. d[e - p + 1] \in Digits
    BY <1>3
  <2>2. ~(p > e \/ p < e + 1 - Len(d))
    BY <1>2, <1>3
  <2> QED BY <1>3, <2>1, <2>2 DEF DigitAt
<1>4. CASE e - p + 1 \notin DOMAIN d
  BY <1>1, <1>4 DEF DigitAt
<1> QED BY <1>3, <1>4

(* The shortest digits of a number that is not zero *)
Shortest(d) == d \in Seq(Digits) /\ d # <<>> /\ d[1] # 0 /\ d[Len(d)] # 0

(* Digits without zeros at their ends have a digit other than 0 at the first *)
(* and the last place.                                                       *)
LEMMA ShortestEnds ==
    ASSUME NEW d, NEW e \in Int, Shortest(d)
    PROVE  /\ Len(d) \in Nat /\ Len(d) >= 1
           /\ DigitAt(d, e, e) # 0
           /\ DigitAt(d, e, e + 1 - Len(d)) # 0
<1>1. d \in Seq(Digits) /\ d # <<>> /\ d[1] # 0 /\ d[Len(d)] # 0
  BY DEF Shortest
<1>2. DOMAIN d = 1 .. Len(d) /\ Len(d) \in Nat /\ Len(d) >= 1
  BY <1>1
<1>3. e - e + 1 = 1 /\ e - (e + 1 - Len(d)) + 1 = Len(d)
  BY <1>2
<1>4. 1 \in DOMAIN d /\ Len(d) \in DOMAIN d
  BY <1>2
<1> QED BY <1>1, <1>2, <1>3, <1>4, Zenon DEF DigitAt

(* Digits without zeros at their ends, and the exponent, are told by what *)
(* each place holds.                                                      *)
LEMMA PlacesDecide ==
    ASSUME NEW d, NEW e \in Int, NEW c, NEW f \in Int, Shortest(d), Shortest(c),
           \A p \in Int : DigitAt(d, e, p) = DigitAt(c, f, p)
    PROVE  d = c /\ e = f
<1>1. d \in Seq(Digits) /\ c \in Seq(Digits)
  BY DEF Shortest
<1>2. Len(d) \in Nat /\ Len(d) >= 1 /\ Len(c) \in Nat /\ Len(c) >= 1
  BY ShortestEnds
<1>3. /\ DigitAt(d, e, e) # 0 /\ DigitAt(d, e, e + 1 - Len(d)) # 0
      /\ DigitAt(c, f, f) # 0 /\ DigitAt(c, f, f + 1 - Len(c)) # 0
  BY ShortestEnds
<1>4. \A p \in Int : (p > e \/ p < e + 1 - Len(d) => DigitAt(d, e, p) = 0) /\ (p > f \/ p < f + 1 - Len(c) => DigitAt(c, f, p) = 0)
  BY <1>1, DigitAtType
<1>5. e = f
  <2>1. ~(f > e) /\ ~(e > f)
    BY <1>3, <1>4
  <2> QED BY <2>1
<1>6. Len(d) = Len(c)
  <2>1. e + 1 - Len(d) \in Int /\ f + 1 - Len(c) \in Int
    BY <1>2
  <2>2. ~(f + 1 - Len(c) < e + 1 - Len(d)) /\ ~(e + 1 - Len(d) < f + 1 - Len(c))
    BY <1>3, <1>4, <2>1
  <2> QED BY <1>2, <1>5, <2>2
<1>7. ASSUME NEW i \in 1 .. Len(d) PROVE d[i] = c[i]
  <2>1. e + 1 - i \in Int /\ e - (e + 1 - i) + 1 = i /\ i \in DOMAIN d /\ i \in DOMAIN c
    BY <1>1, <1>6
  <2>2. DigitAt(d, e, e + 1 - i) = d[i] /\ DigitAt(c, e, e + 1 - i) = c[i]
    BY <2>1, Zenon DEF DigitAt
  <2> QED BY <1>5, <2>1, <2>2
<1>8. d = c
  BY <1>1, <1>6, <1>7, SeqEqual
<1> QED BY <1>5, <1>8

(* A function on 1 .. n is a sequence of length n. *)
LEMMA FunctionIsSequence ==
    ASSUME NEW S, NEW n \in Nat, NEW f \in [1 .. n -> S]
    PROVE  f \in Seq(S) /\ Len(f) = n
<1>1. f \in Seq(S)
  BY SeqDef
<1> QED BY <1>1, LenProperties

AvoidsUntil(B, s, x) ==
    /\ s \in Seq(Int) /\ \A i \in 1 .. Len(s) : s[i] \notin B
    /\ x \in Seq(Int) /\ x # <<>> /\ x[1] \in B

(* Texts that avoid the codes that may follow them are told apart by what *)
(* follows.                                                               *)
LEMMA Delimited ==
    ASSUME NEW B, NEW s, NEW x, NEW t, NEW y, AvoidsUntil(B, s, x), AvoidsUntil(B, t, y), s \o x = t \o y
    PROVE  s = t /\ x = y
<1>1. /\ s \in Seq(Int) /\ x \in Seq(Int) /\ \A i \in 1 .. Len(s) : s[i] \notin B
      /\ t \in Seq(Int) /\ y \in Seq(Int) /\ \A i \in 1 .. Len(t) : t[i] \notin B
      /\ x # <<>> /\ x[1] \in B /\ y # <<>> /\ y[1] \in B
  BY DEF AvoidsUntil
<1>2. ASSUME NEW a \in Seq(Int), NEW b \in Seq(Int), b # <<>>
      PROVE  (a \o b)[Len(a) + 1] = b[1] /\ Len(a) \in Nat /\ Len(a \o b) >= Len(a) + 1
  BY <1>2
<1>3. /\ \A i \in 1 .. Len(s) : (s \o x)[i] = s[i]
      /\ \A i \in 1 .. Len(t) : (t \o y)[i] = t[i]
  <2>1. PrefixAt(s, x) /\ PrefixAt(t, y)
    BY <1>1, Prefix
  <2> QED BY <2>1, Zenon DEF PrefixAt
<1>4. (s \o x)[Len(s) + 1] = x[1] /\ (t \o y)[Len(t) + 1] = y[1] /\ Len(s) \in Nat /\ Len(t) \in Nat
  BY <1>1, <1>2
<1>5. ~(Len(s) < Len(t))
  <2> SUFFICES ASSUME Len(s) < Len(t) PROVE FALSE
    OBVIOUS
  <2>1. Len(s) + 1 \in 1 .. Len(t)
    BY <1>4
  <2>2. (t \o y)[Len(s) + 1] = t[Len(s) + 1] /\ t[Len(s) + 1] \notin B
    BY <1>1, <1>3, <2>1, Zenon
  <2> QED BY <1>1, <1>4, <2>2, Zenon
<1>6. ~(Len(t) < Len(s))
  <2> SUFFICES ASSUME Len(t) < Len(s) PROVE FALSE
    OBVIOUS
  <2>1. Len(t) + 1 \in 1 .. Len(s)
    BY <1>4
  <2>2. (s \o x)[Len(t) + 1] = s[Len(t) + 1] /\ s[Len(t) + 1] \notin B
    BY <1>1, <1>3, <2>1, Zenon
  <2> QED BY <1>1, <1>4, <2>2, Zenon
<1>7. Len(s) = Len(t)
  BY <1>4, <1>5, <1>6
<1>8. CutAt(s, t, x, y)
  BY <1>1, Cut
<1> QED BY <1>7, <1>8, Zenon DEF CutAt

(* The codes of a mantissa, and of a number *)
MantissaCodes == {c \in Below(128) : c = 46 \/ (48 <= c /\ c <= 57)}

NumberCodes == {c \in Below(128) : c \in MantissaCodes \/ c = 43 \/ c = 45 \/ c = 101}

(* The codes of digits. *)
LEMMA DigitsTextType ==
    ASSUME NEW s \in Seq(Digits)
    PROVE  /\ DigitsText(s) \in Seq(MantissaCodes)
           /\ Len(DigitsText(s)) = Len(s)
           /\ \A i \in 1 .. Len(s) : DigitsText(s)[i] = 48 + s[i]
<1>1. DOMAIN s = 1 .. Len(s) /\ Len(s) \in Nat
  OBVIOUS
<1>2. \A i \in 1 .. Len(s) : DigitsText(s)[i] = 48 + s[i]
  BY <1>1 DEF DigitsText
<1>3. \A i \in 1 .. Len(s) : 48 + s[i] \in MantissaCodes
  <2>1. \A i \in 1 .. Len(s) : s[i] \in Digits
    BY <1>1
  <2>2. \A c \in Digits : 48 + c \in MantissaCodes
    BY DEF Digits, Below, MantissaCodes
  <2> QED BY <2>1, <2>2
<1>4. DigitsText(s) \in [1 .. Len(s) -> MantissaCodes]
  BY <1>1, <1>3 DEF DigitsText
<1> QED BY <1>1, <1>2, <1>4, FunctionIsSequence

(* The places before the point, and after it *)
Top(e) == IF e < 0 THEN 0 ELSE e

Behind(d, e) == IF Len(d) - 1 - e < 0 THEN 0 ELSE Len(d) - 1 - e

FixedShapeOf(z, d, e) ==
    /\ z \in Seq(MantissaCodes)
    /\ Len(z) = (IF Behind(d, e) = 0 THEN Top(e) + 1 ELSE Top(e) + 2 + Behind(d, e))
    /\ \A i \in 1 .. Top(e) + 1 : z[i] = 48 + DigitAt(d, e, Top(e) + 1 - i)
    /\ Behind(d, e) > 0 =>
           /\ z[Top(e) + 2] = 46
           /\ \A i \in 1 .. Behind(d, e) : z[Top(e) + 2 + i] = 48 + DigitAt(d, e, -i)

(* Which code the fixed notation has at each place. *)
LEMMA FixedShape ==
    ASSUME NEW d \in Seq(Digits), NEW e \in Int
    PROVE  FixedShapeOf(FixedText(d, e), d, e)
<1> DEFINE top == Top(e)
           f == Behind(d, e)
           whole == [i \in 1 .. top + 1 |-> DigitAt(d, e, top + 1 - i)]
           fraction == [i \in 1 .. Len(d) - 1 - e |-> DigitAt(d, e, -i)]
           W == DigitsText(whole)
           F == DigitsText(fraction)
           z == FixedText(d, e)
<1>1. top \in Nat /\ f \in Nat /\ 1 .. Len(d) - 1 - e = 1 .. f
  <2>1. Len(d) \in Nat
    OBVIOUS
  <2> QED BY <2>1 DEF Top, Behind
<1>2. whole \in Seq(Digits) /\ Len(whole) = top + 1 /\ \A i \in 1 .. top + 1 : whole[i] = DigitAt(d, e, top + 1 - i)
  <2>1. whole \in [1 .. top + 1 -> Digits]
    <3>1. \A i \in 1 .. top + 1 : DigitAt(d, e, top + 1 - i) \in Digits
      BY <1>1, DigitAtType
    <3> QED BY <3>1
  <2>2. top + 1 \in Nat
    BY <1>1
  <2>3. \A i \in 1 .. top + 1 : whole[i] = DigitAt(d, e, top + 1 - i)
    OBVIOUS
  <2> HIDE DEF whole, top
  <2> QED BY <2>1, <2>2, <2>3, FunctionIsSequence
<1>3. fraction \in Seq(Digits) /\ Len(fraction) = f /\ \A i \in 1 .. f : fraction[i] = DigitAt(d, e, -i)
  <2>1. fraction \in [1 .. f -> Digits]
    <3>1. \A i \in 1 .. f : DigitAt(d, e, -i) \in Digits
      BY <1>1, DigitAtType
    <3> QED BY <1>1, <3>1
  <2>3. \A i \in 1 .. f : fraction[i] = DigitAt(d, e, -i)
    BY <1>1
  <2> HIDE DEF fraction, f
  <2> QED BY <1>1, <2>1, <2>3, FunctionIsSequence
<1>4. z = W \o (IF fraction = <<>> THEN <<>> ELSE <<46>>) \o F
  BY DEF FixedText, Top, Ascii
<1> HIDE DEF whole, fraction, z, top, f
<1>5. /\ W \in Seq(MantissaCodes) /\ Len(W) = top + 1 /\ \A i \in 1 .. top + 1 : W[i] = 48 + whole[i]
      /\ F \in Seq(MantissaCodes) /\ Len(F) = f /\ \A i \in 1 .. f : F[i] = 48 + fraction[i]
  BY <1>2, <1>3, DigitsTextType
<1> HIDE DEF W, F
<1>6. CASE f = 0
  <2>1. fraction = <<>> /\ F = <<>>
    BY <1>3, <1>5, <1>6
  <2>2. z = W
    BY <1>4, <1>5, <2>1
  <2> QED BY <1>1, <1>2, <1>5, <1>6, <2>2 DEF FixedShapeOf, z, top, f
<1>7. CASE f # 0
  <2>1. fraction # <<>>
    BY <1>1, <1>3, <1>7
  <2>2. z = W \o <<46>> \o F
    BY <1>4, <2>1
  <2>3. 46 \in MantissaCodes
    BY DEF MantissaCodes, Below
  <2>4. z \in Seq(MantissaCodes)
    BY <1>5, <2>2, <2>3
  <2>5. Len(z) = top + 2 + f
    BY <1>1, <1>5, <2>2
  <2>6. \A i \in 1 .. top + 1 : z[i] = W[i]
    BY <1>1, <1>5, <2>2
  <2>7. z[top + 2] = 46
    BY <1>1, <1>5, <2>2
  <2>8. \A i \in 1 .. f : z[top + 2 + i] = F[i]
    BY <1>1, <1>5, <2>2
  <2>9. \A i \in 1 .. top + 1 : z[i] = 48 + DigitAt(d, e, top + 1 - i)
    BY <1>2, <1>5, <2>6
  <2>10. \A i \in 1 .. f : z[top + 2 + i] = 48 + DigitAt(d, e, -i)
    BY <1>3, <1>5, <2>8
  <2> QED BY <1>7, <2>4, <2>5, <2>7, <2>9, <2>10, Zenon DEF FixedShapeOf, z, top, f
<1> QED BY <1>6, <1>7

(* Equal fixed notations hold the same digit at every place. *)
LEMMA FixedDecoded ==
    ASSUME NEW d \in Seq(Digits), NEW e \in Int, NEW c \in Seq(Digits), NEW g \in Int,
           FixedText(d, e) = FixedText(c, g)
    PROVE  \A p \in Int : DigitAt(d, e, p) = DigitAt(c, g, p)
<1> DEFINE z == FixedText(d, e)
           t == Top(e)
           u == Top(g)
           f == Behind(d, e)
           h == Behind(c, g)
<1>0. \A a, b \in Nat : 48 + a = 48 + b => a = b
  OBVIOUS
<1>1. FixedShapeOf(z, d, e) /\ FixedShapeOf(z, c, g)
  BY FixedShape
<1>2. t \in Nat /\ u \in Nat /\ f \in Nat /\ h \in Nat
  <2>1. Len(d) \in Nat /\ Len(c) \in Nat
    OBVIOUS
  <2> QED BY <2>1 DEF Top, Behind
<1>3. \A p \in Int : DigitAt(d, e, p) \in Nat /\ DigitAt(c, g, p) \in Nat
  BY DigitAtType DEF Digits, Below
<1>4. /\ \A p \in Int : (p > t \/ p < -f) => DigitAt(d, e, p) = 0
      /\ \A p \in Int : (p > u \/ p < -h) => DigitAt(c, g, p) = 0
  <2>1. ASSUME NEW b \in Seq(Digits), NEW k \in Int, NEW p \in Int, p > Top(k) \/ p < -Behind(b, k)
        PROVE  DigitAt(b, k, p) = 0
    <3>1. Len(b) \in Nat
      OBVIOUS
    <3>2. p > k \/ p < k + 1 - Len(b)
      BY <2>1, <3>1 DEF Top, Behind
    <3> QED BY <3>2, DigitAtType
  <2> QED BY <2>1
<1> HIDE DEF z, t, u, f, h
<1>5. /\ Len(z) = (IF f = 0 THEN t + 1 ELSE t + 2 + f)
      /\ \A i \in 1 .. t + 1 : z[i] = 48 + DigitAt(d, e, t + 1 - i)
      /\ f > 0 => z[t + 2] = 46 /\ \A i \in 1 .. f : z[t + 2 + i] = 48 + DigitAt(d, e, -i)
  BY <1>1, Zenon DEF FixedShapeOf, t, f
<1>6. /\ Len(z) = (IF h = 0 THEN u + 1 ELSE u + 2 + h)
      /\ \A i \in 1 .. u + 1 : z[i] = 48 + DigitAt(c, g, u + 1 - i)
      /\ h > 0 => z[u + 2] = 46 /\ \A i \in 1 .. h : z[u + 2 + i] = 48 + DigitAt(c, g, -i)
  BY <1>1, Zenon DEF FixedShapeOf, u, h
<1>7. t = u
  <2>1. ~(t < u)
    <3> SUFFICES ASSUME t < u PROVE FALSE
      OBVIOUS
    <3>1. t + 2 \in 1 .. u + 1
      BY <1>2
    <3>2. z[t + 2] # 46
      <4>1. u + 1 - (t + 2) \in Int
        BY <1>2
      <4>2. z[t + 2] = 48 + DigitAt(c, g, u + 1 - (t + 2))
        BY <1>6, <3>1
      <4>3. DigitAt(c, g, u + 1 - (t + 2)) \in Nat
        BY <1>3, <4>1
      <4> QED BY <4>2, <4>3
    <3>3. f = 0
      BY <1>2, <1>5, <3>2
    <3> QED BY <1>2, <1>5, <1>6, <3>3
  <2>2. ~(u < t)
    <3> SUFFICES ASSUME u < t PROVE FALSE
      OBVIOUS
    <3>1. u + 2 \in 1 .. t + 1
      BY <1>2
    <3>2. z[u + 2] # 46
      <4>1. t + 1 - (u + 2) \in Int
        BY <1>2
      <4>2. z[u + 2] = 48 + DigitAt(d, e, t + 1 - (u + 2))
        BY <1>5, <3>1
      <4>3. DigitAt(d, e, t + 1 - (u + 2)) \in Nat
        BY <1>3, <4>1
      <4> QED BY <4>2, <4>3
    <3>3. h = 0
      BY <1>2, <1>6, <3>2
    <3> QED BY <1>2, <1>5, <1>6, <3>3
  <2> QED BY <1>2, <2>1, <2>2
<1>8. f = h
  BY <1>2, <1>5, <1>6, <1>7
<1> SUFFICES ASSUME NEW p \in Int PROVE DigitAt(d, e, p) = DigitAt(c, g, p)
  OBVIOUS
<1>9. CASE 0 <= p /\ p <= t
  <2>1. t + 1 - p \in 1 .. t + 1 /\ t + 1 - (t + 1 - p) = p
    BY <1>2, <1>9
  <2>2. z[t + 1 - p] = 48 + DigitAt(d, e, p) /\ z[t + 1 - p] = 48 + DigitAt(c, g, p)
    BY <1>5, <1>6, <1>7, <2>1
  <2>3. DigitAt(d, e, p) \in Nat /\ DigitAt(c, g, p) \in Nat
    BY <1>3
  <2>4. 48 + DigitAt(d, e, p) = 48 + DigitAt(c, g, p)
    BY ONLY <2>2, Zenon
  <2> QED BY <1>0, <2>3, <2>4, Zenon
<1>10. CASE p < 0 /\ p >= -f
  <2>1. -p \in 1 .. f /\ -(-p) = p /\ f > 0
    BY <1>2, <1>10
  <2>2. z[t + 2 + (-p)] = 48 + DigitAt(d, e, p) /\ z[t + 2 + (-p)] = 48 + DigitAt(c, g, p)
    BY <1>5, <1>6, <1>7, <1>8, <2>1
  <2>3. DigitAt(d, e, p) \in Nat /\ DigitAt(c, g, p) \in Nat
    BY <1>3
  <2>4. 48 + DigitAt(d, e, p) = 48 + DigitAt(c, g, p)
    BY ONLY <2>2, Zenon
  <2> QED BY <1>0, <2>3, <2>4, Zenon
<1>11. CASE p > t \/ p < -f
  BY <1>4, <1>7, <1>8, <1>11
<1> QED BY <1>2, <1>9, <1>10, <1>11

(* An exponent is written in digits. *)
LEMMA ExponentTextType ==
    ASSUME NEW n \in Below(1000)
    PROVE  ExponentText(n) \in Seq(MantissaCodes)
<1>1. /\ n \div 100 \in Digits /\ (n \div 10) % 10 \in Digits /\ n % 10 \in Digits
      /\ n < 100 => n \div 10 \in Digits
  BY DEF Digits, Below
<1> DEFINE s == IF n < 100 THEN <<n \div 10, n % 10>> ELSE <<n \div 100, (n \div 10) % 10, n % 10>>
<1>2. s \in Seq(Digits)
  <2>1. CASE n < 100
    BY <1>1, <2>1
  <2>2. CASE ~(n < 100)
    BY <1>1, <2>2
  <2> QED BY <2>1, <2>2
<1>3. ExponentText(n) = DigitsText(s)
  BY DEF ExponentText
<1> HIDE DEF s
<1> QED BY <1>2, <1>3, DigitsTextType

(* The digits of an exponent below 1000 tell it. *)
LEMMA ExponentDecoded ==
    ASSUME NEW n \in Below(1000), NEW m \in Below(1000), ExponentText(n) = ExponentText(m)
    PROVE  n = m
<1> DEFINE s(k) == IF k < 100 THEN <<k \div 10, k % 10>> ELSE <<k \div 100, (k \div 10) % 10, k % 10>>
<1>1. \A k \in Below(1000) : s(k) \in Seq(Digits)
  <2> TAKE k \in Below(1000)
  <2>1. /\ k \div 100 \in Digits /\ (k \div 10) % 10 \in Digits /\ k % 10 \in Digits
        /\ k < 100 => k \div 10 \in Digits
    BY DEF Digits, Below
  <2>2. CASE k < 100
    BY <2>1, <2>2
  <2>3. CASE ~(k < 100)
    BY <2>1, <2>3
  <2> QED BY <2>2, <2>3
<1>2. ASSUME NEW k \in Below(1000)
      PROVE  /\ ExponentText(k) = DigitsText(s(k))
             /\ Len(ExponentText(k)) = Len(s(k))
             /\ \A i \in 1 .. Len(s(k)) : ExponentText(k)[i] = 48 + s(k)[i] /\ s(k)[i] \in Nat
  <2>1. s(k) \in Seq(Digits)
    BY <1>1
  <2>2. ExponentText(k) = DigitsText(s(k))
    BY DEF ExponentText
  <2> HIDE DEF s
  <2>3. \A i \in 1 .. Len(s(k)) : s(k)[i] \in Nat
    BY <2>1 DEF Digits, Below
  <2> QED BY <2>1, <2>2, <2>3, DigitsTextType
<1>3. Len(s(n)) = Len(s(m)) /\ \A i \in 1 .. Len(s(n)) : s(n)[i] = s(m)[i]
  <2> HIDE DEF s
  <2> QED BY <1>2
<1>4. \A k \in Below(1000) : k \in Nat /\ Len(s(k)) = IF k < 100 THEN 2 ELSE 3
  BY DEF Below
<1>5. n < 100 <=> m < 100
  <2>1. Len(s(n)) = (IF n < 100 THEN 2 ELSE 3) /\ Len(s(m)) = (IF m < 100 THEN 2 ELSE 3)
    BY <1>4
  <2>2. Len(s(n)) = Len(s(m))
    BY <1>3
  <2> HIDE DEF s
  <2>3. CASE n < 100
    BY <2>1, <2>2, <2>3
  <2>4. CASE ~(n < 100)
    BY <2>1, <2>2, <2>4
  <2> QED BY <2>3, <2>4
<1>6. CASE n < 100
  <2>1. s(n) = <<n \div 10, n % 10>> /\ s(m) = <<m \div 10, m % 10>>
    BY <1>5, <1>6
  <2>2. n \div 10 = m \div 10 /\ n % 10 = m % 10
    <3>1. 1 \in 1 .. Len(s(n)) /\ 2 \in 1 .. Len(s(n))
      BY <2>1
    <3> QED BY <1>3, <2>1, <3>1
  <2> QED BY <2>2, <1>4
<1>7. CASE ~(n < 100)
  <2>1. s(n) = <<n \div 100, (n \div 10) % 10, n % 10>> /\ s(m) = <<m \div 100, (m \div 10) % 10, m % 10>>
    BY <1>5, <1>7
  <2>2. n \div 100 = m \div 100 /\ (n \div 10) % 10 = (m \div 10) % 10 /\ n % 10 = m % 10
    <3>1. 1 \in 1 .. Len(s(n)) /\ 2 \in 1 .. Len(s(n)) /\ 3 \in 1 .. Len(s(n))
      BY <2>1
    <3> QED BY <1>3, <2>1, <3>1
  <2>3. n \in Nat /\ m \in Nat
    BY <1>4
  <2> HIDE DEF s
  <2> QED BY ONLY <2>2, <2>3
<1> QED BY <1>6, <1>7

(* What NumberValid says of the digits and the exponent *)
Written(d, e) == d \in Seq(Digits) /\ e \in Int /\ (IF d = <<>> THEN e = 0 ELSE Shortest(d))

(* The fixed notation of a number tells its digits and exponent. *)
LEMMA FixedIdentifies ==
    ASSUME NEW d, NEW e, NEW c, NEW g, Written(d, e), Written(c, g), FixedText(d, e) = FixedText(c, g)
    PROVE  d = c /\ e = g
<1>1. d \in Seq(Digits) /\ e \in Int /\ c \in Seq(Digits) /\ g \in Int
  BY DEF Written
<1>2. \A p \in Int : DigitAt(d, e, p) = DigitAt(c, g, p)
  BY <1>1, FixedDecoded
<1>3. \A p \in Int : DigitAt(<<>>, 0, p) = 0
  BY DEF DigitAt
<1>4. CASE d = <<>> /\ c = <<>>
  BY <1>4 DEF Written
<1>5. CASE d = <<>> /\ c # <<>>
  <2>1. Shortest(c) /\ e = 0
    BY <1>5 DEF Written
  <2>2. DigitAt(c, g, g) # 0
    BY <1>1, <2>1, ShortestEnds
  <2> QED BY <1>1, <1>2, <1>3, <1>5, <2>1, <2>2
<1>6. CASE d # <<>> /\ c = <<>>
  <2>1. Shortest(d) /\ g = 0
    BY <1>6 DEF Written
  <2>2. DigitAt(d, e, e) # 0
    BY <1>1, <2>1, ShortestEnds
  <2> QED BY <1>1, <1>2, <1>3, <1>6, <2>1, <2>2
<1>7. CASE d # <<>> /\ c # <<>>
  <2>1. Shortest(d) /\ Shortest(c)
    BY <1>7 DEF Written
  <2> QED BY <1>1, <1>2, <2>1, PlacesDecide
<1> QED BY <1>4, <1>5, <1>6, <1>7

(* Texts of numbers are ASCII texts. *)
LEMMA CodesAreText ==
    /\ \A z \in Seq(MantissaCodes) : z \in Seq(NumberCodes) /\ z \in Seq(Int)
    /\ \A z \in Seq(NumberCodes) : z \in Seq(Int) /\ z \in Text
<1>1. /\ MantissaCodes \subseteq NumberCodes /\ MantissaCodes \subseteq Int
      /\ NumberCodes \subseteq Int /\ NumberCodes \subseteq Below(128)
  BY DEF MantissaCodes, NumberCodes, Below
<1>2. Seq(MantissaCodes) \subseteq Seq(NumberCodes)
  BY <1>1, SeqMonotonic
<1>3. Seq(MantissaCodes) \subseteq Seq(Int)
  BY <1>1, SeqMonotonic
<1>4. Seq(NumberCodes) \subseteq Seq(Int)
  BY <1>1, SeqMonotonic
<1>5. Seq(NumberCodes) \subseteq Text
  BY <1>1, SeqMonotonic DEF Text
<1>6. ASSUME NEW z \in Seq(MantissaCodes) PROVE z \in Seq(NumberCodes) /\ z \in Seq(Int)
  BY ONLY <1>2, <1>3, Zenon
<1>7. ASSUME NEW z \in Seq(NumberCodes) PROVE z \in Seq(Int) /\ z \in Text
  BY ONLY <1>4, <1>5, Zenon
<1> QED BY ONLY <1>6, <1>7, Zenon

Power(e) == IF e < 0 THEN <<101, 45>> \o ExponentText(-e) ELSE <<101, 43>> \o ExponentText(e)

(* A power of ten begins with an e. *)
LEMMA PowerType ==
    ASSUME NEW e \in Int, -999 <= e, e <= 999
    PROVE  Power(e) \in Seq(NumberCodes) /\ Power(e) # <<>> /\ Power(e)[1] = 101
<1>1. MantissaCodes \subseteq NumberCodes /\ 101 \in NumberCodes /\ 43 \in NumberCodes /\ 45 \in NumberCodes
  BY DEF MantissaCodes, NumberCodes, Below
<1>2. \A n \in Below(1000) : ExponentText(n) \in Seq(NumberCodes)
  <2> TAKE n \in Below(1000)
  <2>1. ExponentText(n) \in Seq(MantissaCodes)
    BY ExponentTextType
  <2> QED BY <2>1, CodesAreText
<1>3. (e < 0 => -e \in Below(1000)) /\ (~(e < 0) => e \in Below(1000))
  BY DEF Below
<1>4. CASE e < 0
  <2>1. ExponentText(-e) \in Seq(NumberCodes) /\ Power(e) = <<101, 45>> \o ExponentText(-e)
    BY <1>2, <1>3, <1>4 DEF Power
  <2> QED BY <1>1, <2>1
<1>5. CASE ~(e < 0)
  <2>1. ExponentText(e) \in Seq(NumberCodes) /\ Power(e) = <<101, 43>> \o ExponentText(e)
    BY <1>2, <1>3, <1>5 DEF Power
  <2> QED BY <1>1, <2>1
<1> QED BY <1>4, <1>5

(* A power of ten tells its exponent. *)
LEMMA PowerDecoded ==
    ASSUME NEW e \in Int, -999 <= e, e <= 999, NEW g \in Int, -999 <= g, g <= 999, Power(e) = Power(g)
    PROVE  e = g
<1> DEFINE sign(k) == IF k < 0 THEN 45 ELSE 43
           size(k) == IF k < 0 THEN -k ELSE k
           head(k) == <<101, sign(k)>>
<1>1. size(e) \in Below(1000) /\ size(g) \in Below(1000)
  BY DEF Below
<1>2. Power(e) = head(e) \o ExponentText(size(e)) /\ Power(g) = head(g) \o ExponentText(size(g))
  BY DEF Power
<1>3. \A n \in Below(1000) : ExponentText(n) \in Seq(Int)
  <2> TAKE n \in Below(1000)
  <2>1. ExponentText(n) \in Seq(MantissaCodes)
    BY ExponentTextType
  <2> QED BY <2>1, CodesAreText
<1>4. \A k \in Int : head(k) \in Seq(Int) /\ Len(head(k)) = 2 /\ head(k)[2] = sign(k)
  OBVIOUS
<1> HIDE DEF head
<1>5. head(e) = head(g) /\ ExponentText(size(e)) = ExponentText(size(g))
  <2>1. CutAt(head(e), head(g), ExponentText(size(e)), ExponentText(size(g)))
    <3> HIDE DEF size
    <3>1. head(e) \in Seq(Int) /\ head(g) \in Seq(Int)
      BY <1>4
    <3>2. ExponentText(size(e)) \in Seq(Int) /\ ExponentText(size(g)) \in Seq(Int)
      BY <1>1, <1>3
    <3> QED BY <3>1, <3>2, Cut
  <2>2. Len(head(e)) = Len(head(g))
    BY <1>4
  <2>3. head(e) \o ExponentText(size(e)) = head(g) \o ExponentText(size(g))
    <3> HIDE DEF size
    <3> DEFINE left == head(e) \o ExponentText(size(e))
               right == head(g) \o ExponentText(size(g))
    <3>1. Power(e) = left /\ Power(g) = right
      BY <1>2, Zenon
    <3> HIDE DEF left, right
    <3>2. left = right
      BY ONLY <3>1, Power(e) = Power(g), Zenon
    <3> QED BY <3>2 DEF left, right
  <2> HIDE DEF size
  <2> DEFINE y == head(e)
             z == head(g)
             p == ExponentText(size(e))
             q == ExponentText(size(g))
  <2>4. CutAt(y, z, p, q) /\ Len(y) = Len(z) /\ y \o p = z \o q
    BY <2>1, <2>2, <2>3
  <2> HIDE DEF y, z, p, q
  <2>5. y = z /\ p = q
    BY ONLY <2>4, Zenon DEF CutAt
  <2> QED BY <2>5 DEF y, z, p, q
<1>6. sign(e) = sign(g)
  <2>1. head(e)[2] = sign(e) /\ head(g)[2] = sign(g)
    BY <1>4
  <2> HIDE DEF sign
  <2> QED BY <1>5, <2>1
<1>7. size(e) = size(g)
  <2> HIDE DEF size
  <2> QED BY <1>1, <1>5, ExponentDecoded
<1> QED BY <1>6, <1>7

Body(d, e, fixed) == IF fixed THEN FixedText(d, e) ELSE FixedText(d, 0) \o Power(e)

(* The fixed notation is a mantissa. *)
LEMMA FixedTextType ==
    ASSUME NEW d \in Seq(Digits), NEW e \in Int
    PROVE  FixedText(d, e) \in Seq(MantissaCodes) /\ FixedText(d, e) # <<>>
<1>1. FixedShapeOf(FixedText(d, e), d, e)
  BY FixedShape
<1>2. Top(e) \in Nat /\ Behind(d, e) \in Nat
  <2>1. Len(d) \in Nat
    OBVIOUS
  <2> QED BY <2>1 DEF Top, Behind
<1>3. FixedText(d, e) \in Seq(MantissaCodes) /\ Len(FixedText(d, e)) > 0
  BY <1>1, <1>2 DEF FixedShapeOf
<1> QED BY <1>3

(* Either notation of a number without its sign; the e ends the mantissa of *)
(* the scientific one.                                                      *)
LEMMA BodyType ==
    ASSUME NEW d \in Seq(Digits), NEW e \in Int, NEW fixed \in BOOLEAN, fixed \/ (-999 <= e /\ e <= 999)
    PROVE  /\ Body(d, e, fixed) \in Seq(NumberCodes)
           /\ Body(d, e, fixed) # <<>>
           /\ Body(d, e, fixed)[1] \in MantissaCodes
           /\ ~fixed => AvoidsUntil({101}, FixedText(d, 0), Power(e))
<1>1. MantissaCodes \subseteq NumberCodes /\ MantissaCodes \subseteq Int /\ NumberCodes \subseteq Int /\ 101 \notin MantissaCodes
  BY DEF MantissaCodes, NumberCodes, Below
<1>2. CASE fixed
  <2> DEFINE z == FixedText(d, e)
  <2>1. z \in Seq(MantissaCodes) /\ z # <<>> /\ Body(d, e, fixed) = z
    BY <1>2, FixedTextType DEF Body
  <2> HIDE DEF z
  <2>2. z \in Seq(NumberCodes)
    BY <2>1, CodesAreText
  <2>3. z[1] \in MantissaCodes
    BY <2>1
  <2> QED BY <1>2, <2>1, <2>2, <2>3
<1>3. CASE ~fixed
  <2> DEFINE z == FixedText(d, 0)
             p == Power(e)
  <2>1. z \in Seq(MantissaCodes) /\ z # <<>>
    BY FixedTextType
  <2>2. p \in Seq(NumberCodes) /\ p # <<>> /\ p[1] = 101
    BY <1>3, PowerType
  <2>3. Body(d, e, fixed) = z \o p
    BY <1>3 DEF Body
  <2> HIDE DEF z, p
  <2>4. z \in Seq(NumberCodes) /\ z \in Seq(Int) /\ p \in Seq(Int)
    BY <2>1, <2>2, CodesAreText
  <2>5. z \o p \in Seq(NumberCodes)
    BY <2>2, <2>4
  <2>6. z \o p # <<>> /\ (z \o p)[1] = z[1] /\ z[1] \in MantissaCodes
    BY <2>1, <2>2
  <2>7. \A i \in 1 .. Len(z) : z[i] \notin {101}
    BY <1>1, <2>1
  <2> QED BY <2>2, <2>3, <2>4, <2>5, <2>6, <2>7 DEF AvoidsUntil, z, p
<1> QED BY <1>2, <1>3

(* Digits and exponent are told by a notation, and the notations are told *)
(* apart.                                                                 *)
LEMMA BodyDecoded ==
    ASSUME NEW d, NEW e, NEW fd \in BOOLEAN, NEW c, NEW g, NEW fc \in BOOLEAN,
           Written(d, e), Written(c, g), fd \/ (-999 <= e /\ e <= 999), fc \/ (-999 <= g /\ g <= 999),
           Body(d, e, fd) = Body(c, g, fc)
    PROVE  d = c /\ e = g
<1> DEFINE NotScientific(a, k, b, l) == FixedText(a, k) # FixedText(b, 0) \o Power(l)
<1>1. d \in Seq(Digits) /\ e \in Int /\ c \in Seq(Digits) /\ g \in Int
  BY DEF Written
<1>2. ASSUME NEW a \in Seq(Digits), NEW k \in Int, NEW b \in Seq(Digits), NEW l \in Int, -999 <= l, l <= 999
      PROVE  NotScientific(a, k, b, l)
  <2> DEFINE y == FixedText(a, k)
             z == FixedText(b, 0)
             p == Power(l)
  <2>1. y \in Seq(MantissaCodes) /\ z \in Seq(MantissaCodes)
    <3>1. y \in Seq(MantissaCodes)
      BY FixedTextType
    <3>2. z \in Seq(MantissaCodes)
      BY FixedTextType
    <3> QED BY <3>1, <3>2
  <2>2. p \in Seq(NumberCodes) /\ p # <<>> /\ p[1] = 101
    BY <1>2, PowerType
  <2> HIDE DEF y, z, p
  <2>3. (z \o p)[Len(z) + 1] = 101 /\ Len(z) + 1 \in 1 .. Len(z \o p)
    BY <2>1, <2>2
  <2>4. \A i \in 1 .. Len(y) : y[i] # 101
    <3>1. 101 \notin MantissaCodes
      BY DEF MantissaCodes
    <3> QED BY <2>1, <3>1
  <2>5. y # z \o p
    BY <2>3, <2>4
  <2> QED BY <2>5 DEF y, z, p
<1> HIDE DEF NotScientific
<1>3. CASE fd /\ fc
  BY <1>3, FixedIdentifies DEF Body
<1>4. CASE fd /\ ~fc
  <2>1. FixedText(d, e) = FixedText(c, 0) \o Power(g) /\ -999 <= g /\ g <= 999
    BY <1>4 DEF Body
  <2>2. NotScientific(d, e, c, g)
    BY <1>1, <1>2, <2>1
  <2> QED BY <2>1, <2>2 DEF NotScientific
<1>5. CASE ~fd /\ fc
  <2>1. FixedText(c, g) = FixedText(d, 0) \o Power(e) /\ -999 <= e /\ e <= 999
    BY <1>5 DEF Body
  <2>2. NotScientific(c, g, d, e)
    BY <1>1, <1>2, <2>1
  <2> QED BY <2>1, <2>2 DEF NotScientific
<1>6. CASE ~fd /\ ~fc
  <2>1. AvoidsUntil({101}, FixedText(d, 0), Power(e)) /\ AvoidsUntil({101}, FixedText(c, 0), Power(g))
    BY <1>1, <1>6, BodyType
  <2>2. FixedText(d, 0) \o Power(e) = FixedText(c, 0) \o Power(g)
    BY <1>6 DEF Body
  <2>3. FixedText(d, 0) = FixedText(c, 0) /\ Power(e) = Power(g)
    <3> DEFINE B == {101}
               s == FixedText(d, 0)
               x == Power(e)
               t == FixedText(c, 0)
               y == Power(g)
    <3>1. AvoidsUntil(B, s, x) /\ AvoidsUntil(B, t, y) /\ s \o x = t \o y
      BY <2>1, <2>2
    <3> HIDE DEF B, s, x, t, y
    <3>2. s = t /\ x = y
      BY ONLY <3>1, Delimited
    <3> QED BY <3>2 DEF s, x, t, y
  <2>4. e = g
    BY <1>1, <1>6, <2>3, PowerDecoded
  <2>6. Written(d, 0) /\ Written(c, 0)
    BY <1>1 DEF Written
  <2> QED BY <2>3, <2>4, <2>6, FixedIdentifies
<1> QED BY <1>3, <1>4, <1>5, <1>6

-----------------------------------------------------------------------------
(* Numbers *)

(* What a valid number is to the lemmas on notations. *)
LEMMA NumberIs ==
    ASSUME NEW v, NumberValid(v)
    PROVE  /\ Written(v.digits, v.exponent)
           /\ v.negative \in BOOLEAN
           /\ IsInteger(v) \in BOOLEAN
           /\ IsInteger(v) \/ (-999 <= v.exponent /\ v.exponent <= 999)
<1>1. v \in Number /\ (v.digits = <<>> => v.exponent = 0)
      /\ (v.digits # <<>> => v.digits[1] # 0 /\ v.digits[Len(v.digits)] # 0)
      /\ (~IsInteger(v) => -999 <= v.exponent /\ v.exponent <= 999)
  BY DEF NumberValid
<1>2. v.digits \in Seq(Digits) /\ v.exponent \in Int /\ v.negative \in BOOLEAN
  BY <1>1 DEF Number, Digits
<1>3. Written(v.digits, v.exponent)
  <2>1. v.digits # <<>> => Shortest(v.digits)
    BY <1>1, <1>2 DEF Shortest
  <2>2. v.digits = <<>> => v.exponent = 0
    BY <1>1
  <2> QED BY ONLY <1>2, <2>1, <2>2 DEF Written
<1>4. IsInteger(v) \in BOOLEAN
  BY DEF IsInteger
<1> QED BY <1>1, <1>2, <1>3, <1>4

Signed(v) == IF v.negative /\ v.digits # <<>> THEN <<45>> ELSE <<>>

BodyOf(v, fixed) == Body(v.digits, v.exponent, fixed \/ v.digits = <<>>)

(* Zero is written like the number without digits. *)
LEMMA ZeroText == DigitsText(<<0>>) = FixedText(<<>>, 0)
<1> DEFINE z == FixedText(<<>>, 0)
           s == DigitsText(<<0>>)
<1>1. <<>> \in Seq(Digits) /\ <<0>> \in Seq(Digits) /\ Len(<<0>>) = 1
  BY DEF Digits, Below
<1>2. FixedShapeOf(z, <<>>, 0)
  <2> DEFINE none == <<>>
  <2>1. none \in Seq(Digits)
    BY <1>1
  <2> HIDE DEF none
  <2>2. FixedShapeOf(FixedText(none, 0), none, 0)
    BY <2>1, FixedShape
  <2> QED BY <2>2 DEF none
<1>3. Top(0) = 0 /\ Behind(<<>>, 0) = 0
  BY DEF Top, Behind
<1>4. DigitAt(<<>>, 0, 0) = 0
  BY DEF DigitAt
<1> HIDE DEF z
<1>5. z \in Seq(MantissaCodes) /\ Len(z) = 1 /\ z[1] = 48
  <2>1. z \in Seq(MantissaCodes) /\ Len(z) = 1 /\ \A i \in 1 .. 1 : z[i] = 48 + DigitAt(<<>>, 0, 1 - i)
    BY <1>2, <1>3 DEF FixedShapeOf
  <2>2. z[1] = 48 + DigitAt(<<>>, 0, 1 - 1) /\ 1 - 1 = 0
    BY <2>1
  <2> QED BY <1>4, <2>1, <2>2
<1>6. s \in Seq(MantissaCodes) /\ Len(s) = 1 /\ s[1] = 48
  <2> DEFINE d == <<0>>
  <2>1. d \in Seq(Digits) /\ Len(d) = 1 /\ d[1] = 0
    BY <1>1
  <2> HIDE DEF d
  <2>2. DigitsText(d) \in Seq(MantissaCodes) /\ Len(DigitsText(d)) = 1 /\ DigitsText(d)[1] = 48 + d[1]
    BY <2>1, DigitsTextType
  <2>3. 48 + d[1] = 48
    BY <2>1
  <2> QED BY <2>2, <2>3 DEF d
<1> HIDE DEF s
<1>7. s = z
  BY <1>5, <1>6, SeqEqual
<1> QED BY <1>7 DEF s, z

(* A number is written as its sign, unless it is zero, and a notation. *)
LEMMA NumberParts ==
    ASSUME NEW v, NumberValid(v), NEW fixed \in BOOLEAN
    PROVE  NumberText(v, fixed) = Signed(v) \o BodyOf(v, fixed)
<1>1. Written(v.digits, v.exponent) /\ v.negative \in BOOLEAN
  BY NumberIs
<1>2. CASE v.digits = <<>>
  <2>1. v.exponent = 0
    BY <1>1, <1>2 DEF Written
  <2>2. BodyOf(v, fixed) = FixedText(<<>>, 0)
    BY <1>2, <2>1 DEF BodyOf, Body
  <2>3. FixedText(<<>>, 0) \in Seq(MantissaCodes)
    <3>1. v.digits \in Seq(Digits)
      BY <1>1 DEF Written
    <3>2. FixedText(v.digits, 0) \in Seq(MantissaCodes)
      BY <3>1, FixedTextType
    <3> QED BY <1>2, <3>2
  <2>4. Signed(v) = <<>>
    BY <1>2 DEF Signed
  <2>5. <<>> \o FixedText(<<>>, 0) = FixedText(<<>>, 0)
    BY <2>3, ConcatEmptySeq
  <2>6. NumberText(v, fixed) = FixedText(<<>>, 0)
    BY <1>2, ZeroText DEF NumberText
  <2> QED BY <2>2, <2>4, <2>5, <2>6
<1>3. CASE v.digits # <<>>
  <2>1. SignText(v) = Signed(v)
    BY <1>3 DEF SignText, Signed, Ascii
  <2>2. ScientificText(v.digits, v.exponent) = FixedText(v.digits, 0) \o Power(v.exponent)
    BY DEF ScientificText, Power, Ascii
  <2>3. NumberText(v, fixed) = SignText(v) \o (IF fixed THEN FixedText(v.digits, v.exponent) ELSE ScientificText(v.digits, v.exponent))
    BY <1>3 DEF NumberText
  <2>4. BodyOf(v, fixed) = IF fixed THEN FixedText(v.digits, v.exponent) ELSE ScientificText(v.digits, v.exponent)
    BY <1>3, <2>2 DEF BodyOf, Body
  <2> QED BY <2>1, <2>3, <2>4
<1> QED BY <1>2, <1>3

(* A number is written in digits, point, signs and e, a minus first exactly *)
(* if it is negative.                                                       *)
LEMMA NumberTextType ==
    ASSUME NEW v, NumberValid(v), NEW fixed \in BOOLEAN, IsInteger(v) => fixed
    PROVE  /\ NumberText(v, fixed) \in Seq(NumberCodes)
           /\ NumberText(v, fixed) # <<>>
           /\ v.negative /\ v.digits # <<>> => NumberText(v, fixed)[1] = 45
           /\ ~(v.negative /\ v.digits # <<>>) => NumberText(v, fixed)[1] # 45
<1> DEFINE s == Signed(v)
           b == BodyOf(v, fixed)
           t == NumberText(v, fixed)
           bf == fixed \/ v.digits = <<>>
<1>1. /\ v.digits \in Seq(Digits) /\ v.exponent \in Int /\ bf \in BOOLEAN
      /\ bf \/ (-999 <= v.exponent /\ v.exponent <= 999)
  BY NumberIs DEF Written
<1>2. t = s \o b
  BY NumberParts
<1>3. b \in Seq(NumberCodes) /\ b # <<>> /\ b[1] \in MantissaCodes
  <2>1. b = Body(v.digits, v.exponent, bf)
    BY DEF BodyOf
  <2> HIDE DEF b, bf
  <2> QED BY <1>1, <2>1, BodyType
<1>4. 45 \notin MantissaCodes /\ 45 \in NumberCodes
  BY DEF MantissaCodes, NumberCodes, Below
<1> HIDE DEF b, t
<1>5. CASE v.negative /\ v.digits # <<>>
  <2>1. s = <<45>>
    BY <1>5 DEF Signed
  <2> QED BY <1>2, <1>3, <1>4, <1>5, <2>1 DEF t
<1>6. CASE ~(v.negative /\ v.digits # <<>>)
  <2>1. s = <<>>
    BY <1>6 DEF Signed
  <2>2. t = b
    BY <1>2, <1>3, <2>1
  <2> QED BY <1>3, <1>4, <1>6, <2>2 DEF t
<1> QED BY <1>5, <1>6

(* The text of a number tells the number, whichever notation either reader *)
(* chose: 2 from 20, 1e5 from 100000 never, and no zero from another.      *)
LEMMA NumberTextDecoded ==
    ASSUME NEW v, NumberValid(v), NEW fv \in BOOLEAN, IsInteger(v) => fv,
           NEW w, NumberValid(w), NEW fw \in BOOLEAN, IsInteger(w) => fw,
           NumberText(v, fv) = NumberText(w, fw)
    PROVE  v.digits = w.digits /\ v.exponent = w.exponent /\ (v.negative = w.negative \/ v.digits = <<>>)
<1> DEFINE bv == fv \/ v.digits = <<>>
           bw == fw \/ w.digits = <<>>
           nv == v.negative /\ v.digits # <<>>
           nw == w.negative /\ w.digits # <<>>
<1>1. /\ Written(v.digits, v.exponent) /\ bv \in BOOLEAN /\ v.negative \in BOOLEAN
      /\ bv \/ (-999 <= v.exponent /\ v.exponent <= 999)
      /\ Written(w.digits, w.exponent) /\ bw \in BOOLEAN /\ w.negative \in BOOLEAN
      /\ bw \/ (-999 <= w.exponent /\ w.exponent <= 999)
  BY NumberIs
<1>2. nv = nw
  BY NumberTextType
<1>3. Signed(v) = Signed(w)
  BY <1>2 DEF Signed
<1>4. Body(v.digits, v.exponent, bv) \in Seq(NumberCodes) /\ Body(w.digits, w.exponent, bw) \in Seq(NumberCodes)
  <2>1. v.digits \in Seq(Digits) /\ v.exponent \in Int /\ w.digits \in Seq(Digits) /\ w.exponent \in Int
    BY <1>1 DEF Written
  <2> HIDE DEF bv, bw
  <2>2. Body(v.digits, v.exponent, bv) \in Seq(NumberCodes)
    BY <1>1, <2>1, BodyType
  <2>3. Body(w.digits, w.exponent, bw) \in Seq(NumberCodes)
    BY <1>1, <2>1, BodyType
  <2> QED BY <2>2, <2>3
<1>5. Signed(v) \o Body(v.digits, v.exponent, bv) = Signed(v) \o Body(w.digits, w.exponent, bw)
  <2>1. NumberText(v, fv) = Signed(v) \o BodyOf(v, fv)
    BY NumberParts
  <2>2. NumberText(w, fw) = Signed(w) \o BodyOf(w, fw)
    BY NumberParts
  <2> QED BY <1>3, <2>1, <2>2 DEF BodyOf
<1>6. Body(v.digits, v.exponent, bv) = Body(w.digits, w.exponent, bw)
  <2> DEFINE s == Signed(v)
             x == Body(v.digits, v.exponent, bv)
             y == Body(w.digits, w.exponent, bw)
  <2>1. s \in Seq(Int)
    BY DEF Signed
  <2>2. x \in Seq(Int) /\ y \in Seq(Int)
    BY <1>4, CodesAreText
  <2>3. s \o x = s \o y
    BY <1>5
  <2> HIDE DEF s, x, y
  <2>4. CutAt(s, s, x, y)
    BY <2>1, <2>2, Cut
  <2>5. x = y
    BY <2>3, <2>4, Zenon DEF CutAt
  <2> QED BY <2>5 DEF x, y
<1>7. v.digits = w.digits /\ v.exponent = w.exponent
  <2> HIDE DEF bv, bw
  <2> QED BY <1>1, <1>6, BodyDecoded
<1>8. v.negative = w.negative \/ v.digits = <<>>
  BY <1>1, <1>2, <1>7
<1> QED BY <1>7, <1>8

-----------------------------------------------------------------------------
(* The order of keys *)

LexAt(s, t, i) ==
    /\ i \in 1 .. Len(t)
    /\ \A j \in 1 .. i - 1 : j \in 1 .. Len(s) /\ s[j] = t[j]
    /\ i \notin 1 .. Len(s) \/ s[i] < t[i]

(* LexLess, with the first place where the sequences differ. *)
LEMMA LexIs ==
    ASSUME NEW s \in Seq(Int), NEW t \in Seq(Int)
    PROVE  LexLess(s, t) <=> \E i \in Nat : LexAt(s, t, i)
<1>1. DOMAIN s = 1 .. Len(s) /\ DOMAIN t = 1 .. Len(t) /\ Len(t) \in Nat
  OBVIOUS
<1>2. \A i : i \in 1 .. Len(t) => i \in Nat
  BY <1>1
<1> QED BY <1>1, <1>2, Zenon DEF LexLess, LexAt

(* No sequence precedes itself. *)
LEMMA LexIrreflexive == \A s \in Seq(Int) : ~LexLess(s, s)
<1> TAKE s \in Seq(Int)
<1>1. \A i \in Nat : ~LexAt(s, s, i)
  <2> SUFFICES ASSUME NEW i \in Nat, LexAt(s, s, i) PROVE FALSE
    OBVIOUS
  <2>1. i \in 1 .. Len(s) /\ s[i] < s[i]
    BY DEF LexAt
  <2>2. s[i] \in Int
    BY <2>1
  <2> QED BY <2>1, <2>2
<1> QED BY <1>1, LexIs

(* The order of sequences is transitive. *)
LEMMA LexTransitive == \A r, s, t \in Seq(Int) : LexLess(r, s) /\ LexLess(s, t) => LexLess(r, t)
<1> SUFFICES ASSUME NEW r \in Seq(Int), NEW s \in Seq(Int), NEW t \in Seq(Int), LexLess(r, s), LexLess(s, t)
             PROVE  LexLess(r, t)
  OBVIOUS
<1>1. PICK i \in Nat : LexAt(r, s, i)
  BY LexIs
<1>2. PICK k \in Nat : LexAt(s, t, k)
  BY LexIs
<1>3. /\ i \in 1 .. Len(s) /\ k \in 1 .. Len(t)
      /\ \A j \in 1 .. i - 1 : j \in 1 .. Len(r) /\ r[j] = s[j]
      /\ \A j \in 1 .. k - 1 : j \in 1 .. Len(s) /\ s[j] = t[j]
      /\ i \notin 1 .. Len(r) \/ r[i] < s[i]
      /\ k \notin 1 .. Len(s) \/ s[k] < t[k]
  BY <1>1, <1>2 DEF LexAt
<1>4. /\ \A j \in 1 .. Len(r) : r[j] \in Int
      /\ \A j \in 1 .. Len(s) : s[j] \in Int
      /\ \A j \in 1 .. Len(t) : t[j] \in Int
      /\ Len(r) \in Nat /\ Len(s) \in Nat /\ Len(t) \in Nat
  OBVIOUS
<1>5. CASE i < k
  <2>1. i \in 1 .. k - 1
    BY <1>3, <1>5
  <2>2. i \in 1 .. Len(t) /\ s[i] = t[i]
    BY <1>3, <1>4, <2>1
  <2>3. \A j \in 1 .. i - 1 : j \in 1 .. Len(r) /\ r[j] = t[j]
    <3> TAKE j \in 1 .. i - 1
    <3>1. j \in 1 .. k - 1
      BY <2>1
    <3> QED BY <1>3, <3>1
  <2>4. LexAt(r, t, i)
    BY <1>3, <2>2, <2>3 DEF LexAt
  <2> QED BY <2>4, LexIs
<1>6. CASE ~(i < k)
  <2>1. \A j \in 1 .. k - 1 : j \in 1 .. Len(r) /\ r[j] = t[j]
    <3> TAKE j \in 1 .. k - 1
    <3>1. j \in 1 .. i - 1
      BY <1>6
    <3> QED BY <1>3, <3>1
  <2>2. k \in 1 .. Len(s)
    BY <1>3, <1>4, <1>6
  <2>3. k \notin 1 .. Len(r) \/ r[k] < t[k]
    <3>1. s[k] < t[k]
      BY <1>3, <2>2
    <3>2. CASE k < i
      <4>1. k \in 1 .. i - 1
        BY <1>3, <3>2
      <4>2. r[k] = s[k]
        BY <1>3, <4>1
      <4> QED BY <3>1, <4>2
    <3>3. CASE k = i
      <4> SUFFICES ASSUME k \in 1 .. Len(r) PROVE r[k] < t[k]
        OBVIOUS
      <4>1. r[k] < s[k]
        BY <1>3, <3>3
      <4>2. r[k] \in Int /\ s[k] \in Int /\ t[k] \in Int
        BY <1>3, <1>4, <2>2
      <4>3. \A a, b, c \in Int : a < b /\ b < c => a < c
        OBVIOUS
      <4> QED BY <3>1, <4>1, <4>2, <4>3, Zenon
    <3> QED BY <1>6, <3>2, <3>3
  <2>4. LexAt(r, t, k)
    BY <1>3, <2>1, <2>3 DEF LexAt
  <2> QED BY <2>4, LexIs
<1> QED BY <1>5, <1>6

(* Of two sequences one precedes the other. *)
LEMMA LexTotal == \A s, t \in Seq(Int) : s = t \/ LexLess(s, t) \/ LexLess(t, s)
<1> SUFFICES ASSUME NEW s \in Seq(Int), NEW t \in Seq(Int), s # t PROVE LexLess(s, t) \/ LexLess(t, s)
  OBVIOUS
<1> DEFINE D == {i \in Nat : /\ i \in 1 .. Len(s) \/ i \in 1 .. Len(t)
                             /\ ~(i \in 1 .. Len(s) /\ i \in 1 .. Len(t) /\ s[i] = t[i])}
<1>1. Len(s) \in Nat /\ Len(t) \in Nat
  OBVIOUS
<1>2. D # {}
  <2> SUFFICES ASSUME D = {} PROVE FALSE
    OBVIOUS
  <2>1. \A i \in Nat : i \in 1 .. Len(s) \/ i \in 1 .. Len(t) => i \in 1 .. Len(s) /\ i \in 1 .. Len(t) /\ s[i] = t[i]
    OBVIOUS
  <2> HIDE DEF D
  <2>2. Len(s) = Len(t)
    <3>1. ~(Len(s) < Len(t))
      <4>1. Len(t) \in Nat /\ (Len(t) \in 1 .. Len(t) => Len(t) \in 1 .. Len(s))
        BY <1>1, <2>1
      <4> QED BY <1>1, <4>1
    <3>2. ~(Len(t) < Len(s))
      <4>1. Len(s) \in Nat /\ (Len(s) \in 1 .. Len(s) => Len(s) \in 1 .. Len(t))
        BY <1>1, <2>1
      <4> QED BY <1>1, <4>1
    <3> QED BY <1>1, <3>1, <3>2
  <2>3. \A i \in 1 .. Len(s) : s[i] = t[i]
    BY <1>1, <2>1
  <2> QED BY <2>2, <2>3, SeqEqual
<1>3. PICK i \in D : \A k \in D : i <= k
  <2>1. D \in SUBSET Nat
    OBVIOUS
  <2> HIDE DEF D
  <2> QED BY <1>2, <2>1, Least
<1>4. /\ i \in Nat /\ (i \in 1 .. Len(s) \/ i \in 1 .. Len(t))
      /\ ~(i \in 1 .. Len(s) /\ i \in 1 .. Len(t) /\ s[i] = t[i])
  BY <1>3
<1>5. \A j \in 1 .. i - 1 : j \in 1 .. Len(s) /\ j \in 1 .. Len(t) /\ s[j] = t[j]
  <2> TAKE j \in 1 .. i - 1
  <2>1. j \in Nat /\ j < i /\ (j \in 1 .. Len(s) \/ j \in 1 .. Len(t))
    BY <1>1, <1>4
  <2>2. j \notin D
    <3> HIDE DEF D
    <3> QED BY <1>3, <1>4, <2>1
  <2> QED BY <2>1, <2>2
<1> HIDE DEF D
<1>6. CASE i \notin 1 .. Len(s)
  <2>1. LexAt(s, t, i)
    BY <1>4, <1>5, <1>6 DEF LexAt
  <2> QED BY <1>4, <2>1, LexIs
<1>7. CASE i \notin 1 .. Len(t)
  <2>1. LexAt(t, s, i)
    BY <1>4, <1>5, <1>7 DEF LexAt
  <2> QED BY <1>4, <2>1, LexIs
<1>8. CASE i \in 1 .. Len(s) /\ i \in 1 .. Len(t)
  <2>1. s[i] \in Int /\ t[i] \in Int /\ s[i] # t[i]
    BY <1>4, <1>8
  <2>2. CASE s[i] < t[i]
    <3>1. LexAt(s, t, i)
      BY <1>5, <1>8, <2>2 DEF LexAt
    <3> QED BY <1>4, <3>1, LexIs
  <2>3. CASE t[i] < s[i]
    <3>1. LexAt(t, s, i)
      BY <1>5, <1>8, <2>3 DEF LexAt
    <3> QED BY <1>4, <3>1, LexIs
  <2> QED BY <2>1, <2>2, <2>3
<1> QED BY <1>6, <1>7, <1>8

(* Sorting by codes that tell the keys apart lists every key of a finite *)
(* set, and nothing else.                                                *)
LEMMA SortedAre ==
    ASSUME NEW D, IsFiniteSet(D), NEW code \in [D -> Seq(Int)],
           \A a, b \in D : code[a] = code[b] => a = b
    PROVE  /\ Cardinality(D) \in Nat
           /\ Sorted(code) \in [1 .. Cardinality(D) -> D]
           /\ \A k \in D : \E i \in 1 .. Cardinality(D) : Sorted(code)[i] = k
<1> DEFINE n == Cardinality(D)
           Before(k) == {o \in D : LexLess(code[o], code[k])}
           rank == [k \in D |-> Cardinality(Before(k))]
<1>1. n \in Nat
  BY FS_CardinalityType
<1>2. ASSUME NEW k \in D PROVE IsFiniteSet(Before(k)) /\ Cardinality(Before(k)) \in Nat /\ k \notin Before(k) /\ Cardinality(Before(k)) < n
  <2>1. k \notin Before(k)
    BY LexIrreflexive
  <2>2. Before(k) \in SUBSET D /\ Before(k) # D
    BY <2>1
  <2> HIDE DEF Before
  <2>3. IsFiniteSet(Before(k)) /\ Cardinality(Before(k)) <= Cardinality(D) /\ Cardinality(Before(k)) # Cardinality(D)
    <3> DEFINE B == Before(k)
    <3>1. B \in SUBSET D /\ B # D
      BY <2>2
    <3> HIDE DEF B
    <3>2. IsFiniteSet(B) /\ Cardinality(B) <= Cardinality(D) /\ Cardinality(B) # Cardinality(D)
      BY <3>1, FS_Subset
    <3> QED BY <3>2 DEF B
  <2>4. Cardinality(Before(k)) \in Nat
    BY <2>3, FS_CardinalityType
  <2> QED BY <1>1, <2>1, <2>3, <2>4
<1>3. ASSUME NEW a \in D, NEW b \in D, LexLess(code[a], code[b]) PROVE Cardinality(Before(a)) < Cardinality(Before(b))
  <2>1. Before(a) \in SUBSET Before(b)
    <3> SUFFICES ASSUME NEW o \in D, LexLess(code[o], code[a]) PROVE LexLess(code[o], code[b])
      OBVIOUS
    <3>1. code[o] \in Seq(Int) /\ code[a] \in Seq(Int) /\ code[b] \in Seq(Int)
      OBVIOUS
    <3> QED BY <1>3, <3>1, LexTransitive
  <2>2. a \in Before(b)
    BY <1>3
  <2>3. a \notin Before(a) /\ IsFiniteSet(Before(b)) /\ Cardinality(Before(a)) \in Nat /\ Cardinality(Before(b)) \in Nat
    BY <1>2
  <2> DEFINE A == Before(a)
             B == Before(b)
  <2>4. A \in SUBSET B /\ A # B /\ IsFiniteSet(B) /\ Cardinality(A) \in Nat /\ Cardinality(B) \in Nat
    BY <2>1, <2>2, <2>3
  <2> HIDE DEF A, B
  <2>5. Cardinality(A) <= Cardinality(B) /\ Cardinality(A) # Cardinality(B)
    BY <2>4, FS_Subset
  <2>6. Cardinality(A) < Cardinality(B)
    BY <2>4, <2>5
  <2> QED BY <2>6 DEF A, B
<1>4. rank \in [D -> 0 .. n - 1]
  <2> HIDE DEF Before, n
  <2>1. \A k \in D : Cardinality(Before(k)) \in 0 .. n - 1
    BY <1>1, <1>2
  <2> QED BY <2>1
<1>5. \A k \in D : rank[k] = Cardinality(Before(k))
  OBVIOUS
<1>6. ASSUME NEW a \in D, NEW b \in D, rank[a] = rank[b] PROVE a = b
  <2> SUFFICES ASSUME a # b PROVE FALSE
    OBVIOUS
  <2>1. code[a] \in Seq(Int) /\ code[b] \in Seq(Int) /\ code[a] # code[b]
    OBVIOUS
  <2>2. LexLess(code[a], code[b]) \/ LexLess(code[b], code[a])
    BY <2>1, LexTotal
  <2>3. Cardinality(Before(a)) \in Nat /\ Cardinality(Before(b)) \in Nat
    BY <1>2
  <2>4. Cardinality(Before(a)) = Cardinality(Before(b))
    BY <1>5, <1>6
  <2> HIDE DEF Before, rank
  <2>5. Cardinality(Before(a)) < Cardinality(Before(b)) \/ Cardinality(Before(b)) < Cardinality(Before(a))
    BY <1>3, <2>2
  <2> QED BY <2>3, <2>4, <2>5
<1> HIDE DEF rank
<1>7. rank \in Surjection(D, 0 .. n - 1)
  <2>1. rank \in Injection(D, 0 .. n - 1)
    BY <1>4, <1>6 DEF Injection, IsInjective
  <2>2. IsFiniteSet(0 .. n - 1) /\ Cardinality(0 .. n - 1) = n
    <3> HIDE DEF n
    <3>1. 0 \in Int /\ n - 1 \in Int
      BY <1>1
    <3>2. IsFiniteSet(0 .. n - 1) /\ Cardinality(0 .. n - 1) = IF 0 > n - 1 THEN 0 ELSE n - 1 - 0 + 1
      BY <3>1, FS_Interval
    <3> QED BY <1>1, <3>2
  <2> DEFINE I == 0 .. n - 1
  <2>3. rank \in Injection(D, I) /\ IsFiniteSet(I) /\ Cardinality(I) = Cardinality(D)
    BY <2>1, <2>2
  <2> HIDE DEF I
  <2>4. rank \in Surjection(D, I)
    BY <2>3, FS_Injection
  <2> QED BY <2>4 DEF I
<1>8. \A i \in 1 .. n : \E k \in D : rank[k] = i - 1
  <2> HIDE DEF n
  <2> TAKE i \in 1 .. n
  <2>1. i - 1 \in 0 .. n - 1
    BY <1>1
  <2> QED BY <1>7, <2>1 DEF Surjection
<1> DEFINE s == [i \in 1 .. n |-> CHOOSE k \in D : rank[k] = i - 1]
<1>9. Sorted(code) = s
  <2>1. DOMAIN code = D
    OBVIOUS
  <2> QED BY <2>1 DEF Sorted, rank, s
<1>10. \A i \in 1 .. n : s[i] \in D /\ rank[s[i]] = i - 1
  <2> HIDE DEF n
  <2> TAKE i \in 1 .. n
  <2>1. s[i] = CHOOSE k \in D : rank[k] = i - 1
    OBVIOUS
  <2> HIDE DEF s
  <2> QED BY <1>8, <2>1
<1>11. s \in [1 .. n -> D]
  <2>1. s = [i \in 1 .. n |-> s[i]]
    OBVIOUS
  <2> HIDE DEF s, n
  <2> QED BY <1>10, <2>1
<1>12. ASSUME NEW k \in D PROVE \E i \in 1 .. n : s[i] = k
  <2> HIDE DEF s, n
  <2>1. rank[k] \in 0 .. n - 1
    BY <1>4
  <2>2. rank[k] + 1 \in 1 .. n /\ (rank[k] + 1) - 1 = rank[k]
    BY <1>1, <2>1
  <2>3. s[rank[k] + 1] \in D /\ rank[s[rank[k] + 1]] = rank[k]
    BY <1>10, <2>2
  <2>4. s[rank[k] + 1] = k
    BY <1>6, <2>3
  <2> QED BY <2>2, <2>4
<1> QED BY <1>1, <1>9, <1>11, <1>12

-----------------------------------------------------------------------------
(* Lists, arrays and objects *)

(* Strings are sequences of integers. *)
LEMMA StringsAreSeqInt == Strings \subseteq Seq(Int)
<1>1. CodePoints \subseteq Int
  BY DEF CodePoints, Below
<1> QED BY <1>1, SeqMonotonic DEF Strings

(* Sorting lists the keys. *)
LEMMA SortedByCodePointIs ==
    ASSUME NEW K \in SUBSET Strings, IsFiniteSet(K)
    PROVE  /\ Cardinality(K) \in Nat
           /\ SortedByCodePoint(K) \in [1 .. Cardinality(K) -> K]
           /\ \A k \in K : \E i \in 1 .. Cardinality(K) : SortedByCodePoint(K)[i] = k
<1> DEFINE code == [key \in K |-> key]
<1>1. code \in [K -> Seq(Int)] /\ \A a, b \in K : code[a] = code[b] => a = b
  BY StringsAreSeqInt
<1>2. SortedByCodePoint(K) = Sorted(code)
  BY DEF SortedByCodePoint
<1> HIDE DEF code
<1> QED BY <1>1, <1>2, SortedAre

(* Texts concatenate, and the punctuation is text. *)
LEMMA TextsJoin ==
    /\ <<>> \in Text
    /\ \A s, t \in Text : s \o t \in Text
    /\ \A c \in Below(128) : << c >> \in Text /\ << c >> # <<>>
    /\ 44 \in Below(128) /\ 58 \in Below(128) /\ 91 \in Below(128) /\ 93 \in Below(128)
    /\ 123 \in Below(128) /\ 125 \in Below(128)
<1>1. 44 \in Below(128) /\ 58 \in Below(128) /\ 91 \in Below(128) /\ 93 \in Below(128)
      /\ 123 \in Below(128) /\ 125 \in Below(128)
  BY DEF Below
<1> DEFINE C == Below(128)
<1>2. Text = Seq(C)
  BY DEF Text
<1> HIDE DEF C
<1>3. <<>> \in Seq(C) /\ (\A s, t \in Seq(C) : s \o t \in Seq(C)) /\ \A c \in C : << c >> \in Seq(C) /\ << c >> # <<>>
  OBVIOUS
<1> QED BY <1>1, <1>2, <1>3 DEF C

Comma(i) == IF i = 1 THEN <<>> ELSE <<44>>

CommaTexts(texts) == [i \in DOMAIN texts |-> Comma(i) \o texts[i]]

(* A list between commas is a concatenation of texts with their commas, and *)
(* a text.                                                                  *)
LEMMA JoinedIs ==
    ASSUME NEW n \in Nat, NEW texts \in [1 .. n -> Text]
    PROVE  /\ JoinedByCommas(texts) = Concat(CommaTexts(texts))
           /\ CommaTexts(texts) \in [1 .. n -> Text]
           /\ JoinedByCommas(texts) \in Text
<1>1. JoinedByCommas(texts) = Concat(CommaTexts(texts))
  BY DEF JoinedByCommas, CommaTexts, Comma, Ascii
<1>2. \A i \in 1 .. n : Comma(i) \in Text
  BY TextsJoin DEF Comma
<1>3. \A i \in 1 .. n : Comma(i) \o texts[i] \in Text
  BY <1>2, TextsJoin
<1>4. CommaTexts(texts) \in [1 .. n -> Text]
  BY <1>3 DEF CommaTexts
<1>5. Concat(CommaTexts(texts)) \in Text
  <2> DEFINE t == CommaTexts(texts)
             C == Below(128)
  <2>1. t \in [1 .. n -> Seq(C)]
    BY <1>4 DEF Text
  <2> HIDE DEF t, C
  <2>2. Concat(t) \in Seq(C)
    BY <2>1, ConcatType
  <2> QED BY <2>2 DEF t, C, Text
<1> QED BY <1>1, <1>4, <1>5

(* A text between brackets is a text that begins with the bracket. *)
LEMMA BracketedType ==
    ASSUME NEW a \in Below(128), NEW b \in Below(128), NEW t \in Text
    PROVE  /\ << a >> \o t \o << b >> \in Text
           /\ << a >> \o t \o << b >> # <<>>
           /\ (<< a >> \o t \o << b >>)[1] = a
<1>1. << a >> \in Text /\ << b >> \in Text
  BY TextsJoin
<1>2. << a >> \o t \in Text
  BY <1>1, TextsJoin
<1>3. << a >> \o t \o << b >> \in Text
  BY <1>1, <1>2, TextsJoin
<1>4. << a >> \o t \o << b >> # <<>> /\ (<< a >> \o t \o << b >>)[1] = a
  BY DEF Text
<1> QED BY <1>3, <1>4

(* The text of an array begins with a bracket. *)
LEMMA ArrayTextType ==
    ASSUME NEW n \in Nat, NEW texts \in [1 .. n -> Text]
    PROVE  ArrayText(texts) \in Text /\ ArrayText(texts) # <<>> /\ ArrayText(texts)[1] = 91
<1> DEFINE t == JoinedByCommas(texts)
<1>1. t \in Text
  BY JoinedIs
<1>2. ArrayText(texts) = <<91>> \o t \o <<93>>
  BY DEF ArrayText, Ascii
<1> HIDE DEF t
<1> QED BY <1>1, <1>2, TextsJoin, BracketedType

MemberTexts(keys, values) == [i \in DOMAIN keys |-> keys[i] \o <<58>> \o values[i]]

(* A key, a colon and a value are a text. *)
LEMMA MemberTextsType ==
    ASSUME NEW n \in Nat, NEW keys \in [1 .. n -> Text], NEW values \in [1 .. n -> Text]
    PROVE  MemberTexts(keys, values) \in [1 .. n -> Text]
<1>1. \A i \in 1 .. n : keys[i] \o <<58>> \o values[i] \in Text
  <2> TAKE i \in 1 .. n
  <2>1. keys[i] \in Text /\ values[i] \in Text /\ <<58>> \in Text
    BY TextsJoin
  <2>2. keys[i] \o <<58>> \in Text
    BY <2>1, TextsJoin
  <2> QED BY <2>1, <2>2, TextsJoin
<1> QED BY <1>1 DEF MemberTexts

(* The text of an object begins with a brace. *)
LEMMA ObjectTextType ==
    ASSUME NEW n \in Nat, NEW keys \in [1 .. n -> Text], NEW values \in [1 .. n -> Text]
    PROVE  /\ ObjectText(keys, values) = <<123>> \o JoinedByCommas(MemberTexts(keys, values)) \o <<125>>
           /\ ObjectText(keys, values) \in Text
           /\ ObjectText(keys, values) # <<>> /\ ObjectText(keys, values)[1] = 123
<1> DEFINE m == MemberTexts(keys, values)
           t == JoinedByCommas(m)
<1>1. m \in [1 .. n -> Text]
  BY MemberTextsType
<1>2. t \in Text
  <2> HIDE DEF m
  <2> QED BY <1>1, JoinedIs
<1>3. ObjectText(keys, values) = <<123>> \o t \o <<125>>
  BY DEF ObjectText, MemberTexts, Ascii
<1> HIDE DEF t, m
<1>4. /\ <<123>> \o t \o <<125>> \in Text
      /\ <<123>> \o t \o <<125>> # <<>> /\ (<<123>> \o t \o <<125>>)[1] = 123
  BY <1>2, TextsJoin, BracketedType
<1> QED BY <1>3, <1>4 DEF t, m

ObjectIs(f) ==
    /\ DOMAIN f \in SUBSET Strings /\ IsFiniteSet(DOMAIN f)
    /\ f \in [DOMAIN f -> Values]

ValueIs(v) ==
    \/ v.kind = "number" /\ NumberValid(v)
    \/ v.kind = "string" /\ v \in [kind : {"string"}, chars : Strings]
    \/ v.kind = "array" /\ v \in [kind : {"array"}, items : Seq(Values)]
    \/ v.kind = "object" /\ v = ObjectValue(v.members) /\ ObjectIs(v.members)
    \/ v.kind = "bool" /\ v \in [kind : {"bool"}, truth : BOOLEAN]
    \/ v.kind \in {"null", "nonfinite"} /\ v \in [kind : {"null", "nonfinite"}]

(* ValueValid, kind by kind. *)
LEMMA ValuesAre == \A v \in Values : ValueIs(v)
<1> SUFFICES ASSUME NEW v \in Values PROVE ValueIs(v)
  OBVIOUS
<1>1. ValueValid(v)
  BY ValuesAssumption
<1>2. CASE v.kind = "number"
  BY <1>1, <1>2 DEF ValueValid, ValueIs
<1>3. CASE v.kind = "string"
  BY <1>1, <1>3 DEF ValueValid, ValueIs
<1>4. CASE v.kind = "array"
  BY <1>1, <1>4 DEF ValueValid, ValueIs
<1>5. CASE v.kind = "object"
  BY <1>1, <1>5 DEF ValueValid, ValueIs, ObjectIs
<1>6. CASE v.kind = "bool"
  BY <1>1, <1>6 DEF ValueValid, ValueIs
<1>7. CASE v.kind \notin {"number", "string", "array", "object", "bool"}
  <2>1. v \in [kind : {"null", "nonfinite"}]
    BY <1>1, <1>7 DEF ValueValid
  <2> QED BY <2>1 DEF ValueIs
<1> QED BY <1>2, <1>3, <1>4, <1>5, <1>6, <1>7

KeysOf(f) == SortedByCodePoint(DOMAIN f)

KeyTexts(f) == [i \in DOMAIN KeysOf(f) |-> PyString(KeysOf(f)[i])]

ValueTexts(f, text) == [i \in DOMAIN KeysOf(f) |-> text[f[KeysOf(f)[i]]]]

ItemTexts(items, text) == [i \in DOMAIN items |-> text[items[i]]]

(* PyText, kind by kind. *)
LEMMA PyTextIs ==
    ASSUME NEW v, NEW text
    PROVE  /\ v.kind = "number" => PyText(v, text) = PyNumber(v)
           /\ v.kind = "string" => PyText(v, text) = PyString(v.chars)
           /\ v.kind = "array" => PyText(v, text) = ArrayText(ItemTexts(v.items, text))
           /\ v.kind = "object" => PyText(v, text) = ObjectText(KeyTexts(v.members), ValueTexts(v.members, text))
           /\ v.kind \in {"null", "bool", "nonfinite"} => PyText(v, text) = LiteralText(v)
BY DEF PyText, ItemTexts, KeyTexts, ValueTexts, KeysOf

(* Parts, kind by kind. *)
LEMMA PartsAre ==
    /\ \A v : v.kind = "array" => Parts(v) = {v.items[i] : i \in DOMAIN v.items}
    /\ \A v : v.kind = "object" => Parts(v) = {v.members[k] : k \in DOMAIN v.members}
    /\ \A f : ObjectValue(f).kind = "object" /\ ObjectValue(f).members = f
BY DEF Parts, ObjectValue

(* The parts of a value are values. *)
LEMMA PartsInValues == \A v \in Values : Parts(v) \subseteq Values
<1> SUFFICES ASSUME NEW v \in Values PROVE Parts(v) \subseteq Values
  OBVIOUS
<1>1. ValueIs(v)
  BY ValuesAre
<1>2. CASE v.kind = "array"
  <2>1. v.items \in Seq(Values)
    BY <1>1, <1>2 DEF ValueIs
  <2>2. \A i \in DOMAIN v.items : v.items[i] \in Values
    BY <2>1
  <2> QED BY <1>2, <2>2, PartsAre
<1>3. CASE v.kind = "object"
  <2>1. ObjectIs(v.members)
    BY <1>1, <1>3 DEF ValueIs
  <2>2. \A k \in DOMAIN v.members : v.members[k] \in Values
    BY <2>1 DEF ObjectIs
  <2> QED BY <1>3, <2>2, PartsAre
<1>4. CASE v.kind # "array" /\ v.kind # "object"
  BY <1>4 DEF Parts
<1> QED BY <1>2, <1>3, <1>4

(* The texts of the keys and the values of an object. *)
LEMMA ObjectTexts ==
    ASSUME NEW f, ObjectIs(f), NEW text, \A k \in DOMAIN f : text[f[k]] \in Text
    PROVE  LET n == Cardinality(DOMAIN f) IN
           /\ n \in Nat
           /\ KeysOf(f) \in [1 .. n -> DOMAIN f]
           /\ KeyTexts(f) \in [1 .. n -> Text]
           /\ ValueTexts(f, text) \in [1 .. n -> Text]
<1> DEFINE n == Cardinality(DOMAIN f)
<1>1. n \in Nat /\ KeysOf(f) \in [1 .. n -> DOMAIN f]
  <2> DEFINE K == DOMAIN f
  <2>1. K \in SUBSET Strings /\ IsFiniteSet(K)
    BY DEF ObjectIs
  <2> HIDE DEF K
  <2>2. Cardinality(K) \in Nat /\ SortedByCodePoint(K) \in [1 .. Cardinality(K) -> K]
    BY <2>1, SortedByCodePointIs
  <2> QED BY <2>2 DEF K, KeysOf
<1>2. DOMAIN f \subseteq Strings
  BY DEF ObjectIs
<1> HIDE DEF n
<1>3. KeyTexts(f) \in [1 .. n -> Text]
  <2>1. \A i \in 1 .. n : PyString(KeysOf(f)[i]) \in Text
    <3> TAKE i \in 1 .. n
    <3>1. KeysOf(f)[i] \in Strings
      BY <1>1, <1>2
    <3> QED BY <3>1, StringType
  <2> QED BY <1>1, <2>1 DEF KeyTexts
<1>4. ValueTexts(f, text) \in [1 .. n -> Text]
  <2>1. \A i \in 1 .. n : text[f[KeysOf(f)[i]]] \in Text
    BY <1>1
  <2> QED BY <1>1, <2>1 DEF ValueTexts
<1> QED BY <1>1, <1>3, <1>4 DEF n

(* Literals are texts that are not empty. *)
LEMMA LiteralType ==
    ASSUME NEW v, v.kind \in {"null", "bool", "nonfinite"}
    PROVE  LiteralText(v) \in Text /\ LiteralText(v) # <<>>
<1>1. \A c \in {0, 97, 101, 102, 108, 110, 114, 115, 116, 117} : c \in Below(128)
  BY DEF Below
<1> DEFINE C == Below(128)
<1>2. /\ 0 \in C /\ 97 \in C /\ 101 \in C /\ 102 \in C /\ 108 \in C /\ 110 \in C /\ 114 \in C
      /\ 115 \in C /\ 116 \in C /\ 117 \in C
  BY <1>1
<1> HIDE DEF C
<1>3. /\ <<110, 117, 108, 108>> \in Seq(C) /\ <<116, 114, 117, 101>> \in Seq(C)
      /\ <<102, 97, 108, 115, 101>> \in Seq(C) /\ <<0>> \in Seq(C)
  BY <1>2
<1>4. \/ LiteralText(v) = <<110, 117, 108, 108>> \/ LiteralText(v) = <<116, 114, 117, 101>>
      \/ LiteralText(v) = <<102, 97, 108, 115, 101>> \/ LiteralText(v) = <<0>>
  BY DEF LiteralText, Raises
<1>5. LiteralText(v) \in Seq(C) /\ LiteralText(v) # <<>>
  <2>1. CASE LiteralText(v) = <<110, 117, 108, 108>>
    BY <1>3, <2>1
  <2>2. CASE LiteralText(v) = <<116, 114, 117, 101>>
    BY <1>3, <2>2
  <2>3. CASE LiteralText(v) = <<102, 97, 108, 115, 101>>
    BY <1>3, <2>3
  <2>4. CASE LiteralText(v) = <<0>>
    BY <1>3, <2>4
  <2> QED BY <1>4, <2>1, <2>2, <2>3, <2>4
<1> QED BY <1>5 DEF Text, C

(* Python writes a number in the codes of numbers. *)
LEMMA PyNumberType ==
    ASSUME NEW v, NumberValid(v)
    PROVE  PyNumber(v) \in Seq(NumberCodes) /\ PyNumber(v) # <<>>
<1> DEFINE fixed == IsInteger(v) \/ v.exponent \in -4 .. 15
<1>1. fixed \in BOOLEAN /\ (IsInteger(v) => fixed)
  BY NumberIs
<1>2. PyNumber(v) = NumberText(v, fixed)
  BY DEF PyNumber
<1> HIDE DEF fixed
<1> QED BY <1>1, <1>2, NumberTextType

(* Python writes a value as ASCII text that is not empty. *)
LEMMA PyTextType ==
    ASSUME NEW v, ValueIs(v), NEW text, \A w \in Parts(v) : text[w] \in Text
    PROVE  PyText(v, text) \in Text /\ PyText(v, text) # <<>>
<1>1. CASE v.kind = "number"
  <2>1. NumberValid(v)
    BY <1>1 DEF ValueIs
  <2>2. PyNumber(v) \in Seq(NumberCodes) /\ PyNumber(v) # <<>>
    BY <2>1, PyNumberType
  <2>3. PyNumber(v) \in Text
    BY <2>2, CodesAreText
  <2> QED BY <1>1, <2>2, <2>3, PyTextIs
<1>2. CASE v.kind = "string"
  <2>1. v.chars \in Strings
    BY <1>2 DEF ValueIs
  <2> QED BY <1>2, <2>1, StringType, PyTextIs
<1>3. CASE v.kind = "array"
  <2>1. v.items \in Seq(Values)
    BY <1>3 DEF ValueIs
  <2>2. PICK n \in Nat : v.items \in [1 .. n -> Values]
    BY <2>1, SeqDef
  <2>3. \A i \in 1 .. n : text[v.items[i]] \in Text
    BY <1>3, <2>2, PartsAre
  <2>4. ItemTexts(v.items, text) \in [1 .. n -> Text]
    BY <2>2, <2>3 DEF ItemTexts
  <2>5. ArrayText(ItemTexts(v.items, text)) \in Text /\ ArrayText(ItemTexts(v.items, text)) # <<>>
    BY <2>4, ArrayTextType
  <2> QED BY <1>3, <2>5, PyTextIs
<1>4. CASE v.kind = "object"
  <2> DEFINE f == v.members
             n == Cardinality(DOMAIN f)
  <2>1. ObjectIs(f)
    BY <1>4 DEF ValueIs
  <2>2. \A k \in DOMAIN f : text[f[k]] \in Text
    BY <1>4, PartsAre
  <2>3. n \in Nat /\ KeyTexts(f) \in [1 .. n -> Text] /\ ValueTexts(f, text) \in [1 .. n -> Text]
    <3> HIDE DEF f
    <3> QED BY <2>1, <2>2, ObjectTexts
  <2> HIDE DEF f, n
  <2>4. ObjectText(KeyTexts(f), ValueTexts(f, text)) \in Text /\ ObjectText(KeyTexts(f), ValueTexts(f, text)) # <<>>
    BY <2>3, ObjectTextType
  <2> QED BY <1>4, <2>4, PyTextIs DEF f
<1>5. CASE v.kind \in {"null", "bool", "nonfinite"}
  BY <1>5, LiteralType, PyTextIs
<1>6. v.kind \in {"number", "string", "array", "object", "null", "bool", "nonfinite"}
  BY DEF ValueIs
<1> QED BY <1>1, <1>2, <1>3, <1>4, <1>5, <1>6

-----------------------------------------------------------------------------
(* The texts of all values *)

(* A part is a value, less deep than the whole. *)
LEMMA DepthFalls ==
    /\ Depth \in [Values -> Nat]
    /\ \A v \in Values : \A w \in Parts(v) : w \in Values /\ Depth[w] < Depth[v]
BY DepthAssumption, PartsInValues

(* The recursion of PyTexts has its solution: every value has a text, that *)
(* of PyText from the texts of its parts.                                  *)
LEMMA PyTextsAre ==
    /\ PyTexts \in [Values -> Text]
    /\ \A v \in Values : PyTexts[v] = PyText(v, [part \in Parts(v) |-> PyTexts[part]])
<1> DEFINE Step(f) == [v \in Values |-> PyText(v, [part \in Parts(v) |-> f[part]])]
           F == [f \in [Values -> Text] |-> Step(f)]
<1>1. ASSUME NEW f \in [Values -> Text] PROVE Step(f) \in [Values -> Text]
  <2>1. ASSUME NEW v \in Values PROVE PyText(v, [part \in Parts(v) |-> f[part]]) \in Text
    <3> DEFINE text == [part \in Parts(v) |-> f[part]]
    <3>1. \A w \in Parts(v) : text[w] \in Text
      BY DepthFalls
    <3>2. ValueIs(v)
      BY ValuesAre
    <3> HIDE DEF text
    <3>3. PyText(v, text) \in Text
      BY <3>1, <3>2, PyTextType
    <3> QED BY <3>3 DEF text
  <2> QED BY <2>1
<1>2. ASSUME NEW f \in [Values -> Text], NEW g \in [Values -> Text], NEW v \in Values,
             \A w \in Values : Depth[w] < Depth[v] => f[w] = g[w]
      PROVE  F[f][v] = F[g][v]
  <2>1. [part \in Parts(v) |-> f[part]] = [part \in Parts(v) |-> g[part]]
    BY <1>2, DepthFalls
  <2>2. F[f][v] = PyText(v, [part \in Parts(v) |-> f[part]]) /\ F[g][v] = PyText(v, [part \in Parts(v) |-> g[part]])
    OBVIOUS
  <2> QED BY <2>1, <2>2
<1>3. F \in [[Values -> Text] -> [Values -> Text]]
  <2> HIDE DEF Step
  <2> QED BY <1>1
<1>4. Contractive(F, Values, Text, Depth)
  <2>1. Text # {}
    BY TextsJoin
  <2> HIDE DEF F
  <2> QED BY <1>2, <1>3, <2>1, DepthFalls DEF Contractive
<1>5. PICK f \in [Values -> Text] : f = F[f]
  <2> HIDE DEF F
  <2> QED BY <1>4, Recursive
<1>6. f = Step(f)
  <2> HIDE DEF Step
  <2> QED BY <1>5
<1>7. PyTexts = Step(PyTexts)
  <2> DEFINE g == CHOOSE g : g = Step(g)
  <2>1. g = Step(g)
    BY <1>6
  <2>2. PyTexts = g
    BY DEF PyTexts
  <2> HIDE DEF Step, g
  <2> QED BY <2>1, <2>2
<1>8. \A v \in Values : PyTexts[v] = PyText(v, [part \in Parts(v) |-> PyTexts[part]])
  <2>1. \A v \in Values : Step(PyTexts)[v] = PyText(v, [part \in Parts(v) |-> PyTexts[part]])
    OBVIOUS
  <2> HIDE DEF Step
  <2> QED BY <1>7, <2>1
<1>9. \A v \in Values : PyTexts[v] \in Text
  <2> DEFINE P == {v \in Values : PyTexts[v] \in Text}
  <2>1. ASSUME NEW v \in Values, \A w \in Values : Depth[w] < Depth[v] => w \in P PROVE v \in P
    <3> DEFINE text == [part \in Parts(v) |-> PyTexts[part]]
    <3>1. \A w \in Parts(v) : text[w] \in Text
      BY <2>1, DepthFalls
    <3>2. ValueIs(v)
      BY ValuesAre
    <3>3. PyTexts[v] = PyText(v, text)
      BY <1>8
    <3> HIDE DEF text
    <3> QED BY <3>1, <3>2, <3>3, PyTextType
  <2>2. P \in SUBSET Values
    OBVIOUS
  <2> HIDE DEF P
  <2>3. P = Values
    BY <2>1, <2>2, DepthFalls, HeightInduction
  <2> QED BY <2>3 DEF P
<1>10. PyTexts \in [Values -> Text]
  <2>1. PyTexts = [v \in Values |-> PyTexts[v]]
    <3>1. Step(PyTexts) = [v \in Values |-> Step(PyTexts)[v]]
      OBVIOUS
    <3> HIDE DEF Step
    <3> QED BY <1>7, <3>1
  <2> QED BY <1>9, <2>1
<1> QED BY <1>8, <1>10

-----------------------------------------------------------------------------
(* Types and verdicts *)

(* Objects on the keys, by their domain. *)
LEMMA ObjectsAre ==
    /\ \A f : f \in Objects <=> DOMAIN f \in SUBSET Keys /\ IsFiniteSet(DOMAIN f) /\ f \in [DOMAIN f -> Values]
    /\ \A f \in Objects : ObjectIs(f)
<1>1. ASSUME NEW f PROVE f \in Objects <=> DOMAIN f \in SUBSET Keys /\ IsFiniteSet(DOMAIN f) /\ f \in [DOMAIN f -> Values]
  BY DEF Objects
<1>2. \A f \in Objects : ObjectIs(f)
  BY <1>1, KeysAssumption DEF ObjectIs
<1> QED BY <1>1, <1>2

(* An edited object is an object. *)
LEMMA EditedObjects ==
    /\ \A f \in Objects, key \in Keys, value \in Values : With(f, key, value) \in Objects
    /\ \A f \in Objects : \A key : Without(f, key) \in Objects
<1>1. ASSUME NEW f \in Objects, NEW key \in Keys, NEW value \in Values PROVE With(f, key, value) \in Objects
  <2> DEFINE K == DOMAIN f
             g == With(f, key, value)
  <2>1. K \in SUBSET Keys /\ IsFiniteSet(K) /\ \A k \in K : f[k] \in Values
    BY ObjectsAre
  <2>2. g = [k \in K \union {key} |-> IF k = key THEN value ELSE f[k]]
    BY DEF With
  <2>3. IsFiniteSet(K \union {key})
    <3> HIDE DEF K
    <3> QED BY <2>1, FS_AddElement
  <2>4. DOMAIN g = K \union {key} /\ g \in [K \union {key} -> Values]
    <3> HIDE DEF K
    <3> QED BY <2>1, <2>2
  <2> HIDE DEF g, K
  <2>5. g \in Objects
    BY <2>1, <2>3, <2>4, ObjectsAre
  <2> QED BY <2>5 DEF g
<1>2. ASSUME NEW f \in Objects, NEW key PROVE Without(f, key) \in Objects
  <2> DEFINE K == DOMAIN f
             g == Without(f, key)
  <2>1. K \in SUBSET Keys /\ IsFiniteSet(K) /\ \A k \in K : f[k] \in Values
    BY ObjectsAre
  <2>2. g = [k \in K \ {key} |-> f[k]]
    BY DEF Without
  <2>3. IsFiniteSet(K \ {key})
    <3> HIDE DEF K
    <3> QED BY <2>1, FS_RemoveElement
  <2>4. DOMAIN g = K \ {key} /\ g \in [K \ {key} -> Values]
    <3> HIDE DEF K
    <3> QED BY <2>1, <2>2
  <2> HIDE DEF g, K
  <2>5. g \in Objects
    BY <2>1, <2>3, <2>4, ObjectsAre
  <2> QED BY <2>5 DEF g
<1> QED BY <1>1, <1>2

(* The text of an artifact is ASCII and not empty. *)
LEMMA PythonText ==
    ASSUME NEW f \in Objects
    PROVE  TextOf("python", f) \in Text /\ TextOf("python", f) # <<>>
<1> DEFINE v == ObjectValue(f)
<1>1. v.kind = "object" /\ v.members = f /\ ObjectIs(f)
  BY PartsAre, ObjectsAre
<1>2. ValueIs(v)
  <2>1. v = ObjectValue(v.members)
    BY <1>1
  <2> HIDE DEF v
  <2> QED BY <1>1, <2>1 DEF ValueIs
<1>3. \A w \in Parts(v) : PyTexts[w] \in Text
  <2>1. Parts(v) \subseteq Values
    <3> HIDE DEF v
    <3> QED BY <1>1, PartsAre DEF ObjectIs
  <2> QED BY <2>1, PyTextsAre
<1>4. PyText(v, PyTexts) \in Text /\ PyText(v, PyTexts) # <<>>
  <2> HIDE DEF v
  <2> QED BY <1>2, <1>3, PyTextType
<1> QED BY <1>4 DEF TextOf

Steps ==
    \/ \E key \in Keys, value \in Values : Build(key, value)
    \/ TakeFingerprint
    \/ \E edited \in Objects : Edit(edited)
    \/ \E reader \in Readers : Read(reader)
    \/ UNCHANGED vars

(* Every step edits to an object on the keys. *)
LEMMA StepsAre ==
    ASSUME TypeOK, [Next]_vars
    PROVE  Steps
<1>1. file \in Objects
  BY DEF TypeOK
<1>2. ASSUME NEW key \in Keys, NEW value \in Values, Edit(With(file, key, value)) PROVE Steps
  BY <1>1, <1>2, EditedObjects DEF Steps
<1>3. ASSUME NEW key \in DOMAIN file, Edit(Without(file, key)) PROVE Steps
  BY <1>1, <1>3, EditedObjects DEF Steps
<1>4. CASE Next
  BY <1>2, <1>3, <1>4, Zenon DEF Next, Steps
<1>5. CASE UNCHANGED vars
  BY <1>5 DEF Steps
<1> QED BY <1>4, <1>5

Verdicts == {"open", "match", "mismatch", "refused"}

(* Every step keeps TypeOK. *)
LEMMA TypeStep ==
    ASSUME TypeOK, [Next]_vars
    PROVE  TypeOK'
<1>1. Steps
  BY StepsAre
<1> USE DEF TypeOK
<1>2. CASE \E key \in Keys, value \in Values : Build(key, value)
  <2>1. PICK key \in Keys, value \in Values : Build(key, value)
    BY <1>2
  <2>2. artifact' \in Objects /\ file' \in Objects
    BY <2>1, EditedObjects DEF Build
  <2> QED BY <2>1, <2>2 DEF Build, Referenced
<1>3. CASE TakeFingerprint
  <2>1. reference' \in Text
    BY <1>3, PythonText DEF TakeFingerprint
  <2>2. verdict = Open
    BY <1>3 DEF TakeFingerprint, Referenced
  <2> QED BY <1>3, <2>1, <2>2 DEF TakeFingerprint
<1>4. CASE \E edited \in Objects : Edit(edited)
  <2>1. PICK edited \in Objects : Edit(edited)
    BY <1>4
  <2>2. Open \in [Readers -> Verdicts]
    BY DEF Open, Verdicts
  <2>3. edits' \in 0 .. MaxEdits
    BY <2>1, BoundsAssumption DEF Edit
  <2> QED BY <2>1, <2>2, <2>3 DEF Edit, Verdicts, Referenced
<1>5. CASE \E reader \in Readers : Read(reader)
  <2>1. PICK reader \in Readers : Read(reader)
    BY <1>5
  <2>2. verdict' \in [Readers -> Verdicts]
    BY <2>1 DEF Read, Verdicts
  <2> QED BY <2>1, <2>2 DEF Read, Verdicts, Referenced
<1>6. CASE UNCHANGED vars
  BY <1>6 DEF vars, Referenced
<1> QED BY <1>1, <1>2, <1>3, <1>4, <1>5, <1>6 DEF Steps

(* TypeOK holds initially. *)
LEMMA TypeInit == Init => TypeOK
<1> SUFFICES ASSUME Init PROVE TypeOK
  OBVIOUS
<1> DEFINE f == [key \in {} |-> {}]
<1>1. f \in Objects
  <2>1. DOMAIN f = {} /\ f \in [{} -> Values]
    OBVIOUS
  <2> HIDE DEF f
  <2> QED BY <2>1, ObjectsAre, FS_EmptySet
<1>2. <<>> \in Text
  BY TextsJoin
<1>3. 0 \in 0 .. MaxEdits
  BY BoundsAssumption
<1> QED BY <1>1, <1>2, <1>3 DEF Init, TypeOK, Open

(* Artifact and file stay objects on the keys, the reference is ASCII text, *)
(* and nothing is read before there is one (TypeOK).                        *)
THEOREM TypeCorrect == Spec => []TypeOK
BY TypeInit, TypeStep, PTL DEF Spec

ReferenceTrue == reference # <<>> => reference = TextOf("python", artifact)

Judged(text) == IF Refused(text) THEN "refused" ELSE IF text = reference THEN "match" ELSE "mismatch"

VerdictsTrue ==
    /\ ReferenceTrue
    /\ \A r \in Readers : verdict[r] # "open" => Referenced /\ verdict[r] = Judged(TextOf(r, file))

(* A verdict that stands is what its reader makes of the file as it now is   *)
(* against the text of the artifact the fingerprint was taken of: an edit in *)
(* between leaves none standing.                                             *)
THEOREM VerdictsCorrect == Spec => []VerdictsTrue
<1> USE DEF VerdictsTrue, ReferenceTrue
<1>1. Init => VerdictsTrue
  BY DEF Init, Open
<1>2. TypeOK /\ VerdictsTrue /\ [Next]_vars => VerdictsTrue'
  <2> SUFFICES ASSUME TypeOK, VerdictsTrue, [Next]_vars PROVE VerdictsTrue'
    OBVIOUS
  <2>1. Steps
    BY StepsAre
  <2>2. reference = <<>> => \A r \in Readers : verdict[r] = "open"
    BY DEF TypeOK, Referenced, Open
  <2>3. CASE \E key \in Keys, value \in Values : Build(key, value)
    BY <2>2, <2>3 DEF Build
  <2>4. CASE TakeFingerprint
    BY <2>2, <2>4 DEF TakeFingerprint
  <2>5. CASE \E edited \in Objects : Edit(edited)
    BY <2>5 DEF Edit, Open
  <2>6. CASE \E reader \in Readers : Read(reader)
    <3>1. PICK reader \in Readers : Read(reader)
      BY <2>6
    <3>2. ReferenceTrue'
      BY <3>1 DEF Read
    <3>3. verdict' = [verdict EXCEPT ![reader] = Judged(TextOf(reader, file))] /\ Referenced /\ UNCHANGED <<file, reference>>
      BY <3>1 DEF Read, Judged
    <3>4. verdict \in [Readers -> Verdicts]
      BY DEF TypeOK, Verdicts
    <3>5. ASSUME NEW r \in Readers, verdict'[r] # "open" PROVE Referenced' /\ verdict'[r] = Judged(TextOf(r, file))'
      <4>1. Referenced'
        BY <3>3 DEF Referenced
      <4>2. Judged(TextOf(r, file))' = Judged(TextOf(r, file))
        BY <3>3 DEF Judged
      <4>3. CASE r = reader
        BY <3>3, <3>4, <4>1, <4>2, <4>3
      <4>4. CASE r # reader
        BY <3>3, <3>4, <3>5, <4>1, <4>2, <4>4
      <4> QED BY <4>3, <4>4
    <3> QED BY <3>2, <3>5
  <2>7. CASE UNCHANGED vars
    BY <2>7 DEF vars, Judged, Referenced
  <2> QED BY <2>1, <2>3, <2>4, <2>5, <2>6, <2>7 DEF Steps
<1> QED BY <1>1, <1>2, TypeCorrect, PTL DEF Spec

-----------------------------------------------------------------------------
(* The two languages write alike *)

(* The characters both languages write alike *)
Shared == {c \in CodePoints : c # 127 /\ ~Surrogate(c)}

Utf8Of1(c) == c < 128 /\ Utf8(c) = <<c>>
Utf8Of2(c) == 128 <= c /\ c < 2048 /\ Utf8(c) = <<192 + c \div 64, 128 + (c % 64)>>
Utf8Of3(c) == 2048 <= c /\ c < 65536 /\ Utf8(c) = <<224 + c \div 4096, 128 + ((c \div 64) % 64), 128 + (c % 64)>>
Utf8Of4(c) == /\ 65536 <= c /\ c < 1114112
              /\ Utf8(c) = <<240 + c \div 262144, 128 + ((c \div 4096) % 64), 128 + ((c \div 64) % 64), 128 + (c % 64)>>

(* UTF-8 by the number of bytes. *)
LEMMA Utf8Is ==
    ASSUME NEW c \in Characters
    PROVE  c \in Nat /\ (Utf8Of1(c) \/ Utf8Of2(c) \/ Utf8Of3(c) \/ Utf8Of4(c))
<1>1. c \in Nat /\ c < 1114112 /\ ~Surrogate(c)
  BY DEF Characters, CodePoints, Below
<1>2. CASE c < 128
  BY <1>1, <1>2 DEF Utf8, Utf8Of1
<1>3. CASE 128 <= c /\ c < 2048
  BY <1>1, <1>3 DEF Utf8, Utf8Of2
<1>4. CASE 2048 <= c /\ c < 65536
  BY <1>1, <1>4 DEF Utf8, Utf8Of3
<1>5. CASE 65536 <= c
  <2>1. ~(c < 128) /\ ~(c < 2048) /\ ~(c < 65536) /\ c < 1114112
    BY <1>1, <1>5
  <2> QED BY <1>1, <1>5, <2>1 DEF Utf8, Utf8Of4
<1> QED BY <1>1, <1>2, <1>3, <1>4, <1>5

(* The C++ writer gets a code point back from its bytes. *)
LEMMA Utf8Decodes ==
    ASSUME NEW c \in Characters, c >= 128
    PROVE  CodePoint(Utf8(c)) = c /\ Utf8(c)[1] >= 128
<1>1. c \in Nat /\ (Utf8Of1(c) \/ Utf8Of2(c) \/ Utf8Of3(c) \/ Utf8Of4(c))
  BY Utf8Is
<1>2. CASE Utf8Of2(c)
  <2> DEFINE a == c \div 64
             d == c % 64
  <2>1. a \in Nat /\ 2 <= a /\ a < 32 /\ d \in Nat /\ d < 64 /\ c = a * 64 + d
    BY <1>1, <1>2 DEF Utf8Of2
  <2>2. Utf8(c) = <<192 + a, 128 + d>>
    BY <1>2 DEF Utf8Of2
  <2> HIDE DEF a, d
  <2>3. (192 + a) \div 32 = 6 /\ (192 + a) % 32 = a /\ (128 + d) % 64 = d
    BY <2>1
  <2> QED BY <2>1, <2>2, <2>3 DEF CodePoint
<1>3. CASE Utf8Of3(c)
  <2> DEFINE a == c \div 4096
             b == (c \div 64) % 64
             d == c % 64
  <2>1. a \in Nat /\ a < 16 /\ b \in Nat /\ b < 64 /\ d \in Nat /\ d < 64 /\ c = (a * 64 + b) * 64 + d
    BY <1>1, <1>3 DEF Utf8Of3
  <2>2. Utf8(c) = <<224 + a, 128 + b, 128 + d>>
    BY <1>3 DEF Utf8Of3
  <2> HIDE DEF a, b, d
  <2>3. (224 + a) \div 32 = 7 /\ (224 + a) \div 16 = 14 /\ (224 + a) % 16 = a /\ (128 + b) % 64 = b /\ (128 + d) % 64 = d
    BY <2>1
  <2> QED BY <2>1, <2>2, <2>3 DEF CodePoint
<1>4. CASE Utf8Of4(c)
  <2> DEFINE a == c \div 262144
             e == (c \div 4096) % 64
             b == (c \div 64) % 64
             d == c % 64
  <2>1. /\ a \in Nat /\ a < 8 /\ e \in Nat /\ e < 64 /\ b \in Nat /\ b < 64 /\ d \in Nat /\ d < 64
        /\ c = ((a * 64 + e) * 64 + b) * 64 + d
    BY <1>1, <1>4 DEF Utf8Of4
  <2>2. Utf8(c) = <<240 + a, 128 + e, 128 + b, 128 + d>>
    BY <1>4 DEF Utf8Of4
  <2> HIDE DEF a, b, d, e
  <2>3. /\ (240 + a) \div 32 = 7 /\ (240 + a) \div 16 = 15 /\ (240 + a) % 8 = a
        /\ (128 + e) % 64 = e /\ (128 + b) % 64 = b /\ (128 + d) % 64 = d
    BY <2>1
  <2> DEFINE u == Utf8(c)
  <2>4. u[1] = 240 + a /\ u[2] = 128 + e /\ u[3] = 128 + b /\ u[4] = 128 + d
    BY <2>2
  <2> HIDE DEF u
  <2>5. u[1] \div 32 = 7 /\ u[1] \div 16 = 15 /\ u[1] % 8 = a /\ u[2] % 64 = e /\ u[3] % 64 = b /\ u[4] % 64 = d
    BY <2>3, <2>4
  <2>6. CodePoint(u) = (((u[1] % 8) * 64 + (u[2] % 64)) * 64 + (u[3] % 64)) * 64 + (u[4] % 64)
    BY <2>5 DEF CodePoint
  <2>7. u[1] >= 128
    BY <2>1, <2>4
  <2>8. CodePoint(u) = ((a * 64 + e) * 64 + b) * 64 + d
    BY <2>5, <2>6, Zenon
  <2>9. CodePoint(u) = c
    BY <2>1, <2>8
  <2> QED BY <2>7, <2>9 DEF u
<1> QED BY <1>1, <1>2, <1>3, <1>4 DEF Utf8Of1

(* Both languages write a shared character alike. *)
LEMMA CharsAgree ==
    ASSUME NEW c \in Shared
    PROVE  CppCharText(Utf8(c)) = PyCharText(c)
<1>1. c \in Characters /\ c \in Nat /\ c # 127
  BY DEF Shared, Characters, CodePoints, Below
<1>2. CASE c < 128
  <2>1. Utf8(c) = <<c>>
    BY <1>2 DEF Utf8
  <2>2. Utf8(c)[1] = c /\ ~(Utf8(c)[1] >= 128)
    BY <1>1, <1>2, <2>1
  <2>3. CASE c \in Escaped
    <3>1. PyCharText(c) = <<92, ShortEscapes[c]>>
      BY <2>3 DEF PyCharText, Escaped, Ascii
    <3>2. CppCharText(Utf8(c)) = <<92, ShortEscapes[c]>>
      BY <2>2, <2>3 DEF CppCharText, Escaped, Ascii
    <3> QED BY <3>1, <3>2
  <2>4. CASE c \notin Escaped /\ c < 32
    <3>1. PyCharText(c) = CodePointText(c)
      BY <1>1, <2>4 DEF PyCharText, Escaped
    <3>2. CppCharText(Utf8(c)) = CodePointText(c)
      BY <2>2, <2>4 DEF CppCharText, Escaped
    <3> QED BY <3>1, <3>2
  <2>5. CASE c \notin Escaped /\ ~(c < 32)
    <3>1. 32 <= c /\ c <= 126
      BY <1>1, <1>2, <2>5
    <3>2. PyCharText(c) = <<c>>
      BY <2>5, <3>1 DEF PyCharText, Escaped
    <3>3. CppCharText(Utf8(c)) = Utf8(c)
      BY <2>2, <2>5 DEF CppCharText, Escaped
    <3> QED BY <2>1, <3>2, <3>3
  <2> QED BY <2>3, <2>4, <2>5
<1>3. CASE ~(c < 128)
  <2>1. CodePoint(Utf8(c)) = c /\ Utf8(c)[1] >= 128
    BY <1>1, <1>3, Utf8Decodes
  <2>2. CppCharText(Utf8(c)) = CodePointText(c)
    BY <2>1 DEF CppCharText
  <2>3. c \notin Escaped /\ ~(32 <= c /\ c <= 126)
    BY <1>1, <1>3, EscapedAre
  <2>4. PyCharText(c) = CodePointText(c)
    BY <2>3 DEF PyCharText, Escaped
  <2> QED BY <2>2, <2>4
<1> QED BY <1>2, <1>3

(* Both languages write a string of shared characters alike. *)
LEMMA StringsAgree ==
    ASSUME NEW s \in Seq(Shared)
    PROVE  CppString(s) = PyString(s)
<1>1. \A i \in DOMAIN s : CppCharText(Utf8(s[i])) = PyCharText(s[i])
  BY CharsAgree
<1>2. [i \in DOMAIN s |-> CppCharText(Utf8(s[i]))] = [i \in DOMAIN s |-> PyCharText(s[i])]
  BY <1>1
<1> QED BY <1>2, Zenon DEF CppString, PyString

(* Both languages choose the notation alike for a number without a fraction *)
(* from 10^6 to 10^16.                                                      *)
LEMMA NumbersAgree ==
    ASSUME NEW v, NumberValid(v), CommonNumber(v)
    PROVE  CppNumber(v) = PyNumber(v)
<1>1. v.exponent \in Int
  BY NumberIs DEF Written
<1>2. (IsInteger(v) \/ v.exponent \in -4 .. 5) = (IsInteger(v) \/ v.exponent \in -4 .. 15)
  BY <1>1 DEF CommonNumber
<1> QED BY <1>2, Zenon DEF CppNumber, PyNumber

FirstDifference(u, w, j) ==
    /\ j \in 1 .. Len(u) /\ j \in 1 .. Len(w) /\ u[j] < w[j]
    /\ \A k \in 1 .. j - 1 : u[k] = w[k]

(* UTF-8 is a sequence of bytes, at least one. *)
LEMMA Utf8Type ==
    ASSUME NEW c \in Characters
    PROVE  Utf8(c) \in Seq(Int) /\ Utf8(c) # <<>>
<1>1. c \in Nat /\ (Utf8Of1(c) \/ Utf8Of2(c) \/ Utf8Of3(c) \/ Utf8Of4(c))
  BY Utf8Is
<1>2. c \div 64 \in Int /\ c % 64 \in Int /\ c \div 4096 \in Int /\ (c \div 64) % 64 \in Int
      /\ c \div 262144 \in Int /\ (c \div 4096) % 64 \in Int
  BY <1>1
<1>3. CASE Utf8Of1(c)
  BY <1>1, <1>3 DEF Utf8Of1
<1>4. CASE Utf8Of2(c)
  BY <1>2, <1>4 DEF Utf8Of2
<1>5. CASE Utf8Of3(c)
  BY <1>2, <1>5 DEF Utf8Of3
<1>6. CASE Utf8Of4(c)
  BY <1>2, <1>6 DEF Utf8Of4
<1> QED BY <1>1, <1>3, <1>4, <1>5, <1>6

(* The first byte tells how many there are. *)
First(c) == CASE c < 128 -> c [] 128 <= c /\ c < 2048 -> 192 + c \div 64
              [] 2048 <= c /\ c < 65536 -> 224 + c \div 4096 [] OTHER -> 240 + c \div 262144

(* The first byte, and what it tells of the number of bytes. *)
LEMMA FirstByte ==
    ASSUME NEW c \in Characters
    PROVE  /\ Utf8(c)[1] = First(c) /\ Len(Utf8(c)) \in Nat /\ Len(Utf8(c)) >= 1
           /\ Utf8Of1(c) => First(c) < 128
           /\ Utf8Of2(c) => 192 <= First(c) /\ First(c) < 224
           /\ Utf8Of3(c) => 224 <= First(c) /\ First(c) < 240
           /\ Utf8Of4(c) => 240 <= First(c)
<1>1. c \in Nat /\ (Utf8Of1(c) \/ Utf8Of2(c) \/ Utf8Of3(c) \/ Utf8Of4(c))
  BY Utf8Is
<1>2. CASE Utf8Of1(c)
  BY <1>1, <1>2 DEF Utf8Of1, Utf8Of2, Utf8Of3, Utf8Of4, First
<1>3. CASE Utf8Of2(c)
  <2>1. 128 <= c /\ c < 2048 /\ Utf8(c) = <<192 + c \div 64, 128 + (c % 64)>>
    BY <1>3 DEF Utf8Of2
  <2>2. First(c) = 192 + c \div 64
    BY <1>1, <2>1 DEF First
  <2> QED BY <1>1, <2>1, <2>2 DEF Utf8Of1, Utf8Of3, Utf8Of4
<1>4. CASE Utf8Of3(c)
  <2>1. 2048 <= c /\ c < 65536 /\ Utf8(c)[1] = 224 + c \div 4096 /\ Len(Utf8(c)) = 3
    BY <1>4 DEF Utf8Of3
  <2>2. First(c) = 224 + c \div 4096
    BY <1>1, <2>1 DEF First
  <2> QED BY <1>1, <2>1, <2>2 DEF Utf8Of1, Utf8Of2, Utf8Of4
<1>5. CASE Utf8Of4(c)
  <2>1. 65536 <= c /\ c < 1114112 /\ Utf8(c)[1] = 240 + c \div 262144 /\ Len(Utf8(c)) = 4
    BY <1>5 DEF Utf8Of4
  <2>2. First(c) = 240 + c \div 262144
    BY <1>1, <2>1 DEF First
  <2> QED BY <1>1, <2>1, <2>2 DEF Utf8Of1, Utf8Of2, Utf8Of3
<1> QED BY <1>1, <1>2, <1>3, <1>4, <1>5

(* UTF-8 orders characters by code point: the bytes first differ at a place *)
(* where those of the lesser character are less.                            *)
LEMMA CharOrder ==
    ASSUME NEW c \in Characters, NEW d \in Characters, c < d
    PROVE  \E j \in Nat : FirstDifference(Utf8(c), Utf8(d), j)
<1> DEFINE u == Utf8(c)
           w == Utf8(d)
<1>1. /\ c \in Nat /\ (Utf8Of1(c) \/ Utf8Of2(c) \/ Utf8Of3(c) \/ Utf8Of4(c))
      /\ d \in Nat /\ (Utf8Of1(d) \/ Utf8Of2(d) \/ Utf8Of3(d) \/ Utf8Of4(d))
  BY Utf8Is
<1>a. First(c) \in Int /\ First(d) \in Int
  BY <1>1 DEF First
<1>b. /\ Utf8Of1(c) => First(c) < 128
      /\ Utf8Of2(c) => First(c) < 224
      /\ Utf8Of3(c) => First(c) < 240
  BY FirstByte
<1>c. /\ Utf8Of2(d) => 192 <= First(d)
      /\ Utf8Of3(d) => 224 <= First(d)
      /\ Utf8Of4(d) => 240 <= First(d)
  BY FirstByte
<1>2. ASSUME First(c) < First(d) PROVE FirstDifference(u, w, 1)
  <2>1. u[1] < w[1] /\ 1 \in 1 .. Len(u) /\ 1 \in 1 .. Len(w)
    BY <1>2, FirstByte
  <2> QED BY <2>1 DEF FirstDifference
<1>3. CASE Utf8Of1(c) /\ Utf8Of1(d)
  <2>1. First(c) < First(d)
    BY <1>1, <1>3 DEF Utf8Of1, First
  <2> QED BY <1>2, <2>1
<1>4. CASE ~Utf8Of1(d) /\ Utf8Of1(c)
  <2>1. First(c) < First(d)
    <3>1. First(c) < 128 /\ (192 <= First(d) \/ 224 <= First(d) \/ 240 <= First(d))
      BY <1>1, <1>4, <1>b, <1>c
    <3> QED BY ONLY <1>a, <3>1
  <2> QED BY <1>2, <2>1
<1>5. CASE Utf8Of2(c) /\ Utf8Of2(d)
  <2> DEFINE a == c \div 64
             b == d \div 64
             e == c % 64
             f == d % 64
  <2>1. /\ u = <<192 + a, 128 + e>> /\ w = <<192 + b, 128 + f>>
        /\ a \in Nat /\ b \in Nat /\ e \in Nat /\ f \in Nat /\ (a < b \/ (a = b /\ e < f))
    BY <1>1, <1>5 DEF Utf8Of2
  <2> HIDE DEF a, b, e, f, u, w
  <2>2. /\ Len(u) = 2 /\ Len(w) = 2 /\ u[1] = 192 + a /\ u[2] = 128 + e /\ w[1] = 192 + b /\ w[2] = 128 + f
    BY <2>1
  <2>3. CASE a < b
    <3>1. FirstDifference(u, w, 1)
      BY <2>1, <2>2, <2>3 DEF FirstDifference
    <3> QED BY <3>1 DEF u, w
  <2>4. CASE a = b /\ e < f
    <3>1. FirstDifference(u, w, 2)
      BY <2>1, <2>2, <2>4 DEF FirstDifference
    <3> QED BY <3>1 DEF u, w
  <2> QED BY <2>1, <2>3, <2>4
<1>6. CASE Utf8Of2(c) /\ (Utf8Of3(d) \/ Utf8Of4(d))
  <2>1. First(c) < First(d)
    <3>1. First(c) < 224 /\ (224 <= First(d) \/ 240 <= First(d))
      BY <1>6, <1>b, <1>c
    <3> QED BY ONLY <1>a, <3>1
  <2> QED BY <1>2, <2>1
<1>7. CASE Utf8Of3(c) /\ Utf8Of3(d)
  <2> DEFINE a == c \div 4096
             b == d \div 4096
             e == (c \div 64) % 64
             f == (d \div 64) % 64
             g == c % 64
             h == d % 64
  <2>1. /\ a \in Nat /\ b \in Nat /\ e \in Nat /\ f \in Nat /\ g \in Nat /\ h \in Nat
        /\ e < 64 /\ f < 64 /\ g < 64 /\ h < 64
        /\ c = (a * 64 + e) * 64 + g /\ d = (b * 64 + f) * 64 + h
    BY <1>1, <1>7 DEF Utf8Of3
  <2>2. u = <<224 + a, 128 + e, 128 + g>> /\ w = <<224 + b, 128 + f, 128 + h>>
    BY <1>7 DEF Utf8Of3
  <2> HIDE DEF a, b, e, f, g, h, u, w
  <2>3. a < b \/ (a = b /\ e < f) \/ (a = b /\ e = f /\ g < h)
    BY <2>1
  <2>4. /\ Len(u) = 3 /\ Len(w) = 3 /\ u[1] = 224 + a /\ u[2] = 128 + e /\ u[3] = 128 + g
        /\ w[1] = 224 + b /\ w[2] = 128 + f /\ w[3] = 128 + h
    BY <2>2
  <2>5. CASE a < b
    <3>1. FirstDifference(u, w, 1)
      BY <2>1, <2>4, <2>5 DEF FirstDifference
    <3> QED BY <3>1 DEF u, w
  <2>6. CASE a = b /\ e < f
    <3>1. FirstDifference(u, w, 2)
      BY <2>1, <2>4, <2>6 DEF FirstDifference
    <3> QED BY <3>1 DEF u, w
  <2>7. CASE a = b /\ e = f /\ g < h
    <3>1. FirstDifference(u, w, 3)
      BY <2>1, <2>4, <2>7 DEF FirstDifference
    <3> QED BY <3>1 DEF u, w
  <2> QED BY <2>3, <2>5, <2>6, <2>7
<1>8. CASE Utf8Of3(c) /\ Utf8Of4(d)
  <2>1. First(c) < First(d)
    <3>1. First(c) < 240 /\ 240 <= First(d)
      BY <1>8, <1>b, <1>c
    <3> QED BY ONLY <1>a, <3>1
  <2> QED BY <1>2, <2>1
<1>9. CASE Utf8Of4(c) /\ Utf8Of4(d)
  <2> DEFINE a == c \div 262144
             b == d \div 262144
             p == (c \div 4096) % 64
             q == (d \div 4096) % 64
             e == (c \div 64) % 64
             f == (d \div 64) % 64
             g == c % 64
             h == d % 64
  <2>1. /\ a \in Nat /\ b \in Nat /\ e \in Nat /\ f \in Nat /\ g \in Nat /\ h \in Nat /\ p \in Nat /\ q \in Nat
        /\ e < 64 /\ f < 64 /\ g < 64 /\ h < 64 /\ p < 64 /\ q < 64
        /\ c = ((a * 64 + p) * 64 + e) * 64 + g /\ d = ((b * 64 + q) * 64 + f) * 64 + h
    BY <1>1, <1>9 DEF Utf8Of4
  <2>2. u = <<240 + a, 128 + p, 128 + e, 128 + g>> /\ w = <<240 + b, 128 + q, 128 + f, 128 + h>>
    BY <1>9 DEF Utf8Of4
  <2> HIDE DEF a, b, e, f, g, h, p, q, u, w
  <2>3. a < b \/ (a = b /\ p < q) \/ (a = b /\ p = q /\ e < f) \/ (a = b /\ p = q /\ e = f /\ g < h)
    BY <2>1
  <2>4. /\ Len(u) = 4 /\ Len(w) = 4
        /\ u[1] = 240 + a /\ u[2] = 128 + p /\ u[3] = 128 + e /\ u[4] = 128 + g
        /\ w[1] = 240 + b /\ w[2] = 128 + q /\ w[3] = 128 + f /\ w[4] = 128 + h
    BY <2>2
  <2>5. CASE a < b
    <3>1. FirstDifference(u, w, 1)
      BY <2>1, <2>4, <2>5 DEF FirstDifference
    <3> QED BY <3>1 DEF u, w
  <2>6. CASE a = b /\ p < q
    <3>1. FirstDifference(u, w, 2)
      BY <2>1, <2>4, <2>6 DEF FirstDifference
    <3> QED BY <3>1 DEF u, w
  <2>7. CASE a = b /\ p = q /\ e < f
    <3>1. FirstDifference(u, w, 3)
      BY <2>1, <2>4, <2>7 DEF FirstDifference
    <3> QED BY <3>1 DEF u, w
  <2>8. CASE a = b /\ p = q /\ e = f /\ g < h
    <3>1. FirstDifference(u, w, 4)
      BY <2>1, <2>4, <2>8 DEF FirstDifference
    <3> QED BY <3>1 DEF u, w
  <2> QED BY <2>3, <2>5, <2>6, <2>7, <2>8
<1>10. /\ ~(Utf8Of1(d) /\ ~Utf8Of1(c)) /\ ~(Utf8Of2(d) /\ (Utf8Of3(c) \/ Utf8Of4(c)))
       /\ ~(Utf8Of3(d) /\ Utf8Of4(c))
  BY <1>1 DEF Utf8Of1, Utf8Of2, Utf8Of3, Utf8Of4
<1> QED BY <1>1, <1>3, <1>4, <1>5, <1>6, <1>7, <1>8, <1>9, <1>10

(* A first difference decides the order, whatever follows. *)
LEMMA LexFirst ==
    ASSUME NEW u \in Seq(Int), NEW w \in Seq(Int), NEW x \in Seq(Int), NEW y \in Seq(Int),
           NEW j \in Nat, FirstDifference(u, w, j)
    PROVE  LexLess(u \o x, w \o y)
<1>1. PrefixAt(u, x) /\ PrefixAt(w, y)
  BY Prefix
<1>2. /\ u \o x \in Seq(Int) /\ Len(u \o x) = Len(u) + Len(x) /\ \A i \in 1 .. Len(u) : (u \o x)[i] = u[i]
      /\ w \o y \in Seq(Int) /\ Len(w \o y) = Len(w) + Len(y) /\ \A i \in 1 .. Len(w) : (w \o y)[i] = w[i]
  BY <1>1, Zenon DEF PrefixAt
<1>3. Len(u) \in Nat /\ Len(w) \in Nat /\ Len(x) \in Nat /\ Len(y) \in Nat
  OBVIOUS
<1>4. j \in 1 .. Len(u) /\ j \in 1 .. Len(w) /\ u[j] < w[j] /\ \A k \in 1 .. j - 1 : u[k] = w[k]
  BY DEF FirstDifference
<1> DEFINE a == u \o x
           b == w \o y
<1>5. /\ a \in Seq(Int) /\ b \in Seq(Int) /\ Len(a) \in Nat /\ Len(b) \in Nat /\ Len(a) >= Len(u) /\ Len(b) >= Len(w)
      /\ (\A i \in 1 .. Len(u) : a[i] = u[i]) /\ (\A i \in 1 .. Len(w) : b[i] = w[i])
  BY <1>2, <1>3
<1> HIDE DEF a, b
<1>6. LexAt(a, b, j)
  <2>1. j \in 1 .. Len(b) /\ a[j] < b[j]
    BY <1>3, <1>4, <1>5
  <2>2. \A k \in 1 .. j - 1 : k \in 1 .. Len(a) /\ a[k] = b[k]
    <3> TAKE k \in 1 .. j - 1
    <3>1. k \in Int /\ 1 <= k /\ k <= Len(u) /\ k <= Len(w)
      <4>1. k \in Int /\ 1 <= k /\ k <= j - 1
        OBVIOUS
      <4>2. j <= Len(u) /\ j <= Len(w)
        BY <1>3, <1>4
      <4> QED BY <1>3, <4>1, <4>2
    <3>2. k \in 1 .. Len(u) /\ k \in 1 .. Len(w)
      BY <1>3, <3>1
    <3>3. k \in 1 .. Len(a)
      BY <1>3, <1>5, <3>1
    <3> QED BY <1>4, <1>5, <3>2, <3>3
  <2> QED BY <2>1, <2>2 DEF LexAt
<1>7. LexLess(a, b)
  BY <1>5, <1>6, LexIs
<1> QED BY <1>7 DEF a, b

(* A common prefix leaves the order. *)
LEMMA LexPrefix ==
    ASSUME NEW u \in Seq(Int), NEW x \in Seq(Int), NEW y \in Seq(Int), LexLess(x, y)
    PROVE  LexLess(u \o x, u \o y)
<1>1. PICK i \in Nat : LexAt(x, y, i)
  BY LexIs
<1>2. /\ i \in 1 .. Len(y)
      /\ \A j \in 1 .. i - 1 : j \in 1 .. Len(x) /\ x[j] = y[j]
      /\ i \notin 1 .. Len(x) \/ x[i] < y[i]
  BY <1>1 DEF LexAt
<1> DEFINE a == u \o x
           b == u \o y
           n == Len(u)
<1>3. /\ a \in Seq(Int) /\ Len(a) = n + Len(x) /\ \A j \in 1 .. Len(a) : a[j] = IF j <= n THEN u[j] ELSE x[j - n]
      /\ b \in Seq(Int) /\ Len(b) = n + Len(y) /\ \A j \in 1 .. Len(b) : b[j] = IF j <= n THEN u[j] ELSE y[j - n]
      /\ n \in Nat /\ Len(x) \in Nat /\ Len(y) \in Nat
  BY ConcatProperties
<1> HIDE DEF a, b, n
<1> DEFINE m == n + i
<1>4. m \in Nat /\ m - n = i /\ m > n /\ m - 1 = n + (i - 1)
  BY <1>2, <1>3
<1>5. LexAt(a, b, m)
  <2>1. m \in 1 .. Len(b) /\ b[m] = y[i]
    <3>1. m \in 1 .. Len(b)
      BY <1>2, <1>3
    <3> HIDE DEF m
    <3>2. b[m] = IF m <= n THEN u[m] ELSE y[m - n]
      BY <1>3, <3>1, Zenon
    <3>3. ~(m <= n)
      BY <1>3, <1>4
    <3> QED BY <1>4, <3>1, <3>2, <3>3, Zenon
  <2>2. \A j \in 1 .. m - 1 : j \in 1 .. Len(a) /\ a[j] = b[j]
    <3> TAKE j \in 1 .. m - 1
    <3>0. j \in Int /\ 1 <= j /\ j <= n + (i - 1)
      BY <1>4
    <3>1. CASE j <= n
      <4>1. j \in 1 .. Len(a) /\ j \in 1 .. Len(b)
        <5>1. Len(a) \in Nat /\ Len(b) \in Nat /\ Len(a) >= n /\ Len(b) >= n /\ n \in Nat
          BY <1>3
        <5> QED BY ONLY <3>0, <3>1, <5>1
      <4> QED BY <1>3, <3>1, <4>1
    <3>2. CASE ~(j <= n)
      <4>1. j - n \in 1 .. i - 1
        BY <1>3, <3>0, <3>2
      <4>2. j - n \in 1 .. Len(x) /\ x[j - n] = y[j - n]
        BY <1>2, <4>1
      <4>2a. i <= Len(y)
        BY <1>2, <1>3
      <4>3. j \in 1 .. Len(a) /\ j \in 1 .. Len(b)
        BY <1>3, <3>0, <4>2, <4>2a
      <4> QED BY <1>3, <3>2, <4>2, <4>3
    <3> QED BY <3>1, <3>2
  <2>3. m \notin 1 .. Len(a) \/ a[m] < b[m]
    <3> SUFFICES ASSUME m \in 1 .. Len(a) PROVE a[m] < b[m]
      OBVIOUS
    <3>1. i \in 1 .. Len(x)
      BY <1>2, <1>3
    <3> HIDE DEF m
    <3>2. a[m] = x[i]
      <4>1. a[m] = IF m <= n THEN u[m] ELSE x[m - n]
        BY <1>3, Zenon
      <4>2. ~(m <= n)
        BY <1>3, <1>4
      <4> QED BY <1>4, <4>1, <4>2, Zenon
    <3> QED BY <1>2, <2>1, <3>1, <3>2
  <2> HIDE DEF m
  <2> QED BY <2>1, <2>2, <2>3, Zenon DEF LexAt
<1>6. LexLess(a, b)
  <2> HIDE DEF m
  <2> QED BY <1>3, <1>4, <1>5, LexIs
<1> QED BY <1>6 DEF a, b

Utf8Of(s) == [i \in DOMAIN s |-> Utf8(s[i])]

(* The bytes of a string, character by character. *)
LEMMA Utf8OfIs ==
    ASSUME NEW s \in Seq(Characters)
    PROVE  /\ Len(s) \in Nat
           /\ Utf8Of(s) \in [1 .. Len(s) -> Seq(Int)]
           /\ Suffixes(Utf8Of(s)) \in [Nat -> Seq(Int)]
           /\ \A i \in Nat : Suffixes(Utf8Of(s))[i] =
                  IF i \in 1 .. Len(s) THEN Utf8(s[i]) \o Suffixes(Utf8Of(s))[i + 1] ELSE <<>>
           /\ Utf8Bytes(s) = Suffixes(Utf8Of(s))[1]
<1> DEFINE n == Len(s)
           t == Utf8Of(s)
<1>1. n \in Nat /\ DOMAIN s = 1 .. n
  OBVIOUS
<1>2. \A i \in 1 .. n : Utf8(s[i]) \in Seq(Int)
  BY Utf8Type
<1>3. t \in [1 .. n -> Seq(Int)] /\ \A i \in 1 .. n : t[i] = Utf8(s[i])
  BY <1>1, <1>2 DEF Utf8Of
<1>4. DOMAIN t = 1 .. n
  BY <1>3
<1>5. Utf8Bytes(s) = Suffixes(t)[1]
  BY DEF Utf8Bytes, Utf8Of, Concat
<1> HIDE DEF n, t
<1>6. /\ Suffixes(t) \in [Nat -> Seq(Int)]
      /\ \A i \in Nat : Suffixes(t)[i] = IF i \in DOMAIN t THEN t[i] \o Suffixes(t)[i + 1] ELSE <<>>
  BY <1>1, <1>3, SuffixesAre
<1>7. \A i \in Nat : Suffixes(t)[i] = IF i \in 1 .. n THEN Utf8(s[i]) \o Suffixes(t)[i + 1] ELSE <<>>
  BY <1>3, <1>4, <1>6, Zenon
<1> QED BY <1>1, <1>3, <1>5, <1>6, <1>7 DEF n, t

(* A string before another by code point is before it by UTF-8 byte. *)
LEMMA BytesOrder == \A s, t \in Seq(Characters) : LexLess(s, t) => LexLess(Utf8Bytes(s), Utf8Bytes(t))
<1> SUFFICES ASSUME NEW s \in Seq(Characters), NEW t \in Seq(Characters), LexLess(s, t)
             PROVE  LexLess(Utf8Bytes(s), Utf8Bytes(t))
  OBVIOUS
<1>1. s \in Seq(Int) /\ t \in Seq(Int)
  <2>1. Characters \subseteq Int
    BY DEF Characters, CodePoints, Below
  <2> QED BY <2>1, SeqMonotonic
<1>2. PICK i \in Nat : LexAt(s, t, i)
  BY <1>1, LexIs
<1>3. /\ i \in 1 .. Len(t)
      /\ \A j \in 1 .. i - 1 : j \in 1 .. Len(s) /\ s[j] = t[j]
      /\ i \notin 1 .. Len(s) \/ s[i] < t[i]
  BY <1>2 DEF LexAt
<1> DEFINE S == Suffixes(Utf8Of(s))
           T == Suffixes(Utf8Of(t))
<1>4. /\ S \in [Nat -> Seq(Int)] /\ T \in [Nat -> Seq(Int)]
      /\ \A k \in Nat : S[k] = IF k \in 1 .. Len(s) THEN Utf8(s[k]) \o S[k + 1] ELSE <<>>
      /\ \A k \in Nat : T[k] = IF k \in 1 .. Len(t) THEN Utf8(t[k]) \o T[k + 1] ELSE <<>>
      /\ Utf8Bytes(s) = S[1] /\ Utf8Bytes(t) = T[1] /\ Len(s) \in Nat /\ Len(t) \in Nat
  BY Utf8OfIs
<1>5. /\ \A k \in 1 .. Len(s) : s[k] \in Characters /\ Utf8(s[k]) \in Seq(Int) /\ Utf8(s[k]) # <<>>
      /\ \A k \in 1 .. Len(t) : t[k] \in Characters /\ Utf8(t[k]) \in Seq(Int) /\ Utf8(t[k]) # <<>>
  <2>1. \A c \in Characters : Utf8(c) \in Seq(Int) /\ Utf8(c) # <<>>
    BY Utf8Type
  <2>2. (\A k \in 1 .. Len(s) : s[k] \in Characters) /\ \A k \in 1 .. Len(t) : t[k] \in Characters
    OBVIOUS
  <2> QED BY <2>1, <2>2, Zenon
<1> HIDE DEF S, T
<1>6. S[i + 1] \in Seq(Int) /\ T[i + 1] \in Seq(Int) /\ T[i] = Utf8(t[i]) \o T[i + 1]
  <2>1. i \in Nat /\ i + 1 \in Nat
    OBVIOUS
  <2> QED BY <1>3, <1>4, <2>1, Zenon
<1>7. LexLess(S[i], T[i])
  <2>1. CASE i \notin 1 .. Len(s)
    <3>1. S[i] = <<>>
      BY <1>4, <2>1
    <3> DEFINE u == Utf8(t[i])
               x == T[i + 1]
    <3>2. u \in Seq(Int) /\ u # <<>> /\ x \in Seq(Int)
      BY <1>3, <1>5, <1>6
    <3> HIDE DEF u, x
    <3>3. u \o x \in Seq(Int) /\ 1 \in 1 .. Len(u \o x)
      BY <3>2
    <3>4. LexAt(<<>>, u \o x, 1)
      BY <3>3 DEF LexAt
    <3>5. LexLess(<<>>, u \o x)
      <4>1. <<>> \in Seq(Int) /\ 1 \in Nat
        OBVIOUS
      <4> QED BY <3>3, <3>4, <4>1, LexIs
    <3> QED BY <1>6, <3>1, <3>5 DEF u, x
  <2>2. CASE i \in 1 .. Len(s)
    <3>1. s[i] \in Characters /\ t[i] \in Characters /\ s[i] < t[i]
      BY <1>3, <1>5, <2>2
    <3>2. PICK j \in Nat : FirstDifference(Utf8(s[i]), Utf8(t[i]), j)
      BY <3>1, CharOrder
    <3>3. LexLess(Utf8(s[i]) \o S[i + 1], Utf8(t[i]) \o T[i + 1])
      BY <1>3, <1>5, <1>6, <2>2, <3>2, LexFirst
    <3>4. S[i] = Utf8(s[i]) \o S[i + 1]
      BY <1>4, <2>2
    <3> QED BY <1>6, <3>3, <3>4
  <2> QED BY <2>1, <2>2
<1> DEFINE D == {m \in Nat : m < i => LexLess(S[i - m], T[i - m])}
<1>8. D = Nat
  <2>1. 0 \in D
    <3>1. i - 0 = i
      BY <1>3
    <3> QED BY <1>7, <3>1
  <2>2. ASSUME NEW m \in D PROVE m + 1 \in D
    <3> SUFFICES ASSUME m + 1 < i PROVE LexLess(S[i - (m + 1)], T[i - (m + 1)])
      OBVIOUS
    <3> DEFINE k == i - (m + 1)
    <3>1. k \in 1 .. i - 1 /\ k \in Nat /\ k + 1 = i - m /\ k \in 1 .. Len(t) /\ k + 1 \in Nat
      BY <1>3, <1>4
    <3>2. LexLess(S[k + 1], T[k + 1])
      BY <3>1
    <3> HIDE DEF k
    <3>3. k \in 1 .. Len(s) /\ s[k] = t[k]
      BY <1>3, <3>1
    <3>4. S[k] = Utf8(t[k]) \o S[k + 1] /\ T[k] = Utf8(t[k]) \o T[k + 1]
      BY <1>4, <3>1, <3>3
    <3>5. S[k + 1] \in Seq(Int) /\ T[k + 1] \in Seq(Int) /\ Utf8(t[k]) \in Seq(Int)
      BY <1>4, <1>5, <3>1
    <3>6. LexLess(S[k], T[k])
      BY <3>2, <3>4, <3>5, LexPrefix
    <3> QED BY <3>6 DEF k
  <2>3. D \in SUBSET Nat
    OBVIOUS
  <2> HIDE DEF D
  <2> QED BY <2>1, <2>2, <2>3, Induction
<1>9. LexLess(S[1], T[1])
  <2>1. i - 1 \in D /\ i - 1 < i /\ i - (i - 1) = 1
    <3> HIDE DEF D
    <3> QED BY <1>3, <1>8
  <2> QED BY <2>1
<1> QED BY <1>4, <1>9

(* Both languages sort keys alike. *)
LEMMA SortsAgree ==
    ASSUME NEW K \in SUBSET Seq(Characters)
    PROVE  SortedByBytes(K) = SortedByCodePoint(K)
<1>1. \A s \in K : s \in Seq(Int) /\ Utf8Bytes(s) \in Seq(Int)
  <2>1. Characters \subseteq Int
    BY DEF Characters, CodePoints, Below
  <2>2. ASSUME NEW s \in Seq(Characters) PROVE Utf8Bytes(s) \in Seq(Int)
    <3>1. Suffixes(Utf8Of(s)) \in [Nat -> Seq(Int)] /\ Utf8Bytes(s) = Suffixes(Utf8Of(s))[1] /\ 1 \in Nat
      BY Utf8OfIs
    <3> QED BY <3>1, Zenon
  <2>3. Seq(Characters) \subseteq Seq(Int)
    BY <2>1, SeqMonotonic
  <2> QED BY <2>2, <2>3
<1>2. ASSUME NEW s \in K, NEW t \in K PROVE LexLess(Utf8Bytes(s), Utf8Bytes(t)) <=> LexLess(s, t)
  <2>1. LexLess(s, t) => LexLess(Utf8Bytes(s), Utf8Bytes(t))
    BY BytesOrder
  <2>2. LexLess(t, s) => LexLess(Utf8Bytes(t), Utf8Bytes(s))
    BY BytesOrder
  <2>3. s = t \/ LexLess(s, t) \/ LexLess(t, s)
    BY <1>1, LexTotal
  <2>4. ~LexLess(Utf8Bytes(s), Utf8Bytes(s))
    BY <1>1, LexIrreflexive
  <2>5. LexLess(Utf8Bytes(s), Utf8Bytes(t)) /\ LexLess(Utf8Bytes(t), Utf8Bytes(s)) => LexLess(Utf8Bytes(s), Utf8Bytes(s))
    BY <1>1, LexTransitive
  <2> QED BY <2>1, <2>2, <2>3, <2>4, <2>5, Zenon
<1> DEFINE bytes == [key \in K |-> Utf8Bytes(key)]
           points == [key \in K |-> key]
           rank(code) == [key \in K |-> Cardinality({other \in K : LexLess(code[other], code[key])})]
           order(r) == [i \in 1 .. Cardinality(K) |-> CHOOSE key \in K : r[key] = i - 1]
<1>3. rank(bytes) = rank(points)
  <2>1. \A key \in K : {other \in K : LexLess(bytes[other], bytes[key])} = {other \in K : LexLess(points[other], points[key])}
    BY <1>2
  <2> HIDE DEF bytes, points
  <2> QED BY <2>1
<1>4. DOMAIN bytes = K /\ DOMAIN points = K
  OBVIOUS
<1> HIDE DEF bytes, points
<1>5. Sorted(bytes) = order(rank(bytes)) /\ Sorted(points) = order(rank(points))
  BY <1>4 DEF Sorted
<1>6. SortedByBytes(K) = Sorted(bytes) /\ SortedByCodePoint(K) = Sorted(points)
  BY DEF SortedByBytes, SortedByCodePoint, bytes, points
<1> HIDE DEF rank, order
<1> QED BY <1>3, <1>5, <1>6

(* A common string is one of shared characters. *)
LEMMA SharedStrings ==
    ASSUME NEW s \in Strings, CommonString(s)
    PROVE  s \in Seq(Shared)
<1>1. PICK n \in Nat : s \in [1 .. n -> CodePoints]
  BY SeqDef DEF Strings
<1>2. \A i \in 1 .. n : s[i] \in Shared
  BY <1>1 DEF CommonString, Shared
<1>3. s \in [1 .. n -> Shared]
  BY <1>1, <1>2
<1> QED BY <1>3, SeqDef

(* A string of shared characters has no surrogates. *)
LEMMA SharedAreCharacters == Seq(Shared) \subseteq Seq(Characters)
<1>1. Shared \subseteq Characters
  BY DEF Shared, Characters
<1> QED BY <1>1, SeqMonotonic

(* Both languages write an object alike if they write its values alike. *)
LEMMA ObjectsAgree ==
    ASSUME NEW f, ObjectIs(f), \A key \in DOMAIN f : CommonString(key), NEW text
    PROVE  CppText(ObjectValue(f), text) = PyText(ObjectValue(f), text)
<1> DEFINE K == DOMAIN f
           n == Cardinality(K)
           keys == SortedByCodePoint(K)
<1>1. \A key \in K : key \in Seq(Shared)
  BY SharedStrings DEF ObjectIs
<1>2. SortedByBytes(K) = keys
  <2>1. K \in SUBSET Seq(Characters)
    BY <1>1, SharedAreCharacters
  <2> HIDE DEF K
  <2> QED BY <2>1, SortsAgree
<1>3. n \in Nat /\ keys \in [1 .. n -> K]
  <2>1. K \in SUBSET Strings /\ IsFiniteSet(K)
    BY DEF ObjectIs
  <2> HIDE DEF K
  <2> QED BY <2>1, SortedByCodePointIs
<1> DEFINE values == [i \in DOMAIN keys |-> text[f[keys[i]]]]
           v == ObjectValue(f)
<1>4. v.kind = "object" /\ v.members = f
  BY PartsAre
<1> HIDE DEF v
<1>5. PyText(v, text) = ObjectText([i \in DOMAIN keys |-> PyString(keys[i])], values)
  BY <1>4 DEF PyText
<1>6. CppText(v, text) = ObjectText([i \in DOMAIN keys |-> CppString(keys[i])], values)
  <2> HIDE DEF keys
  <2>1. CppText(v, text) = LET ks == SortedByBytes(DOMAIN f)
                           IN  ObjectText([i \in DOMAIN ks |-> CppString(ks[i])], [i \in DOMAIN ks |-> text[f[ks[i]]]])
    BY <1>4 DEF CppText
  <2> QED BY <1>2, <2>1
<1>7. \A i \in DOMAIN keys : CppString(keys[i]) = PyString(keys[i])
  <2> HIDE DEF K, n, keys
  <2> QED BY <1>1, <1>3, StringsAgree
<1> HIDE DEF keys, values
<1>8. [i \in DOMAIN keys |-> CppString(keys[i])] = [i \in DOMAIN keys |-> PyString(keys[i])]
  BY <1>7
<1> QED BY <1>5, <1>6, <1>8 DEF v

(* Both languages write a common value alike if they write its parts alike. *)
LEMMA ValuesAgree ==
    ASSUME CommonValues, NEW v \in Values, NEW text
    PROVE  CppText(v, text) = PyText(v, text)
<1>1. ValueIs(v) /\ CommonValue(v)
  BY ValuesAre DEF CommonValues
<1>2. CASE v.kind = "number"
  <2>1. NumberValid(v) /\ CommonNumber(v)
    BY <1>1, <1>2 DEF ValueIs, CommonValue
  <2>2. CppNumber(v) = PyNumber(v)
    BY <2>1, NumbersAgree
  <2> QED BY <1>2, <2>2 DEF CppText, PyText
<1>3. CASE v.kind = "string"
  <2>1. v.chars \in Strings /\ CommonString(v.chars)
    BY <1>1, <1>3 DEF ValueIs, CommonValue
  <2>2. CppString(v.chars) = PyString(v.chars)
    BY <2>1, SharedStrings, StringsAgree
  <2> QED BY <1>3, <2>2 DEF CppText, PyText
<1>4. CASE v.kind = "object"
  <2>1. v = ObjectValue(v.members) /\ ObjectIs(v.members) /\ \A key \in DOMAIN v.members : CommonString(key)
    BY <1>1, <1>4 DEF ValueIs, CommonValue
  <2> DEFINE f == v.members
  <2>2. CppText(ObjectValue(f), text) = PyText(ObjectValue(f), text)
    <3> HIDE DEF f
    <3> QED BY <2>1, ObjectsAgree DEF f
  <2> QED BY <2>1, <2>2
<1>5. CASE v.kind \notin {"number", "string", "object"}
  BY <1>5 DEF CppText, PyText
<1> QED BY <1>2, <1>3, <1>4, <1>5

(* Both languages write every common value, and every artifact, alike. *)
LEMMA TextsAgree ==
    ASSUME CommonValues
    PROVE  /\ CppTexts = PyTexts
           /\ \A f \in Objects : TextOf("c++", f) = TextOf("python", f)
<1>1. CppTexts = PyTexts
  <2> DEFINE P(f) == [v \in Values |-> PyText(v, [part \in Parts(v) |-> f[part]])]
             C(f) == [v \in Values |-> CppText(v, [part \in Parts(v) |-> f[part]])]
  <2>1. \A f : C(f) = P(f)
    BY ValuesAgree
  <2>2. CppTexts = (CHOOSE f : f = C(f)) /\ PyTexts = (CHOOSE f : f = P(f))
    BY DEF CppTexts, PyTexts
  <2> HIDE DEF P, C
  <2>3. \A f : f = C(f) <=> f = P(f)
    BY <2>1
  <2>4. (CHOOSE f : f = C(f)) = (CHOOSE f : f = P(f))
    BY <2>3
  <2> QED BY <2>2, <2>4
<1>2. ASSUME NEW f \in Objects PROVE TextOf("c++", f) = TextOf("python", f)
  <2>1. ObjectIs(f) /\ \A key \in DOMAIN f : CommonString(key)
    BY ObjectsAre DEF CommonValues
  <2>2. CppText(ObjectValue(f), PyTexts) = PyText(ObjectValue(f), PyTexts)
    BY <2>1, ObjectsAgree
  <2> QED BY <1>1, <2>2 DEF TextOf
<1> QED BY <1>1, <1>2

(* On values that both languages write alike the readers decide alike, *)
(* however the file is edited (ReadersAgree).                          *)
THEOREM Agreement ==
    ASSUME CommonValues
    PROVE  Spec => []ReadersAgree
<1>1. TypeOK /\ VerdictsTrue => ReadersAgree
  <2> SUFFICES ASSUME TypeOK, VerdictsTrue, NEW r \in Readers, NEW s \in Readers,
                      verdict[r] # "open", verdict[s] # "open"
               PROVE  verdict[r] = verdict[s]
    BY DEF ReadersAgree
  <2>1. file \in Objects
    BY DEF TypeOK
  <2>2. verdict[r] = Judged(TextOf(r, file)) /\ verdict[s] = Judged(TextOf(s, file))
    BY DEF VerdictsTrue
  <2>3. TextOf(r, file) = TextOf(s, file)
    BY <2>1, TextsAgree DEF Readers
  <2> QED BY <2>2, <2>3
<1> QED BY <1>1, TypeCorrect, VerdictsCorrect, PTL

-----------------------------------------------------------------------------
(* The text of a value tells what it says *)

Closers == {44, 93, 125}

(* What follows the text of a part *)
Closing == {z \in Seq(Int) : z # <<>> /\ z[1] \in Closers}

(* A text that is not empty begins its concatenations. *)
LEMMA FirstOf ==
    ASSUME NEW t \in Seq(Int), NEW x \in Seq(Int), t # <<>>
    PROVE  t \o x \in Seq(Int) /\ t \o x # <<>> /\ (t \o x)[1] = t[1]
OBVIOUS

(* One code before a text. *)
LEMMA OneCode ==
    ASSUME NEW c \in Int, NEW x \in Seq(Int)
    PROVE  << c >> \in Seq(Int) /\ << c >> # <<>> /\ << c >>[1] = c /\ << c >> \o x \in Seq(Int)
           /\ (<< c >> \o x)[1] = c /\ << c >> \o x # <<>>
OBVIOUS

CutsAt(t, x, y) == t \o x = t \o y => x = y

(* Equal texts after equal ones are equal. *)
LEMMA Cuts == \A t, x, y \in Seq(Int) : CutsAt(t, x, y)
<1> SUFFICES ASSUME NEW t \in Seq(Int), NEW x \in Seq(Int), NEW y \in Seq(Int), t \o x = t \o y PROVE x = y
  BY DEF CutsAt
<1>1. CutAt(t, t, x, y)
  BY Cut
<1> QED BY <1>1, Zenon DEF CutAt

CutsEndAt(t, u, x) == t \o x = u \o x => t = u

(* Equal texts before equal ones are equal. *)
LEMMA CutsEnd == \A t, u, x \in Seq(Int) : CutsEndAt(t, u, x)
<1> SUFFICES ASSUME NEW t \in Seq(Int), NEW u \in Seq(Int), NEW x \in Seq(Int), t \o x = u \o x PROVE t = u
  BY DEF CutsEndAt
<1>1. PrefixAt(t, x) /\ PrefixAt(u, x)
  BY Prefix
<1>2. Len(t \o x) = Len(t) + Len(x) /\ Len(u \o x) = Len(u) + Len(x)
  BY <1>1, Zenon DEF PrefixAt
<1>3. Len(t) = Len(u)
  <2>1. Len(t) \in Nat /\ Len(u) \in Nat /\ Len(x) \in Nat
    OBVIOUS
  <2>2. Len(t) + Len(x) = Len(u) + Len(x)
    BY <1>2, Zenon
  <2> QED BY <2>1, <2>2
<1>4. CutAt(t, u, x, x)
  BY Cut
<1> QED BY <1>3, <1>4, Zenon DEF CutAt

(* Texts between commas: each begins with a code that closes nothing, and is *)
(* told from the one at the same place of the other list by what follows.   *)
ItemDecodesAt(t, u, i, a, b) == t[i] \o a = u[i] \o b => t[i] = u[i] /\ a = b

Listed(m, t, n, u) ==
    /\ m \in Nat /\ t \in [1 .. m -> Text]
    /\ n \in Nat /\ u \in [1 .. n -> Text]
    /\ \A i \in 1 .. m : t[i] # <<>> /\ t[i][1] \notin Closers
    /\ \A i \in 1 .. n : u[i] # <<>> /\ u[i][1] \notin Closers
    /\ \A i \in (1 .. m) \cap (1 .. n) : \A a, b \in Closing : ItemDecodesAt(t, u, i, a, b)

CommaTokenAt(t, s, i, a) ==
    /\ s[i] = Comma(i) \o t[i] /\ t[i] \in Seq(Int) /\ Comma(i) \in Seq(Int)
    /\ s[i] \o a \in Seq(Int) /\ s[i] \o a # <<>>
    /\ s[i] \o a = Comma(i) \o (t[i] \o a) /\ t[i] \o a \in Seq(Int)
    /\ IF i > 1 THEN (s[i] \o a)[1] = 44 ELSE (s[i] \o a)[1] = t[i][1]

CommaToken(n, t, s) ==
    /\ s \in [1 .. n -> Seq(Int)]
    /\ \A i \in 1 .. n : \A a \in Seq(Int) : CommaTokenAt(t, s, i, a)

(* Every item but the first begins with its comma. *)
LEMMA CommaTokens ==
    ASSUME NEW n \in Nat, NEW t \in [1 .. n -> Text], \A i \in 1 .. n : t[i] # <<>>
    PROVE  CommaToken(n, t, CommaTexts(t))
<1> DEFINE s == CommaTexts(t)
<1>1. \A i \in 1 .. n : s[i] = Comma(i) \o t[i]
  BY DEF CommaTexts
<1>2. s \in [1 .. n -> Seq(Int)]
  <2>1. s \in [1 .. n -> Text]
    BY JoinedIs
  <2> HIDE DEF s
  <2> QED BY <2>1, TextIsSeqInt
<1>3. \A i \in 1 .. n : t[i] \in Seq(Int) /\ Comma(i) \in Seq(Int)
  <2>1. \A i \in 1 .. n : Comma(i) \in Text
    BY TextsJoin DEF Comma
  <2> QED BY <2>1, TextIsSeqInt
<1> HIDE DEF s
<1>4. ASSUME NEW i \in 1 .. n, NEW a \in Seq(Int)
      PROVE  CommaTokenAt(t, s, i, a)
  <2> DEFINE c == Comma(i)
             u == t[i]
  <2>1. c \in Seq(Int) /\ u \in Seq(Int) /\ u # <<>> /\ s[i] = c \o u
    BY <1>1, <1>3
  <2>2. (i > 1 => c # <<>> /\ c[1] = 44) /\ (i = 1 => c = <<>>) /\ (i > 1 \/ i = 1)
    BY DEF Comma
  <2> HIDE DEF c, u
  <2>3. AssociatesAt(c, u, a)
    BY <2>1, Associates
  <2>4. c \o u \in Seq(Int) /\ u \o a \in Seq(Int) /\ (c \o u) \o a = c \o (u \o a)
    BY <2>3, Zenon DEF AssociatesAt
  <2>5. u \o a # <<>> /\ (u \o a)[1] = u[1]
    BY <2>1, FirstOf
  <2>6. CASE i > 1
    <3>1. c \o (u \o a) \in Seq(Int) /\ c \o (u \o a) # <<>> /\ (c \o (u \o a))[1] = c[1]
      BY <2>1, <2>2, <2>4, <2>6, FirstOf
    <3> QED BY <1>3, <2>1, <2>2, <2>4, <2>6, <3>1 DEF c, u, CommaTokenAt
  <2>7. CASE i = 1
    <3>1. c \o (u \o a) = u \o a
      BY <2>2, <2>4, <2>7, ConcatEmptySeq
    <3>2. ~(i > 1) /\ s[i] \o a = c \o (u \o a) /\ u \o a # <<>>
      BY <2>1, <2>4, <2>5, <2>7
    <3> QED BY <1>3, <2>1, <2>4, <2>5, <3>1, <3>2, Zenon DEF c, u, CommaTokenAt
  <2> QED BY <2>2, <2>6, <2>7
<1> QED BY <1>2, <1>4, Zenon DEF CommaToken, s

ListDecodesAt(m, t, n, u, k, x, y) ==
    JoinedByCommas(t) \o (<< k >> \o x) = JoinedByCommas(u) \o (<< k >> \o y) => m = n /\ t = u /\ x = y

(* A list between commas tells how many items it has and each of them, if an *)
(* item is told by a code that closes it.                                    *)
LEMMA ListDecoded ==
    ASSUME NEW m, NEW t, NEW n, NEW u, Listed(m, t, n, u),
           NEW k \in {93, 125}, NEW x \in Seq(Int), NEW y \in Seq(Int)
    PROVE  ListDecodesAt(m, t, n, u, k, x, y)
<1> DEFINE s == CommaTexts(t)
           r == CommaTexts(u)
           xx == << k >> \o x
           yy == << k >> \o y
<1>1. /\ m \in Nat /\ t \in [1 .. m -> Text]
      /\ n \in Nat /\ u \in [1 .. n -> Text]
      /\ \A i \in 1 .. m : t[i] # <<>> /\ t[i][1] \notin Closers
      /\ \A i \in 1 .. n : u[i] # <<>> /\ u[i][1] \notin Closers
      /\ \A i \in (1 .. m) \cap (1 .. n) : \A a, b \in Closing : ItemDecodesAt(t, u, i, a, b)
  BY Zenon DEF Listed
<1>2. CommaToken(m, t, s) /\ CommaToken(n, u, r)
  <2>1. m \in Nat /\ t \in [1 .. m -> Text] /\ \A i \in 1 .. m : t[i] # <<>>
    BY <1>1
  <2>2. n \in Nat /\ u \in [1 .. n -> Text] /\ \A i \in 1 .. n : u[i] # <<>>
    BY <1>1
  <2>3. CommaToken(m, t, s)
    BY ONLY <2>1, CommaTokens
  <2>4. CommaToken(n, u, r)
    BY ONLY <2>2, CommaTokens
  <2> QED BY <2>3, <2>4
<1>3. JoinedByCommas(t) = Concat(s) /\ JoinedByCommas(u) = Concat(r)
  BY <1>1, JoinedIs
<1>4. xx \in Closing /\ xx[1] = k /\ yy \in Closing /\ yy[1] = k /\ k \in Int
  <2>1. k \in Int /\ k \in Closers
    BY DEF Closers
  <2>2. xx \in Seq(Int) /\ xx # <<>> /\ xx[1] = k
    BY <2>1, OneCode
  <2>3. yy \in Seq(Int) /\ yy # <<>> /\ yy[1] = k
    BY <2>1, OneCode
  <2> HIDE DEF xx, yy
  <2> QED BY <2>1, <2>2, <2>3 DEF Closing
<1>5. 44 \in Closers /\ k \in Closers /\ k # 44 /\ Closing \in SUBSET Seq(Int)
  BY DEF Closers, Closing
<1> HIDE DEF s, r, xx, yy
<1>6. s \in [1 .. m -> Seq(Int)] /\ \A i \in 1 .. m : \A a \in Seq(Int) : CommaTokenAt(t, s, i, a)
  BY <1>2, Zenon DEF CommaToken
<1>7. r \in [1 .. n -> Seq(Int)] /\ \A i \in 1 .. n : \A a \in Seq(Int) : CommaTokenAt(u, r, i, a)
  BY <1>2, Zenon DEF CommaToken
<1>8. Decodable(Int, Closing, m, s, n, r, xx, yy)
  <2>1. ASSUME NEW i \in 1 .. m, i > 1, NEW a \in Seq(Int) PROVE s[i] \o a \in Closing
    <3>1. CommaTokenAt(t, s, i, a)
      BY <1>6
    <3>2. s[i] \o a \in Seq(Int) /\ s[i] \o a # <<>> /\ (s[i] \o a)[1] = 44
      BY <2>1, <3>1, Zenon DEF CommaTokenAt
    <3> QED BY <1>5, <3>2, Zenon DEF Closing
  <2>2. ASSUME NEW i \in 1 .. n, i > 1, NEW a \in Seq(Int) PROVE r[i] \o a \in Closing
    <3>1. CommaTokenAt(u, r, i, a)
      BY <1>7
    <3>2. r[i] \o a \in Seq(Int) /\ r[i] \o a # <<>> /\ (r[i] \o a)[1] = 44
      BY <2>2, <3>1, Zenon DEF CommaTokenAt
    <3> QED BY <1>5, <3>2, Zenon DEF Closing
  <2>3. ASSUME NEW i \in (1 .. m) \cap (1 .. n), NEW a \in Closing, NEW b \in Closing, s[i] \o a = r[i] \o b
        PROVE  s[i] = r[i] /\ a = b
    <3>1. i \in 1 .. m /\ i \in 1 .. n /\ a \in Seq(Int) /\ b \in Seq(Int)
      BY <1>5
    <3>2. CommaTokenAt(t, s, i, a)
      BY <1>6, <3>1
    <3>3. CommaTokenAt(u, r, i, b)
      BY <1>7, <3>1
    <3>4. /\ Comma(i) \o (t[i] \o a) = Comma(i) \o (u[i] \o b)
          /\ Comma(i) \in Seq(Int) /\ t[i] \o a \in Seq(Int) /\ u[i] \o b \in Seq(Int)
          /\ s[i] = Comma(i) \o t[i] /\ r[i] = Comma(i) \o u[i]
      BY <2>3, <3>2, <3>3, Zenon DEF CommaTokenAt
    <3>5. CutsAt(Comma(i), t[i] \o a, u[i] \o b)
      BY <3>4, Cuts
    <3>6. t[i] \o a = u[i] \o b
      BY <3>4, <3>5, Zenon DEF CutsAt
    <3>7. ItemDecodesAt(t, u, i, a, b)
      BY <1>1
    <3> QED BY <3>4, <3>6, <3>7, Zenon DEF ItemDecodesAt
  <2>4. ASSUME NEW i \in 1 .. m, NEW a \in Closing PROVE s[i] \o a # yy
    <3>1. CommaTokenAt(t, s, i, a)
      BY <1>5, <1>6
    <3>2. (s[i] \o a)[1] = 44 \/ (s[i] \o a)[1] = t[i][1]
      BY <3>1, Zenon DEF CommaTokenAt
    <3>3. t[i][1] \notin Closers /\ k \in Closers /\ k # 44 /\ yy[1] = k
      BY <1>1, <1>4, <1>5
    <3> QED BY ONLY <3>2, <3>3, Zenon
  <2>5. ASSUME NEW i \in 1 .. n, NEW a \in Closing PROVE r[i] \o a # xx
    <3>1. CommaTokenAt(u, r, i, a)
      BY <1>5, <1>7
    <3>2. (r[i] \o a)[1] = 44 \/ (r[i] \o a)[1] = u[i][1]
      BY <3>1, Zenon DEF CommaTokenAt
    <3>3. u[i][1] \notin Closers /\ k \in Closers /\ k # 44 /\ xx[1] = k
      BY <1>1, <1>4, <1>5
    <3> QED BY ONLY <3>2, <3>3, Zenon
  <2> QED BY <1>1, <1>4, <1>5, <1>6, <1>7, <2>1, <2>2, <2>3, <2>4, <2>5, Zenon DEF Decodable
<1>9. DecodesAt(m, s, n, r, xx, yy)
  BY <1>8, Decoded, Zenon
<1> SUFFICES ASSUME JoinedByCommas(t) \o (<< k >> \o x) = JoinedByCommas(u) \o (<< k >> \o y)
             PROVE  m = n /\ t = u /\ x = y
  BY DEF ListDecodesAt
<1>10. m = n /\ s = r /\ xx = yy
  <2>1. Concat(s) \o xx = Concat(r) \o yy
    BY <1>3 DEF xx, yy
  <2> QED BY <1>9, <2>1, Zenon DEF DecodesAt
<1>11. x = y
  <2> DEFINE q == << k >>
  <2>1. q \in Seq(Int) /\ q \o x = q \o y
    BY <1>4, <1>10 DEF xx, yy
  <2> HIDE DEF q
  <2>2. CutsAt(q, x, y)
    BY <2>1, Cuts
  <2> QED BY <2>1, <2>2, Zenon DEF CutsAt
<1>12. \A i \in 1 .. m : t[i] = u[i]
  <2> TAKE i \in 1 .. m
  <2>1. CommaTokenAt(t, s, i, x)
    BY <1>6
  <2>2. CommaTokenAt(u, r, i, x)
    BY <1>7, <1>10
  <2>3. Comma(i) \o t[i] = Comma(i) \o u[i] /\ Comma(i) \in Seq(Int) /\ t[i] \in Seq(Int) /\ u[i] \in Seq(Int)
    BY <1>10, <2>1, <2>2, Zenon DEF CommaTokenAt
  <2>4. CutsAt(Comma(i), t[i], u[i])
    BY <2>3, Cuts
  <2> QED BY <2>3, <2>4, Zenon DEF CutsAt
<1>13. t = u
  BY <1>1, <1>10, <1>12
<1> QED BY <1>10, <1>11, <1>13

UnbracketAt(a, t, b, x) ==
    /\ (<< a >> \o t \o << b >>) \o x = << a >> \o (t \o (<< b >> \o x))
    /\ << a >> \in Seq(Int) /\ << b >> \o x \in Seq(Int) /\ t \o (<< b >> \o x) \in Seq(Int)

(* A text between brackets is the bracket, the text and the bracket. *)
LEMMA Unbracket == \A a, b \in Int, t, x \in Seq(Int) : UnbracketAt(a, t, b, x)
<1> SUFFICES ASSUME NEW a \in Int, NEW b \in Int, NEW t \in Seq(Int), NEW x \in Seq(Int) PROVE UnbracketAt(a, t, b, x)
  OBVIOUS
<1> DEFINE p == << a >>
           q == << b >>
<1>1. p \in Seq(Int) /\ q \in Seq(Int)
  OBVIOUS
<1> HIDE DEF p, q
<1>2. AssociatesAt(p, t, q)
  BY <1>1, Associates
<1>3. AssociatesAt(p, t \o q, x)
  <2>1. AssociatesAt(t, q, x)
    BY <1>1, Associates
  <2>2. t \o q \in Seq(Int)
    BY <2>1, Zenon DEF AssociatesAt
  <2> QED BY <1>1, <2>2, Associates
<1>4. AssociatesAt(t, q, x)
  BY <1>1, Associates
<1>5. (p \o t \o q) \o x = p \o (t \o (q \o x)) /\ q \o x \in Seq(Int) /\ t \o (q \o x) \in Seq(Int)
  <2>1. p \o t \o q = p \o (t \o q)
    BY <1>2, Zenon DEF AssociatesAt
  <2>2. (p \o (t \o q)) \o x = p \o ((t \o q) \o x)
    BY <1>3, Zenon DEF AssociatesAt
  <2>3. (t \o q) \o x = t \o (q \o x) /\ q \o x \in Seq(Int)
    BY <1>4, Zenon DEF AssociatesAt
  <2>4. AssociatesAt(t, q \o x, x)
    BY <2>3, Associates
  <2>5. t \o (q \o x) \in Seq(Int)
    BY <2>4, Zenon DEF AssociatesAt
  <2> QED BY <2>1, <2>2, <2>3, <2>5, Zenon
<1> QED BY <1>1, <1>5, Zenon DEF p, q, UnbracketAt

(* The kind of a value, by the first code of its text *)
KindOf(c) ==
    IF c \in NumberCodes THEN "number"
    ELSE IF c = 34 THEN "string"
    ELSE IF c = 91 THEN "array"
    ELSE IF c = 123 THEN "object"
    ELSE IF c = 110 THEN "null"
    ELSE IF c = 0 THEN "nonfinite"
    ELSE "bool"

(* No value begins with a code that closes one, and the first code tells the *)
(* kind.                                                                     *)
LEMMA FirstCodes ==
    /\ \A c \in NumberCodes : c \notin Closers /\ KindOf(c) = "number" /\ c \in Int
    /\ 34 \notin Closers /\ KindOf(34) = "string"
    /\ 91 \notin Closers /\ KindOf(91) = "array"
    /\ 123 \notin Closers /\ KindOf(123) = "object"
    /\ 110 \notin Closers /\ KindOf(110) = "null"
    /\ 0 \notin Closers /\ KindOf(0) = "nonfinite"
    /\ 116 \notin Closers /\ KindOf(116) = "bool"
    /\ 102 \notin Closers /\ KindOf(102) = "bool"
BY DEF KindOf, Closers, NumberCodes, MantissaCodes, Below

OutsideClosers(z, c) ==
    z \in Seq(Int) /\ z # <<>> /\ z[1] = c /\ \A i \in 1 .. Len(z) : z[i] \notin Closers

(* The literals. *)
LEMMA LiteralIs ==
    ASSUME NEW v
    PROVE  /\ v.kind = "null" => LiteralText(v) = <<110, 117, 108, 108>>
           /\ v.kind = "nonfinite" => LiteralText(v) = <<0>>
           /\ v.kind = "bool" => LiteralText(v) = IF v.truth THEN <<116, 114, 117, 101>> ELSE <<102, 97, 108, 115, 101>>
<1>1. CASE v.kind = "null"
  BY <1>1 DEF LiteralText
<1>2. CASE v.kind = "nonfinite"
  BY <1>2 DEF LiteralText, Raises
<1>3. CASE v.kind = "bool"
  BY <1>3 DEF LiteralText
<1> QED BY <1>1, <1>2, <1>3

(* No literal has a code that closes a value. *)
LEMMA LiteralCodes ==
    ASSUME NEW v
    PROVE  /\ v.kind = "null" => OutsideClosers(LiteralText(v), 110)
           /\ v.kind = "nonfinite" => OutsideClosers(LiteralText(v), 0)
           /\ v.kind = "bool" /\ v.truth => OutsideClosers(LiteralText(v), 116)
           /\ v.kind = "bool" /\ ~v.truth => OutsideClosers(LiteralText(v), 102)
<1>1. OutsideClosers(<<110, 117, 108, 108>>, 110)
  BY DEF OutsideClosers, Closers
<1>2. OutsideClosers(<<0>>, 0)
  BY DEF OutsideClosers, Closers
<1>3. OutsideClosers(<<116, 114, 117, 101>>, 116)
  BY DEF OutsideClosers, Closers
<1>4. OutsideClosers(<<102, 97, 108, 115, 101>>, 102)
  BY DEF OutsideClosers, Closers
<1>5. CASE v.kind = "null"
  BY <1>1, <1>5, LiteralIs
<1>6. CASE v.kind = "nonfinite"
  BY <1>2, <1>6, LiteralIs
<1>7. CASE v.kind = "bool"
  BY <1>3, <1>4, <1>7, LiteralIs
<1> QED BY <1>5, <1>6, <1>7

StartsAt(v, text) ==
    /\ PyText(v, text) \in Text /\ PyText(v, text) # <<>>
    /\ PyText(v, text)[1] \notin Closers
    /\ KindOf(PyText(v, text)[1]) = v.kind

(* The text of a value begins with the code of its kind. *)
LEMMA Starts ==
    ASSUME NEW v, ValueIs(v), NEW text, \A w \in Parts(v) : text[w] \in Text
    PROVE  StartsAt(v, text)
<1> DEFINE Starting(c) == c \notin Closers /\ KindOf(c) = v.kind
<1>1. PyText(v, text) \in Text /\ PyText(v, text) # <<>>
  BY PyTextType
<1>2. ASSUME v.kind = "number", NumberValid(v) PROVE Starting(PyText(v, text)[1])
  <2>1. PyText(v, text) = PyNumber(v)
    BY <1>2, PyTextIs
  <2>2. PyNumber(v) \in Seq(NumberCodes) /\ PyNumber(v) # <<>>
    BY <1>2, PyNumberType
  <2>3. PyNumber(v)[1] \in NumberCodes
    BY <2>2
  <2> QED BY <1>2, <2>1, <2>3, FirstCodes
<1>3. ASSUME v.kind = "string", v \in [kind : {"string"}, chars : Strings] PROVE Starting(PyText(v, text)[1])
  <2>1. PyText(v, text) = PyString(v.chars)
    BY <1>3, PyTextIs
  <2>2. PyString(v.chars)[1] = 34
    <3>1. v.chars \in Strings
      BY <1>3
    <3> QED BY <3>1, StringType
  <2> QED BY <1>3, <2>1, <2>2, FirstCodes
<1>4. ASSUME v.kind = "array", v \in [kind : {"array"}, items : Seq(Values)] PROVE Starting(PyText(v, text)[1])
  <2>1. PyText(v, text) = ArrayText(ItemTexts(v.items, text))
    BY <1>4, PyTextIs
  <2>2. ArrayText(ItemTexts(v.items, text))[1] = 91
    <3>1. v.items \in Seq(Values) /\ Len(v.items) \in Nat /\ DOMAIN v.items = 1 .. Len(v.items)
      BY <1>4
    <3>2. \A i \in DOMAIN v.items : v.items[i] \in Parts(v)
      BY <1>4, PartsAre
    <3>3. ItemTexts(v.items, text) \in [1 .. Len(v.items) -> Text]
      BY <3>1, <3>2 DEF ItemTexts
    <3> QED BY <3>1, <3>3, ArrayTextType
  <2> QED BY <1>4, <2>1, <2>2, FirstCodes
<1>5. ASSUME v.kind = "object", v = ObjectValue(v.members), ObjectIs(v.members) PROVE Starting(PyText(v, text)[1])
  <2>1. PyText(v, text) = ObjectText(KeyTexts(v.members), ValueTexts(v.members, text))
    BY <1>5, PyTextIs
  <2>2. \A k \in DOMAIN v.members : text[v.members[k]] \in Text
    BY <1>5, PartsAre
  <2>3. ObjectText(KeyTexts(v.members), ValueTexts(v.members, text))[1] = 123
    <3> DEFINE f == v.members
               n == Cardinality(DOMAIN f)
               ks == KeyTexts(f)
               vs == ValueTexts(f, text)
    <3>1. n \in Nat /\ ks \in [1 .. n -> Text] /\ vs \in [1 .. n -> Text]
      BY <1>5, <2>2, ObjectTexts
    <3> HIDE DEF n, ks, vs
    <3>2. ObjectText(ks, vs)[1] = 123
      BY <3>1, ObjectTextType
    <3> QED BY <3>2 DEF ks, vs
  <2> QED BY <1>5, <2>1, <2>3, FirstCodes
<1>6. ASSUME v.kind \in {"null", "bool", "nonfinite"} PROVE Starting(PyText(v, text)[1])
  <2>1. PyText(v, text) = LiteralText(v)
    BY <1>6, PyTextIs
  <2>2. /\ v.kind = "null" => LiteralText(v)[1] = 110
        /\ v.kind = "nonfinite" => LiteralText(v)[1] = 0
        /\ v.kind = "bool" => LiteralText(v)[1] = 116 \/ LiteralText(v)[1] = 102
    BY <1>6, LiteralIs
  <2> QED BY <1>6, <2>1, <2>2, FirstCodes
<1>7. Starting(PyText(v, text)[1])
  <2> HIDE DEF Starting
  <2> QED BY <1>2, <1>3, <1>4, <1>5, <1>6 DEF ValueIs
<1> QED BY <1>1, <1>7, Zenon DEF StartsAt

(* The recursion of Same has its solution. *)
LEMMA SameAre == \A v, w \in Values : Same[v][w] <=> SaysTheSame(v, w, [part \in Parts(v) |-> Same[part]])
<1> DEFINE T == [Values -> BOOLEAN]
           Step(f) == [v \in Values |-> [w \in Values |-> SaysTheSame(v, w, [part \in Parts(v) |-> f[part]])]]
           F == [f \in [Values -> T] |-> Step(f)]
<1>1. ASSUME NEW f \in [Values -> T] PROVE Step(f) \in [Values -> T]
  BY DEF SaysTheSame
<1>2. ASSUME NEW f \in [Values -> T], NEW g \in [Values -> T], NEW v \in Values,
             \A w \in Values : Depth[w] < Depth[v] => f[w] = g[w]
      PROVE  F[f][v] = F[g][v]
  <2>1. [part \in Parts(v) |-> f[part]] = [part \in Parts(v) |-> g[part]]
    BY <1>2, DepthFalls
  <2>2. /\ F[f][v] = [w \in Values |-> SaysTheSame(v, w, [part \in Parts(v) |-> f[part]])]
        /\ F[g][v] = [w \in Values |-> SaysTheSame(v, w, [part \in Parts(v) |-> g[part]])]
    OBVIOUS
  <2> QED BY <2>1, <2>2
<1>3. F \in [[Values -> T] -> [Values -> T]]
  <2> HIDE DEF Step, T
  <2> QED BY <1>1
<1>4. Contractive(F, Values, T, Depth)
  <2>1. T # {}
    <3>1. [w \in Values |-> TRUE] \in T
      OBVIOUS
    <3> QED BY <3>1
  <2> HIDE DEF F, T
  <2> QED BY <1>2, <1>3, <2>1, DepthFalls DEF Contractive
<1>5. PICK f \in [Values -> T] : f = F[f]
  <2> HIDE DEF F, T
  <2> QED BY <1>4, Recursive
<1>6. f = Step(f)
  <2> HIDE DEF Step
  <2> QED BY <1>5
<1>7. Same = Step(Same)
  <2> DEFINE g == CHOOSE g : g = Step(g)
  <2>1. g = Step(g)
    BY <1>6
  <2>2. Same = g
    BY DEF Same
  <2> HIDE DEF Step, g
  <2> QED BY <2>1, <2>2
<1> SUFFICES ASSUME NEW v \in Values, NEW w \in Values
             PROVE  Same[v][w] <=> SaysTheSame(v, w, [part \in Parts(v) |-> Same[part]])
  OBVIOUS
<1>8. Step(Same)[v][w] = SaysTheSame(v, w, [part \in Parts(v) |-> Same[part]])
  OBVIOUS
<1> HIDE DEF Step
<1> QED BY <1>7, <1>8

(* PyTexts, from the texts of all values. *)
LEMMA PyTextsOfParts == \A v \in Values : PyTexts[v] = PyText(v, PyTexts)
<1> SUFFICES ASSUME NEW v \in Values PROVE PyTexts[v] = PyText(v, PyTexts)
  OBVIOUS
<1> DEFINE text == [part \in Parts(v) |-> PyTexts[part]]
<1>1. PyTexts[v] = PyText(v, text)
  BY PyTextsAre
<1>2. \A w \in Parts(v) : text[w] = PyTexts[w]
  OBVIOUS
<1>3. ValueIs(v)
  BY ValuesAre
<1> HIDE DEF text
<1>4. CASE v.kind \notin {"array", "object"}
  BY <1>1, <1>3, <1>4, PyTextIs DEF ValueIs
<1>5. CASE v.kind = "array"
  <2>1. ItemTexts(v.items, text) = ItemTexts(v.items, PyTexts)
    BY <1>2, <1>5, PartsAre DEF ItemTexts
  <2> QED BY <1>1, <1>5, <2>1, PyTextIs
<1>6. CASE v.kind = "object"
  <2> DEFINE f == v.members
             ks == KeysOf(f)
             n == Cardinality(DOMAIN f)
  <2>1. ks \in [1 .. n -> DOMAIN f]
    <3>1. ObjectIs(f)
      BY <1>3, <1>6 DEF ValueIs
    <3> QED BY <3>1, SortedByCodePointIs DEF ObjectIs, KeysOf
  <2>2. \A i \in DOMAIN ks : f[ks[i]] \in Parts(v)
    <3>1. Parts(v) = {f[k] : k \in DOMAIN f}
      BY <1>6, PartsAre
    <3> HIDE DEF f, ks, n
    <3> QED BY <2>1, <3>1
  <2>3. ValueTexts(f, text) = ValueTexts(f, PyTexts)
    <3> HIDE DEF f
    <3> QED BY <1>2, <2>2 DEF ValueTexts
  <2> QED BY <1>1, <1>6, <2>3, PyTextIs
<1> QED BY <1>4, <1>5, <1>6

(* Same, from Same on all values. *)
LEMMA SameParts == \A v, w \in Values : Same[v][w] <=> SaysTheSame(v, w, Same)
<1> SUFFICES ASSUME NEW v \in Values, NEW w \in Values PROVE Same[v][w] <=> SaysTheSame(v, w, Same)
  OBVIOUS
<1> DEFINE same == [part \in Parts(v) |-> Same[part]]
<1>1. Same[v][w] <=> SaysTheSame(v, w, same)
  BY SameAre
<1>2. \A p \in Parts(v) : same[p] = Same[p]
  OBVIOUS
<1>3. v.kind = "array" => \A i \in DOMAIN v.items : same[v.items[i]] = Same[v.items[i]]
  BY PartsAre
<1>4. v.kind = "object" => \A k \in DOMAIN v.members : same[v.members[k]] = Same[v.members[k]]
  BY PartsAre
<1> HIDE DEF same
<1>5. SaysTheSame(v, w, same) <=> SaysTheSame(v, w, Same)
  <2>1. CASE v.kind = "array"
    BY <1>3, <2>1 DEF SaysTheSame
  <2>2. CASE v.kind = "object"
    BY <1>4, <2>2 DEF SaysTheSame
  <2>3. CASE v.kind \notin {"array", "object"}
    BY <2>3 DEF SaysTheSame
  <2> QED BY <2>1, <2>2, <2>3
<1> QED BY <1>1, <1>5

(* Two values whose texts, and what follows them, are equal *)
DecidesAt(v, w, x, y) ==
    PyText(v, PyTexts) \o x = PyText(w, PyTexts) \o y => x = y /\ SaysTheSame(v, w, Same)

StringsAreCharacters(v) ==
    /\ v.kind = "string" => v.chars \in Seq(Characters)
    /\ v.kind = "object" => DOMAIN v.members \subseteq Seq(Characters)

(* What closes a value is a text that begins with a comma or a bracket. *)
LEMMA ClosingIs ==
    /\ Closing \subseteq Seq(Int)
    /\ \A x \in Closing : x # <<>> /\ x[1] \in Closers
    /\ <<44>> \in Closing
BY DEF Closing, Closers

(* Numbers with equal texts say the same. *)
LEMMA NumberDecides ==
    ASSUME NEW v, v.kind = "number", NumberValid(v), NEW w, w.kind = "number", NumberValid(w),
           NEW x \in Closing, NEW y \in Closing
    PROVE  DecidesAt(v, w, x, y)
<1> SUFFICES ASSUME PyText(v, PyTexts) \o x = PyText(w, PyTexts) \o y PROVE x = y /\ SaysTheSame(v, w, Same)
  BY DEF DecidesAt
<1>1. PyText(v, PyTexts) = PyNumber(v) /\ PyText(w, PyTexts) = PyNumber(w)
  BY PyTextIs
<1>2. ASSUME NEW u, NumberValid(u), NEW z \in Closing PROVE AvoidsUntil(Closers, PyNumber(u), z)
  <2>1. PyNumber(u) \in Seq(NumberCodes)
    BY <1>2, PyNumberType
  <2>2. \A i \in 1 .. Len(PyNumber(u)) : PyNumber(u)[i] \in NumberCodes
    BY <2>1
  <2>3. PyNumber(u) \in Seq(Int)
    BY <2>1, CodesAreText
  <2>4. z \in Seq(Int) /\ z # <<>> /\ z[1] \in Closers
    BY ClosingIs
  <2> QED BY <2>2, <2>3, <2>4, FirstCodes DEF AvoidsUntil
<1>3. AvoidsUntil(Closers, PyNumber(v), x)
  BY <1>2
<1>4. AvoidsUntil(Closers, PyNumber(w), y)
  BY <1>2
<1>5. PyNumber(v) = PyNumber(w) /\ x = y
  <2>1. PyNumber(v) \o x = PyNumber(w) \o y
    BY <1>1
  <2> QED BY <1>3, <1>4, <2>1, Delimited
<1>6. v.digits = w.digits /\ v.exponent = w.exponent /\ (v.negative = w.negative \/ v.digits = <<>>)
  <2> DEFINE fv == IsInteger(v) \/ v.exponent \in -4 .. 15
             fw == IsInteger(w) \/ w.exponent \in -4 .. 15
  <2>1. PyNumber(v) = NumberText(v, fv) /\ PyNumber(w) = NumberText(w, fw)
    BY DEF PyNumber
  <2>2. fv \in BOOLEAN /\ (IsInteger(v) => fv) /\ fw \in BOOLEAN /\ (IsInteger(w) => fw)
    OBVIOUS
  <2> HIDE DEF fv, fw
  <2>3. NumberText(v, fv) = NumberText(w, fw)
    BY <1>5, <2>1
  <2> QED BY <2>2, <2>3, NumberTextDecoded
<1> QED BY <1>5, <1>6 DEF SaysTheSame

(* Strings with equal texts are equal. *)
LEMMA StringDecides ==
    ASSUME NEW v, v \in [kind : {"string"}, chars : Strings], NEW w, w \in [kind : {"string"}, chars : Strings],
           StringsAreCharacters(v), StringsAreCharacters(w), NEW x \in Closing, NEW y \in Closing
    PROVE  DecidesAt(v, w, x, y)
<1> SUFFICES ASSUME PyText(v, PyTexts) \o x = PyText(w, PyTexts) \o y PROVE x = y /\ SaysTheSame(v, w, Same)
  BY DEF DecidesAt
<1>1. PyText(v, PyTexts) = PyString(v.chars)
  BY PyTextIs
<1>2. PyText(w, PyTexts) = PyString(w.chars)
  BY PyTextIs
<1>3. v.chars \in Seq(Characters) /\ w.chars \in Seq(Characters) /\ x \in Seq(Int) /\ y \in Seq(Int)
  BY ClosingIs DEF StringsAreCharacters
<1>4. StringDecodesAt(v.chars, w.chars, x, y)
  BY <1>3, StringDecoded
<1>5. v.chars = w.chars /\ x = y
  BY <1>1, <1>2, <1>4, Zenon DEF StringDecodesAt
<1>6. v = w /\ v.kind = "string"
  BY <1>5
<1> QED BY <1>5, <1>6 DEF SaysTheSame

(* Literals with equal texts are equal. *)
LEMMA LiteralDecides ==
    ASSUME NEW v, ValueIs(v), v.kind \in {"null", "bool", "nonfinite"}, NEW w, ValueIs(w), w.kind = v.kind,
           NEW x \in Closing, NEW y \in Closing
    PROVE  DecidesAt(v, w, x, y)
<1> SUFFICES ASSUME PyText(v, PyTexts) \o x = PyText(w, PyTexts) \o y PROVE x = y /\ SaysTheSame(v, w, Same)
  BY DEF DecidesAt
<1>1. PyText(v, PyTexts) = LiteralText(v)
  BY PyTextIs
<1>2. PyText(w, PyTexts) = LiteralText(w)
  BY PyTextIs
<1>3. ASSUME NEW u, u.kind \in {"null", "bool", "nonfinite"}, NEW z \in Closing PROVE AvoidsUntil(Closers, LiteralText(u), z)
  <2>1. PICK c \in {110, 0, 116, 102} : OutsideClosers(LiteralText(u), c)
    BY <1>3, LiteralCodes
  <2>2. z \in Seq(Int) /\ z # <<>> /\ z[1] \in Closers
    BY ClosingIs
  <2> QED BY <2>1, <2>2, Zenon DEF AvoidsUntil, OutsideClosers
<1>4. AvoidsUntil(Closers, LiteralText(v), x)
  BY <1>3
<1>5. AvoidsUntil(Closers, LiteralText(w), y)
  BY <1>3
<1>6. LiteralText(v) = LiteralText(w) /\ x = y
  <2>1. LiteralText(v) \o x = LiteralText(w) \o y
    BY <1>1, <1>2
  <2> QED BY <1>4, <1>5, <2>1, Delimited
<1>7. v = w
  <2>1. CASE v.kind = "bool"
    <3>1. v \in [kind : {"bool"}, truth : BOOLEAN] /\ w \in [kind : {"bool"}, truth : BOOLEAN]
      BY <2>1 DEF ValueIs
    <3>2. \A b \in {v, w} : LiteralText(b)[1] = IF b.truth THEN 116 ELSE 102
      BY <2>1, LiteralIs
    <3> QED BY <1>6, <3>1, <3>2
  <2>2. CASE v.kind # "bool"
    BY <2>2 DEF ValueIs
  <2> QED BY <2>1, <2>2
<1> QED BY <1>6, <1>7 DEF SaysTheSame

(* The text of a value is not empty, and begins with no code that closes *)
(* one.                                                                  *)
LEMMA PartText ==
    \A p \in Values :
        /\ PyTexts[p] = PyText(p, PyTexts)
        /\ PyTexts[p] \in Text /\ PyTexts[p] \in Seq(Int) /\ PyTexts[p] # <<>> /\ PyTexts[p][1] \notin Closers
<1> SUFFICES ASSUME NEW p \in Values
             PROVE  /\ PyTexts[p] = PyText(p, PyTexts)
                    /\ PyTexts[p] \in Text /\ PyTexts[p] \in Seq(Int) /\ PyTexts[p] # <<>> /\ PyTexts[p][1] \notin Closers
  OBVIOUS
<1>1. PyTexts[p] = PyText(p, PyTexts)
  BY PyTextsOfParts
<1>2. \A w \in Parts(p) : PyTexts[w] \in Text
  BY DepthFalls, PyTextsAre
<1>3. ValueIs(p)
  BY ValuesAre
<1>4. StartsAt(p, PyTexts)
  BY <1>2, <1>3, Starts
<1> QED BY <1>1, <1>4, TextIsSeqInt DEF StartsAt

PartDecodesAt(p, q, a, b) ==
    PyTexts[p] \o a = PyTexts[q] \o b => PyTexts[p] = PyTexts[q] /\ a = b /\ Same[p][q]

PartsDecode(v, w) == \A p \in Parts(v), q \in Parts(w), a, b \in Closing : PartDecodesAt(p, q, a, b)

(* A value told by what closes it has its text told. *)
LEMMA PartDecoded ==
    ASSUME NEW p \in Values, NEW q \in Values, NEW a \in Closing, NEW b \in Closing, DecidesAt(p, q, a, b)
    PROVE  PartDecodesAt(p, q, a, b)
<1> SUFFICES ASSUME PyTexts[p] \o a = PyTexts[q] \o b PROVE PyTexts[p] = PyTexts[q] /\ a = b /\ Same[p][q]
  BY DEF PartDecodesAt
<1>1. PyTexts[p] = PyText(p, PyTexts) /\ PyTexts[p] \in Seq(Int)
  BY PartText
<1>2. PyTexts[q] = PyText(q, PyTexts) /\ PyTexts[q] \in Seq(Int)
  BY PartText
<1>3. a = b /\ SaysTheSame(p, q, Same)
  BY <1>1, <1>2, Zenon DEF DecidesAt
<1>4. Same[p][q]
  BY <1>3, SameParts
<1>5. CutsEndAt(PyTexts[p], PyTexts[q], a)
  BY <1>1, <1>2, ClosingIs, CutsEnd
<1> QED BY <1>3, <1>4, <1>5, Zenon DEF CutsEndAt

(* Arrays with equal texts say the same if their items are told by their *)
(* texts.                                                                *)
LEMMA ArrayDecides ==
    ASSUME NEW v, v \in [kind : {"array"}, items : Seq(Values)], NEW w, w \in [kind : {"array"}, items : Seq(Values)],
           PartsDecode(v, w), NEW x \in Closing, NEW y \in Closing
    PROVE  DecidesAt(v, w, x, y)
<1> DEFINE m == Len(v.items)
           n == Len(w.items)
           t == ItemTexts(v.items, PyTexts)
           u == ItemTexts(w.items, PyTexts)
           T == JoinedByCommas(t)
           U == JoinedByCommas(u)
           xx == << 93 >> \o x
           yy == << 93 >> \o y
           open == << 91 >>
<1> SUFFICES ASSUME PyText(v, PyTexts) \o x = PyText(w, PyTexts) \o y PROVE x = y /\ SaysTheSame(v, w, Same)
  BY DEF DecidesAt
<1>1. /\ v.kind = "array" /\ v.items \in Seq(Values) /\ m \in Nat /\ DOMAIN v.items = 1 .. m
      /\ w.kind = "array" /\ w.items \in Seq(Values) /\ n \in Nat /\ DOMAIN w.items = 1 .. n
      /\ x \in Seq(Int) /\ y \in Seq(Int)
  BY ClosingIs
<1>2. /\ \A i \in 1 .. m : v.items[i] \in Parts(v) /\ v.items[i] \in Values /\ t[i] = PyTexts[v.items[i]]
      /\ \A i \in 1 .. n : w.items[i] \in Parts(w) /\ w.items[i] \in Values /\ u[i] = PyTexts[w.items[i]]
  <2>1. Parts(v) = {v.items[i] : i \in DOMAIN v.items}
    BY <1>1, PartsAre
  <2>2. Parts(w) = {w.items[i] : i \in DOMAIN w.items}
    BY <1>1, PartsAre
  <2>3. \A i \in 1 .. m : v.items[i] \in Parts(v) /\ v.items[i] \in Values /\ t[i] = PyTexts[v.items[i]]
    <3> TAKE i \in 1 .. m
    <3>1. i \in DOMAIN v.items /\ v.items[i] \in Values
      BY <1>1
    <3>2. v.items[i] \in Parts(v)
      BY <2>1, <3>1
    <3>3. t[i] = PyTexts[v.items[i]]
      BY <3>1 DEF ItemTexts
    <3> QED BY <3>1, <3>2, <3>3
  <2>4. \A i \in 1 .. n : w.items[i] \in Parts(w) /\ w.items[i] \in Values /\ u[i] = PyTexts[w.items[i]]
    <3> TAKE i \in 1 .. n
    <3>1. i \in DOMAIN w.items /\ w.items[i] \in Values
      BY <1>1
    <3>2. w.items[i] \in Parts(w)
      BY <2>2, <3>1
    <3>3. u[i] = PyTexts[w.items[i]]
      BY <3>1 DEF ItemTexts
    <3> QED BY <3>1, <3>2, <3>3
  <2> QED BY <2>3, <2>4
<1>3. t \in [1 .. m -> Text] /\ u \in [1 .. n -> Text]
  BY <1>1, <1>2, PartText DEF ItemTexts
<1>4. PyText(v, PyTexts) = open \o T \o << 93 >> /\ T \in Text
  <2>1. PyText(v, PyTexts) = ArrayText(t)
    BY <1>1, PyTextIs
  <2>2. T \in Text
    BY <1>1, <1>3, JoinedIs
  <2> QED BY <2>1, <2>2 DEF ArrayText, Ascii
<1>5. PyText(w, PyTexts) = open \o U \o << 93 >> /\ U \in Text
  <2>1. PyText(w, PyTexts) = ArrayText(u)
    BY <1>1, PyTextIs
  <2>2. U \in Text
    BY <1>1, <1>3, JoinedIs
  <2> QED BY <2>1, <2>2 DEF ArrayText, Ascii
<1> HIDE DEF m, n, t, u, T, U
<1>6. T \o xx = U \o yy
  <2>1. UnbracketAt(91, T, 93, x)
    BY <1>1, <1>4, TextIsSeqInt, Unbracket
  <2>2. UnbracketAt(91, U, 93, y)
    BY <1>1, <1>5, TextIsSeqInt, Unbracket
  <2>3. (open \o T \o << 93 >>) \o x = open \o (T \o xx) /\ open \in Seq(Int) /\ T \o xx \in Seq(Int)
    BY ONLY <2>1, Zenon DEF UnbracketAt
  <2>4. (open \o U \o << 93 >>) \o y = open \o (U \o yy) /\ U \o yy \in Seq(Int)
    BY ONLY <2>2, Zenon DEF UnbracketAt
  <2> DEFINE close == << 93 >>
  <2>5. PyText(v, PyTexts) = open \o T \o close /\ PyText(w, PyTexts) = open \o U \o close
    BY <1>4, <1>5
  <2>6. (open \o T \o close) \o x = open \o (T \o xx) /\ (open \o U \o close) \o y = open \o (U \o yy)
    BY <2>3, <2>4
  <2> HIDE DEF open, xx, yy, close
  <2>7. open \o (T \o xx) = open \o (U \o yy)
    BY <2>5, <2>6
  <2>8. CutsAt(open, T \o xx, U \o yy)
    BY <2>3, <2>4, Cuts
  <2> QED BY <2>7, <2>8, Zenon DEF CutsAt
<1>7. Listed(m, t, n, u)
  <2>1. ASSUME NEW i \in (1 .. m) \cap (1 .. n), NEW a \in Closing, NEW b \in Closing PROVE ItemDecodesAt(t, u, i, a, b)
    <3>1. PartDecodesAt(v.items[i], w.items[i], a, b)
      BY <1>2 DEF PartsDecode
    <3>2. t[i] = PyTexts[v.items[i]] /\ u[i] = PyTexts[w.items[i]]
      BY <1>2
    <3> QED BY <3>1, <3>2, Zenon DEF PartDecodesAt, ItemDecodesAt
  <2>2. \A i \in 1 .. m : t[i] # <<>> /\ t[i][1] \notin Closers
    BY <1>2, PartText
  <2>3. \A i \in 1 .. n : u[i] # <<>> /\ u[i][1] \notin Closers
    BY <1>2, PartText
  <2> QED BY <1>1, <1>3, <2>1, <2>2, <2>3, Zenon DEF Listed
<1>8. m = n /\ t = u /\ x = y
  <2>1. ListDecodesAt(m, t, n, u, 93, x, y)
    BY <1>1, <1>7, ListDecoded
  <2> QED BY <1>6, <2>1, Zenon DEF ListDecodesAt, T, U
<1>9. ASSUME NEW i \in 1 .. m PROVE Same[v.items[i]][w.items[i]]
  <2> DEFINE z == << 44 >>
  <2>1. z \in Closing
    BY ClosingIs
  <2> HIDE DEF z
  <2>2. PartDecodesAt(v.items[i], w.items[i], z, z)
    BY <1>2, <1>8, <2>1 DEF PartsDecode
  <2>3. PyTexts[v.items[i]] = PyTexts[w.items[i]]
    BY <1>2, <1>8
  <2> QED BY <2>2, <2>3, Zenon DEF PartDecodesAt
<1> QED BY <1>1, <1>8, <1>9 DEF SaysTheSame

Member(key, value) == key \o << 58 >> \o value

MemberSplitAt(key, value, a) ==
    /\ Member(key, value) \o a = key \o (<< 58 >> \o (value \o a))
    /\ value \o a \in Seq(Int) /\ << 58 >> \o (value \o a) \in Seq(Int)

(* A member is its key, a colon and its value. *)
LEMMA MemberSplit == \A key, value, a \in Seq(Int) : MemberSplitAt(key, value, a)
<1> SUFFICES ASSUME NEW key \in Seq(Int), NEW value \in Seq(Int), NEW a \in Seq(Int) PROVE MemberSplitAt(key, value, a)
  OBVIOUS
<1> DEFINE c == << 58 >>
<1>1. c \in Seq(Int)
  OBVIOUS
<1> HIDE DEF c
<1>2. AssociatesAt(key, c, value)
  BY <1>1, Associates
<1>3. key \o c \in Seq(Int)
  BY <1>2, Zenon DEF AssociatesAt
<1>4. AssociatesAt(key \o c, value, a)
  BY <1>3, Associates
<1>5. value \o a \in Seq(Int) /\ ((key \o c) \o value) \o a = (key \o c) \o (value \o a)
  BY <1>4, Zenon DEF AssociatesAt
<1>6. AssociatesAt(key, c, value \o a)
  BY <1>1, <1>5, Associates
<1>7. c \o (value \o a) \in Seq(Int) /\ (key \o c) \o (value \o a) = key \o (c \o (value \o a))
  BY <1>6, Zenon DEF AssociatesAt
<1> QED BY <1>5, <1>7, Zenon DEF c, Member, MemberSplitAt

MemberDecodesAt(k, p, l, q, a, b) ==
    Member(PyString(k), PyTexts[p]) \o a = Member(PyString(l), PyTexts[q]) \o b
    => k = l /\ PyTexts[p] = PyTexts[q] /\ a = b /\ Same[p][q]

(* A member tells its key and its value, if the value is told by its text. *)
LEMMA MemberDecoded ==
    ASSUME NEW k \in Seq(Characters), NEW l \in Seq(Characters), NEW p \in Values, NEW q \in Values,
           NEW a \in Closing, NEW b \in Closing, PartDecodesAt(p, q, a, b)
    PROVE  MemberDecodesAt(k, p, l, q, a, b)
<1> DEFINE K == PyString(k)
           L == PyString(l)
           V == PyTexts[p]
           W == PyTexts[q]
           c == << 58 >>
<1> SUFFICES ASSUME Member(K, V) \o a = Member(L, W) \o b
             PROVE  k = l /\ V = W /\ a = b /\ Same[p][q]
  BY DEF MemberDecodesAt
<1>1. c \in Seq(Int) /\ a \in Seq(Int) /\ b \in Seq(Int) /\ V \in Seq(Int) /\ W \in Seq(Int)
  BY PartText, ClosingIs
<1>2. k \in Strings /\ l \in Strings
  BY DEF Strings, Characters
<1>3. K \in Seq(Int) /\ L \in Seq(Int)
  BY <1>2, StringType, TextIsSeqInt
<1>4. MemberSplitAt(K, V, a)
  BY <1>1, <1>3, MemberSplit
<1>5. MemberSplitAt(L, W, b)
  BY <1>1, <1>3, MemberSplit
<1>6. K \o (c \o (V \o a)) = L \o (c \o (W \o b))
  BY <1>4, <1>5, Zenon DEF MemberSplitAt
<1>7. V \o a \in Seq(Int) /\ W \o b \in Seq(Int) /\ c \o (V \o a) \in Seq(Int) /\ c \o (W \o b) \in Seq(Int)
  BY <1>4, <1>5, Zenon DEF MemberSplitAt
<1> HIDE DEF c, V, W
<1>8. StringDecodesAt(k, l, c \o (V \o a), c \o (W \o b))
  BY <1>7, StringDecoded
<1>9. k = l /\ c \o (V \o a) = c \o (W \o b)
  BY <1>6, <1>8, Zenon DEF StringDecodesAt
<1>10. CutsAt(c, V \o a, W \o b)
  BY <1>1, <1>7, Cuts
<1>11. V \o a = W \o b
  BY <1>9, <1>10, Zenon DEF CutsAt
<1>12. V = W /\ a = b /\ Same[p][q]
  BY <1>11, Zenon DEF PartDecodesAt, V, W
<1> QED BY <1>9, <1>12

(* The members of an object, in the order they are written *)
Members(f) == MemberTexts(KeyTexts(f), ValueTexts(f, PyTexts))

MemberIs(v, i) ==
    LET f == v.members IN
    /\ KeysOf(f)[i] \in DOMAIN f /\ f[KeysOf(f)[i]] \in Parts(v) /\ f[KeysOf(f)[i]] \in Values
    /\ Members(f)[i] = Member(PyString(KeysOf(f)[i]), PyTexts[f[KeysOf(f)[i]]])
    /\ Members(f)[i] # <<>> /\ Members(f)[i][1] \notin Closers

ObjectWritten(v, n) ==
    /\ n \in Nat /\ Members(v.members) \in [1 .. n -> Text]
    /\ KeysOf(v.members) \in [1 .. n -> DOMAIN v.members]
    /\ \A k \in DOMAIN v.members : \E i \in 1 .. n : KeysOf(v.members)[i] = k
    /\ \A i \in 1 .. n : MemberIs(v, i)
    /\ PyText(v, PyTexts) = << 123 >> \o JoinedByCommas(Members(v.members)) \o << 125 >>
    /\ JoinedByCommas(Members(v.members)) \in Seq(Int)

(* The text of an object lists its members, in the order of the keys, each *)
(* key once.                                                               *)
LEMMA ObjectIsWritten ==
    ASSUME NEW v, v.kind = "object", v = ObjectValue(v.members), ObjectIs(v.members)
    PROVE  ObjectWritten(v, Cardinality(DOMAIN v.members))
<1> DEFINE f == v.members
           n == Cardinality(DOMAIN f)
           ks == KeysOf(f)
           kt == KeyTexts(f)
           vt == ValueTexts(f, PyTexts)
<1>1. /\ \A k \in DOMAIN f : f[k] \in Values /\ f[k] \in Parts(v)
      /\ DOMAIN f \in SUBSET Strings /\ IsFiniteSet(DOMAIN f)
  BY PartsAre DEF ObjectIs
<1>2. n \in Nat /\ ks \in [1 .. n -> DOMAIN f] /\ \A k \in DOMAIN f : \E i \in 1 .. n : ks[i] = k
  BY <1>1, SortedByCodePointIs DEF KeysOf
<1>3. kt \in [1 .. n -> Text] /\ vt \in [1 .. n -> Text]
  <2>1. \A k \in DOMAIN f : PyTexts[f[k]] \in Text
    BY <1>1, PartText
  <2> QED BY <2>1, ObjectTexts
<1>4. Members(f) \in [1 .. n -> Text]
  <2> HIDE DEF n, kt, vt
  <2> QED BY <1>2, <1>3, MemberTextsType DEF Members, kt, vt
<1>5. PyText(v, PyTexts) = << 123 >> \o JoinedByCommas(Members(f)) \o << 125 >>
  <2>1. PyText(v, PyTexts) = ObjectText(kt, vt)
    BY PyTextIs
  <2>2. ObjectText(kt, vt) = << 123 >> \o JoinedByCommas(Members(f)) \o << 125 >>
    <3> HIDE DEF n, kt, vt
    <3>1. ObjectText(kt, vt) = << 123 >> \o JoinedByCommas(MemberTexts(kt, vt)) \o << 125 >>
      BY DEF ObjectText, MemberTexts, Ascii
    <3> QED BY <3>1, Zenon DEF Members, kt, vt
  <2> QED BY <2>1, <2>2
<1>6. JoinedByCommas(Members(f)) \in Seq(Int)
  <2>1. JoinedByCommas(Members(f)) \in Text
    BY <1>2, <1>4, JoinedIs
  <2> QED BY <2>1, TextIsSeqInt
<1>7. ASSUME NEW i \in 1 .. n PROVE MemberIs(v, i)
  <2> DEFINE k == ks[i]
             p == f[k]
             K == PyString(k)
             V == PyTexts[p]
  <2>1. k \in DOMAIN f /\ k \in Strings /\ p \in Values /\ p \in Parts(v)
    BY <1>1, <1>2
  <2>2. Members(f)[i] = Member(K, V)
    <3>1. i \in DOMAIN ks
      BY <1>2
    <3> QED BY <3>1 DEF Members, MemberTexts, KeyTexts, ValueTexts, Member
  <2>3. K \in Seq(Int) /\ K # <<>> /\ K[1] = 34 /\ V \in Seq(Int)
    BY <2>1, StringType, TextIsSeqInt, PartText
  <2> HIDE DEF k, p, K, V
  <2>4. Member(K, V) # <<>> /\ Member(K, V)[1] = 34
    <3> DEFINE c == << 58 >>
    <3>1. c \in Seq(Int)
      OBVIOUS
    <3>2. K \o c \in Seq(Int) /\ K \o c # <<>> /\ (K \o c)[1] = 34
      BY <2>3, <3>1, FirstOf
    <3> HIDE DEF c
    <3>3. (K \o c) \o V # <<>> /\ ((K \o c) \o V)[1] = 34
      BY <2>3, <3>2, FirstOf
    <3> QED BY <3>3, Zenon DEF Member, c
  <2>5. Members(f)[i] # <<>> /\ Members(f)[i][1] \notin Closers
    BY <2>2, <2>4, FirstCodes
  <2> QED BY <2>1, <2>2, <2>5, Zenon DEF MemberIs, k, p, K, V
<1> QED BY <1>2, <1>4, <1>5, <1>6, <1>7, Zenon DEF ObjectWritten

(* Objects with equal texts have the same keys, and say the same if their *)
(* values are told by their texts.                                        *)
LEMMA ObjectDecides ==
    ASSUME NEW v, v.kind = "object", v = ObjectValue(v.members), ObjectIs(v.members), StringsAreCharacters(v),
           NEW w, w.kind = "object", w = ObjectValue(w.members), ObjectIs(w.members), StringsAreCharacters(w),
           PartsDecode(v, w), NEW x \in Closing, NEW y \in Closing
    PROVE  DecidesAt(v, w, x, y)
<1> DEFINE f == v.members
           g == w.members
           m == Cardinality(DOMAIN f)
           n == Cardinality(DOMAIN g)
           t == Members(f)
           u == Members(g)
           T == JoinedByCommas(t)
           U == JoinedByCommas(u)
           xx == << 125 >> \o x
           yy == << 125 >> \o y
           open == << 123 >>
           Key(i) == KeysOf(f)[i]
           Other(i) == KeysOf(g)[i]
<1> SUFFICES ASSUME PyText(v, PyTexts) \o x = PyText(w, PyTexts) \o y PROVE x = y /\ SaysTheSame(v, w, Same)
  BY DEF DecidesAt
<1>1. ObjectWritten(v, m)
  BY ObjectIsWritten
<1>2. ObjectWritten(w, n)
  BY ObjectIsWritten
<1>3. /\ m \in Nat /\ t \in [1 .. m -> Text] /\ PyText(v, PyTexts) = open \o T \o << 125 >> /\ T \in Seq(Int)
      /\ \A i \in 1 .. m : MemberIs(v, i)
      /\ \A k \in DOMAIN f : \E i \in 1 .. m : Key(i) = k
      /\ \A i \in 1 .. m : Key(i) \in DOMAIN f
  BY <1>1 DEF ObjectWritten
<1>4. /\ n \in Nat /\ u \in [1 .. n -> Text] /\ PyText(w, PyTexts) = open \o U \o << 125 >> /\ U \in Seq(Int)
      /\ \A i \in 1 .. n : MemberIs(w, i)
      /\ \A k \in DOMAIN g : \E i \in 1 .. n : Other(i) = k
      /\ \A i \in 1 .. n : Other(i) \in DOMAIN g
  BY <1>2 DEF ObjectWritten
<1>5. x \in Seq(Int) /\ y \in Seq(Int)
  BY ClosingIs
<1>6. DOMAIN f \subseteq Seq(Characters) /\ DOMAIN g \subseteq Seq(Characters)
  BY DEF StringsAreCharacters
<1> HIDE DEF m, n, t, u, T, U
<1>7. T \o xx = U \o yy
  <2>1. UnbracketAt(123, T, 125, x)
    BY <1>3, <1>5, Unbracket
  <2>2. UnbracketAt(123, U, 125, y)
    BY <1>4, <1>5, Unbracket
  <2>3. (open \o T \o << 125 >>) \o x = open \o (T \o xx) /\ open \in Seq(Int) /\ T \o xx \in Seq(Int)
    BY ONLY <2>1, Zenon DEF UnbracketAt
  <2>4. (open \o U \o << 125 >>) \o y = open \o (U \o yy) /\ U \o yy \in Seq(Int)
    BY ONLY <2>2, Zenon DEF UnbracketAt
  <2> DEFINE close == << 125 >>
  <2>5. PyText(v, PyTexts) = open \o T \o close /\ PyText(w, PyTexts) = open \o U \o close
    BY <1>3, <1>4
  <2>6. (open \o T \o close) \o x = open \o (T \o xx) /\ (open \o U \o close) \o y = open \o (U \o yy)
    BY <2>3, <2>4
  <2> HIDE DEF open, xx, yy, close
  <2>7. open \o (T \o xx) = open \o (U \o yy)
    BY <2>5, <2>6
  <2>8. CutsAt(open, T \o xx, U \o yy)
    BY <2>3, <2>4, Cuts
  <2> QED BY <2>7, <2>8, Zenon DEF CutsAt
<1> HIDE DEF xx, yy, open, f, g
<1>8. ASSUME NEW i \in 1 .. m
      PROVE  /\ Key(i) \in DOMAIN f /\ f[Key(i)] \in Parts(v) /\ f[Key(i)] \in Values
             /\ t[i] = Member(PyString(Key(i)), PyTexts[f[Key(i)]])
             /\ t[i] # <<>> /\ t[i][1] \notin Closers
  <2>1. MemberIs(v, i)
    BY <1>3
  <2> QED BY <2>1, Zenon DEF MemberIs, f, t
<1>9. ASSUME NEW i \in 1 .. n
      PROVE  /\ Other(i) \in DOMAIN g /\ g[Other(i)] \in Parts(w) /\ g[Other(i)] \in Values
             /\ u[i] = Member(PyString(Other(i)), PyTexts[g[Other(i)]])
             /\ u[i] # <<>> /\ u[i][1] \notin Closers
  <2>1. MemberIs(w, i)
    BY <1>4
  <2> QED BY <2>1, Zenon DEF MemberIs, g, u
<1> HIDE DEF Key, Other
<1>10. ASSUME NEW i \in (1 .. m) \cap (1 .. n), NEW a \in Closing, NEW b \in Closing
       PROVE  MemberDecodesAt(Key(i), f[Key(i)], Other(i), g[Other(i)], a, b)
  <2> DEFINE k == Key(i)
             l == Other(i)
             p == f[k]
             q == g[l]
  <2>1. k \in Seq(Characters) /\ l \in Seq(Characters) /\ p \in Values /\ q \in Values
    BY <1>6, <1>8, <1>9
  <2>2. PartDecodesAt(p, q, a, b)
    BY <1>8, <1>9 DEF PartsDecode
  <2> HIDE DEF k, l, p, q
  <2>3. MemberDecodesAt(k, p, l, q, a, b)
    BY <2>1, <2>2, MemberDecoded
  <2> QED BY <2>3, Zenon DEF k, l, p, q
<1>11. Listed(m, t, n, u)
  <2>1. ASSUME NEW i \in (1 .. m) \cap (1 .. n), NEW a \in Closing, NEW b \in Closing PROVE ItemDecodesAt(t, u, i, a, b)
    <3>1. MemberDecodesAt(Key(i), f[Key(i)], Other(i), g[Other(i)], a, b)
      BY <1>10
    <3>2. t[i] = Member(PyString(Key(i)), PyTexts[f[Key(i)]])
      BY <1>8
    <3>3. u[i] = Member(PyString(Other(i)), PyTexts[g[Other(i)]])
      BY <1>9
    <3> QED BY <3>1, <3>2, <3>3, Zenon DEF MemberDecodesAt, ItemDecodesAt
  <2>2. \A i \in 1 .. m : t[i] # <<>> /\ t[i][1] \notin Closers
    BY <1>8
  <2>3. \A i \in 1 .. n : u[i] # <<>> /\ u[i][1] \notin Closers
    BY <1>9
  <2> QED BY <1>3, <1>4, <2>1, <2>2, <2>3, Zenon DEF Listed
<1>12. m = n /\ t = u /\ x = y
  <2>1. ListDecodesAt(m, t, n, u, 125, x, y)
    BY <1>5, <1>11, ListDecoded
  <2> QED BY <1>7, <2>1, Zenon DEF ListDecodesAt, T, U, xx, yy
<1>13. ASSUME NEW i \in 1 .. m PROVE Key(i) = Other(i) /\ Same[f[Key(i)]][g[Key(i)]]
  <2> DEFINE z == << 44 >>
  <2>1. z \in Closing
    BY ClosingIs
  <2> HIDE DEF z
  <2>2. MemberDecodesAt(Key(i), f[Key(i)], Other(i), g[Other(i)], z, z)
    BY <1>10, <1>12, <2>1
  <2>3. t[i] = Member(PyString(Key(i)), PyTexts[f[Key(i)]])
    BY <1>8
  <2>4. t[i] = Member(PyString(Other(i)), PyTexts[g[Other(i)]])
    BY <1>9, <1>12
  <2> QED BY <2>2, <2>3, <2>4, Zenon DEF MemberDecodesAt
<1>14. DOMAIN f = DOMAIN g
  <2>1. ASSUME NEW k \in DOMAIN f PROVE k \in DOMAIN g
    <3>1. PICK i \in 1 .. m : Key(i) = k
      BY <1>3
    <3> QED BY <1>9, <1>12, <1>13, <3>1
  <2>2. ASSUME NEW k \in DOMAIN g PROVE k \in DOMAIN f
    <3>1. PICK i \in 1 .. n : Other(i) = k
      BY <1>4
    <3> QED BY <1>8, <1>12, <1>13, <3>1
  <2> QED BY <2>1, <2>2
<1>15. ASSUME NEW k \in DOMAIN f PROVE Same[f[k]][g[k]]
  <2>1. PICK i \in 1 .. m : Key(i) = k
    BY <1>3
  <2> QED BY <1>13, <2>1
<1> QED BY <1>12, <1>14, <1>15 DEF SaysTheSame, f, g

(* Values with equal texts say the same if their parts are told by their *)
(* texts.                                                                *)
LEMMA Decides ==
    ASSUME NEW v, ValueIs(v), StringsAreCharacters(v), NEW w, ValueIs(w), StringsAreCharacters(w),
           \A p \in Parts(v) : p \in Values, \A p \in Parts(w) : p \in Values,
           PartsDecode(v, w), NEW x \in Closing, NEW y \in Closing
    PROVE  DecidesAt(v, w, x, y)
<1> SUFFICES ASSUME PyText(v, PyTexts) \o x = PyText(w, PyTexts) \o y PROVE DecidesAt(v, w, x, y)
  BY DEF DecidesAt
<1>1. StartsAt(v, PyTexts)
  BY PartText, Starts
<1>2. StartsAt(w, PyTexts)
  BY PartText, Starts
<1>3. v.kind = w.kind
  <2> DEFINE V == PyText(v, PyTexts)
             W == PyText(w, PyTexts)
  <2>1. V \in Seq(Int) /\ V # <<>> /\ W \in Seq(Int) /\ W # <<>>
    BY <1>1, <1>2, TextIsSeqInt DEF StartsAt
  <2>2. KindOf(V[1]) = v.kind /\ KindOf(W[1]) = w.kind
    BY <1>1, <1>2 DEF StartsAt
  <2>3. x \in Seq(Int) /\ y \in Seq(Int) /\ V \o x = W \o y
    BY ClosingIs
  <2> HIDE DEF V, W
  <2>4. (V \o x)[1] = V[1]
    BY <2>1, <2>3, FirstOf
  <2>5. (W \o y)[1] = W[1]
    BY <2>1, <2>3, FirstOf
  <2> QED BY <2>2, <2>3, <2>4, <2>5
<1>4. CASE v.kind = "number"
  <2>1. NumberValid(v) /\ NumberValid(w) /\ w.kind = "number"
    BY <1>3, <1>4 DEF ValueIs
  <2> QED BY <1>4, <2>1, NumberDecides
<1>5. CASE v.kind = "string"
  <2>1. v \in [kind : {"string"}, chars : Strings] /\ w \in [kind : {"string"}, chars : Strings]
    BY <1>3, <1>5 DEF ValueIs
  <2> QED BY <2>1, StringDecides
<1>6. CASE v.kind = "array"
  <2>1. v \in [kind : {"array"}, items : Seq(Values)] /\ w \in [kind : {"array"}, items : Seq(Values)]
    BY <1>3, <1>6 DEF ValueIs
  <2> QED BY <2>1, ArrayDecides
<1>7. CASE v.kind = "object"
  <2>1. v = ObjectValue(v.members) /\ ObjectIs(v.members)
    BY <1>7 DEF ValueIs
  <2>2. w.kind = "object" /\ w = ObjectValue(w.members) /\ ObjectIs(w.members)
    BY <1>3, <1>7 DEF ValueIs
  <2> QED BY <1>7, <2>1, <2>2, ObjectDecides
<1>8. CASE v.kind \in {"null", "bool", "nonfinite"}
  BY <1>3, <1>8, LiteralDecides
<1> QED BY <1>4, <1>5, <1>6, <1>7, <1>8 DEF ValueIs

(* Common values and artifacts have no surrogates in their strings. *)
LEMMA CommonCharacters ==
    ASSUME CommonValues
    PROVE  /\ \A v \in Values : StringsAreCharacters(v)
           /\ \A f \in Objects : StringsAreCharacters(ObjectValue(f))
<1>1. ASSUME NEW v \in Values PROVE StringsAreCharacters(v)
  <2>1. ValueIs(v) /\ CommonValue(v)
    BY ValuesAre DEF CommonValues
  <2>2. ASSUME v.kind = "string" PROVE v.chars \in Seq(Characters)
    <3>1. v.chars \in Strings /\ CommonString(v.chars)
      BY <2>1, <2>2 DEF ValueIs, CommonValue
    <3> QED BY <3>1, SharedStrings, SharedAreCharacters
  <2>3. ASSUME v.kind = "object", NEW k \in DOMAIN v.members PROVE k \in Seq(Characters)
    <3>1. k \in Strings /\ CommonString(k)
      BY <2>1, <2>3 DEF ValueIs, CommonValue, ObjectIs
    <3> QED BY <3>1, SharedStrings, SharedAreCharacters
  <2> QED BY <2>2, <2>3 DEF StringsAreCharacters
<1>2. ASSUME NEW f \in Objects PROVE StringsAreCharacters(ObjectValue(f))
  <2>1. DOMAIN f \subseteq Keys
    BY ObjectsAre
  <2>2. ASSUME NEW k \in DOMAIN f PROVE k \in Seq(Characters)
    <3>1. k \in Strings /\ CommonString(k)
      BY <2>1, KeysAssumption DEF CommonValues
    <3> QED BY <3>1, SharedStrings, SharedAreCharacters
  <2> QED BY <2>2 DEF StringsAreCharacters, ObjectValue
<1> QED BY <1>1, <1>2

(* The text of a value, however deep, tells what it says. *)
LEMMA ValuesDecide ==
    ASSUME CommonValues
    PROVE  \A v, w \in Values, a, b \in Closing : PartDecodesAt(v, w, a, b)
<1> DEFINE P == {v \in Values : \A w \in Values, a, b \in Closing : PartDecodesAt(v, w, a, b)}
<1>1. ASSUME NEW v \in Values, \A u \in Values : Depth[u] < Depth[v] => u \in P PROVE v \in P
  <2> SUFFICES ASSUME NEW w \in Values, NEW a \in Closing, NEW b \in Closing PROVE PartDecodesAt(v, w, a, b)
    OBVIOUS
  <2>1. PartsDecode(v, w)
    <3> SUFFICES ASSUME NEW p \in Parts(v), NEW q \in Parts(w), NEW c \in Closing, NEW d \in Closing
                 PROVE  PartDecodesAt(p, q, c, d)
      BY DEF PartsDecode
    <3>1. p \in P /\ q \in Values
      BY <1>1, DepthFalls
    <3> QED BY <3>1
  <2> HIDE DEF P
  <2>2. ValueIs(v) /\ ValueIs(w)
    BY ValuesAre
  <2>3. StringsAreCharacters(v) /\ StringsAreCharacters(w)
    BY CommonCharacters
  <2>4. (\A p \in Parts(v) : p \in Values) /\ (\A p \in Parts(w) : p \in Values)
    BY DepthFalls
  <2>5. DecidesAt(v, w, a, b)
    BY <2>1, <2>2, <2>3, <2>4, Decides
  <2> QED BY <2>5, PartDecoded
<1>2. P \in SUBSET Values
  OBVIOUS
<1>3. P = Values
  <2> HIDE DEF P
  <2> QED BY <1>1, <1>2, DepthFalls, HeightInduction
<1> QED BY <1>3

(* The converse: values that say the same have one text. *)
WritesAt(v, w) == SaysTheSame(v, w, Same) => PyText(v, PyTexts) = PyText(w, PyTexts)

(* Values that say the same have one text if their parts have. *)
LEMMA Writes ==
    ASSUME NEW v, ValueIs(v), NEW w, ValueIs(w),
           \A p \in Parts(v), q \in Parts(w) : Same[p][q] => PyTexts[p] = PyTexts[q]
    PROVE  WritesAt(v, w)
<1> SUFFICES ASSUME SaysTheSame(v, w, Same) PROVE PyText(v, PyTexts) = PyText(w, PyTexts)
  BY DEF WritesAt
<1>1. v.kind = w.kind
  BY DEF SaysTheSame
<1>2. CASE v.kind = "number"
  <2>1. v.digits = w.digits /\ v.exponent = w.exponent /\ (v.negative = w.negative \/ v.digits = <<>>)
    BY <1>2 DEF SaysTheSame
  <2>2. IsInteger(v) = IsInteger(w)
    BY <2>1 DEF IsInteger
  <2> DEFINE fixed == IsInteger(v) \/ v.exponent \in -4 .. 15
  <2>3. PyNumber(v) = NumberText(v, fixed)
    BY DEF PyNumber
  <2>4. PyNumber(w) = NumberText(w, fixed)
    BY <2>1, <2>2 DEF PyNumber
  <2> HIDE DEF fixed
  <2>5. NumberText(v, fixed) = NumberText(w, fixed)
    BY <2>1 DEF NumberText, SignText
  <2>6. PyText(v, PyTexts) = PyNumber(v)
    BY <1>2, PyTextIs
  <2>7. PyText(w, PyTexts) = PyNumber(w)
    BY <1>1, <1>2, PyTextIs
  <2> QED BY <2>3, <2>4, <2>5, <2>6, <2>7
<1>3. CASE v.kind = "array"
  <2>1. DOMAIN v.items = DOMAIN w.items /\ \A i \in DOMAIN v.items : Same[v.items[i]][w.items[i]]
    BY <1>3 DEF SaysTheSame
  <2>2. \A i \in DOMAIN v.items : v.items[i] \in Parts(v) /\ w.items[i] \in Parts(w)
    <3>1. w.kind = "array"
      BY <1>1, <1>3
    <3>2. Parts(v) = {v.items[i] : i \in DOMAIN v.items}
      BY <1>3, PartsAre
    <3>3. Parts(w) = {w.items[i] : i \in DOMAIN w.items}
      BY <3>1, PartsAre
    <3> QED BY <2>1, <3>2, <3>3
  <2>3. ItemTexts(v.items, PyTexts) = ItemTexts(w.items, PyTexts)
    BY <2>1, <2>2 DEF ItemTexts
  <2>4. PyText(v, PyTexts) = ArrayText(ItemTexts(v.items, PyTexts))
    BY <1>3, PyTextIs
  <2>5. PyText(w, PyTexts) = ArrayText(ItemTexts(w.items, PyTexts))
    BY <1>1, <1>3, PyTextIs
  <2> QED BY <2>3, <2>4, <2>5
<1>4. CASE v.kind = "object"
  <2> DEFINE f == v.members
             g == w.members
             ks == KeysOf(f)
  <2>1. DOMAIN f = DOMAIN g /\ \A k \in DOMAIN f : Same[f[k]][g[k]]
    BY <1>4 DEF SaysTheSame
  <2>2. \A k \in DOMAIN f : f[k] \in Parts(v) /\ g[k] \in Parts(w)
    <3>1. w.kind = "object"
      BY <1>1, <1>4
    <3>2. Parts(v) = {v.members[k] : k \in DOMAIN v.members}
      BY <1>4, PartsAre
    <3>3. Parts(w) = {w.members[k] : k \in DOMAIN w.members}
      BY <3>1, PartsAre
    <3> QED BY <2>1, <3>2, <3>3
  <2>3. KeysOf(g) = ks
    BY <2>1 DEF KeysOf
  <2>4. \A i \in DOMAIN ks : ks[i] \in DOMAIN f
    <3>1. ObjectIs(f)
      BY <1>4 DEF ValueIs
    <3> QED BY <3>1, SortedByCodePointIs DEF ObjectIs, KeysOf
  <2>5. KeyTexts(f) = KeyTexts(g)
    BY <2>3 DEF KeyTexts
  <2>6. ValueTexts(f, PyTexts) = ValueTexts(g, PyTexts)
    <3>1. \A i \in DOMAIN ks : PyTexts[f[ks[i]]] = PyTexts[g[ks[i]]]
      BY <2>1, <2>2, <2>4
    <3> HIDE DEF f, g, ks
    <3>2. [i \in DOMAIN ks |-> PyTexts[f[ks[i]]]] = [i \in DOMAIN ks |-> PyTexts[g[ks[i]]]]
      BY <3>1
    <3> QED BY <2>3, <3>2 DEF ValueTexts, ks
  <2>7. PyText(v, PyTexts) = ObjectText(KeyTexts(f), ValueTexts(f, PyTexts))
    BY <1>4, PyTextIs
  <2>8. PyText(w, PyTexts) = ObjectText(KeyTexts(g), ValueTexts(g, PyTexts))
    BY <1>1, <1>4, PyTextIs
  <2> QED BY <2>5, <2>6, <2>7, <2>8
<1>5. CASE v.kind \notin {"number", "array", "object"}
  BY <1>5 DEF SaysTheSame
<1> QED BY <1>2, <1>3, <1>4, <1>5

(* Values that say the same have one text. *)
LEMMA ValuesWrite == \A v, w \in Values : Same[v][w] => PyTexts[v] = PyTexts[w]
<1> DEFINE P == {v \in Values : \A w \in Values : Same[v][w] => PyTexts[v] = PyTexts[w]}
<1>1. ASSUME NEW v \in Values, \A u \in Values : Depth[u] < Depth[v] => u \in P PROVE v \in P
  <2> SUFFICES ASSUME NEW w \in Values, Same[v][w] PROVE PyTexts[v] = PyTexts[w]
    OBVIOUS
  <2>1. \A p \in Parts(v), q \in Parts(w) : Same[p][q] => PyTexts[p] = PyTexts[q]
    BY <1>1, DepthFalls
  <2> HIDE DEF P
  <2>2. ValueIs(v) /\ ValueIs(w)
    BY ValuesAre
  <2>3. WritesAt(v, w)
    BY <2>1, <2>2, Writes
  <2>4. SaysTheSame(v, w, Same)
    BY SameParts
  <2>5. PyTexts[v] = PyText(v, PyTexts) /\ PyTexts[w] = PyText(w, PyTexts)
    BY PartText
  <2> QED BY <2>3, <2>4, <2>5, Zenon DEF WritesAt
<1>2. P \in SUBSET Values
  OBVIOUS
<1>3. P = Values
  <2> HIDE DEF P
  <2> QED BY <1>1, <1>2, DepthFalls, HeightInduction
<1> QED BY <1>3

(* The texts of two artifacts are equal exactly if the artifacts say the *)
(* same.                                                                 *)
LEMMA TextsIdentify ==
    ASSUME CommonValues, NEW f \in Objects, NEW g \in Objects
    PROVE  TextOf("python", f) = TextOf("python", g) <=> SaysTheSame(ObjectValue(f), ObjectValue(g), Same)
<1> DEFINE v == ObjectValue(f)
           w == ObjectValue(g)
<1>1. ValueIs(v) /\ ValueIs(w)
  BY ObjectsAre, PartsAre DEF ValueIs
<1>2. StringsAreCharacters(v) /\ StringsAreCharacters(w)
  BY CommonCharacters
<1>3. (\A p \in Parts(v) : p \in Values) /\ (\A p \in Parts(w) : p \in Values)
  BY ObjectsAre, PartsAre DEF ObjectIs
<1>4. TextOf("python", f) = PyText(v, PyTexts) /\ TextOf("python", g) = PyText(w, PyTexts)
  BY DEF TextOf
<1> HIDE DEF v, w
<1>5. PartsDecode(v, w)
  BY <1>3, ValuesDecide, Zenon DEF PartsDecode
<1> DEFINE z == << 44 >>
<1>6. z \in Closing
  BY ClosingIs
<1> HIDE DEF z
<1>7. DecidesAt(v, w, z, z)
  BY <1>1, <1>2, <1>3, <1>5, <1>6, Decides
<1>8. WritesAt(v, w)
  <2>1. \A p \in Parts(v), q \in Parts(w) : Same[p][q] => PyTexts[p] = PyTexts[q]
    BY <1>3, ValuesWrite
  <2> QED BY <1>1, <2>1, Writes
<1> QED BY <1>4, <1>7, <1>8, Zenon DEF DecidesAt, WritesAt, v, w

(* On values that both languages write alike a fingerprint identifies        *)
(* content for either reader: it matches exactly the files that say what the *)
(* artifact said (ReferenceIdentifiesContent).                               *)
THEOREM Identification ==
    ASSUME CommonValues
    PROVE  Spec => []ReferenceIdentifiesContent
<1>1. ASSUME TypeOK, VerdictsTrue PROVE ReferenceIdentifiesContent
  <2> SUFFICES ASSUME NEW r \in Readers, verdict[r] \in {"match", "mismatch"}
               PROVE  verdict[r] = "match" <=> SaysTheSame(ObjectValue(file), ObjectValue(artifact), Same)
    BY DEF ReferenceIdentifiesContent
  <2>1. file \in Objects /\ artifact \in Objects
    BY <1>1 DEF TypeOK
  <2>2. Referenced /\ verdict[r] = Judged(TextOf(r, file)) /\ reference = TextOf("python", artifact)
    BY <1>1 DEF VerdictsTrue, ReferenceTrue, Referenced
  <2>3. TextOf(r, file) = TextOf("python", file)
    <3>1. r = "python" \/ r = "c++"
      BY DEF Readers
    <3> QED BY <2>1, <3>1, TextsAgree
  <2>4. verdict[r] = "match" <=> TextOf("python", file) = reference
    BY <2>2, <2>3 DEF Judged, Referenced
  <2>5. TextOf("python", file) = TextOf("python", artifact)
        <=> SaysTheSame(ObjectValue(file), ObjectValue(artifact), Same)
    BY <2>1, TextsIdentify
  <2> QED BY <2>2, <2>4, <2>5
<1> QED BY <1>1, TypeCorrect, VerdictsCorrect, PTL
=============================================================================
