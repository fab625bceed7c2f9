----------------------------- MODULE Recursion -----------------------------
(***************************************************************************)
(* Induction and recursion for the proof modules: a set of naturals has a   *)
(* least element, and an equation that determines a function from smaller   *)
(* arguments has a solution.                                                *)
(***************************************************************************)
EXTENDS Integers, WellFoundedInduction, TLAPS

(* A set of naturals that is not empty has a least element. *)
LEMMA Least ==
    ASSUME NEW S \in SUBSET Nat, S # {}
    PROVE  \E m \in S : \A k \in S : m <= k
<1> DEFINE R == {ss \in Nat \X Nat : ss[1] < ss[2]}
<1>1. IsWellFoundedOn(R, Nat)
  BY NatLessThanWellFounded DEF OpToRel
<1>2. PICK m \in S : \A y \in S : ~(<<y, m>> \in R)
  <2> HIDE DEF R
  <2> QED BY <1>1, WFMin
<1>3. ASSUME NEW k \in S PROVE m <= k
  <2>1. m \in Nat /\ k \in Nat
    OBVIOUS
  <2>2. k < m => <<k, m>> \in R
    BY <2>1
  <2> HIDE DEF R
  <2> QED BY <1>2, <2>1, <2>2
<1> QED BY <1>3

(* A set of naturals that holds 0 and every successor of an element is Nat. *)
LEMMA Induction ==
    ASSUME NEW S \in SUBSET Nat, 0 \in S, \A n \in S : n + 1 \in S
    PROVE  S = Nat
<1> SUFFICES ASSUME Nat \ S # {} PROVE FALSE
  OBVIOUS
<1>1. PICK m \in Nat \ S : \A k \in Nat \ S : m <= k
  <2> DEFINE D == Nat \ S
  <2>1. D \in SUBSET Nat /\ D # {}
    OBVIOUS
  <2> HIDE DEF D
  <2>2. \E m \in D : \A k \in D : m <= k
    BY <2>1, Least
  <2> QED BY <2>2 DEF D
<1>2. m - 1 \in Nat /\ (m - 1) + 1 = m
  BY <1>1
<1>3. m - 1 \in S
  BY <1>1, <1>2
<1> QED BY <1>1, <1>2, <1>3

(* A set that holds the naturals past n, and each of 0 .. n that it holds    *)
(* the successor of, is Nat.                                                *)
LEMMA Descent ==
    ASSUME NEW n \in Nat, NEW S \in SUBSET Nat,
           \A i \in Nat : i > n => i \in S, \A i \in 0 .. n : i + 1 \in S => i \in S
    PROVE  S = Nat
<1> DEFINE D == {k \in Nat : \A i \in Nat : i + k > n => i \in S}
<1>1. 0 \in D
  OBVIOUS
<1>2. ASSUME NEW k \in D PROVE k + 1 \in D
  <2> SUFFICES ASSUME NEW i \in Nat, i + (k + 1) > n PROVE i \in S
    OBVIOUS
  <2>1. i + 1 \in Nat /\ (i + 1) + k > n
    OBVIOUS
  <2>2. i + 1 \in S
    BY <2>1
  <2> QED BY <2>2
<1>3. D = Nat
  <2>1. D \in SUBSET Nat
    OBVIOUS
  <2> HIDE DEF D
  <2> QED BY <1>1, <1>2, <2>1, Induction
<1>4. ASSUME NEW i \in Nat PROVE i \in S
  <2>1. n + 1 \in D /\ i + (n + 1) > n
    BY <1>3
  <2> QED BY <2>1
<1> QED BY <1>4

(* A subset of S that holds every element all of whose inferiors it holds    *)
(* is S.                                                                     *)
LEMMA HeightInduction ==
    ASSUME NEW S, NEW h \in [S -> Nat], NEW P \in SUBSET S,
           \A v \in S : (\A w \in S : h[w] < h[v] => w \in P) => v \in P
    PROVE  P = S
<1> DEFINE heights == {h[v] : v \in S \ P}
<1> SUFFICES ASSUME S \ P # {} PROVE FALSE
  OBVIOUS
<1>1. heights \in SUBSET Nat /\ heights # {}
  OBVIOUS
<1>2. PICK m \in heights : \A k \in heights : m <= k
  <2> HIDE DEF heights
  <2> QED BY <1>1, Least
<1>3. PICK v \in S \ P : m = h[v]
  OBVIOUS
<1>4. PICK w \in S : h[w] < h[v] /\ w \notin P
  OBVIOUS
<1>5. h[w] \in heights /\ h[w] \in Nat /\ h[v] \in Nat
  BY <1>4
<1> HIDE DEF heights
<1> QED BY <1>2, <1>3, <1>4, <1>5

(* F maps functions from S to T to such functions, and the value of F[f] at  *)
(* s depends on f only at the arguments of smaller height.                  *)
Contractive(F, S, T, h) ==
    /\ T # {}
    /\ h \in [S -> Nat]
    /\ F \in [[S -> T] -> [S -> T]]
    /\ \A f, g \in [S -> T], s \in S :
           (\A t \in S : h[t] < h[s] => f[t] = g[t]) => F[f][s] = F[g][s]

(* The equation f = F[f] of a contractive F has a solution.                  *)
LEMMA Recursive ==
    ASSUME NEW F, NEW S, NEW T, NEW h, Contractive(F, S, T, h)
    PROVE  \E f \in [S -> T] : f = F[f]
<1>0. /\ T # {}
      /\ h \in [S -> Nat]
      /\ F \in [[S -> T] -> [S -> T]]
  BY DEF Contractive
<1> USE <1>0
<1>1a. \A f, g \in [S -> T], s \in S :
          (\A t \in S : h[t] < h[s] => f[t] = g[t]) => F[f][s] = F[g][s]
  BY DEF Contractive
<1> DEFINE Good(f, n) == \A s \in S : h[s] < n => f[s] = F[f][s]
<1>1. ASSUME NEW f \in [S -> T], NEW n \in Nat, Good(f, n)
      PROVE  Good(F[f], n + 1)
  <2> TAKE s \in S
  <2> HAVE h[s] < n + 1
  <2>1. F[f] \in [S -> T]
    OBVIOUS
  <2>2. ASSUME NEW t \in S, h[t] < h[s] PROVE f[t] = F[f][t]
    <3>1. h[t] \in Nat /\ h[s] \in Nat
      OBVIOUS
    <3>2. h[t] < n
      BY <2>2, <3>1
    <3> QED BY <1>1, <3>2
  <2> DEFINE g == F[f]
  <2>3. g \in [S -> T] /\ \A t \in S : h[t] < h[s] => f[t] = g[t]
    BY <2>1, <2>2
  <2> HIDE DEF g
  <2>4. F[f][s] = F[g][s]
    BY <1>1a, <2>3
  <2> QED BY <2>4 DEF g
<1>2. \A n \in Nat : \E f \in [S -> T] : Good(f, n)
  <2> DEFINE D == {n \in Nat : \E f \in [S -> T] : Good(f, n)}
  <2>1. 0 \in D
    <3>1. PICK t \in T : TRUE
      OBVIOUS
    <3>2. [s \in S |-> t] \in [S -> T]
      OBVIOUS
    <3>3. \A s \in S : ~(h[s] < 0)
      <4> TAKE s \in S
      <4>1. h[s] \in Nat
        OBVIOUS
      <4> QED BY <4>1
    <3> QED BY <3>2, <3>3
  <2>2. ASSUME NEW n \in D PROVE n + 1 \in D
    <3>1. PICK f \in [S -> T] : Good(f, n)
      OBVIOUS
    <3>2. Good(F[f], n + 1) /\ F[f] \in [S -> T]
      BY <1>1, <3>1
    <3> HIDE DEF Good
    <3> QED BY <3>2
  <2>3. D \in SUBSET Nat
    OBVIOUS
  <2> HIDE DEF D
  <2>4. D = Nat
    BY <2>1, <2>2, <2>3, Induction
  <2> QED BY <2>4 DEF D
<1>3. ASSUME NEW n \in Nat, NEW f \in [S -> T], NEW g \in [S -> T], Good(f, n), Good(g, n)
      PROVE  \A s \in S : h[s] < n => f[s] = g[s]
  <2> DEFINE D == {k \in Nat : k < n => \A s \in S : h[s] <= k => f[s] = g[s]}
  <2>1. ASSUME NEW k \in Nat, k < n, \A s \in S : h[s] < k => f[s] = g[s]
        PROVE  \A s \in S : h[s] <= k => f[s] = g[s]
    <3> TAKE s \in S
    <3> HAVE h[s] <= k
    <3>1. h[s] \in Nat /\ \A t \in S : h[t] \in Nat
      OBVIOUS
    <3>2. h[s] < n
      BY <2>1, <3>1
    <3>3. \A t \in S : h[t] < h[s] => f[t] = g[t]
      BY <2>1, <3>1
    <3>4. F[f][s] = F[g][s]
      BY <1>1a, <3>3
    <3> QED BY <1>3, <3>2, <3>4
  <2>2. \A s \in S : h[s] \in Nat
    OBVIOUS
  <2>3. 0 \in D
    <3>1. \A s \in S : ~(h[s] < 0)
      BY <2>2
    <3> QED BY <2>1, <3>1
  <2>4. ASSUME NEW k \in D PROVE k + 1 \in D
    <3> SUFFICES ASSUME k + 1 < n PROVE \A s \in S : h[s] <= k + 1 => f[s] = g[s]
      OBVIOUS
    <3>1. \A s \in S : h[s] <= k => f[s] = g[s]
      OBVIOUS
    <3>2. \A s \in S : h[s] < k + 1 => f[s] = g[s]
      BY <2>2, <3>1
    <3> QED BY <2>1, <3>2
  <2>5. D \in SUBSET Nat
    OBVIOUS
  <2>6. D = Nat
    <3> HIDE DEF D
    <3> QED BY <2>3, <2>4, <2>5, Induction
  <2> SUFFICES ASSUME NEW s \in S, h[s] < n PROVE f[s] = g[s]
    OBVIOUS
  <2>7. h[s] \in D
    BY <2>2, <2>6
  <2> QED BY <2>2, <2>7
<1> DEFINE Chosen(n) == CHOOSE f \in [S -> T] : Good(f, n)
           L == [s \in S |-> Chosen(h[s] + 1)[s]]
<1>4. \A n \in Nat : Chosen(n) \in [S -> T] /\ Good(Chosen(n), n)
  <2> HIDE DEF Good
  <2> QED BY <1>2
<1>5. L \in [S -> T]
  <2> SUFFICES ASSUME NEW s \in S PROVE Chosen(h[s] + 1)[s] \in T
    OBVIOUS
  <2>1. h[s] + 1 \in Nat
    OBVIOUS
  <2> HIDE DEF Chosen
  <2> QED BY <1>4, <2>1
<1>6. ASSUME NEW s \in S PROVE L[s] = F[L][s]
  <2> DEFINE n == h[s] + 1
             f == Chosen(n)
  <2>1. n \in Nat /\ h[s] \in Nat /\ \A t \in S : h[t] \in Nat
    OBVIOUS
  <2>2. f \in [S -> T] /\ Good(f, n)
    <3> HIDE DEF Good, Chosen, n
    <3> QED BY <1>4, <2>1
  <2>3. ASSUME NEW t \in S, h[t] < h[s] PROVE L[t] = f[t]
    <3> DEFINE k == h[t] + 1
    <3>1. k \in Nat /\ k <= n /\ h[t] < k
      BY <2>1, <2>3
    <3>2. Good(f, k)
      <4> SUFFICES ASSUME NEW u \in S, h[u] < k PROVE f[u] = F[f][u]
        OBVIOUS
      <4>1. h[u] < n
        BY <2>1, <3>1
      <4> HIDE DEF f, n
      <4> QED BY <2>2, <4>1
    <3>3. Chosen(k) \in [S -> T] /\ Good(Chosen(k), k)
      <4> HIDE DEF Good, Chosen, k
      <4> QED BY <1>4, <3>1
    <3>4. Chosen(k)[t] = f[t]
      <4> HIDE DEF Good, Chosen, k, f
      <4> QED BY <1>3, <2>2, <3>1, <3>2, <3>3
    <3>5. L[t] = Chosen(k)[t]
      OBVIOUS
    <3> QED BY <3>4, <3>5
  <2>4. F[L][s] = F[f][s]
    <3> HIDE DEF L, f
    <3> QED BY <1>1a, <1>5, <2>2, <2>3
  <2>5. f[s] = F[f][s]
    <3>1. h[s] < n
      BY <2>1
    <3> HIDE DEF f, n
    <3> QED BY <2>2, <3>1
  <2>6. L[s] = f[s]
    OBVIOUS
  <2> HIDE DEF L, f
  <2> QED BY <2>4, <2>5, <2>6
<1>7. L = F[L]
  <2> HIDE DEF L
  <2>1. F[L] \in [S -> T]
    BY <1>5
  <2> QED BY <1>5, <1>6, <2>1
<1> HIDE DEF L
<1> QED BY <1>5, <1>7
=============================================================================
