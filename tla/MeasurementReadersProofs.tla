---------------------- MODULE MeasurementReadersProofs ----------------------
(***************************************************************************)
(* Proofs about MeasurementReaders, for every set of sample lists and every *)
(* edit that leaves the two references alone: an accepted summary is the    *)
(* statistics its names promise, and the two languages agree on it.         *)
(***************************************************************************)
EXTENDS MeasurementReaders, FiniteSetTheorems, FunctionTheorems, TLAPS

-----------------------------------------------------------------------------
(* The sorted samples *)

Before(s, i)  == {j \in DOMAIN s : s[j] < s[i] \/ (s[j] = s[i] /\ j <= i)}
Below(s, v)   == {j \in DOMAIN s : s[j] < v}
AtMost(s, v)  == {j \in DOMAIN s : s[j] <= v}

LEMMA Indices ==
    ASSUME NEW s \in Seq(Int)
    PROVE  /\ DOMAIN s = 1 .. Len(s) /\ Len(s) \in Nat
           /\ IsFiniteSet(DOMAIN s) /\ Cardinality(DOMAIN s) = Len(s)
           /\ \A i \in DOMAIN s : s[i] \in Int
           /\ \A T \in SUBSET (DOMAIN s) :
                 IsFiniteSet(T) /\ Cardinality(T) \in Nat /\ Cardinality(T) <= Len(s)
<1>1. DOMAIN s = 1 .. Len(s) /\ Len(s) \in Nat /\ \A i \in DOMAIN s : s[i] \in Int
  OBVIOUS
<1> DEFINE n == Len(s)
<1>2. IsFiniteSet(1 .. n) /\ Cardinality(1 .. n) = n
  <2>1. n \in Int /\ 1 \in Int /\ (IF 1 > n THEN 0 ELSE n - 1 + 1) = n
    BY <1>1
  <2> HIDE DEF n
  <2> QED BY <2>1, FS_Interval
<1>3. IsFiniteSet(DOMAIN s) /\ Cardinality(DOMAIN s) = Len(s)
  BY <1>1, <1>2
<1>4. ASSUME NEW T \in SUBSET (DOMAIN s)
      PROVE  IsFiniteSet(T) /\ Cardinality(T) \in Nat /\ Cardinality(T) <= Len(s)
  BY <1>3, FS_Subset, FS_CardinalityType
<1> QED BY <1>1, <1>3, <1>4

(* A sample that comes later has the greater place. *)
LEMMA LaterPlace ==
    ASSUME NEW s \in Seq(Int), NEW i \in DOMAIN s, NEW j \in DOMAIN s, j # i, j \in Before(s, i)
    PROVE  Place(s, j) < Place(s, i)
<1>1. /\ Before(s, j) \in SUBSET Before(s, i)
      /\ i \in Before(s, i) /\ i \notin Before(s, j)
  BY Indices DEF Before
<1>2. IsFiniteSet(Before(s, i)) /\ Cardinality(Before(s, i)) \in Nat /\ Cardinality(Before(s, j)) \in Nat
  <2>1. Before(s, i) \in SUBSET (DOMAIN s) /\ Before(s, j) \in SUBSET (DOMAIN s)
    BY DEF Before
  <2> QED BY <2>1, Indices
<1>3. /\ Cardinality(Before(s, j)) <= Cardinality(Before(s, i))
      /\ Cardinality(Before(s, i)) # Cardinality(Before(s, j))
  BY <1>1, <1>2, FS_Subset
<1>4. Place(s, i) = Cardinality(Before(s, i)) /\ Place(s, j) = Cardinality(Before(s, j))
  BY DEF Place, Before
<1> QED BY <1>2, <1>3, <1>4

(* Every place is taken, by one sample. *)
LEMMA OrderedFacts ==
    ASSUME NEW s \in Seq(Int), NEW k \in 1 .. Len(s)
    PROVE  \E i \in DOMAIN s : Ordered(s)[k] = s[i] /\ Place(s, i) = k
<1> DEFINE D == DOMAIN s
           f == [i \in D |-> Place(s, i)]
<1>1. /\ D = 1 .. Len(s) /\ IsFiniteSet(D)
      /\ \A i \in D : Place(s, i) \in D
  <2>1. ASSUME NEW i \in D PROVE Place(s, i) \in 1 .. Len(s)
    <3>1. /\ Before(s, i) \in SUBSET D /\ i \in Before(s, i)
      BY Indices DEF Before
    <3>2. /\ IsFiniteSet(Before(s, i)) /\ Cardinality(Before(s, i)) \in Nat
          /\ Cardinality(Before(s, i)) <= Len(s)
      BY <3>1, Indices
    <3>3. Cardinality(Before(s, i)) # 0
      BY <3>1, <3>2, FS_EmptySet
    <3>4. Place(s, i) = Cardinality(Before(s, i))
      BY DEF Place, Before
    <3> QED BY <3>2, <3>3, <3>4, Indices
  <2> QED BY <2>1, Indices
<1>2. \A i, j \in D : f[i] = f[j] => i = j
  <2> SUFFICES ASSUME NEW i \in D, NEW j \in D, i # j PROVE Place(s, i) # Place(s, j)
    OBVIOUS
  <2>1. j \in Before(s, i) \/ i \in Before(s, j)
    BY Indices DEF Before
  <2>2. Place(s, i) \in Int /\ Place(s, j) \in Int
    BY <1>1, Indices
  <2> QED BY <2>1, <2>2, LaterPlace
<1>3. f \in [D -> D]
  BY <1>1
<1> HIDE DEF f
<1>4. f \in Injection(D, D)
  BY <1>2, <1>3, Fun_IsInj
<1>5. f \in Surjection(D, D)
  BY <1>1, <1>4, FS_Injection
<1>6. \E i \in D : f[i] = k
  <2>1. \A t \in D : \E i \in D : f[i] = t
    BY <1>5, Fun_SurjectionProperties
  <2> QED BY <1>1, <2>1
<1>7. \E i \in D : Place(s, i) = k
  BY <1>6 DEF f
<1>8. Ordered(s)[k] = s[CHOOSE i \in D : Place(s, i) = k]
  BY DEF Ordered
<1> QED BY <1>7, <1>8

(* Fewer than k samples are below the k-th, and at least k are not above it.  *)
LEMMA RankCounts ==
    ASSUME NEW s \in Seq(Int), NEW k \in 1 .. Len(s)
    PROVE  LET v == Ordered(s)[k]
           IN  /\ v \in Int /\ \E i \in DOMAIN s : s[i] = v
               /\ Cardinality(Below(s, v)) \in Nat /\ Cardinality(AtMost(s, v)) \in Nat
               /\ Cardinality(Below(s, v)) < k /\ k <= Cardinality(AtMost(s, v))
<1>1. PICK i \in DOMAIN s : Ordered(s)[k] = s[i] /\ Place(s, i) = k
  BY OrderedFacts
<1> DEFINE v == s[i]
<1>2. v \in Int
  BY Indices
<1>3. Place(s, i) = Cardinality(Before(s, i))
  BY DEF Place, Before
<1>4. /\ Below(s, v) \in SUBSET Before(s, i) /\ Before(s, i) \in SUBSET AtMost(s, v)
      /\ i \in Before(s, i) /\ i \notin Below(s, v)
      /\ AtMost(s, v) \in SUBSET (DOMAIN s)
  BY Indices DEF Before, Below, AtMost
<1>5. /\ IsFiniteSet(AtMost(s, v)) /\ Cardinality(AtMost(s, v)) \in Nat
      /\ IsFiniteSet(Before(s, i)) /\ Cardinality(Before(s, i)) \in Nat
      /\ IsFiniteSet(Below(s, v)) /\ Cardinality(Below(s, v)) \in Nat
  BY <1>4, Indices
<1> HIDE DEF v
<1>6. Cardinality(Before(s, i)) <= Cardinality(AtMost(s, v))
  BY <1>4, <1>5, FS_Subset
<1>7. /\ Cardinality(Below(s, v)) <= Cardinality(Before(s, i))
      /\ Cardinality(Before(s, i)) # Cardinality(Below(s, v))
  BY <1>4, <1>5, FS_Subset
<1>8. Ordered(s)[k] = v /\ s[i] = v
  BY <1>1 DEF v
<1>9. Cardinality(Below(s, v)) < k /\ k <= Cardinality(AtMost(s, v))
  BY <1>1, <1>3, <1>5, <1>6, <1>7
<1> QED BY <1>2, <1>5, <1>8, <1>9 DEF v

LEMMA OrderedAscends ==
    ASSUME NEW s \in Seq(Int), NEW k \in 1 .. Len(s), NEW l \in 1 .. Len(s), k <= l
    PROVE  Ordered(s)[k] <= Ordered(s)[l]
<1> DEFINE v == Ordered(s)[k]
           w == Ordered(s)[l]
<1>1. /\ v \in Int /\ w \in Int
      /\ Cardinality(Below(s, v)) \in Nat /\ Cardinality(AtMost(s, w)) \in Nat
      /\ Cardinality(Below(s, v)) < k /\ l <= Cardinality(AtMost(s, w))
  BY RankCounts
<1> HIDE DEF v, w
<1>2. ASSUME w < v PROVE FALSE
  <2>1. AtMost(s, w) \in SUBSET Below(s, v) /\ Below(s, v) \in SUBSET (DOMAIN s)
    BY <1>1, <1>2, Indices DEF AtMost, Below
  <2>2. IsFiniteSet(Below(s, v))
    BY <2>1, Indices
  <2>3. Cardinality(AtMost(s, w)) <= Cardinality(Below(s, v))
    BY <2>1, <2>2, FS_Subset
  <2> QED BY <1>1, <2>3
<1> QED BY <1>1, <1>2 DEF v, w

(* The k-th sample has rank q when k is ceil(q / 10 of the samples).          *)
LEMMA RankOf ==
    ASSUME NEW s \in Seq(Int), NEW k \in 1 .. Len(s), NEW q \in Nat,
           10 * k >= q * Len(s), 10 * (k - 1) < q * Len(s)
    PROVE  IsRank(s, Ordered(s)[k], q)
<1> DEFINE v == Ordered(s)[k]
           a == Cardinality(AtMost(s, v))
           b == Cardinality(Below(s, v))
           m == q * Len(s)
<1>1. /\ v \in Int /\ \E i \in DOMAIN s : s[i] = v
      /\ a \in Nat /\ b \in Nat /\ b < k /\ k <= a
  BY RankCounts
<1>2. m \in Nat
  BY Indices
<1>3. Count(s, LAMBDA x : x <= v) = a /\ Count(s, LAMBDA x : x < v) = b
  BY DEF Count, AtMost, Below
<1>4. 10 * a >= m /\ 10 * b < m
  <2>1. 10 * k >= m /\ 10 * (k - 1) < m
    OBVIOUS
  <2> HIDE DEF a, b, m
  <2> QED BY <1>1, <1>2, <2>1
<1> HIDE DEF v, a, b
<1> QED BY <1>1, <1>3, <1>4 DEF IsRank, v

-----------------------------------------------------------------------------
(* The statistics *)

LEMMA OrderedType ==
    ASSUME NEW s \in Seq(Int)
    PROVE  Ordered(s) \in Seq(Int) /\ Len(Ordered(s)) = Len(s)
<1>1. \A k \in 1 .. Len(s) : Ordered(s)[k] \in Int
  BY RankCounts
<1>2. Len(s) \in Nat
  OBVIOUS
<1>3. Ordered(s) = [k \in 1 .. Len(s) |-> Ordered(s)[k]]
  BY DEF Ordered
<1> DEFINE o == Ordered(s)
           n == Len(s)
<1> HIDE DEF o, n
<1>4. o \in [1 .. n -> Int] /\ n \in Nat
  BY <1>1, <1>2, <1>3 DEF o, n
<1>5. o \in Seq(Int) /\ Len(o) = n
  BY <1>4
<1> QED BY <1>5 DEF o, n

(* The least and the greatest sample are the first and the last in order.    *)
LEMMA Extremes ==
    ASSUME NEW s \in Seq(Int), s # <<>>
    PROVE  \A i \in DOMAIN s : Ordered(s)[1] <= s[i] /\ s[i] <= Ordered(s)[Len(s)]
<1> DEFINE n == Len(s)
           v == Ordered(s)[1]
           w == Ordered(s)[n]
<1>1. n \in Nat /\ n >= 1
  OBVIOUS
<1>2. 1 \in 1 .. Len(s) /\ n \in 1 .. Len(s)
  BY <1>1
<1>3. /\ v \in Int /\ Cardinality(Below(s, v)) \in Nat /\ Cardinality(Below(s, v)) < 1
  BY <1>2, RankCounts
<1>4. /\ w \in Int /\ Cardinality(AtMost(s, w)) \in Nat /\ n <= Cardinality(AtMost(s, w))
  BY <1>2, RankCounts
<1> HIDE DEF v, w
<1>5. Below(s, v) \in SUBSET (DOMAIN s) /\ AtMost(s, w) \in SUBSET (DOMAIN s)
  BY DEF Below, AtMost
<1>6. Below(s, v) = {}
  <2>1. IsFiniteSet(Below(s, v)) /\ Cardinality(Below(s, v)) = 0
    BY <1>3, <1>5, Indices
  <2> QED BY <2>1, FS_EmptySet
<1>7. AtMost(s, w) = DOMAIN s
  <2>1. IsFiniteSet(DOMAIN s) /\ Cardinality(DOMAIN s) = n /\ Cardinality(AtMost(s, w)) <= n
    BY <1>5, Indices
  <2>2. Cardinality(DOMAIN s) = Cardinality(AtMost(s, w))
    BY <1>1, <1>4, <2>1
  <2> QED BY <1>5, <2>1, <2>2, FS_Subset
<1>8. \A i \in DOMAIN s : s[i] \in Int
  BY Indices
<1>9. \A i \in DOMAIN s : v <= s[i] /\ s[i] <= w
  BY <1>3, <1>4, <1>6, <1>7, <1>8 DEF Below, AtMost
<1> QED BY <1>9 DEF v, w

(* The p90 is the sample of rank ceil(0.9 * n).                              *)
LEMMA P90Rank ==
    ASSUME NEW s \in Seq(Int), s # <<>>
    PROVE  IsRank(s, At(Ordered(s), AtLeast(0, NineTenths(Len(s)) - 1)), 9)
<1> DEFINE n == Len(s)
           k == NineTenths(n)
<1>1. n \in Nat /\ n >= 1
  OBVIOUS
<1> HIDE DEF n
<1>2. k \in Int /\ 10 * k <= 9 * n + 9 /\ 9 * n + 9 < 10 * k + 10
  BY <1>1 DEF NineTenths
<1> HIDE DEF k
<1>3. k \in 1 .. n /\ 10 * k >= 9 * n /\ 10 * (k - 1) < 9 * n
  BY <1>1, <1>2
<1>4. AtLeast(0, k - 1) + 1 = k
  BY <1>3 DEF AtLeast
<1>5. At(Ordered(s), AtLeast(0, k - 1)) = Ordered(s)[k]
  BY <1>4 DEF At
<1>6. IsRank(s, Ordered(s)[k], 9)
  BY <1>3, RankOf DEF n
<1> QED BY <1>5, <1>6 DEF k, n

(* The samples not below, or above, a value are those left over.             *)
LEMMA Complement ==
    ASSUME NEW s \in Seq(Int), NEW v \in Int
    PROVE  /\ Count(s, LAMBDA x : x >= v) = Len(s) - Cardinality(Below(s, v))
           /\ Count(s, LAMBDA x : x > v) = Len(s) - Cardinality(AtMost(s, v))
<1> DEFINE D == DOMAIN s
<1>1. IsFiniteSet(D) /\ Cardinality(D) = Len(s) /\ \A i \in D : s[i] \in Int
  BY Indices
<1>2. /\ D \ Below(s, v) = {i \in D : s[i] >= v}
      /\ D \ AtMost(s, v) = {i \in D : s[i] > v}
  BY <1>1 DEF Below, AtMost
<1>3. /\ D \intersect Below(s, v) = Below(s, v)
      /\ D \intersect AtMost(s, v) = AtMost(s, v)
  BY DEF Below, AtMost
<1> HIDE DEF D
<1>4. Cardinality(D \ Below(s, v)) = Cardinality(D) - Cardinality(D \intersect Below(s, v))
  BY <1>1, FS_Difference
<1>5. Cardinality(D \ AtMost(s, v)) = Cardinality(D) - Cardinality(D \intersect AtMost(s, v))
  BY <1>1, FS_Difference
<1>6. /\ Count(s, LAMBDA x : x >= v) = Cardinality({i \in D : s[i] >= v})
      /\ Count(s, LAMBDA x : x > v) = Cardinality({i \in D : s[i] > v})
  BY DEF Count, D
<1> QED BY <1>1, <1>2, <1>3, <1>4, <1>5, <1>6

(* Twice the median is the sum of the middle sample with itself, or of the   *)
(* two middle samples.                                                       *)
LEMMA MedianRank ==
    ASSUME NEW s \in Seq(Int), s # <<>>
    PROVE  IsTwiceMedian(s, PyTwiceMedian(Ordered(s)))
<1> DEFINE n == Len(s)
           h == n \div 2
           k == IF n % 2 = 1 THEN h + 1 ELSE h
           l == h + 1
           v == Ordered(s)[k]
           w == Ordered(s)[l]
<1>1. n \in Nat /\ n >= 1
  OBVIOUS
<1>2. /\ k \in 1 .. n /\ l \in 1 .. n /\ k <= l
      /\ 10 * k >= 5 * n /\ 10 * (k - 1) < 5 * n
      /\ 2 * (l - 1) <= n /\ 2 * l > n
  <2> HIDE DEF n
  <2>1. h \in Nat /\ (n % 2 = 1 => n = 2 * h + 1) /\ (n % 2 # 1 => n = 2 * h)
    BY <1>1
  <2> HIDE DEF h
  <2> QED BY <1>1, <2>1
<1>3. PyTwiceMedian(Ordered(s)) = v + w
  <2>1. Len(Ordered(s)) = n
    BY OrderedType
  <2>2. v \in Int /\ w \in Int
    BY <1>2, RankCounts
  <2>3. h \in Int /\ h - 1 + 1 = h
    BY <1>1
  <2>4. CASE n % 2 = 1
    <3>1. PyTwiceMedian(Ordered(s)) = 2 * w
      BY <2>1, <2>4 DEF PyTwiceMedian, At
    <3>2. v = w
      BY <2>4
    <3> HIDE DEF v, w
    <3> QED BY <2>2, <3>1, <3>2
  <2>5. CASE n % 2 # 1
    <3>1. PyTwiceMedian(Ordered(s)) = Ordered(s)[h - 1 + 1] + w
      BY <2>1, <2>5 DEF PyTwiceMedian, At
    <3>2. v = Ordered(s)[h]
      BY <2>5
    <3> QED BY <2>3, <3>1, <3>2
  <2> QED BY <2>4, <2>5
<1> HIDE DEF k, l, h
<1>4. v <= w
  BY <1>2, OrderedAscends
<1>5. IsRank(s, v, 5)
  BY <1>2, RankOf
<1>6. /\ w \in Int /\ Cardinality(Below(s, w)) \in Nat /\ Cardinality(AtMost(s, w)) \in Nat
      /\ Cardinality(Below(s, w)) < l /\ l <= Cardinality(AtMost(s, w))
      /\ \E j \in DOMAIN s : s[j] = w
  BY <1>2, RankCounts
<1>7. \E i \in DOMAIN s : s[i] = v
  BY <1>2, RankCounts
<1> HIDE DEF v, w, n
<1>8. /\ 2 * Count(s, LAMBDA x : x >= w) >= Len(s)
      /\ 2 * Count(s, LAMBDA x : x > w) < Len(s)
  <2>1. /\ Count(s, LAMBDA x : x >= w) = Len(s) - Cardinality(Below(s, w))
        /\ Count(s, LAMBDA x : x > w) = Len(s) - Cardinality(AtMost(s, w))
    BY <1>6, Complement
  <2>2. Len(s) = n
    BY DEF n
  <2> DEFINE b == Cardinality(Below(s, w))
             a == Cardinality(AtMost(s, w))
  <2>3. 2 * (n - b) >= n /\ 2 * (n - a) < n
    <3>1. b \in Nat /\ a \in Nat /\ b < l /\ l <= a
      BY <1>6
    <3> HIDE DEF a, b
    <3> QED BY <1>1, <1>2, <3>1
  <2> QED BY <2>1, <2>2, <2>3
<1>9. PICK i \in DOMAIN s, j \in DOMAIN s : s[i] = v /\ s[j] = w
  BY <1>6, <1>7
<1>10. /\ v + w = s[i] + s[j] /\ s[i] <= s[j] /\ IsRank(s, s[i], 5)
       /\ 2 * Count(s, LAMBDA x : x >= s[j]) >= Len(s)
       /\ 2 * Count(s, LAMBDA x : x > s[j]) < Len(s)
  BY <1>4, <1>5, <1>8, <1>9
<1> QED BY <1>3, <1>10 DEF IsTwiceMedian

(* Both languages compute the same. *)
LEMMA SummariesAgree ==
    ASSUME NEW s \in Seq(Int)
    PROVE  PySummary(s) = CppSummary(s)
<1> DEFINE o == Ordered(s)
           n == Len(o)
<1>1. n \in Nat
  BY OrderedType
<1> HIDE DEF o, n
<1>2. AtLeast(0, NineTenths(n) - 1) = AtLeast(1, NineTenths(n)) - 1
  BY <1>1 DEF AtLeast, NineTenths
<1>3. n % 2 = 0 \/ n % 2 = 1
  BY <1>1
<1>4. PyTwiceMedian(o) = CppTwiceMedian(o)
  BY <1>3 DEF PyTwiceMedian, CppTwiceMedian, n
<1> QED BY <1>2, <1>4 DEF PySummary, CppSummary, o, n

(* What a summary says of its samples *)
SummaryTrue(s, sum) ==
    /\ \E x \in Items(s) : x = sum.min
    /\ \E x \in Items(s) : x = sum.max
    /\ \A x \in Items(s) : sum.min <= x /\ x <= sum.max
    /\ IsRank(s, sum.p90, 9)
    /\ IsTwiceMedian(s, sum.twice_median)

LEMMA SummaryIsTrue ==
    ASSUME NEW s \in Seq(Int), s # <<>>
    PROVE  SummaryTrue(s, PySummary(s))
<1> DEFINE o == Ordered(s)
           n == Len(s)
           sum == PySummary(s)
<1>1. Len(o) = n /\ n \in Nat /\ n >= 1
  BY OrderedType
<1>2. /\ sum.min = o[0 + 1] /\ sum.max = o[n - 1 + 1]
      /\ sum.p90 = At(o, AtLeast(0, NineTenths(n) - 1))
      /\ sum.twice_median = PyTwiceMedian(o)
  BY <1>1 DEF PySummary, At
<1>3. sum.min = o[1] /\ sum.max = o[n]
  BY <1>1, <1>2
<1>4. (\E i \in DOMAIN s : s[i] = o[1]) /\ (\E i \in DOMAIN s : s[i] = o[n])
  <2>1. 1 \in 1 .. Len(s) /\ n \in 1 .. Len(s)
    BY <1>1
  <2> QED BY <2>1, RankCounts
<1>5. \A i \in DOMAIN s : o[1] <= s[i] /\ s[i] <= o[n]
  BY Extremes
<1>6. IsRank(s, sum.p90, 9) /\ IsTwiceMedian(s, sum.twice_median)
  BY <1>2, P90Rank, MedianRank
<1> HIDE DEF o, n, sum
<1> QED BY <1>3, <1>4, <1>5, <1>6 DEF SummaryTrue, Items, sum

-----------------------------------------------------------------------------
(* The readers *)

References == [candidate |-> Candidate, target |-> Profile]

Verdict(accepts) == IF accepts THEN "accept" ELSE "reject"

(* What is known of a document, edited or not *)
DocumentType(d) ==
    /\ DOMAIN d = DOMAIN Document(<< 1 >>)
    /\ d.candidate_ref = Candidate /\ d.target_profile_fingerprint = Profile
    /\ d.samples \in Seq(Int)
    /\ d.summary # None => d.summary = [f \in DOMAIN d.summary |-> d.summary[f]]

DInv ==
    /\ samples \in Observations /\ touched \in BOOLEAN
    /\ verdict \in [Readers -> {"none", "accept", "reject"}]
    /\ doc = None => verdict = Unread
    /\ doc # None => samples # <<>> /\ DocumentType(doc)
    /\ (doc # None /\ ~touched) => doc = Document(samples) /\ MeasurementValid(doc)
    /\ verdict["python"] # "none" => verdict["python"] = Verdict(MeasurementLoads(doc))
    /\ verdict["cpp"] # "none" => verdict["cpp"] = Verdict(CppMeasurement(doc, References))

LEMMA DocumentFields ==
    ASSUME NEW s
    PROVE  /\ DOMAIN Document(s) = DOMAIN Document(<< 1 >>)
           /\ Document(s).candidate_ref = Candidate
           /\ Document(s).target_profile_fingerprint = Profile
           /\ Document(s).samples = s /\ Document(s).summary = PySummary(s)
           /\ "schema_version" \notin DOMAIN Document(s)
           /\ "samples" \in DOMAIN Document(s) /\ "summary" \in DOMAIN Document(s)
           /\ Document(s) = [f \in DOMAIN Document(s) |-> Document(s)[f]]
BY DEF Document

LEMMA DocumentTyped ==
    ASSUME NEW s \in Seq(Int)
    PROVE  DocumentType(Document(s))
<1>1. PySummary(s) = [f \in DOMAIN PySummary(s) |-> PySummary(s)[f]]
  BY DEF PySummary
<1> QED BY <1>1, DocumentFields DEF DocumentType

(* An edited sample leaves a document of the same fields.                    *)
LEMMA EditedSampleTyped ==
    ASSUME NEW s \in Seq(Int), NEW i \in DOMAIN s, NEW x \in Int,
           NEW sum \in {Document(s).summary, None}
    PROVE  DocumentType([Document(s) EXCEPT !.samples[i] = x, !.summary = sum])
<1> DEFINE d == Document(s)
           e == [d EXCEPT !.samples[i] = x, !.summary = sum]
<1>1. /\ DOMAIN d = DOMAIN Document(<< 1 >>) /\ d.candidate_ref = Candidate
      /\ d.target_profile_fingerprint = Profile /\ d.samples = s /\ d.summary = PySummary(s)
      /\ "samples" \in DOMAIN d /\ "summary" \in DOMAIN d
      /\ d.summary # None => d.summary = [f \in DOMAIN d.summary |-> d.summary[f]]
  BY DocumentTyped, DocumentFields DEF DocumentType
<1> HIDE DEF d
<1>2. /\ DOMAIN e = DOMAIN d /\ e.candidate_ref = d.candidate_ref
      /\ e.target_profile_fingerprint = d.target_profile_fingerprint
      /\ e.samples = [d.samples EXCEPT ![i] = x] /\ e.summary = sum
  BY <1>1
<1>3. [s EXCEPT ![i] = x] \in Seq(Int)
  OBVIOUS
<1> HIDE DEF e
<1>4. DocumentType(e)
  BY <1>1, <1>2, <1>3 DEF DocumentType, d
<1> QED BY <1>4 DEF e, d

-----------------------------------------------------------------------------
LEMMA InitDInv == Init => DInv
BY DEF Init, DInv, Unread, Readers

LEMMA NextDInv == DInv /\ [Next]_vars => DInv'
<1> SUFFICES ASSUME DInv, [Next]_vars PROVE DInv'
  OBVIOUS
<1>0. /\ samples \in Seq(Int)
      /\ Unread \in [Readers -> {"none", "accept", "reject"}]
      /\ Unread["python"] = "none" /\ Unread["cpp"] = "none"
      /\ Readers = {"python", "cpp"}
  BY ObservationsAssumption DEF DInv, Unread, Readers
<1>1. CASE Write
  <2>1. /\ doc = None /\ samples # <<>> /\ MeasurementValid(Document(samples))
        /\ doc' = Document(samples) /\ UNCHANGED <<samples, touched, verdict>>
    BY <1>1 DEF Write
  <2>2. DocumentType(doc') /\ verdict = Unread
    BY <1>0, <2>1, DocumentTyped DEF DInv
  <2> QED BY <1>0, <2>1, <2>2 DEF DInv
<1>2. CASE EditSample
  <2>1. /\ doc # None /\ ~touched /\ touched' = TRUE /\ verdict' = Unread /\ samples' = samples
    BY <1>2 DEF EditSample
  <2>2. doc = Document(samples)
    BY <2>1 DEF DInv
  <2>3. PICK i \in DOMAIN samples, x \in Levels, s \in {doc.summary, None} :
            doc' = [doc EXCEPT !.samples[i] = x, !.summary = s]
    BY <1>2 DEF EditSample
  <2>4. x \in Int
    BY LevelsAssumption
  <2>5. DocumentType(doc')
    BY <1>0, <2>2, <2>3, <2>4, EditedSampleTyped
  <2> QED BY <1>0, <2>1, <2>5 DEF DInv
<1>3. CASE EditField
  <2>1. /\ doc # None /\ ~touched /\ touched' = TRUE /\ verdict' = Unread /\ samples' = samples
        /\ doc' \in Edited(doc)
    BY <1>3 DEF EditField
  <2>2. doc = Document(samples) /\ samples # <<>> /\ samples \in Observations
    BY <2>1 DEF DInv
  <2>3. DocumentType(doc')
    BY <2>1, <2>2, EditedAssumption, DocumentFields DEF DocumentType
  <2> QED BY <1>0, <2>1, <2>2, <2>3 DEF DInv
<1>4. CASE PyRead
  <2>1. /\ doc # None /\ UNCHANGED <<samples, doc, touched>>
        /\ verdict' = [verdict EXCEPT !["python"] = Verdict(MeasurementLoads(doc))]
    BY <1>4 DEF PyRead, Says, Verdict
  <2>2. /\ verdict'["python"] = Verdict(MeasurementLoads(doc)) /\ verdict'["cpp"] = verdict["cpp"]
        /\ verdict' \in [Readers -> {"none", "accept", "reject"}]
    BY <1>0, <2>1 DEF DInv, Verdict
  <2>3. (doc' # None => samples' # <<>> /\ DocumentType(doc'))
    BY <2>1 DEF DInv
  <2> QED BY <2>1, <2>2, <2>3 DEF DInv
<1>5. CASE CppRead
  <2>1. /\ doc # None /\ UNCHANGED <<samples, doc, touched>>
        /\ verdict' = [verdict EXCEPT !["cpp"] = Verdict(CppMeasurement(doc, References))]
    BY <1>5 DEF CppRead, Says, Verdict, References
  <2>2. /\ verdict'["cpp"] = Verdict(CppMeasurement(doc, References)) /\ verdict'["python"] = verdict["python"]
        /\ verdict' \in [Readers -> {"none", "accept", "reject"}]
    BY <1>0, <2>1 DEF DInv, Verdict
  <2>3. (doc' # None => samples' # <<>> /\ DocumentType(doc'))
    BY <2>1 DEF DInv
  <2> QED BY <2>1, <2>2, <2>3 DEF DInv
<1>6. CASE UNCHANGED vars
  BY <1>6 DEF vars, DInv
<1> QED BY <1>1, <1>2, <1>3, <1>4, <1>5, <1>6 DEF Next

-----------------------------------------------------------------------------
(* What an accepting reader establishes *)

LEMMA PyAccepts ==
    ASSUME DInv, verdict["python"] = "accept"
    PROVE  doc # None /\ DocumentType(doc) /\ MeasurementLoads(doc)
<1>1. doc # None
  BY DEF DInv, Unread, Readers
<1> QED BY <1>1 DEF DInv, Verdict

LEMMA CppAcceptsIt ==
    ASSUME DInv, verdict["cpp"] = "accept"
    PROVE  doc # None /\ DocumentType(doc) /\ CppMeasurement(doc, References)
<1>1. doc # None
  BY DEF DInv, Unread, Readers
<1> QED BY <1>1 DEF DInv, Verdict

LEMMA TrueSummaries == DInv => AcceptedSummaryIsTrue
<1> SUFFICES ASSUME DInv, NEW r \in Readers, verdict[r] = "accept", doc.summary # None
             PROVE  SummaryTrue(doc.samples, doc.summary)
  BY DEF AcceptedSummaryIsTrue, SummaryTrue
<1> DEFINE s == doc.samples
<1>1. /\ s \in Seq(Int) /\ s # <<>>
      /\ \A field \in SummaryFields : doc.summary[field] = PySummary(s)[field]
  <2>1. CASE r = "python"
    <3>1. DocumentType(doc) /\ MeasurementLoads(doc)
      BY <2>1, PyAccepts
    <3>2. MeasurementValid(doc) /\ doc.summary = PySummary(s)
      BY <3>1 DEF MeasurementLoads
    <3>3. s # <<>>
      BY <3>2 DEF MeasurementValid, SamplesValid
    <3> QED BY <3>1, <3>2, <3>3 DEF DocumentType
  <2>2. CASE r = "cpp"
    <3>1. DocumentType(doc) /\ CppMeasurement(doc, References)
      BY <2>2, CppAcceptsIt
    <3>2. CppMeasurementContent(doc)
      BY <3>1 DEF CppMeasurement
    <3>3. s # <<>> /\ \A field \in SummaryFields : doc.summary[field] = CppSummary(s)[field]
      BY <3>2 DEF CppMeasurementContent, SamplesValid
    <3>4. s \in Seq(Int)
      BY <3>1 DEF DocumentType
    <3> QED BY <3>3, <3>4, SummariesAgree
  <2> QED BY <2>1, <2>2 DEF Readers
<1>2. SummaryTrue(s, PySummary(s))
  BY <1>1, SummaryIsTrue
<1>3. /\ doc.summary.min = PySummary(s).min /\ doc.summary.max = PySummary(s).max
      /\ doc.summary.p90 = PySummary(s).p90 /\ doc.summary.twice_median = PySummary(s).twice_median
  BY <1>1 DEF SummaryFields
<1> QED BY <1>2, <1>3 DEF SummaryTrue

LEMMA Agreement == DInv => ReadersAgree
<1> SUFFICES ASSUME DInv, \A r \in Readers : verdict[r] # "none",
                    doc.summary # None => DOMAIN doc.summary = SummaryFields,
                    \A f \in {"measurement_id", "collected_at", "warmup_runs", "environment"} :
                        doc[f] = Document(<< 1 >>)[f]
             PROVE  verdict["cpp"] = "accept" <=> verdict["python"] = "accept" /\ doc.summary # None
  BY DEF ReadersAgree
<1> DEFINE content == QualifiedSource(doc) /\ UnitFits(doc) /\ SamplesValid(doc.samples)
           s == doc.samples
<1>1. /\ verdict["python"] # "none" /\ verdict["cpp"] # "none"
      /\ verdict["python"] = Verdict(MeasurementLoads(doc))
      /\ verdict["cpp"] = Verdict(CppMeasurement(doc, References))
  BY DEF DInv, Readers
<1>2. DocumentType(doc)
  BY <1>1 DEF DInv, Unread, Readers
<1>3. SupportedVersion(doc)
  <2>1. "schema_version" \notin DOMAIN doc
    BY <1>2, DocumentFields DEF DocumentType
  <2> QED BY <2>1 DEF SupportedVersion, GetOr
<1>4. /\ doc.measurement_id # None /\ doc.candidate_ref # None /\ doc.target_profile_fingerprint # None
  <2>1. doc.measurement_id = "m"
    BY DEF Document
  <2>2. doc.candidate_ref = Candidate /\ doc.target_profile_fingerprint = Profile
    BY <1>2 DEF DocumentType
  <2> QED BY <2>1, <2>2, NoneAssumption
<1>5. /\ doc.collected_at = "with timezone" /\ doc.warmup_runs >= 0
      /\ RequiredEnvironment \subseteq DOMAIN doc.environment
      /\ doc.environment.threads > 0
  <2>1. /\ doc.collected_at = Document(<< 1 >>).collected_at
        /\ doc.warmup_runs = Document(<< 1 >>).warmup_runs
        /\ doc.environment = Document(<< 1 >>).environment
    OBVIOUS
  <2>2. /\ Document(<< 1 >>).collected_at = "with timezone" /\ Document(<<1>>).warmup_runs = 1
        /\ DOMAIN Document(<< 1 >>).environment = {"device_id", "backend_version", "clock_policy", "threads"}
        /\ Document(<< 1 >>).environment.threads = 1
    BY DEF Document
  <2>3. doc.warmup_runs = 1 /\ doc.environment.threads = 1
    BY <2>1, <2>2
  <2>4. doc.warmup_runs >= 0 /\ doc.environment.threads > 0
    BY <2>3
  <2> QED BY <2>1, <2>2, <2>4 DEF RequiredEnvironment
<1>6. MeasurementValid(doc) <=> content
  BY <1>3, <1>4, <1>5, Zenon DEF MeasurementValid
<1>7. s \in Seq(Int)
  BY <1>2 DEF DocumentType
<1>8. ASSUME doc.summary # None
      PROVE  doc.summary = PySummary(s)
                <=> \A field \in SummaryFields : doc.summary[field] = PySummary(s)[field]
  <2> DEFINE a == doc.summary
             b == PySummary(s)
  <2>1. a = [f \in SummaryFields |-> a[f]]
    BY <1>2, <1>8 DEF DocumentType
  <2>2. b = [f \in SummaryFields |-> b[f]]
    BY DEF PySummary, SummaryFields
  <2> HIDE DEF a, b
  <2>3. (\A f \in SummaryFields : a[f] = b[f]) => a = b
    BY <2>1, <2>2
  <2>4. (\A f \in SummaryFields : a[f] = b[f]) <=> a = b
    BY <2>3
  <2> QED BY <2>4 DEF a, b
<1>9. MeasurementLoads(doc) <=> content /\ (doc.summary # None => doc.summary = PySummary(s))
  BY <1>6 DEF MeasurementLoads
<1>10. CppMeasurementContent(doc) <=>
         content /\ doc.summary # None
            /\ \A field \in SummaryFields : doc.summary[field] = PySummary(s)[field]
  <2>1. \A field \in SummaryFields : CppSummary(s)[field] = PySummary(s)[field]
    BY <1>7, SummariesAgree
  <2>2. doc.summary # None => SummaryFields \subseteq DOMAIN doc.summary
    OBVIOUS
  <2> QED BY <2>1, <2>2 DEF CppMeasurementContent
<1>11. CppMeasurement(doc, References) <=> CppMeasurementContent(doc)
  BY <1>2, <1>3 DEF CppMeasurement, References, DocumentType
<1> QED BY <1>1, <1>8, <1>9, <1>10, <1>11 DEF Verdict

LEMMA Typed == DInv => TypeOK
<1> SUFFICES ASSUME DInv PROVE TypeOK
  OBVIOUS
<1>1. ASSUME doc # None, ~touched PROVE MeasurementLoads(doc)
  <2>1. doc = Document(samples) /\ MeasurementValid(doc)
    BY <1>1 DEF DInv
  <2>2. doc.summary = PySummary(doc.samples)
    BY <2>1, DocumentFields
  <2> QED BY <2>1, <2>2 DEF MeasurementLoads
<1> QED BY <1>1 DEF DInv, TypeOK, DocumentType

(* The document keeps the fields of a Measurement, and before anybody edits  *)
(* it Python loads it.  evidence.py 37-71 and 101-118.                       *)
THEOREM TypeCorrect == Spec => []TypeOK
BY InitDInv, NextDInv, Typed, PTL DEF Spec

(* However many samples there are and whichever was edited: a summary that   *)
(* a reader accepted is the least, the greatest, the median and the nearest- *)
(* rank p90 of the samples beside it.  evidence.py 73-82 and 115-117,        *)
(* ocf_contract_check.cpp 398-415.                                           *)
THEOREM AcceptedIsTrue == Spec => []AcceptedSummaryIsTrue
BY InitDInv, NextDInv, TrueSummaries, PTL DEF Spec

(* Whatever is edited in samples, summary, source and unit, C++ accepts what *)
(* Python accepts and has a summary.  evidence.py 43-60 and 115-117,         *)
(* ocf_contract_check.cpp 377-415.                                           *)
THEOREM ReadersConclude == Spec => []ReadersAgree
BY InitDInv, NextDInv, Agreement, PTL DEF Spec
=============================================================================
