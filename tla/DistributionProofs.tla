------------------------- MODULE DistributionProofs -------------------------
(***************************************************************************)
(* Proofs about Distribution, for every capacity, range of values and      *)
(* number of samples.  Samples are counted by the places that hold them:   *)
(* appending adds one place, a replaced slot changes one, and an exchange  *)
(* of qsort, seen from its end (Settled), maps places one to one, so that  *)
(* no value gains or loses any.                                            *)
(***************************************************************************)
EXTENDS Distribution, FunctionTheorems, FiniteSetTheorems, SequenceTheorems, TLAPS

Values == 0..MaxValue

Types ==
    /\ samples \in Seq(Values) /\ sample_count \in Nat
    /\ min \in Values /\ max \in Values /\ last_rtt \in Values
    /\ jitter_sum \in Nat /\ jitter_count \in Nat /\ jitter_max \in Nat
    /\ pc \in {"none", "sort", "read"} /\ report \in Seq(Values)
    /\ nel \in Nat /\ late \in Nat /\ all \in [Values -> Nat]
    /\ swap \in [stage : {"none", "loaded", "stored"}, i : Nat, j : Nat, x : Values, y : Values]

\* The elements qsort works on are there, the two it exchanges among them, and
\* a report during which no echo came in is of sorted samples.
Reporting ==
    /\ pc = "sort" => nel <= Len(samples) /\ report = <<>>
    /\ swap.stage # "none" =>
          pc = "sort" /\ swap.i \in 1..nel /\ swap.j \in 1..nel /\ swap.i # swap.j
    /\ pc = "sort" /\ late = 0 => nel = Len(samples) /\ ~replaced
    /\ pc = "read" => Len(report) <= Len(Quantiles)
    /\ pc = "read" /\ late = 0 =>
          /\ Ascending(samples, Len(samples))
          /\ \A k \in 1..Len(report) : report[k] = nearest_rank(Quantiles[k])

\* The last sample lies in the spread of the run.
Spread ==
    /\ sample_count > 0 => min <= last_rtt /\ last_rtt <= max
    /\ JitterConsistent
-----------------------------------------------------------------------------
(* Counting the places of a value.                                         *)

Where(s, v) == {i \in DOMAIN s : s[i] = v}

\* A value has finitely many places, among those of the sequence.
LEMMA WhereFinite ==
    ASSUME NEW S, NEW s \in Seq(S), NEW v
    PROVE  /\ DOMAIN s = 1..Len(s) /\ Len(s) \in Nat /\ Where(s, v) \subseteq 1..Len(s)
           /\ IsFiniteSet(Where(s, v)) /\ Cardinality(Where(s, v)) \in Nat
           /\ Occurrences(s, v) = Cardinality(Where(s, v))
<1>1. DOMAIN s = 1..Len(s) /\ Len(s) \in Nat
  BY LenProperties
<1>2. Where(s, v) \subseteq 1..Len(s)
  BY <1>1 DEF Where
<1>3. IsFiniteSet(1..Len(s))
  BY <1>1, FS_Interval
<1>4. IsFiniteSet(Where(s, v))
  BY <1>2, <1>3, FS_Subset
<1> QED
  BY <1>1, <1>2, <1>4, FS_CardinalityType DEF Occurrences, Where

\* An appended sample is one more of its value.
LEMMA OccurrencesAppend ==
    ASSUME NEW S, NEW s \in Seq(S), NEW v \in S, NEW w
    PROVE  Occurrences(Append(s, v), w) = Occurrences(s, w) + (IF w = v THEN 1 ELSE 0)
<1> DEFINE a == Append(s, v)
           n == Len(s)
<1>1. /\ a \in Seq(S) /\ Len(a) = n + 1 /\ a[n + 1] = v
      /\ \A i \in 1..n : a[i] = s[i]
  BY AppendProperties
<1>2. /\ DOMAIN a = 1..(n + 1) /\ DOMAIN s = 1..n /\ n \in Nat
      /\ Occurrences(a, w) = Cardinality(Where(a, w))
      /\ Occurrences(s, w) = Cardinality(Where(s, w)) /\ IsFiniteSet(Where(s, w))
      /\ Cardinality(Where(s, w)) \in Nat
  BY <1>1, WhereFinite
<1> HIDE DEF a, n
<1>3. CASE w = v
  <2>1. Where(a, w) = Where(s, w) \cup {n + 1} /\ n + 1 \notin Where(s, w)
    BY <1>1, <1>2, <1>3 DEF Where
  <2>2. Cardinality(Where(a, w)) = Cardinality(Where(s, w)) + 1
    BY <1>2, <2>1, FS_AddElement
  <2> QED
    BY <1>2, <1>3, <2>2 DEF a
<1>4. CASE w # v
  <2>1. Where(a, w) = Where(s, w)
    BY <1>1, <1>2, <1>4 DEF Where
  <2> QED
    BY <1>2, <1>4, <2>1 DEF a
<1> QED
  BY <1>3, <1>4

\* A replaced slot gives no value more than the sample that replaced it.
LEMMA OccurrencesReplace ==
    ASSUME NEW S, NEW s \in Seq(S), NEW k \in 1..Len(s), NEW v \in S, NEW w
    PROVE  Occurrences([s EXCEPT ![k] = v], w) <= Occurrences(s, w) + (IF w = v THEN 1 ELSE 0)
<1> DEFINE a == [s EXCEPT ![k] = v]
<1>1. /\ a \in Seq(S) /\ Len(a) = Len(s)
      /\ \A i \in 1..Len(s) : a[i] = IF i = k THEN v ELSE s[i]
  BY ExceptSeq
<1>2. /\ DOMAIN a = 1..Len(s) /\ DOMAIN s = 1..Len(s)
      /\ Occurrences(a, w) = Cardinality(Where(a, w)) /\ Cardinality(Where(a, w)) \in Nat
      /\ Occurrences(s, w) = Cardinality(Where(s, w)) /\ IsFiniteSet(Where(s, w))
      /\ Cardinality(Where(s, w)) \in Nat
  BY <1>1, WhereFinite
<1> HIDE DEF a
<1>3. CASE w = v
  <2>1. Where(a, w) \subseteq Where(s, w) \cup {k}
    BY <1>1, <1>2 DEF Where
  <2>2. /\ IsFiniteSet(Where(s, w) \cup {k})
        /\ Cardinality(Where(s, w) \cup {k}) =
              IF k \in Where(s, w) THEN Cardinality(Where(s, w)) ELSE Cardinality(Where(s, w)) + 1
    BY <1>2, FS_AddElement
  <2>3. Cardinality(Where(a, w)) <= Cardinality(Where(s, w) \cup {k})
    BY <2>1, <2>2, FS_Subset
  <2> QED
    BY <1>2, <1>3, <2>2, <2>3 DEF a
<1>4. CASE w # v
  <2>1. Where(a, w) \subseteq Where(s, w)
    BY <1>1, <1>2, <1>4 DEF Where
  <2>2. Cardinality(Where(a, w)) <= Cardinality(Where(s, w))
    BY <1>2, <2>1, FS_Subset
  <2> QED
    BY <1>2, <1>4, <2>2 DEF a
<1> QED
  BY <1>3, <1>4

\* An exchange moves two samples and changes none.
LEMMA OccurrencesExchanged ==
    ASSUME NEW S, NEW s \in Seq(S), NEW k \in 1..Len(s), NEW l \in 1..Len(s), k # l, NEW v
    PROVE  Occurrences([s EXCEPT ![k] = s[l], ![l] = s[k]], v) = Occurrences(s, v)
<1> DEFINE a == [s EXCEPT ![k] = s[l], ![l] = s[k]]
           g == [i \in 1..Len(s) |-> IF i = k THEN l ELSE IF i = l THEN k ELSE i]
<1>1. Len(s) \in Nat /\ DOMAIN s = 1..Len(s) /\ s \in [1..Len(s) -> S]
  BY LenProperties
<1>2. /\ g \in [1..Len(s) -> 1..Len(s)] /\ \A i, j \in 1..Len(s) : g[i] = g[j] => i = j
      /\ \A j \in 1..Len(s) : g[g[j]] = j
  OBVIOUS
<1>3. DOMAIN a = 1..Len(s) /\ \A i \in 1..Len(s) : a[i] = s[g[i]]
  BY <1>1
<1>4. a \in [1..Len(s) -> S]
  BY <1>1
<1> HIDE DEF a, g
<1>5. a \in Seq(S) /\ Len(a) = Len(s)
  BY <1>1, <1>4, SeqDef
<1> DEFINE A == Where(a, v)
           B == Where(s, v)
           f == [i \in A |-> g[i]]
<1>6. /\ IsFiniteSet(A) /\ Occurrences(a, v) = Cardinality(A)
      /\ Occurrences(s, v) = Cardinality(B)
  BY <1>5, WhereFinite
<1>7. f \in [A -> B] /\ \A i, j \in A : f[i] = f[j] => i = j
  BY <1>1, <1>2, <1>3 DEF Where
<1>8. ASSUME NEW j \in B PROVE \E i \in A : f[i] = j
  <2>1. j \in 1..Len(s) /\ s[j] = v
    BY <1>1 DEF Where
  <2>2. g[j] \in A
    BY <1>2, <1>3, <2>1 DEF Where
  <2> QED
    BY <1>2, <2>1, <2>2
<1>9. f \in Bijection(A, B)
  BY <1>7, <1>8, Fun_IsBij
<1>10. ExistsBijection(A, B)
  BY <1>9 DEF ExistsBijection
<1>11. Occurrences(a, v) = Occurrences(s, v)
  BY <1>6, <1>10, FS_Bijection
<1> QED
  BY <1>11 DEF a
-----------------------------------------------------------------------------
(* Percentiles of sorted samples.                                          *)

IsRank(r, q, n) == r \in 1..n /\ (r - 1) * 1000 < q * n /\ q * n <= r * 1000

\* The rank is the least whose share reaches the quantile.
LEMMA RankExact ==
    ASSUME NEW q \in Nat, 1 <= q, q <= 1000, NEW n \in Nat \ {0}
    PROVE  IsRank(Rank(q, n), q, n)
<1> DEFINE x == q * n
           c == (x + 999) \div 1000
<1>1. x \in Nat /\ 1 <= x /\ x <= 1000 * n
  <2>1. q * n >= n
    <3>1. (q - 1) * n >= 0
      OBVIOUS
    <3> QED
      BY <3>1
  <2>2. (1000 - q) * n >= 0
    OBVIOUS
  <2>3. q * n <= 1000 * n
    BY <2>2
  <2> QED
    BY <2>1, <2>3
<1> HIDE DEF x
<1>2. c \in Nat /\ 1000 * c <= x + 999 /\ x + 999 < 1000 * c + 1000
  BY <1>1
<1> HIDE DEF c
<1>3. c \in 1..n /\ (c - 1) * 1000 < x /\ x <= c * 1000
  BY <1>1, <1>2
<1>4. Rank(q, n) = c
  <2>1. Rank(q, n) = Smaller(n, Larger(1, c))
    BY DEF Rank, c, x
  <2> QED
    BY <1>3, <2>1 DEF Smaller, Larger
<1> QED
  BY <1>3, <1>4 DEF x, IsRank

\* What is read at that rank of sorted samples is their quantile
\* (metrics.c nearest_rank).
LEMMA QuantileExact ==
    ASSUME samples \in Seq(Values), samples # <<>>, Ascending(samples, Len(samples)),
           NEW q \in Nat, 1 <= q, q <= 1000
    PROVE  nearest_rank(q) \in Values /\ IsQuantile(nearest_rank(q), q)
<1> DEFINE n == Len(samples)
           r == Rank(q, n)
           v == samples[r]
           Below(x) == {i \in DOMAIN samples : samples[i] <= x}
<1>1. n \in Nat \ {0} /\ DOMAIN samples = 1..n /\ \A i \in 1..n : samples[i] \in Values
  BY LenProperties, EmptySeq, ElementOfSeq
<1> HIDE DEF n
<1>2. r \in 1..n /\ (r - 1) * 1000 < q * n /\ q * n <= r * 1000
  <2>1. IsRank(r, q, n)
    BY <1>1, RankExact
  <2> QED
    BY <2>1 DEF IsRank
<1>3. nearest_rank(q) = v /\ v \in Values
  BY <1>1, <1>2 DEF nearest_rank, n
<1> HIDE DEF r
<1>4. \A x : IsFiniteSet(Below(x)) /\ Cardinality(Below(x)) \in Nat /\ AtOrBelow(x) = Cardinality(Below(x))
  <2> SUFFICES ASSUME NEW x
               PROVE  IsFiniteSet(Below(x)) /\ Cardinality(Below(x)) \in Nat
                      /\ AtOrBelow(x) = Cardinality(Below(x))
    OBVIOUS
  <2>1. Below(x) \subseteq 1..n
    BY <1>1
  <2>2. IsFiniteSet(1..n)
    BY <1>1, FS_Interval
  <2>3. IsFiniteSet(Below(x))
    BY <2>1, <2>2, FS_Subset
  <2> QED
    BY <2>3, FS_CardinalityType DEF AtOrBelow
<1>5. Occurrences(samples, v) > 0
  <2>1. r \in Where(samples, v)
    BY <1>1, <1>2 DEF Where
  <2>2. /\ IsFiniteSet(Where(samples, v)) /\ Cardinality(Where(samples, v)) \in Nat
        /\ Occurrences(samples, v) = Cardinality(Where(samples, v))
    BY WhereFinite
  <2>3. Cardinality(Where(samples, v)) # 0
    BY <2>1, <2>2, FS_EmptySet
  <2> QED
    BY <2>2, <2>3
<1>6. AtOrBelow(v) * 1000 >= q * n
  <2>1. 1..r \subseteq Below(v)
    <3> SUFFICES ASSUME NEW i \in 1..r PROVE i \in 1..n /\ samples[i] <= v
      BY <1>1
    <3>1. i \in 1..n
      BY <1>1, <1>2
    <3>2. CASE i = r
      BY <1>3, <3>1, <3>2, DistributionAssumption DEF Values
    <3>3. CASE i # r
      BY <1>2, <3>1, <3>3 DEF Ascending, n
    <3> QED
      BY <3>2, <3>3, <3>1
  <2>2. Cardinality(1..r) = r
    BY <1>2, FS_Interval
  <2>3. r <= AtOrBelow(v) /\ AtOrBelow(v) \in Nat
    <3> DEFINE B == Below(v)
    <3>1. IsFiniteSet(B) /\ Cardinality(B) \in Nat /\ AtOrBelow(v) = Cardinality(B)
      BY <1>4
    <3>2. 1..r \in SUBSET B
      BY <2>1
    <3> HIDE DEF B
    <3>3. Cardinality(1..r) <= Cardinality(B)
      BY <3>1, <3>2, FS_Subset
    <3> QED
      BY <2>2, <3>1, <3>3
  <2> DEFINE k == AtOrBelow(v)
             y == q * n
  <2>4. r <= k /\ k \in Nat /\ r \in Nat /\ y <= r * 1000 /\ y \in Nat
    BY <1>1, <1>2, <2>3
  <2> HIDE DEF k, y
  <2>5. k * 1000 >= y
    BY <2>4
  <2> QED
    BY <2>5 DEF k, y
<1>7. ASSUME NEW i \in DOMAIN samples, samples[i] < v
      PROVE  AtOrBelow(samples[i]) * 1000 < q * n
  <2>1. Below(samples[i]) \subseteq 1..(r - 1)
    <3> SUFFICES ASSUME NEW j \in 1..n, samples[j] <= samples[i] PROVE j \in 1..(r - 1)
      BY <1>1
    <3>1. samples[i] \in Int /\ samples[j] \in Int /\ v \in Int
      BY <1>1, <1>3 DEF Values
    <3>2. ~(j >= r)
      <4> SUFFICES ASSUME j >= r PROVE v <= samples[j]
        BY <1>7, <3>1
      <4>1. CASE j = r
        BY <3>1, <4>1
      <4>2. CASE j # r
        BY <1>1, <1>2, <4>2 DEF Ascending, n
      <4> QED
        BY <4>1, <4>2
    <3> QED
      BY <1>2, <3>2
  <2>2. AtOrBelow(samples[i]) <= r - 1 /\ AtOrBelow(samples[i]) \in Nat
    <3> DEFINE B == Below(samples[i])
               m == r - 1
    <3>1. Cardinality(B) \in Nat /\ AtOrBelow(samples[i]) = Cardinality(B)
      BY <1>4
    <3>2. B \in SUBSET (1..m) /\ m \in Nat
      BY <1>2, <2>1
    <3> HIDE DEF B, m
    <3>3. IsFiniteSet(1..m) /\ Cardinality(1..m) = m
      BY <3>2, FS_Interval
    <3>4. Cardinality(B) <= Cardinality(1..m)
      BY <3>2, <3>3, FS_Subset
    <3> QED
      BY <3>1, <3>3, <3>4 DEF m
  <2> DEFINE k == AtOrBelow(samples[i])
             y == q * n
  <2>4. k <= r - 1 /\ k \in Nat /\ r \in Nat /\ (r - 1) * 1000 < y /\ y \in Nat
    BY <1>1, <1>2, <2>2
  <2> HIDE DEF k, y
  <2>5. k * 1000 < y
    BY <2>4
  <2> QED
    BY <2>5 DEF k, y
<1> QED
  BY <1>3, <1>5, <1>6, <1>7 DEF IsQuantile, n
-----------------------------------------------------------------------------
(* The steps.                                                              *)

DistributionInv == Types /\ ReservoirHonest /\ Reporting /\ Spread

\* An empty reservoir has no sample of any value.
LEMMA OccurrencesEmpty == \A v : Occurrences(<<>>, v) = 0
<1> SUFFICES ASSUME NEW v PROVE Occurrences(<<>>, v) = 0
  OBVIOUS
<1>1. {i \in DOMAIN <<>> : <<>>[i] = v} = {}
  OBVIOUS
<1> QED
  BY <1>1, FS_EmptySet DEF Occurrences

\* The percentiles asked for are shares of the samples.
LEMMA QuantileTypes ==
    /\ Len(Quantiles) = 5 /\ DOMAIN Quantiles = 1..5
    /\ \A k \in 1..5 : Quantiles[k] \in Nat /\ 1 <= Quantiles[k] /\ Quantiles[k] <= 1000
  BY DEF Quantiles

\* A fresh distribution satisfies the invariant (metrics.c distribution_reset).
LEMMA DistributionInit == Init => DistributionInv
<1> SUFFICES ASSUME Init PROVE DistributionInv
  OBVIOUS
<1>1. MaxValue \in Nat /\ Capacity \in Nat
  BY DistributionAssumption
<1>2. Types
  BY <1>1, EmptySeq DEF Init, Types, Values, NoSwap
<1>3. ReservoirHonest
  <2>1. Len(samples) = 0 /\ sample_count = 0 /\ \A v \in Values : Occurrences(Settled, v) = 0
    BY OccurrencesEmpty DEF Init, Settled, NoSwap
  <2>2. \A v \in Values : all[v] = 0
    BY DEF Init, Values
  <2> QED
    BY <1>1, <2>1, <2>2 DEF ReservoirHonest, Smaller, Values
<1>4. Reporting /\ Spread
  BY DEF Init, Reporting, Spread, JitterConsistent, NoSwap
<1> QED
  BY <1>2, <1>3, <1>4 DEF DistributionInv

\* The samples as the exchange in hand will leave them are as many samples.
LEMMA SettledTypes ==
    ASSUME DistributionInv
    PROVE  /\ samples \in Seq(Values) /\ Len(samples) \in Nat
           /\ Settled \in Seq(Values) /\ Len(Settled) = Len(samples)
           /\ swap.stage # "none" => swap.i \in 1..Len(samples) /\ swap.j \in 1..Len(samples)
           /\ swap.i \in Nat /\ swap.j \in Nat /\ swap.x \in Values /\ swap.y \in Values
           /\ swap.stage \in {"none", "loaded", "stored"}
<1>1. /\ samples \in Seq(Values) /\ Len(samples) \in Nat /\ swap.x \in Values /\ swap.y \in Values
      /\ swap.i \in Nat /\ swap.j \in Nat /\ swap.stage \in {"none", "loaded", "stored"}
  BY LenProperties DEF DistributionInv, Types
<1>2. swap.stage # "none" => swap.i \in 1..Len(samples) /\ swap.j \in 1..Len(samples)
  <2>1. nel \in Nat
    BY DEF DistributionInv, Types
  <2>2. swap.stage # "none" => pc = "sort" /\ swap.i \in 1..nel /\ swap.j \in 1..nel
    BY DEF DistributionInv, Reporting
  <2>3. pc = "sort" => nel <= Len(samples)
    BY DEF DistributionInv, Reporting
  <2> QED
    BY <1>1, <2>1, <2>2, <2>3
<1>3. CASE swap.stage = "none"
  BY <1>1, <1>2, <1>3 DEF Settled
<1>4. CASE swap.stage = "loaded"
  <2> DEFINE a == [samples EXCEPT ![swap.i] = swap.y]
  <2>1. a \in Seq(Values) /\ Len(a) = Len(samples)
    BY <1>1, <1>2, <1>4, ExceptSeq
  <2>2. [a EXCEPT ![swap.j] = swap.x] \in Seq(Values) /\ Len([a EXCEPT ![swap.j] = swap.x]) = Len(a)
    <3> HIDE DEF a
    <3> QED
      BY <1>1, <1>2, <1>4, <2>1, ExceptSeq
  <2>3. Settled = [a EXCEPT ![swap.j] = swap.x]
    BY <1>4 DEF Settled
  <2> QED
    BY <1>1, <1>2, <2>1, <2>2, <2>3
<1>5. CASE swap.stage = "stored"
  <2>1. Settled = [samples EXCEPT ![swap.j] = swap.x]
    BY <1>5 DEF Settled
  <2> QED
    BY <1>1, <1>2, <1>5, <2>1, ExceptSeq
<1> QED
  BY <1>1, <1>3, <1>4, <1>5

\* Writing a slot and appending a sample do not disturb each other.
LEMMA ExceptAppend ==
    ASSUME NEW S, NEW s \in Seq(S), NEW k \in 1..Len(s), NEW v \in S, NEW w \in S
    PROVE  [Append(s, v) EXCEPT ![k] = w] = Append([s EXCEPT ![k] = w], v)
<1> DEFINE a == [Append(s, v) EXCEPT ![k] = w]
           b == Append([s EXCEPT ![k] = w], v)
<1>1. Len(s) \in Nat
  BY LenProperties
<1>2. /\ Append(s, v) \in Seq(S) /\ Len(Append(s, v)) = Len(s) + 1
      /\ Append(s, v)[Len(s) + 1] = v /\ \A i \in 1..Len(s) : Append(s, v)[i] = s[i]
  BY AppendProperties
<1>3. /\ [s EXCEPT ![k] = w] \in Seq(S) /\ Len([s EXCEPT ![k] = w]) = Len(s)
      /\ \A i \in 1..Len(s) : [s EXCEPT ![k] = w][i] = IF i = k THEN w ELSE s[i]
  BY ExceptSeq
<1>4. /\ a \in Seq(S) /\ Len(a) = Len(s) + 1
      /\ \A i \in 1..(Len(s) + 1) : a[i] = IF i = k THEN w ELSE Append(s, v)[i]
  <2> DEFINE t == Append(s, v)
  <2>1. t \in Seq(S) /\ k \in 1..Len(t) /\ Len(t) = Len(s) + 1
    BY <1>1, <1>2
  <2> HIDE DEF t
  <2>2. /\ [t EXCEPT ![k] = w] \in Seq(S) /\ Len([t EXCEPT ![k] = w]) = Len(t)
        /\ \A i \in 1..Len(t) : [t EXCEPT ![k] = w][i] = IF i = k THEN w ELSE t[i]
    BY <2>1, ExceptSeq
  <2> QED
    BY <2>1, <2>2 DEF t
<1>5. /\ b \in Seq(S) /\ Len(b) = Len(s) + 1 /\ b[Len(s) + 1] = v
      /\ \A i \in 1..Len(s) : b[i] = [s EXCEPT ![k] = w][i]
  <2> DEFINE t == [s EXCEPT ![k] = w]
  <2>1. t \in Seq(S) /\ Len(t) = Len(s)
    BY <1>3
  <2> HIDE DEF t
  <2>2. /\ Append(t, v) \in Seq(S) /\ Len(Append(t, v)) = Len(t) + 1
        /\ Append(t, v)[Len(t) + 1] = v /\ \A i \in 1..Len(t) : Append(t, v)[i] = t[i]
    BY <2>1, AppendProperties
  <2> QED
    BY <2>1, <2>2 DEF t
<1> HIDE DEF a, b
<1>6. \A i \in 1..Len(a) : a[i] = b[i]
  <2> SUFFICES ASSUME NEW i \in 1..(Len(s) + 1) PROVE a[i] = b[i]
    BY <1>4
  <2>1. CASE i = Len(s) + 1
    BY <1>1, <1>2, <1>4, <1>5, <2>1
  <2>2. CASE i \in 1..Len(s)
    BY <1>2, <1>3, <1>4, <1>5, <2>2
  <2> QED
    BY <1>1, <2>1, <2>2
<1>7. a = b
  BY <1>4, <1>5, <1>6, SeqEqual
<1> QED
  BY <1>7 DEF a, b

\* What is written to a slot is gone when the slot is written again.
LEMMA Overwritten ==
    ASSUME NEW D, NEW S, NEW f \in [D -> S], NEW k, NEW v, NEW i, NEW j, NEW x, NEW y
    PROVE  /\ k = j => [[f EXCEPT ![k] = v] EXCEPT ![j] = x] = [f EXCEPT ![j] = x]
           /\ k = i \/ k = j => [[f EXCEPT ![k] = v] EXCEPT ![i] = y, ![j] = x] =
                                   [f EXCEPT ![i] = y, ![j] = x]
<1>1. ASSUME k = j
      PROVE  [[f EXCEPT ![k] = v] EXCEPT ![j] = x] = [f EXCEPT ![j] = x]
  BY <1>1
<1>2. ASSUME k = i
      PROVE  [[f EXCEPT ![k] = v] EXCEPT ![i] = y] = [f EXCEPT ![i] = y]
  BY <1>2
<1>3. ASSUME k = j, k # i
      PROVE  [[f EXCEPT ![k] = v] EXCEPT ![i] = y, ![j] = x] = [f EXCEPT ![i] = y, ![j] = x]
  BY <1>3
<1>4. ASSUME k = i
      PROVE  [[f EXCEPT ![k] = v] EXCEPT ![i] = y, ![j] = x] = [f EXCEPT ![i] = y, ![j] = x]
  BY <1>2, <1>4
<1> QED
  BY <1>1, <1>3, <1>4

\* A sample that comes in during an exchange is one of the samples when the
\* exchange is done, or the exchange overwrites it.
LEMMA SettledAdd ==
    ASSUME DistributionInv, NEW v \in Values, swap' = swap, distribution_add(v, sample_count + 1)
    PROVE  \/ /\ Len(samples) < Capacity /\ samples' = Append(samples, v)
              /\ Settled' = Append(Settled, v)
           \/ /\ Len(samples) = Capacity /\ samples' \in Seq(Values) /\ Len(samples') = Len(samples)
              /\ \/ Settled' = Settled
                 \/ \E k \in 1..Len(Settled) : Settled' = [Settled EXCEPT ![k] = v]
<1>1. /\ samples \in Seq(Values) /\ Len(samples) \in Nat /\ Len(Settled) = Len(samples)
      /\ swap.stage # "none" => swap.i \in 1..Len(samples) /\ swap.j \in 1..Len(samples)
      /\ swap.x \in Values /\ swap.y \in Values /\ swap.stage \in {"none", "loaded", "stored"}
  BY SettledTypes
<1>2. /\ swap.stage = "none" => Settled = samples /\ Settled' = samples'
      /\ swap.stage = "loaded" =>
            /\ Settled = [samples EXCEPT ![swap.i] = swap.y, ![swap.j] = swap.x]
            /\ Settled' = [samples' EXCEPT ![swap.i] = swap.y, ![swap.j] = swap.x]
      /\ swap.stage = "stored" =>
            /\ Settled = [samples EXCEPT ![swap.j] = swap.x]
            /\ Settled' = [samples' EXCEPT ![swap.j] = swap.x]
  BY DEF Settled
<1>3. CASE Len(samples) < Capacity /\ samples' = Append(samples, v)
  <2>1. CASE swap.stage = "none"
    BY <1>2, <1>3, <2>1
  <2>2. CASE swap.stage = "stored"
    BY <1>1, <1>2, <1>3, <2>2, ExceptAppend
  <2>3. CASE swap.stage = "loaded"
    <3> DEFINE a == [samples EXCEPT ![swap.i] = swap.y]
    <3>1. a \in Seq(Values) /\ Len(a) = Len(samples)
      BY <1>1, <2>3, ExceptSeq
    <3>2. [samples' EXCEPT ![swap.i] = swap.y] = Append(a, v)
      BY <1>1, <1>3, <2>3, ExceptAppend
    <3>3. Settled = [a EXCEPT ![swap.j] = swap.x] /\ Settled' = [Append(a, v) EXCEPT ![swap.j] = swap.x]
      BY <1>2, <2>3, <3>2
    <3> HIDE DEF a
    <3>4. [Append(a, v) EXCEPT ![swap.j] = swap.x] = Append([a EXCEPT ![swap.j] = swap.x], v)
      BY <1>1, <2>3, <3>1, ExceptAppend
    <3> QED
      BY <1>3, <3>3, <3>4
  <2> QED
    BY <1>1, <2>1, <2>2, <2>3
<1>4. ASSUME Len(samples) = Capacity, NEW slot \in Slots(sample_count + 1), slot < Capacity,
             samples' = [samples EXCEPT ![slot + 1] = v]
      PROVE  /\ samples' \in Seq(Values) /\ Len(samples') = Len(samples)
             /\ \/ Settled' = Settled
                \/ \E k \in 1..Len(Settled) : Settled' = [Settled EXCEPT ![k] = v]
  <2> DEFINE k == slot + 1
  <2>1. k \in 1..Len(samples)
    BY <1>1, <1>4 DEF Slots
  <2>2. samples' = [samples EXCEPT ![k] = v] /\ samples \in [1..Len(samples) -> Values]
    BY <1>1, <1>4, LenProperties
  <2> HIDE DEF k
  <2>3. samples' \in Seq(Values) /\ Len(samples') = Len(samples)
    BY <1>1, <2>1, <2>2, ExceptSeq
  <2>4. CASE swap.stage = "none"
    BY <1>1, <1>2, <2>1, <2>2, <2>3, <2>4
  <2>5. CASE swap.stage = "stored"
    <3>1. CASE k = swap.j
      <4>1. Settled' = Settled
        <5>1. [[samples EXCEPT ![k] = v] EXCEPT ![swap.j] = swap.x] =
                 [samples EXCEPT ![swap.j] = swap.x]
          BY <2>2, <3>1, Overwritten
        <5> QED
          BY <1>2, <2>2, <2>5, <5>1
      <4> QED
        BY <2>3, <4>1
    <3>2. CASE k # swap.j
      <4>1. Settled' = [Settled EXCEPT ![k] = v]
        BY <1>1, <1>2, <2>1, <2>2, <2>5, <3>2
      <4> QED
        BY <1>1, <2>1, <2>3, <4>1
    <3> QED
      BY <3>1, <3>2
  <2>6. CASE swap.stage = "loaded"
    <3>1. CASE k = swap.j \/ k = swap.i
      <4>1. Settled' = Settled
        <5>1. [[samples EXCEPT ![k] = v] EXCEPT ![swap.i] = swap.y, ![swap.j] = swap.x] =
                 [samples EXCEPT ![swap.i] = swap.y, ![swap.j] = swap.x]
          BY <2>2, <3>1, Overwritten
        <5> QED
          BY <1>2, <2>2, <2>6, <5>1
      <4> QED
        BY <2>3, <4>1
    <3>2. CASE k # swap.j /\ k # swap.i
      <4>1. Settled' = [Settled EXCEPT ![k] = v]
        BY <1>1, <1>2, <2>1, <2>2, <2>6, <3>2
      <4> QED
        BY <1>1, <2>1, <2>3, <4>1
    <3> QED
      BY <3>1, <3>2
  <2> QED
    BY <1>1, <2>4, <2>5, <2>6
<1>5. CASE samples' = samples /\ Len(samples) = Capacity
  <2>1. Settled' = Settled
    BY <1>1, <1>2, <1>5
  <2> QED
    BY <1>1, <1>5, <2>1
<1> QED
  BY <1>3, <1>4, <1>5 DEF distribution_add

\* What distribution_add does to the samples.
LEMMA AddStep ==
    ASSUME DistributionInv, NEW v \in Values, swap' = swap, distribution_add(v, sample_count + 1)
    PROVE  /\ samples' \in Seq(Values)
           /\ Len(samples') = Smaller(sample_count + 1, Capacity) /\ Len(samples) <= Len(samples')
           /\ \A w \in Values :
                 /\ Occurrences(Settled', w) <= all[w] + (IF w = v THEN 1 ELSE 0)
                 /\ sample_count + 1 <= Capacity =>
                       Occurrences(Settled', w) = all[w] + (IF w = v THEN 1 ELSE 0)
<1>1. /\ samples \in Seq(Values) /\ sample_count \in Nat /\ Len(samples) \in Nat
      /\ Settled \in Seq(Values) /\ all \in [Values -> Nat] /\ Capacity \in Nat \ {0}
  BY SettledTypes, DistributionAssumption DEF DistributionInv, Types
<1>2. /\ Len(samples) = Smaller(sample_count, Capacity)
      /\ \A w \in Values : /\ Occurrences(Settled, w) <= all[w]
                           /\ sample_count <= Capacity => Occurrences(Settled, w) = all[w]
      /\ \A w \in Values : Occurrences(Settled, w) \in Nat /\ all[w] \in Nat
  BY <1>1, WhereFinite DEF DistributionInv, ReservoirHonest, Values
<1>3. CASE /\ Len(samples) < Capacity /\ samples' = Append(samples, v)
           /\ Settled' = Append(Settled, v)
  <2>1. samples' \in Seq(Values) /\ Len(samples') = Len(samples) + 1
    BY <1>1, <1>3, AppendProperties
  <2>2. \A w \in Values :
           Occurrences(Settled', w) = Occurrences(Settled, w) + (IF w = v THEN 1 ELSE 0)
    BY <1>1, <1>3, OccurrencesAppend
  <2>3. sample_count < Capacity /\ Len(samples) = sample_count
    BY <1>1, <1>2, <1>3 DEF Smaller
  <2> QED
    BY <1>1, <1>2, <2>1, <2>2, <2>3 DEF Smaller
<1>4. CASE /\ Len(samples) = Capacity /\ samples' \in Seq(Values) /\ Len(samples') = Len(samples)
           /\ \/ Settled' = Settled
              \/ \E k \in 1..Len(Settled) : Settled' = [Settled EXCEPT ![k] = v]
  <2>1. sample_count >= Capacity
    BY <1>1, <1>2, <1>4 DEF Smaller
  <2>2. \A w \in Values : /\ Occurrences(Settled', w) <=
                                Occurrences(Settled, w) + (IF w = v THEN 1 ELSE 0)
                          /\ Occurrences(Settled', w) \in Nat
    <3>1. CASE Settled' = Settled
      BY <1>1, <1>2, <3>1
    <3>2. ASSUME NEW k \in 1..Len(Settled), Settled' = [Settled EXCEPT ![k] = v], NEW w \in Values
          PROVE  /\ Occurrences(Settled', w) <= Occurrences(Settled, w) + (IF w = v THEN 1 ELSE 0)
                 /\ Occurrences(Settled', w) \in Nat
      <4>1. Settled' \in Seq(Values)
        BY <1>1, <3>2, ExceptSeq
      <4>2. Occurrences(Settled', w) \in Nat
        BY <4>1, WhereFinite
      <4> QED
        BY <1>1, <3>2, <4>2, OccurrencesReplace
    <3> QED
      BY <1>4, <3>1, <3>2
  <2>3. Len(samples') = Smaller(sample_count + 1, Capacity) /\ ~(sample_count + 1 <= Capacity)
    BY <1>1, <1>4, <2>1 DEF Smaller
  <2>4. \A w \in Values : Occurrences(Settled', w) <= all[w] + (IF w = v THEN 1 ELSE 0)
    BY <1>2, <2>2
  <2> QED
    BY <1>1, <1>4, <2>3, <2>4
<1> QED
  BY <1>3, <1>4, SettledAdd

\* A measured time is bounded to a value the samples may hold.
LEMMA Bounded == ASSUME NEW rtt \in RTTs PROVE Smaller(rtt, MaxValue) \in Values
  BY DistributionAssumption DEF Smaller, Values

\* A total of c differences of at most m each grows by one difference.
LEMMA JitterTotal ==
    ASSUME NEW c \in Nat, NEW m \in Nat, NEW total \in Nat, NEW j \in Nat, total <= c * m
    PROVE  total + j <= (c + 1) * Larger(m, j)
<1> DEFINE n == Larger(m, j)
<1>1. n \in Nat /\ m <= n /\ j <= n
  BY DEF Larger
<1> HIDE DEF n
<1>2. c * (n - m) >= 0
  BY <1>1
<1>3. c * m <= c * n
  BY <1>1, <1>2
<1>4. (c + 1) * n = c * n + n
  BY <1>1
<1>5. total + j <= (c + 1) * n
  BY <1>1, <1>3, <1>4
<1> QED
  BY <1>5 DEF n

\* A sample widens the spread of a run enough to hold its difference from the
\* last one.
LEMMA SpreadGrows ==
    ASSUME NEW lo \in Nat, NEW hi \in Nat, NEW last \in Nat, NEW v \in Nat, NEW most \in Nat,
           lo <= last, last <= hi, most <= hi - lo
    PROVE  Larger(most, Distance(v, last)) <= Larger(hi, v) - Smaller(lo, v)
  BY DEF Larger, Smaller, Distance

\* Jitter follows the samples one by one.
LEMMA JitterStep == ASSUME DistributionInv, NEW rtt \in RTTs, Echo(rtt) PROVE Spread'
<1> DEFINE v == Smaller(rtt, MaxValue)
           j == Distance(v, last_rtt)
<1>1. /\ v \in Nat /\ min \in Nat /\ max \in Nat /\ last_rtt \in Nat
      /\ sample_count \in Nat /\ jitter_sum \in Nat /\ jitter_count \in Nat /\ jitter_max \in Nat
  BY Bounded DEF DistributionInv, Types, Values
<1>2. /\ last_rtt' = v /\ sample_count' = sample_count + 1
      /\ min' = Smaller(min, v) /\ max' = Larger(max, v)
  BY DEF Echo
<1>3. /\ sample_count > 0 => /\ jitter_sum' = jitter_sum + j /\ jitter_count' = jitter_count + 1
                             /\ jitter_max' = Larger(jitter_max, j)
      /\ ~(sample_count > 0) => /\ jitter_sum' = jitter_sum /\ jitter_count' = jitter_count
                                /\ jitter_max' = jitter_max
  BY DEF Echo, HasPrevious
<1>4. /\ sample_count > 0 => min <= last_rtt /\ last_rtt <= max
      /\ jitter_count = (IF sample_count = 0 THEN 0 ELSE sample_count - 1)
      /\ jitter_count > 0 => jitter_max <= max - min
      /\ jitter_max <= jitter_sum /\ jitter_sum <= jitter_count * jitter_max
  BY DEF DistributionInv, Spread, JitterConsistent
<1>5. min' <= last_rtt' /\ last_rtt' <= max'
  <2> HIDE DEF v
  <2>1. Smaller(min, v) <= v /\ v <= Larger(max, v)
    BY <1>1 DEF Smaller, Larger
  <2> QED
    BY <1>2, <2>1, Zenon
<1>6. j \in Nat
  BY <1>1 DEF Distance
<1> HIDE DEF v
<1>7. CASE sample_count = 0
  <2>1. jitter_count = 0 /\ jitter_count' = 0 /\ jitter_sum' = jitter_sum /\ jitter_max' = jitter_max
    BY <1>1, <1>3, <1>4, <1>7
  <2>2. sample_count' = 1
    BY <1>2, <1>7
  <2>3. jitter_max' <= jitter_sum' /\ jitter_sum' <= jitter_count' * jitter_max'
    BY <1>4, <2>1
  <2> QED
    BY <1>5, <2>1, <2>2, <2>3 DEF Spread, JitterConsistent
<1>8. CASE sample_count > 0
  <2>1. jitter_count = 0 => jitter_max = 0
    BY <1>1, <1>4
  <2>2. jitter_max <= max - min
    BY <1>1, <1>4, <1>8, <2>1
  <2>3. jitter_max' <= max' - min'
    <3>1. Larger(jitter_max, j) <= Larger(max, v) - Smaller(min, v)
      BY <1>1, <1>4, <1>8, <2>2, SpreadGrows
    <3>2. jitter_max' = Larger(jitter_max, j)
      BY <1>3, <1>8
    <3> HIDE DEF j
    <3> QED
      BY <1>2, <3>1, <3>2, Zenon
  <2> HIDE DEF j
  <2>4. jitter_sum' <= jitter_count' * jitter_max'
    <3>1. jitter_sum + j <= (jitter_count + 1) * Larger(jitter_max, j)
      BY <1>1, <1>4, <1>6, JitterTotal
    <3> QED
      BY <1>3, <1>8, <3>1
  <2>5. jitter_max' <= jitter_sum'
    <3>1. Larger(jitter_max, j) <= jitter_sum + j
      BY <1>1, <1>4, <1>6 DEF Larger
    <3> QED
      BY <1>3, <1>8, <3>1
  <2>6. jitter_count' = (IF sample_count' = 0 THEN 0 ELSE sample_count' - 1)
    BY <1>1, <1>2, <1>3, <1>4, <1>8
  <2> QED
    BY <1>5, <2>3, <2>4, <2>5, <2>6 DEF Spread, JitterConsistent
<1> QED
  BY <1>1, <1>7, <1>8

\* An echo keeps the invariant, whatever the control task is doing
\* (metrics_rx has the higher priority and takes no lock).
LEMMA EchoStep == ASSUME DistributionInv, NEW rtt \in RTTs, Echo(rtt) PROVE DistributionInv'
<1> DEFINE v == Smaller(rtt, MaxValue)
           j == Distance(v, last_rtt)
<1>1. Types
  BY DEF DistributionInv
<1>2. v \in Values
  BY Bounded
<1>3. /\ last_rtt' = v /\ sample_count' = sample_count + 1
      /\ min' = Smaller(min, v) /\ max' = Larger(max, v)
      /\ distribution_add(v, sample_count + 1)
      /\ all' = [all EXCEPT ![v] = @ + 1]
      /\ late' = (IF pc = "none" THEN late ELSE late + 1)
      /\ pc' = pc /\ report' = report /\ nel' = nel /\ swap' = swap
  BY DEF Echo
<1>4. /\ jitter_sum' = jitter_sum \/ jitter_sum' = jitter_sum + j
      /\ jitter_count' = jitter_count \/ jitter_count' = jitter_count + 1
      /\ jitter_max' = jitter_max \/ jitter_max' = Larger(jitter_max, j)
  BY DEF Echo
<1>5. j \in Nat
  <2>1. v \in Nat /\ last_rtt \in Nat
    BY <1>1, <1>2 DEF Types, Values
  <2> QED
    BY <2>1 DEF Distance
<1> HIDE DEF v, j
<1>6. /\ samples' \in Seq(Values)
      /\ Len(samples') = Smaller(sample_count + 1, Capacity) /\ Len(samples) <= Len(samples')
      /\ \A w \in Values :
            /\ Occurrences(Settled', w) <= all[w] + (IF w = v THEN 1 ELSE 0)
            /\ sample_count + 1 <= Capacity =>
                  Occurrences(Settled', w) = all[w] + (IF w = v THEN 1 ELSE 0)
  BY <1>2, <1>3, AddStep
<1>7. all' \in [Values -> Nat] /\ \A w \in Values : all'[w] = all[w] + (IF w = v THEN 1 ELSE 0)
  BY <1>1, <1>2, <1>3 DEF Types
<1>8. Types'
  <2>1. min' \in Values /\ max' \in Values /\ last_rtt' \in Values
    BY <1>1, <1>2, <1>3 DEF Types, Smaller, Larger
  <2>2. jitter_sum' \in Nat /\ jitter_count' \in Nat /\ jitter_max' \in Nat
    BY <1>1, <1>4, <1>5 DEF Types, Larger
  <2>3. sample_count' \in Nat /\ late' \in Nat
    BY <1>1, <1>3 DEF Types
  <2> QED
    BY <1>1, <1>3, <1>6, <1>7, <2>1, <2>2, <2>3 DEF Types
<1>9. ReservoirHonest'
  BY <1>3, <1>6, <1>7 DEF ReservoirHonest, Values
<1>10. Reporting'
  <2>1. pc = "sort" => nel <= Len(samples) /\ report = <<>>
    BY DEF DistributionInv, Reporting
  <2>2. nel \in Nat /\ late \in Nat /\ Len(samples) \in Nat /\ Len(samples') \in Nat
    BY <1>1, <1>6, LenProperties DEF Types
  <2>3. pc = "sort" => nel' <= Len(samples') /\ report' = <<>>
    BY <1>3, <1>6, <2>1, <2>2
  <2>4. pc # "none" => late' # 0
    BY <1>3, <2>2
  <2>5. pc = "read" => Len(report') <= Len(Quantiles)
    BY <1>3 DEF DistributionInv, Reporting
  <2>6. swap.stage # "none" =>
           pc = "sort" /\ swap.i \in 1..nel /\ swap.j \in 1..nel /\ swap.i # swap.j
    BY DEF DistributionInv, Reporting
  <2> QED
    BY <1>3, <2>3, <2>4, <2>5, <2>6 DEF Reporting
<1> QED
  BY <1>8, <1>9, <1>10, JitterStep DEF DistributionInv

\* What a report reads is a value (metrics.c nearest_rank).
LEMMA ReadTyped ==
    ASSUME samples \in Seq(Values), NEW k \in 1..5
    PROVE  nearest_rank(Quantiles[k]) \in Values
<1> DEFINE q == Quantiles[k]
           n == Len(samples)
<1>1. q \in Nat /\ 1 <= q /\ q <= 1000
  BY QuantileTypes
<1> HIDE DEF q
<1>2. CASE samples = <<>>
  BY <1>2, DistributionAssumption DEF nearest_rank, Values
<1>3. CASE samples # <<>>
  <2>1. n \in Nat \ {0} /\ \A i \in 1..n : samples[i] \in Values
    BY <1>3, LenProperties, EmptySeq, ElementOfSeq
  <2> HIDE DEF n
  <2>2. IsRank(Rank(q, n), q, n)
    BY <1>1, <2>1, RankExact
  <2>3. Rank(q, n) \in 1..n
    BY <2>2 DEF IsRank
  <2>4. nearest_rank(q) = samples[Rank(q, n)]
    BY <1>3 DEF nearest_rank, n
  <2>5. nearest_rank(q) \in Values
    BY <2>1, <2>3, <2>4
  <2> QED
    BY <2>5 DEF q
<1> QED
  BY <1>2, <1>3

\* What does not count samples keeps the spread of the run.
LEMMA CountsKept == ASSUME Spread, UNCHANGED countVars PROVE Spread'
  BY DEF Spread, JitterConsistent, countVars

\* An exchange begins: its end is the samples with two of them exchanged.
LEMMA LoadStep == ASSUME DistributionInv, SwapLoad PROVE DistributionInv'
<1>1. Types /\ ReservoirHonest /\ Reporting /\ Spread
  BY DEF DistributionInv
<1>2. /\ pc = "sort" /\ swap.stage = "none" /\ UNCHANGED <<samples, countVars>> /\ pc' = pc
      /\ report' = report /\ nel' = nel /\ replaced' = replaced /\ all' = all /\ late' = late
      /\ sample_count' = sample_count
  BY DEF SwapLoad, rttVars, countVars
<1>3. PICK i \in 1..nel, j \in 1..nel : i # j /\
        swap' = [stage |-> "loaded", i |-> i, j |-> j, x |-> samples[i], y |-> samples[j]]
  BY DEF SwapLoad
<1>4. /\ samples \in Seq(Values) /\ Len(samples) \in Nat /\ nel \in Nat /\ nel <= Len(samples)
      /\ Settled = samples
  BY <1>1, <1>2, LenProperties DEF Types, Reporting, Settled
<1>5. i \in 1..Len(samples) /\ j \in 1..Len(samples) /\ samples[i] \in Values /\ samples[j] \in Values
  <2>1. i \in 1..Len(samples) /\ j \in 1..Len(samples)
    BY <1>4
  <2> QED
    BY <1>4, <2>1, ElementOfSeq
<1>6. Types'
  <2>1. swap' \in [stage : {"none", "loaded", "stored"}, i : Nat, j : Nat, x : Values, y : Values]
    BY <1>3, <1>4, <1>5
  <2> QED
    BY <1>1, <1>2, <2>1 DEF Types, countVars
<1>7. ReservoirHonest'
  <2>1. Settled' = [samples EXCEPT ![i] = samples[j], ![j] = samples[i]]
    BY <1>2, <1>3 DEF Settled
  <2>2. \A w : Occurrences(Settled', w) = Occurrences(Settled, w)
    <3> SUFFICES ASSUME NEW w PROVE Occurrences(Settled', w) = Occurrences(samples, w)
      BY <1>4
    <3>1. i # j
      BY <1>3
    <3>2. Occurrences([samples EXCEPT ![i] = samples[j], ![j] = samples[i]], w) =
             Occurrences(samples, w)
      BY <1>4, <1>5, <3>1, OccurrencesExchanged
    <3> QED
      BY <2>1, <3>2
  <2> QED
    BY <1>1, <1>2, <2>2 DEF ReservoirHonest
<1>8. Reporting'
  <2>1. /\ pc' = "sort" /\ nel' <= Len(samples') /\ report' = <<>>
        /\ late' = 0 => nel' = Len(samples') /\ ~replaced'
    BY <1>1, <1>2 DEF Reporting
  <2>2. swap'.i \in 1..nel' /\ swap'.j \in 1..nel' /\ swap'.i # swap'.j
    BY <1>2, <1>3
  <2> QED
    BY <2>1, <2>2 DEF Reporting
<1> QED
  BY <1>1, <1>2, <1>6, <1>7, <1>8, CountsKept DEF DistributionInv

\* The two writes of an exchange come closer to its end and do not change it.
LEMMA StoreStep == ASSUME DistributionInv, SwapFirst \/ SwapSecond PROVE DistributionInv'
<1>1. Types /\ ReservoirHonest /\ Reporting /\ Spread
  BY DEF DistributionInv
<1>2. /\ pc' = pc /\ report' = report /\ nel' = nel /\ replaced' = replaced /\ all' = all
      /\ late' = late /\ UNCHANGED countVars /\ sample_count' = sample_count
      /\ swap.stage # "none"
  BY DEF SwapFirst, SwapSecond, countVars
<1>3. /\ samples \in Seq(Values) /\ Len(samples) \in Nat
      /\ swap.i \in 1..Len(samples) /\ swap.j \in 1..Len(samples)
      /\ swap.x \in Values /\ swap.y \in Values
  BY <1>2, SettledTypes
<1>4. pc = "sort" /\ swap.i \in 1..nel /\ swap.j \in 1..nel /\ swap.i # swap.j
  BY <1>1, <1>2 DEF Reporting
<1>5. /\ samples' \in Seq(Values) /\ Len(samples') = Len(samples) /\ Settled' = Settled
      /\ swap' \in [stage : {"none", "loaded", "stored"}, i : Nat, j : Nat, x : Values, y : Values]
      /\ swap'.stage # "none" => swap'.i = swap.i /\ swap'.j = swap.j
  <2>1. CASE SwapFirst
    <3>1. /\ swap.stage = "loaded" /\ samples' = [samples EXCEPT ![swap.i] = swap.y]
          /\ swap' = [swap EXCEPT !.stage = "stored"]
      BY <2>1 DEF SwapFirst
    <3>2. samples' \in Seq(Values) /\ Len(samples') = Len(samples)
      BY <1>3, <3>1, ExceptSeq
    <3>3. /\ swap'.stage = "stored" /\ swap'.i = swap.i /\ swap'.j = swap.j /\ swap'.x = swap.x
          /\ swap' \in [stage : {"none", "loaded", "stored"}, i : Nat, j : Nat, x : Values, y : Values]
      BY <1>1, <3>1 DEF Types
    <3>4. Settled = [samples EXCEPT ![swap.i] = swap.y, ![swap.j] = swap.x]
      BY <3>1 DEF Settled
    <3>5. Settled' = [samples' EXCEPT ![swap.j] = swap.x]
      BY <3>3 DEF Settled
    <3> QED
      BY <3>1, <3>2, <3>3, <3>4, <3>5
  <2>2. CASE SwapSecond
    <3>1. /\ swap.stage = "stored" /\ samples' = [samples EXCEPT ![swap.j] = swap.x]
          /\ swap' = NoSwap
      BY <2>2 DEF SwapSecond
    <3>2. samples' \in Seq(Values) /\ Len(samples') = Len(samples)
      BY <1>3, <3>1, ExceptSeq
    <3>3. /\ swap'.stage = "none"
          /\ swap' \in [stage : {"none", "loaded", "stored"}, i : Nat, j : Nat, x : Values, y : Values]
      BY <3>1, DistributionAssumption DEF NoSwap, Values
    <3>4. Settled = [samples EXCEPT ![swap.j] = swap.x] /\ Settled' = samples'
      BY <3>1, <3>3 DEF Settled
    <3> QED
      BY <3>1, <3>2, <3>3, <3>4
  <2> QED
    BY <2>1, <2>2
<1>6. Types'
  BY <1>1, <1>2, <1>5 DEF Types, countVars
<1>7. ReservoirHonest'
  BY <1>1, <1>2, <1>5 DEF ReservoirHonest
<1>8. Reporting'
  BY <1>1, <1>2, <1>4, <1>5 DEF Reporting
<1> QED
  BY <1>1, <1>2, <1>6, <1>7, <1>8, CountsKept DEF DistributionInv

\* qsort leaves the samples in order.
LEMMA SortStep == ASSUME DistributionInv, SortDone PROVE DistributionInv'
<1>1. Types /\ ReservoirHonest /\ Reporting /\ Spread
  BY DEF DistributionInv
<1>2. /\ pc = "sort" /\ pc' = "read" /\ (~replaced => Ascending(samples, nel))
      /\ report' = report /\ nel' = nel /\ all' = all /\ late' = late /\ samples' = samples
      /\ sample_count' = sample_count /\ swap' = swap /\ swap.stage = "none"
      /\ UNCHANGED countVars
  BY DEF SortDone, rttVars, countVars
<1>3. report = <<>>
  BY <1>1, <1>2 DEF Reporting
<1>4. Types'
  BY <1>1, <1>2 DEF Types, countVars
<1>5. ReservoirHonest'
  <2>1. Settled' = Settled
    BY <1>2 DEF Settled
  <2> QED
    BY <1>1, <1>2, <2>1 DEF ReservoirHonest
<1>6. Reporting'
  <2>1. Len(report') = 0
    BY <1>2, <1>3
  <2>2. late = 0 => Ascending(samples', Len(samples'))
    BY <1>1, <1>2 DEF Reporting
  <2>3. Len(report') <= Len(Quantiles)
    BY <2>1, QuantileTypes
  <2> QED
    BY <1>2, <2>1, <2>2, <2>3 DEF Reporting
<1> QED
  BY <1>1, <1>2, <1>4, <1>5, <1>6, CountsKept DEF DistributionInv

\* One percentile after the other is read from samples that stay as they are
\* unless an echo comes in.
LEMMA ReadStep == ASSUME DistributionInv, ReadPercentile PROVE DistributionInv'
<1> DEFINE n == Len(report)
           r == nearest_rank(Quantiles[n + 1])
<1>1. Types /\ ReservoirHonest /\ Reporting /\ Spread
  BY DEF DistributionInv
<1>2. /\ pc = "read" /\ pc' = "read" /\ n < Len(Quantiles) /\ report' = Append(report, r)
      /\ samples' = samples /\ nel' = nel /\ all' = all /\ late' = late /\ swap' = swap
      /\ sample_count' = sample_count /\ min' = min /\ max' = max /\ last_rtt' = last_rtt
      /\ jitter_sum' = jitter_sum /\ jitter_count' = jitter_count /\ jitter_max' = jitter_max
  BY DEF ReadPercentile, rttVars
<1>3. samples \in Seq(Values) /\ report \in Seq(Values) /\ n \in Nat
  BY <1>1, LenProperties DEF Types
<1>4. n + 1 \in 1..5 /\ n < 5
  <2> HIDE DEF n
  <2> QED
    BY <1>2, <1>3, QuantileTypes
<1>5. r \in Values
  BY <1>3, <1>4, ReadTyped
<1>6. /\ report' \in Seq(Values) /\ Len(report') = n + 1 /\ report'[n + 1] = r
      /\ \A k \in 1..n : report'[k] = report[k]
  <2> HIDE DEF r
  <2> QED
    BY <1>2, <1>3, <1>5, AppendProperties
<1>7. Types'
  BY <1>1, <1>2, <1>6 DEF Types
<1>8. ReservoirHonest' /\ Spread'
  BY <1>1, <1>2 DEF ReservoirHonest, Settled, Spread, JitterConsistent
<1>9. Reporting'
  <2>1. Len(report') <= Len(Quantiles)
    <3> HIDE DEF n
    <3> QED
      BY <1>3, <1>4, <1>6, QuantileTypes
  <2>2. ASSUME late = 0, NEW k \in 1..Len(report')
        PROVE  report'[k] = nearest_rank(Quantiles[k])
    <3>1. CASE k = n + 1
      BY <1>6, <3>1
    <3>2. CASE k # n + 1
      <4>1. k \in 1..n
        <5> HIDE DEF n
        <5> QED
          BY <1>3, <1>6, <3>2
      <4>2. report[k] = nearest_rank(Quantiles[k])
        BY <1>1, <1>2, <2>2, <4>1 DEF Reporting
      <4> QED
        BY <1>6, <4>1, <4>2
    <3> QED
      BY <3>1, <3>2
  <2>3. late = 0 => Ascending(samples, Len(samples))'
    BY <1>1, <1>2 DEF Reporting, Ascending
  <2>4. \A k : (nearest_rank(Quantiles[k]))' = nearest_rank(Quantiles[k])
    BY <1>2 DEF nearest_rank, Quantiles
  <2>5. swap'.stage = "none"
    BY <1>1, <1>2 DEF Reporting
  <2> HIDE DEF r, n
  <2> QED
    BY <1>2, <2>1, <2>2, <2>3, <2>4, <2>5 DEF Reporting
<1> QED
  BY <1>7, <1>8, <1>9 DEF DistributionInv

\* The other steps of a report, and the reset between runs.
LEMMA OtherSteps ==
    ASSUME DistributionInv, ReportBegin \/ ReportEnd \/ Reset \/ UNCHANGED vars
    PROVE  DistributionInv'
<1>1. Types /\ ReservoirHonest /\ Reporting /\ Spread
  BY DEF DistributionInv
<1>2. Len(samples) \in Nat /\ Len(<<>>) = 0 /\ <<>> \in Seq(Values)
  BY <1>1, LenProperties, EmptySeq DEF Types
<1>3. CASE ReportBegin
  <2>1. Types'
    BY <1>1, <1>2, <1>3 DEF Types, ReportBegin, rttVars
  <2>2. ReservoirHonest' /\ Spread'
    BY <1>1, <1>3 DEF ReservoirHonest, Settled, Spread, JitterConsistent, ReportBegin, rttVars
  <2>3. Reporting'
    BY <1>1, <1>2, <1>3 DEF Reporting, ReportBegin, rttVars
  <2> QED
    BY <2>1, <2>2, <2>3 DEF DistributionInv
<1>4. CASE ReportEnd
  <2>1. Types'
    BY <1>1, <1>2, <1>4 DEF Types, ReportEnd, rttVars
  <2>2. ReservoirHonest' /\ Spread'
    BY <1>1, <1>4 DEF ReservoirHonest, Settled, Spread, JitterConsistent, ReportEnd, rttVars
  <2>3. Reporting'
    BY <1>1, <1>4 DEF Reporting, Reported, ReportEnd
  <2> QED
    BY <2>1, <2>2, <2>3 DEF DistributionInv
<1>5. CASE Reset
  <2>1. MaxValue \in Nat /\ Capacity \in Nat
    BY DistributionAssumption
  <2>2. Types'
    BY <1>1, <1>2, <1>5, <2>1 DEF Types, Reset, Values
  <2>3. ReservoirHonest'
    <3>1. /\ Len(samples') = 0 /\ sample_count' = 0
          /\ \A w \in 0..MaxValue : Occurrences(Settled', w) = 0 /\ all'[w] = 0
      BY <1>1, <1>2, <1>5, OccurrencesEmpty DEF Reset, Settled, Types, Reporting
    <3> QED
      BY <2>1, <3>1 DEF ReservoirHonest, Smaller
  <2>4. Reporting' /\ Spread'
    BY <1>1, <1>5 DEF Reset, Reporting, Spread, JitterConsistent
  <2> QED
    BY <2>2, <2>3, <2>4 DEF DistributionInv
<1>6. CASE UNCHANGED vars
  <2>1. Types' /\ ReservoirHonest' /\ Spread'
    BY <1>1, <1>6 DEF Types, ReservoirHonest, Settled, Spread, JitterConsistent, vars, rttVars
  <2>2. Reporting'
    BY <1>1, <1>6 DEF Reporting, Ascending, nearest_rank, Quantiles, vars, rttVars
  <2> QED
    BY <2>1, <2>2 DEF DistributionInv
<1> QED
  BY <1>3, <1>4, <1>5, <1>6

\* The invariant holds in every reachable state.
LEMMA DistributionKept == Spec => []DistributionInv
<1>1. DistributionInv /\ [Next]_vars => DistributionInv'
  BY EchoStep, LoadStep, StoreStep, SortStep, ReadStep, OtherSteps DEF Next
<1> QED
  BY DistributionInit, <1>1, PTL DEF Spec
-----------------------------------------------------------------------------
\* For every capacity and any interleaving of echoes with reports, the
\* reservoir holds only what was measured, and all of it as long as it fits
\* (metrics.c distribution_add, distribution_json).
THEOREM ReservoirIsHonest == Spec => []ReservoirHonest
<1>1. DistributionInv => ReservoirHonest
  BY DEF DistributionInv
<1> QED
  BY <1>1, DistributionKept, PTL

\* A report during which no echo comes in gives the exact percentiles of the
\* samples kept, for every number of them (metrics.c nearest_rank).
THEOREM PercentilesAreExact == Spec => []PercentilesExact
<1>1. DistributionInv => PercentilesExact
  <2> SUFFICES ASSUME DistributionInv, Reported, late = 0, samples # <<>>,
                      NEW k \in DOMAIN Quantiles
               PROVE  IsQuantile(report[k], Quantiles[k])
    BY DEF PercentilesExact
  <2>1. /\ k \in 1..5 /\ Quantiles[k] \in Nat /\ 1 <= Quantiles[k] /\ Quantiles[k] <= 1000
        /\ Len(Quantiles) = 5
    BY QuantileTypes
  <2>2. /\ samples \in Seq(Values) /\ Ascending(samples, Len(samples))
        /\ report[k] = nearest_rank(Quantiles[k])
    BY <2>1 DEF DistributionInv, Types, Reporting, Reported
  <2> DEFINE q == Quantiles[k]
  <2>3. q \in Nat /\ 1 <= q /\ q <= 1000 /\ report[k] = nearest_rank(q)
    BY <2>1, <2>2
  <2> HIDE DEF q
  <2>4. IsQuantile(nearest_rank(q), q)
    BY <2>2, <2>3, QuantileExact
  <2>5. IsQuantile(report[k], q)
    BY <2>3, <2>4
  <2> QED
    BY <2>5 DEF q
<1> QED
  BY <1>1, DistributionKept, PTL

\* Jitter agrees with the samples and with the spread of the run, for every
\* range of measured times (metrics.c metrics_rx).
THEOREM JitterIsConsistent == Spec => []JitterConsistent
<1>1. DistributionInv => JitterConsistent
  BY DEF DistributionInv, Spread
<1> QED
  BY <1>1, DistributionKept, PTL
=============================================================================
