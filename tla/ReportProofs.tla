---------------------------- MODULE ReportProofs ----------------------------
(***************************************************************************)
(* Proofs about Report, for every number of streams, any signal strengths  *)
(* and any number of frames before and during a report.  Sums over the     *)
(* streams are folds, so the first part shows what a fold of a changed     *)
(* function is, by induction over the finite sets it is taken over; the    *)
(* library's induction is used in its form about sets of numbers, that     *)
(* each of them but the empty one has a least element.                     *)
(***************************************************************************)
EXTENDS Report, FiniteSetTheorems, TLAPS

\* Every non-empty set of naturals has a least element.
LEMMA Least ==
    ASSUME NEW T, T \subseteq Nat, T # {}
    PROVE  \E n \in T : \A k \in T : n <= k
<1> DEFINE R == {p \in Nat \X Nat : p[1] < p[2]}
<1>1. IsWellFoundedOn(R, Nat)
  BY NatLessThanWellFounded DEF OpToRel
<1> HIDE DEF R
<1>2. PICK n \in T : \A k \in T : ~(<<k, n>> \in R)
  BY <1>1, WFMin
<1>3. ASSUME NEW k \in T PROVE n <= k
  <2>1. n \in Nat /\ k \in Nat /\ ~(<<k, n>> \in R)
    BY <1>2
  <2> QED
    BY <2>1 DEF R
<1> QED
  BY <1>3

\* Induction over the naturals, about a set instead of a predicate.
LEMMA Inductive ==
    ASSUME NEW T, 0 \in T, \A n \in Nat : n \in T => n + 1 \in T
    PROVE  Nat \subseteq T
<1> DEFINE U == Nat \ T
<1> SUFFICES ASSUME U # {} PROVE FALSE
  OBVIOUS
<1>1. PICK n \in U : \A k \in U : n <= k
  BY Least
<1>2. n \in Nat /\ n # 0 /\ n \notin T
  BY <1>1
<1>3. n - 1 \in Nat /\ ~(n <= n - 1)
  BY <1>2
<1>4. n - 1 \in T
  BY <1>1, <1>3
<1>5. n - 1 + 1 \in T /\ n - 1 + 1 = n
  BY <1>2, <1>3, <1>4
<1> QED
  BY <1>2, <1>5
-----------------------------------------------------------------------------
(* Sums of functions.                                                      *)

Chosen(s) == CHOOSE x \in s : TRUE

\* One step of the recursion by which a fold over S is defined.
Fold(f, g, s) == IF s = {} THEN 0 ELSE f[Chosen(s)] + g[s \ {Chosen(s)}]
Folds(f, g, S) == g = [s \in SUBSET S |-> Fold(f, g, s)]

\* The sum of a function is such a fold.
LEMMA SumIsFold ==
    ASSUME NEW S, NEW f, DOMAIN f = S
    PROVE  SumFunction(f) = (CHOOSE g : Folds(f, g, S))[S]
BY DEF SumFunction, SumFunctionOnSet, FoldFunctionOnSet, MapThenFoldSet, Folds, Fold, Chosen

\* A subset of a finite set, with the element the fold takes first.
LEMMA Subsets ==
    ASSUME NEW S, IsFiniteSet(S), NEW s \in SUBSET S
    PROVE  /\ IsFiniteSet(s) /\ Cardinality(s) \in Nat /\ Cardinality(s) <= Cardinality(S)
           /\ s # {} => /\ Chosen(s) \in s /\ s \ {Chosen(s)} \in SUBSET S
                        /\ Cardinality(s \ {Chosen(s)}) = Cardinality(s) - 1
           /\ Cardinality(s) = 0 => s = {}
<1>1. IsFiniteSet(s) /\ Cardinality(s) \in Nat /\ Cardinality(s) <= Cardinality(S)
  BY FS_Subset, FS_CardinalityType
<1>2. s # {} => Chosen(s) \in s
  BY DEF Chosen
<1>3. s # {} => Cardinality(s \ {Chosen(s)}) = Cardinality(s) - 1
  BY <1>1, <1>2, FS_RemoveElement
<1>4. Cardinality(s) = 0 => s = {}
  BY <1>1, FS_EmptySet
<1> QED
  BY <1>1, <1>2, <1>3, <1>4

\* The recursion has a solution over every finite set.
LEMMA FoldExists ==
    ASSUME NEW S, IsFiniteSet(S), NEW f \in [S -> Int]
    PROVE  \E g \in [SUBSET S -> Int] : Folds(f, g, S)
<1> DEFINE Upto(g, n) == \A s \in SUBSET S : Cardinality(s) <= n => g[s] = Fold(f, g, s)
           T == {n \in Nat : \E g \in [SUBSET S -> Int] : Upto(g, n)}
<1>1. 0 \in T
  <2> DEFINE g == [s \in SUBSET S |-> 0]
  <2>1. g \in [SUBSET S -> Int]
    OBVIOUS
  <2>2. Upto(g, 0)
    <3> SUFFICES ASSUME NEW s \in SUBSET S, Cardinality(s) <= 0 PROVE g[s] = Fold(f, g, s)
      OBVIOUS
    <3>1. Cardinality(s) \in Nat /\ (Cardinality(s) = 0 => s = {})
      BY Subsets
    <3>2. s = {}
      BY <3>1
    <3> QED
      BY <3>2 DEF Fold
  <2> QED
    BY <2>1, <2>2
<1>2. ASSUME NEW n \in Nat, n \in T PROVE n + 1 \in T
  <2>1. PICK g \in [SUBSET S -> Int] : Upto(g, n)
    BY <1>2
  <2> DEFINE h == [s \in SUBSET S |-> IF Cardinality(s) <= n THEN g[s] ELSE Fold(f, g, s)]
  <2>2. \A s \in SUBSET S : Fold(f, g, s) \in Int
    <3> SUFFICES ASSUME NEW s \in SUBSET S, s # {} PROVE f[Chosen(s)] + g[s \ {Chosen(s)}] \in Int
      BY DEF Fold
    <3>1. Chosen(s) \in S /\ s \ {Chosen(s)} \in SUBSET S
      BY Subsets
    <3> QED
      BY <3>1
  <2>3. h \in [SUBSET S -> Int]
    BY <2>2
  <2>4. \A s \in SUBSET S : h[s] = Fold(f, g, s)
    BY <2>1
  <2>5. \A s \in SUBSET S : Cardinality(s) <= n => h[s] = g[s]
    OBVIOUS
  <2> HIDE DEF h
  <2>6. Upto(h, n + 1)
    <3> SUFFICES ASSUME NEW s \in SUBSET S, Cardinality(s) <= n + 1 PROVE Fold(f, g, s) = Fold(f, h, s)
      BY <2>4
    <3>1. CASE s = {}
      BY <3>1 DEF Fold
    <3>2. CASE s # {}
      <4> DEFINE t == s \ {Chosen(s)}
      <4>1. t \in SUBSET S /\ Cardinality(t) = Cardinality(s) - 1 /\ Cardinality(s) \in Nat
        BY <3>2, Subsets
      <4>2. h[t] = g[t]
        BY <2>5, <4>1
      <4> QED
        BY <3>2, <4>2 DEF Fold
    <3> QED
      BY <3>1, <3>2
  <2> QED
    BY <2>3, <2>6
<1> HIDE DEF T
<1>3. Nat \subseteq T
  BY <1>1, <1>2, Inductive
<1>4. Cardinality(S) \in Nat
  BY FS_CardinalityType
<1>5. PICK g \in [SUBSET S -> Int] : Upto(g, Cardinality(S))
  BY <1>3, <1>4 DEF T
<1>6. \A s \in SUBSET S : g[s] = Fold(f, g, s)
  BY <1>5, Subsets
<1>7. Folds(f, g, S)
  BY <1>6 DEF Folds
<1> QED
  BY <1>7

\* The functions f and e differ by d at i, and nowhere else.
Differ(f, e, S, i, d) == \A j \in S : e[j] = f[j] + (IF j = i THEN d ELSE 0)

\* Two functions that differ in one place have sums that differ as much.
LEMMA FoldsDiffer ==
    ASSUME NEW S, IsFiniteSet(S), NEW f \in [S -> Int], NEW e \in [S -> Int],
           NEW i \in S, NEW d \in Int,
           Differ(f, e, S, i, d),
           NEW g, Folds(f, g, S), NEW h, Folds(e, h, S)
    PROVE  g[S] \in Int /\ h[S] = g[S] + d
<1> DEFINE Right(s) == g[s] \in Int /\ h[s] = g[s] + (IF i \in s THEN d ELSE 0)
           T == {n \in Nat : \A s \in SUBSET S : Cardinality(s) = n => Right(s)}
<1>1. \A s \in SUBSET S : g[s] = Fold(f, g, s) /\ h[s] = Fold(e, h, s)
  BY DEF Folds
<1>2. 0 \in T
  <2> SUFFICES ASSUME NEW s \in SUBSET S, Cardinality(s) = 0 PROVE Right(s)
    OBVIOUS
  <2>1. s = {}
    BY Subsets
  <2>2. g[s] = 0 /\ h[s] = 0
    BY <1>1, <2>1 DEF Fold
  <2> QED
    BY <2>1, <2>2
<1>3. ASSUME NEW n \in Nat, n \in T PROVE n + 1 \in T
  <2> SUFFICES ASSUME NEW s \in SUBSET S, Cardinality(s) = n + 1 PROVE Right(s)
    OBVIOUS
  <2> DEFINE c == Chosen(s)
             t == s \ {c}
  <2>0. s # {}
    BY FS_EmptySet
  <2>1. c \in s /\ c \in S /\ t \in SUBSET S /\ Cardinality(t) = n
    BY <2>0, Subsets
  <2>2. Right(t)
    BY <1>3, <2>1
  <2>3. g[s] = f[c] + g[t] /\ h[s] = e[c] + h[t]
    BY <1>1, <2>0 DEF Fold
  <2>4. e[c] = f[c] + (IF c = i THEN d ELSE 0)
    BY <2>1 DEF Differ
  <2> HIDE DEF c
  <2>5. CASE c = i
    BY <2>1, <2>2, <2>3, <2>4, <2>5
  <2>6. CASE c # i
    BY <2>1, <2>2, <2>3, <2>4, <2>6
  <2> QED
    BY <2>5, <2>6
<1> HIDE DEF T
<1>4. Nat \subseteq T
  BY <1>2, <1>3, Inductive
<1>5. Cardinality(S) \in Nat
  BY FS_CardinalityType
<1>6. Right(S)
  BY <1>4, <1>5 DEF T
<1> QED
  BY <1>6

\* A sum of integers is one, and follows a change in one place.
LEMMA SumChange ==
    ASSUME NEW S, IsFiniteSet(S), NEW f \in [S -> Int], NEW e \in [S -> Int],
           NEW i \in S, NEW d \in Int, Differ(f, e, S, i, d)
    PROVE  SumFunction(f) \in Int /\ SumFunction(e) = SumFunction(f) + d
<1> DEFINE g == CHOOSE x : Folds(f, x, S)
           h == CHOOSE x : Folds(e, x, S)
<1>1. Folds(f, g, S) /\ Folds(e, h, S)
  BY FoldExists
<1>2. SumFunction(f) = g[S] /\ SumFunction(e) = h[S]
  BY SumIsFold
<1> HIDE DEF g, h
<1>3. g[S] \in Int /\ h[S] = g[S] + d
  BY <1>1, FoldsDiffer
<1> QED
  BY <1>2, <1>3

\* Zeros add up to zero.
LEMMA SumOfZeros ==
    ASSUME NEW S, IsFiniteSet(S)
    PROVE  SumFunction([i \in S |-> 0]) = 0
<1> DEFINE f == [i \in S |-> 0]
           g == CHOOSE x : Folds(f, x, S)
           T == {n \in Nat : \A s \in SUBSET S : Cardinality(s) = n => g[s] = 0}
<1>1. f \in [S -> Int] /\ \A i \in S : f[i] = 0
  OBVIOUS
<1> HIDE DEF f
<1>2. Folds(f, g, S)
  BY <1>1, FoldExists
<1>3. SumFunction(f) = g[S]
  BY <1>1, SumIsFold
<1> HIDE DEF g
<1>4. \A s \in SUBSET S : g[s] = Fold(f, g, s)
  BY <1>2 DEF Folds
<1>5. 0 \in T
  <2> SUFFICES ASSUME NEW s \in SUBSET S, Cardinality(s) = 0 PROVE g[s] = 0
    OBVIOUS
  <2>1. s = {}
    BY Subsets
  <2> QED
    BY <1>4, <2>1 DEF Fold
<1>6. ASSUME NEW n \in Nat, n \in T PROVE n + 1 \in T
  <2> SUFFICES ASSUME NEW s \in SUBSET S, Cardinality(s) = n + 1 PROVE g[s] = 0
    OBVIOUS
  <2>0. s # {}
    BY FS_EmptySet
  <2>1. Chosen(s) \in S /\ s \ {Chosen(s)} \in SUBSET S /\ Cardinality(s \ {Chosen(s)}) = n
    BY <2>0, Subsets
  <2>2. g[s \ {Chosen(s)}] = 0 /\ f[Chosen(s)] = 0
    BY <1>1, <1>6, <2>1
  <2> QED
    BY <1>4, <2>0, <2>2 DEF Fold
<1> HIDE DEF T
<1>7. Nat \subseteq T
  BY <1>5, <1>6, Inductive
<1>8. Cardinality(S) \in Nat
  BY FS_CardinalityType
<1>9. g[S] = 0
  BY <1>7, <1>8 DEF T
<1> QED
  BY <1>3, <1>9 DEF f
-----------------------------------------------------------------------------
(* The invariant.                                                          *)

Counters == [rx : Nat, duplicate : Nat, out_of_order : Nat, gaps : Nat]

Types ==
    /\ totals \in [rx_packets : Nat, duplicate : Nat, out_of_order : Nat]
    /\ streams \in [Streams -> Counters]
    /\ rssi \in [count : Nat, sum : Int, min : Int, max : Int, hist : [Places -> Nat]]
    /\ at \in Int /\ -1 <= at /\ at <= 12 /\ late \in Nat

\* Each frame is counted once in the totals, in its stream and in the
\* histogram.
Adds ==
    /\ totals.rx_packets = Sum("rx")
    /\ totals.duplicate = Sum("duplicate")
    /\ totals.out_of_order = Sum("out_of_order")
    /\ SumFunction(rssi.hist) = totals.rx_packets

Between ==
    /\ rssi.min * rssi.count <= rssi.sum
    /\ rssi.sum <= rssi.max * rssi.count

\* The reads done so far, exact unless a frame came in.
Exact ==
    at >= 0 =>
        /\ DOMAIN report = {Reads[k] : k \in 1..at}
        /\ late = 0 => \A k \in 1..at : report[Reads[k]] = Value(Reads[k])

\* What was read is the whole but for frames that came in since.
Within(part, whole) == part \in Nat /\ whole \in Nat /\ part <= whole /\ whole <= part + late

Skewed ==
    /\ at >= 2 => Within(report["rx_packets"], totals.rx_packets)
    /\ at >= 3 => /\ Within(report["duplicate"], totals.duplicate)
                  /\ report["rx_packets"] - report["duplicate"] <= totals.rx_packets - totals.duplicate
    /\ at >= 4 => Within(report["out_of_order"], totals.out_of_order)
    /\ at >= 8 => Within(report["rx_packets"], report["histogram"])
    /\ at >= 9 => Within(report["rx_packets"], report["stream_rx"])
    /\ at >= 11 => Within(report["duplicate"], report["stream_duplicate"])
    /\ at >= 12 => Within(report["out_of_order"], report["stream_out_of_order"])

ReportInv == Types /\ Adds /\ Between /\ Exact /\ Skewed

\* The reads and their order (metrics.c metrics_json).
LEMMA ReadNames ==
    /\ Len(Reads) = 12
    /\ Reads[1] = "loss" /\ Reads[2] = "rx_packets" /\ Reads[3] = "duplicate"
    /\ Reads[4] = "out_of_order" /\ Reads[5] = "rssi_min" /\ Reads[6] = "rssi_max"
    /\ Reads[7] = "rssi_mean" /\ Reads[8] = "histogram" /\ Reads[9] = "stream_rx"
    /\ Reads[10] = "stream_missing" /\ Reads[11] = "stream_duplicate"
    /\ Reads[12] = "stream_out_of_order"
BY DEF Reads

\* and what each of them gives.
LEMMA ReadValues ==
    /\ Value("loss") = Sum("gaps") /\ Value("stream_missing") = Sum("gaps")
    /\ Value("rx_packets") = totals.rx_packets /\ Value("duplicate") = totals.duplicate
    /\ Value("out_of_order") = totals.out_of_order
    /\ Value("rssi_min") = IF rssi.count > 0 THEN rssi.min ELSE 0
    /\ Value("rssi_max") = IF rssi.count > 0 THEN rssi.max ELSE 0
    /\ Value("rssi_mean") = <<rssi.sum, rssi.count>>
    /\ Value("histogram") = SumFunction(rssi.hist)
    /\ Value("stream_rx") = Sum("rx") /\ Value("stream_duplicate") = Sum("duplicate")
    /\ Value("stream_out_of_order") = Sum("out_of_order")
BY DEF Value

\* A report has nothing before the first frame.
LEMMA ReportInit == Init => ReportInv
<1> SUFFICES ASSUME Init PROVE ReportInv
  OBVIOUS
<1>1. Types
  BY ReportAssumption DEF Init, Types, Counters, Places
<1>2. Adds
  <2>1. /\ Sum("rx") = SumFunction([s \in Streams |-> 0])
        /\ Sum("duplicate") = SumFunction([s \in Streams |-> 0])
        /\ Sum("out_of_order") = SumFunction([s \in Streams |-> 0])
    <3>1. /\ [s \in Streams |-> streams[s]["rx"]] = [s \in Streams |-> 0]
          /\ [s \in Streams |-> streams[s]["duplicate"]] = [s \in Streams |-> 0]
          /\ [s \in Streams |-> streams[s]["out_of_order"]] = [s \in Streams |-> 0]
      BY DEF Init
    <3> QED
      BY <3>1, Zenon DEF Sum
  <2>2. IsFiniteSet(Streams) /\ IsFiniteSet(Places)
    BY ReportAssumption, FS_Interval DEF Places
  <2>3. SumFunction([s \in Streams |-> 0]) = 0 /\ SumFunction([i \in Places |-> 0]) = 0
    BY <2>2, SumOfZeros
  <2> QED
    BY <2>1, <2>3 DEF Init, Adds
<1>3. Between /\ Exact /\ Skewed
  BY ReportAssumption DEF Init, Between, Exact, Skewed
<1> QED
  BY <1>1, <1>2, <1>3 DEF ReportInv

FieldSum(t, S, field) == SumFunction([x \in S |-> t[x][field]])

\* A counter of one stream goes up by d, and so does the sum.
LEMMA SumField ==
    ASSUME NEW S, IsFiniteSet(S), NEW t \in [S -> Counters], NEW s \in S, NEW m \in Counters,
           NEW field \in {"rx", "duplicate", "out_of_order"}, NEW d \in Int,
           m[field] = t[s][field] + d
    PROVE  FieldSum([t EXCEPT ![s] = m], S, field) = FieldSum(t, S, field) + d
<1> DEFINE f == [x \in S |-> t[x][field]]
           e == [x \in S |-> [t EXCEPT ![s] = m][x][field]]
<1>1. m[field] \in Int /\ \A x \in S : t[x][field] \in Int
  BY DEF Counters
<1>2. f \in [S -> Int] /\ e \in [S -> Int]
  BY <1>1
<1>3. Differ(f, e, S, s, d)
  BY <1>1 DEF Differ
<1> HIDE DEF f, e
<1>4. SumFunction(e) = SumFunction(f) + d
  BY <1>2, <1>3, SumChange
<1> QED
  BY <1>4 DEF f, e, FieldSum

\* What a frame may do to the counters of its stream.
LEMMA ObservedCounts ==
    ASSUME NEW c \in Counters, NEW m \in Observed(c)
    PROVE  /\ m \in Counters /\ m.rx = c.rx + 1
           /\ m.duplicate = c.duplicate \/ m.duplicate = c.duplicate + 1
           /\ m.out_of_order = c.out_of_order \/ m.out_of_order = c.out_of_order + 1
<1> DEFINE a == [c EXCEPT !.rx = @ + 1]
           b == [a EXCEPT !.out_of_order = @ + 1]
           g == IF c.gaps > 0 THEN c.gaps - 1 ELSE c.gaps
<1>1. /\ a \in Counters /\ a.rx = c.rx + 1 /\ a.duplicate = c.duplicate
      /\ a.out_of_order = c.out_of_order /\ a.gaps = c.gaps
  BY DEF Counters
<1>2. \/ m = a
      \/ m = [a EXCEPT !.gaps = @ + 1]
      \/ m = [a EXCEPT !.duplicate = @ + 1]
      \/ m = [b EXCEPT !.gaps = g]
  BY DEF Observed, Counters
<1> HIDE DEF a
<1>3. CASE m = a
  BY <1>1, <1>3
<1>4. CASE m = [a EXCEPT !.gaps = @ + 1]
  BY <1>1, <1>4 DEF Counters
<1>5. CASE m = [a EXCEPT !.duplicate = @ + 1]
  BY <1>1, <1>5 DEF Counters
<1>6. CASE m = [b EXCEPT !.gaps = g]
  <2>1. /\ b \in Counters /\ b.rx = c.rx + 1 /\ b.duplicate = c.duplicate
        /\ b.out_of_order = c.out_of_order + 1 /\ b.gaps = c.gaps
    BY <1>1 DEF Counters
  <2>2. g \in Nat
    BY DEF Counters
  <2> HIDE DEF b, g
  <2> QED
    BY <1>6, <2>1, <2>2 DEF Counters
<1> QED
  BY <1>2, <1>3, <1>4, <1>5, <1>6

\* A frame in the totals, its stream and the histogram (metrics.c metrics_rx).
LEMMA FrameCounted ==
    ASSUME Types, Adds, NEW s \in Streams, NEW r \in Rssis, metrics_rx(s, r)
    PROVE  /\ streams' \in [Streams -> Counters] /\ Adds'
           /\ rssi'.hist \in [Places -> Nat]
           /\ \E d, o \in {0, 1} :
                 totals' = [rx_packets |-> totals.rx_packets + 1,
                            duplicate |-> totals.duplicate + d,
                            out_of_order |-> totals.out_of_order + o]
<1>1. PICK m \in Observed(streams[s]) :
         /\ streams' = [streams EXCEPT ![s] = m]
         /\ totals' = [rx_packets |-> totals.rx_packets + 1,
                       duplicate |-> totals.duplicate + Added(m.duplicate, streams[s].duplicate),
                       out_of_order |-> totals.out_of_order
                                        + Added(m.out_of_order, streams[s].out_of_order)]
  BY DEF metrics_rx
<1> DEFINE d == Added(m.duplicate, streams[s].duplicate)
           o == Added(m.out_of_order, streams[s].out_of_order)
<1>2. streams \in [Streams -> Counters] /\ streams[s] \in Counters
  BY DEF Types
<1>3. /\ m \in Counters /\ m.rx = streams[s].rx + 1
      /\ m.duplicate = streams[s].duplicate \/ m.duplicate = streams[s].duplicate + 1
      /\ m.out_of_order = streams[s].out_of_order \/ m.out_of_order = streams[s].out_of_order + 1
  BY <1>2, ObservedCounts
<1>4. /\ d \in {0, 1} /\ m.duplicate = streams[s].duplicate + d
      /\ o \in {0, 1} /\ m.out_of_order = streams[s].out_of_order + o
  BY <1>2, <1>3 DEF Added, Counters
<1> HIDE DEF d, o
<1>5. streams' \in [Streams -> Counters]
  BY <1>1, <1>2, <1>3
<1>6. /\ Sum("rx")' = Sum("rx") + 1
      /\ Sum("duplicate")' = Sum("duplicate") + d
      /\ Sum("out_of_order")' = Sum("out_of_order") + o
  <2> DEFINE t == [streams EXCEPT ![s] = m]
  <2>1. IsFiniteSet(Streams)
    BY ReportAssumption
  <2>2. /\ m["rx"] = streams[s]["rx"] + 1
        /\ m["duplicate"] = streams[s]["duplicate"] + d
        /\ m["out_of_order"] = streams[s]["out_of_order"] + o
    BY <1>3, <1>4
  <2>3. d \in Int /\ o \in Int
    BY <1>4
  <2>4. ASSUME NEW field \in {"rx", "duplicate", "out_of_order"}, NEW k \in Int,
               m[field] = streams[s][field] + k
        PROVE  FieldSum(t, Streams, field) = FieldSum(streams, Streams, field) + k
    BY <1>2, <1>3, <2>1, <2>4, SumField, ZenonT(60)
  <2>5. streams' = t
    BY <1>1
  <2> HIDE DEF t
  <2>6. FieldSum(t, Streams, "rx") = FieldSum(streams, Streams, "rx") + 1
    BY <2>2, <2>4
  <2>7. FieldSum(t, Streams, "duplicate") = FieldSum(streams, Streams, "duplicate") + d
    BY <2>2, <2>3, <2>4, Zenon
  <2>8. FieldSum(t, Streams, "out_of_order") = FieldSum(streams, Streams, "out_of_order") + o
    BY <2>2, <2>3, <2>4, Zenon
  <2> QED
    BY <2>5, <2>6, <2>7, <2>8, Zenon DEF Sum, FieldSum
<1>7. rssi'.hist \in [Places -> Nat] /\ SumFunction(rssi'.hist) = SumFunction(rssi.hist) + 1
  <2> DEFINE h == rssi.hist
             i == Place(r)
             e == [h EXCEPT ![i] = h[i] + 1]
  <2>1. r \in Int /\ RssiLimit \in Nat
    BY ReportAssumption
  <2>2. h \in [Places -> Nat]
    BY DEF Types
  <2>3. i \in Places
    BY <2>1 DEF Place, Places
  <2>4. IsFiniteSet(Places)
    BY <2>1, FS_Interval DEF Places
  <2>5. rssi'.hist = e
    BY DEF metrics_rx
  <2> HIDE DEF h, i
  <2>6. h \in [Places -> Int] /\ e \in [Places -> Int] /\ e \in [Places -> Nat] /\ Differ(h, e, Places, i, 1)
    BY <2>2, <2>3 DEF Differ
  <2> HIDE DEF e
  <2>7. SumFunction(e) = SumFunction(h) + 1
    BY <2>3, <2>4, <2>6, SumChange
  <2> QED
    BY <2>5, <2>6, <2>7 DEF h
<1>8. totals' = [rx_packets |-> totals.rx_packets + 1, duplicate |-> totals.duplicate + d,
                 out_of_order |-> totals.out_of_order + o]
  BY <1>1 DEF d, o
<1>9. Adds'
  BY <1>6, <1>7, <1>8 DEF Adds
<1> QED
  BY <1>4, <1>5, <1>7, <1>8, <1>9

\* An extreme bounds the total of n values, and with the next one of n + 1.
LEMMA MeanBetween ==
    ASSUME NEW n \in Nat, NEW lo \in Int, NEW hi \in Int, NEW total \in Int, NEW r \in Int,
           lo * n <= total, total <= hi * n
    PROVE  /\ (IF r < lo THEN r ELSE lo) * (n + 1) <= total + r
           /\ total + r <= (IF r > hi THEN r ELSE hi) * (n + 1)
<1> DEFINE a == IF r < lo THEN r ELSE lo
           b == IF r > hi THEN r ELSE hi
<1>1. a \in Int /\ a <= lo /\ a <= r /\ b \in Int /\ hi <= b /\ r <= b
  OBVIOUS
<1> HIDE DEF a, b
<1>2. (lo - a) * n >= 0 /\ (b - hi) * n >= 0
  BY <1>1
<1>3. a * n <= lo * n /\ hi * n <= b * n
  BY <1>1, <1>2
<1>4. a * (n + 1) = a * n + a /\ b * (n + 1) = b * n + b
  BY <1>1
<1>5. a * (n + 1) <= total + r /\ total + r <= b * (n + 1)
  BY <1>1, <1>3, <1>4
<1> QED
  BY <1>5 DEF a, b

\* A frame that comes in at any point of a report keeps the invariant.
LEMMA FrameStep ==
    ASSUME ReportInv, NEW s \in Streams, NEW r \in Rssis, metrics_rx(s, r)
    PROVE  ReportInv'
<1>1. Types /\ Adds /\ Between /\ Exact /\ Skewed
  BY DEF ReportInv
<1>2. /\ streams' \in [Streams -> Counters] /\ Adds' /\ rssi'.hist \in [Places -> Nat]
  BY <1>1, FrameCounted
<1>3. PICK d \in {0, 1}, o \in {0, 1} :
         totals' = [rx_packets |-> totals.rx_packets + 1, duplicate |-> totals.duplicate + d,
                    out_of_order |-> totals.out_of_order + o]
  BY <1>1, FrameCounted
<1>4. /\ at' = at /\ report' = report /\ late' = (IF at >= 0 THEN late + 1 ELSE late)
      /\ rssi' = [count |-> rssi.count + 1, sum |-> rssi.sum + r,
                  min |-> IF r < rssi.min THEN r ELSE rssi.min,
                  max |-> IF r > rssi.max THEN r ELSE rssi.max,
                  hist |-> [rssi.hist EXCEPT ![Place(r)] = @ + 1]]
  BY DEF metrics_rx
<1>5. /\ rssi.count \in Nat /\ rssi.sum \in Int /\ rssi.min \in Int /\ rssi.max \in Int /\ r \in Int
      /\ totals.rx_packets \in Nat /\ totals.duplicate \in Nat /\ totals.out_of_order \in Nat
      /\ at \in Int /\ -1 <= at /\ at <= 12 /\ late \in Nat
  BY <1>1, ReportAssumption DEF Types
<1>6. /\ totals'.rx_packets = totals.rx_packets + 1 /\ totals'.duplicate = totals.duplicate + d
      /\ totals'.out_of_order = totals.out_of_order + o
  BY <1>3
<1>7. Types'
  <2>1. totals' \in [rx_packets : Nat, duplicate : Nat, out_of_order : Nat]
    BY <1>3, <1>5
  <2>2. rssi' \in [count : Nat, sum : Int, min : Int, max : Int, hist : [Places -> Nat]]
    <3> DEFINE h == [rssi.hist EXCEPT ![Place(r)] = @ + 1]
               lo == IF r < rssi.min THEN r ELSE rssi.min
               hi == IF r > rssi.max THEN r ELSE rssi.max
    <3>1. h \in [Places -> Nat]
      BY <1>2, <1>4
    <3>2. lo \in Int /\ hi \in Int /\ rssi.count + 1 \in Nat /\ rssi.sum + r \in Int
      BY <1>5
    <3>3. rssi' = [count |-> rssi.count + 1, sum |-> rssi.sum + r, min |-> lo, max |-> hi, hist |-> h]
      BY <1>4
    <3> HIDE DEF h, lo, hi
    <3> QED
      BY <3>1, <3>2, <3>3
  <2>3. late' \in Nat
    BY <1>4, <1>5
  <2> QED
    BY <1>2, <1>4, <1>5, <2>1, <2>2, <2>3 DEF Types
<1>8. Between'
  <2>1. /\ (IF r < rssi.min THEN r ELSE rssi.min) * (rssi.count + 1) <= rssi.sum + r
        /\ rssi.sum + r <= (IF r > rssi.max THEN r ELSE rssi.max) * (rssi.count + 1)
    BY <1>1, <1>5, MeanBetween DEF Between
  <2>2. /\ rssi'.count = rssi.count + 1 /\ rssi'.sum = rssi.sum + r
        /\ rssi'.min = (IF r < rssi.min THEN r ELSE rssi.min)
        /\ rssi'.max = (IF r > rssi.max THEN r ELSE rssi.max)
    BY <1>4
  <2>3. rssi'.min * rssi'.count <= rssi'.sum /\ rssi'.sum <= rssi'.max * rssi'.count
    BY <2>1, <2>2, Zenon
  <2> QED
    BY <2>3 DEF Between
<1>9. Exact'
  <2>1. at >= 0 => late' # 0
    BY <1>4, <1>5
  <2>2. at >= 0 => DOMAIN report' = {Reads[k] : k \in 1..at'}
    BY <1>1, <1>4 DEF Exact
  <2> QED
    BY <1>4, <2>1, <2>2 DEF Exact, Reads
<1>10. Skewed'
  <2>1. CASE at < 0
    BY <1>4, <1>5, <2>1 DEF Skewed
  <2>2. CASE at >= 0
    <3>1. late' = late + 1
      BY <1>4, <2>2
    <3>2. \A a, b : Within(a, b) => Within(a, b)'
      BY <1>5, <3>1 DEF Within
    <3>3. /\ at >= 2 => Within(report["rx_packets"], totals.rx_packets)'
          /\ at >= 3 => Within(report["duplicate"], totals.duplicate)'
          /\ at >= 4 => Within(report["out_of_order"], totals.out_of_order)'
      BY <1>1, <1>4, <1>5, <1>6, <3>1 DEF Skewed, Within
    <3>4. at >= 3 => report'["rx_packets"] - report'["duplicate"] <= totals'.rx_packets - totals'.duplicate
      BY <1>1, <1>4, <1>5, <1>6 DEF Skewed, Within
    <3> QED
      BY <1>1, <1>4, <3>2, <3>3, <3>4 DEF Skewed
  <2> QED
    BY <1>5, <2>1, <2>2
<1> QED
  BY <1>2, <1>7, <1>8, <1>9, <1>10 DEF ReportInv

\* A read adds its value and leaves those before it (metrics.c metrics_json).
LEMMA ReadEffect ==
    ASSUME Types, Exact, ReportRead
    PROVE  /\ at >= 0 /\ at <= 11 /\ at' = at + 1
           /\ DOMAIN report' = {Reads[k] : k \in 1..at'}
           /\ \A k \in 1..at : report'[Reads[k]] = report[Reads[k]]
           /\ report'[Reads[at + 1]] = Value(Reads[at + 1])
<1>1. at \in Int /\ at >= 0 /\ at <= 11 /\ at' = at + 1
  BY ReadNames DEF Types, ReportRead, Reported
<1>2. /\ DOMAIN report = {Reads[k] : k \in 1..at}
      /\ DOMAIN report' = DOMAIN report \cup {Reads[at + 1]}
      /\ \A read \in DOMAIN report \cup {Reads[at + 1]} :
            report'[read] = IF read = Reads[at + 1] THEN Value(read) ELSE report[read]
  BY <1>1 DEF Exact, ReportRead
<1>3. \A i, j \in 1..12 : Reads[i] = Reads[j] => i = j
  BY DEF Reads
<1> HIDE DEF Reads
<1>4. DOMAIN report' = {Reads[k] : k \in 1..at'}
  <2>1. 1..at' = (1..at) \cup {at + 1}
    BY <1>1
  <2> QED
    BY <1>2, <2>1
<1>5. ASSUME NEW k \in 1..at PROVE report'[Reads[k]] = report[Reads[k]]
  <2>1. k \in 1..12 /\ at + 1 \in 1..12 /\ k # at + 1
    BY <1>1
  <2>2. Reads[k] # Reads[at + 1] /\ Reads[k] \in DOMAIN report
    BY <1>2, <1>3, <2>1
  <2> QED
    BY <1>2, <2>2
<1>6. report'[Reads[at + 1]] = Value(Reads[at + 1])
  BY <1>2
<1> QED
  BY <1>1, <1>4, <1>5, <1>6

\* So it keeps the invariant: what it reads now is compared with what was
\* read before.
LEMMA ReadStep == ASSUME ReportInv, ReportRead PROVE ReportInv'
<1>1. Types /\ Adds /\ Between /\ Exact /\ Skewed
  BY DEF ReportInv
<1>2. totals' = totals /\ streams' = streams /\ rssi' = rssi /\ late' = late
  BY DEF ReportRead
<1>3. /\ at >= 0 /\ at <= 11 /\ at' = at + 1
      /\ DOMAIN report' = {Reads[k] : k \in 1..at'}
      /\ \A k \in 1..at : report'[Reads[k]] = report[Reads[k]]
      /\ report'[Reads[at + 1]] = Value(Reads[at + 1])
  BY <1>1, ReadEffect
<1>4. at \in Int /\ late \in Nat
  BY <1>1 DEF Types
<1>5. Types'
  BY <1>1, <1>2, <1>3, <1>4 DEF Types
<1>6. Adds' /\ Between'
  BY <1>1, <1>2 DEF Adds, Between, Sum
<1>7. Exact'
  <2>1. \A k : Value(Reads[k])' = Value(Reads[k])
    BY <1>2 DEF Value, Sum, Reads
  <2>2. ASSUME late = 0, NEW k \in 1..at' PROVE report'[Reads[k]] = Value(Reads[k])
    <3>1. k \in 1..at \/ k = at + 1
      BY <1>3, <1>4
    <3>2. k \in 1..at => report[Reads[k]] = Value(Reads[k])
      BY <1>1, <1>3, <2>2 DEF Exact
    <3> QED
      BY <1>3, <3>1, <3>2
  <2>3. DOMAIN report' = {Reads[k]' : k \in 1..at'}
    BY <1>3 DEF Reads
  <2>4. late' = 0 => \A k \in 1..at' : report'[Reads[k]'] = Value(Reads[k])'
    BY <1>2, <2>1, <2>2 DEF Reads
  <2> QED
    BY <2>3, <2>4 DEF Exact
<1>8. Skewed'
  <2>1. /\ at >= 2 => report'["rx_packets"] = report["rx_packets"]
        /\ at >= 3 => report'["duplicate"] = report["duplicate"]
        /\ at >= 4 => report'["out_of_order"] = report["out_of_order"]
        /\ at >= 8 => report'["histogram"] = report["histogram"]
        /\ at >= 9 => report'["stream_rx"] = report["stream_rx"]
        /\ at >= 11 => report'["stream_duplicate"] = report["stream_duplicate"]
    BY <1>3, <1>4, ReadNames
  <2>2. /\ at = 1 => report'["rx_packets"] = totals.rx_packets
        /\ at = 2 => report'["duplicate"] = totals.duplicate
        /\ at = 3 => report'["out_of_order"] = totals.out_of_order
        /\ at = 7 => report'["histogram"] = totals.rx_packets
        /\ at = 8 => report'["stream_rx"] = totals.rx_packets
        /\ at = 10 => report'["stream_duplicate"] = totals.duplicate
        /\ at = 11 => report'["stream_out_of_order"] = totals.out_of_order
    BY <1>1, <1>3, ReadNames, ReadValues DEF Adds
  <2>3. totals.rx_packets \in Nat /\ totals.duplicate \in Nat /\ totals.out_of_order \in Nat
    BY <1>1 DEF Types
  <2> QED
    BY <1>1, <1>2, <1>3, <1>4, <2>1, <2>2, <2>3 DEF Skewed, Within
<1> QED
  BY <1>5, <1>6, <1>7, <1>8 DEF ReportInv

\* The beginning and the end of a report.
LEMMA OtherSteps ==
    ASSUME ReportInv, ReportBegin \/ ReportEnd \/ UNCHANGED vars
    PROVE  ReportInv'
<1>1. Types /\ Adds /\ Between /\ Exact /\ Skewed
  BY DEF ReportInv
<1>2. totals' = totals /\ streams' = streams /\ rssi' = rssi
  BY DEF ReportBegin, ReportEnd, vars
<1>3. Adds' /\ Between'
  BY <1>1, <1>2 DEF Adds, Between, Sum
<1>4. CASE ReportBegin
  <2>1. at' = 0 /\ late' = 0 /\ DOMAIN report' = {}
    BY <1>4 DEF ReportBegin, NoReport
  <2>2. Types'
    BY <1>1, <1>2, <2>1 DEF Types
  <2>3. Exact' /\ Skewed'
    BY <2>1 DEF Exact, Skewed
  <2> QED
    BY <1>3, <2>2, <2>3 DEF ReportInv
<1>5. CASE ReportEnd
  <2>1. at' = -1 /\ late' = late
    BY <1>5 DEF ReportEnd
  <2>2. Types'
    BY <1>1, <1>2, <2>1 DEF Types
  <2>3. Exact' /\ Skewed'
    BY <2>1 DEF Exact, Skewed
  <2> QED
    BY <1>3, <2>2, <2>3 DEF ReportInv
<1>6. CASE UNCHANGED vars
  <2>1. Types' /\ Skewed'
    BY <1>1, <1>6 DEF Types, Skewed, Within, vars
  <2>2. Exact'
    BY <1>1, <1>6 DEF Exact, Value, Sum, Reads, vars
  <2> QED
    BY <1>3, <2>1, <2>2 DEF ReportInv
<1> QED
  BY <1>4, <1>5, <1>6

\* The invariant holds in every reachable state.
LEMMA ReportKept == Spec => []ReportInv
<1>1. ReportInv /\ [Next]_vars => ReportInv'
  BY FrameStep, ReadStep, OtherSteps DEF Next
<1> QED
  BY ReportInit, <1>1, PTL DEF Spec
-----------------------------------------------------------------------------
\* A report made while no frame arrives adds up, for every number of streams
\* and any strength of the signals (metrics.c metrics_rx, metrics_json).
THEOREM ReportsAreConsistent == Spec => []ReportAddsUp
<1>1. ReportInv => ReportAddsUp
  <2> SUFFICES ASSUME ReportInv, Reported, late = 0 PROVE ReportAddsUp
    BY DEF ReportAddsUp
  <2>1. Types /\ Adds /\ Between /\ at = 12
    BY ReadNames DEF ReportInv, Reported
  <2>2. \A k \in 1..12 : report[Reads[k]] = Value(Reads[k])
    BY <2>1 DEF ReportInv, Exact
  <2>3. /\ report["loss"] = Sum("gaps") /\ report["stream_missing"] = Sum("gaps")
        /\ report["rx_packets"] = totals.rx_packets /\ report["duplicate"] = totals.duplicate
        /\ report["out_of_order"] = totals.out_of_order
        /\ report["rssi_min"] = (IF rssi.count > 0 THEN rssi.min ELSE 0)
        /\ report["rssi_max"] = (IF rssi.count > 0 THEN rssi.max ELSE 0)
        /\ report["rssi_mean"] = <<rssi.sum, rssi.count>>
        /\ report["histogram"] = SumFunction(rssi.hist)
        /\ report["stream_rx"] = Sum("rx") /\ report["stream_duplicate"] = Sum("duplicate")
        /\ report["stream_out_of_order"] = Sum("out_of_order")
    BY <2>2, ReadNames, ReadValues
  <2>4. /\ report["rssi_mean"][1] = rssi.sum /\ report["rssi_mean"][2] = rssi.count
        /\ report["rssi_min"] * rssi.count <= rssi.sum /\ rssi.sum <= report["rssi_max"] * rssi.count
    <3>1. rssi.count \in Nat /\ rssi.sum \in Int /\ rssi.min \in Int /\ rssi.max \in Int
      BY <2>1 DEF Types
    <3>2. CASE rssi.count > 0
      BY <2>1, <2>3, <3>2 DEF Between
    <3>3. CASE rssi.count = 0
      BY <2>1, <2>3, <3>1, <3>3 DEF Between
    <3> QED
      BY <3>1, <3>2, <3>3
  <2> QED
    BY <2>1, <2>3, <2>4 DEF ReportAddsUp, Adds
<1> QED
  BY <1>1, ReportKept, PTL

\* Frames that arrive while a report is made are missing from the totals at
\* most, and no more than those frames, for any number of them.
THEOREM SkewIsBounded == Spec => []SkewBounded
<1>1. ReportInv => SkewBounded
  <2> SUFFICES ASSUME ReportInv, Reported PROVE SkewBounded
    BY DEF SkewBounded
  <2>1. Skewed /\ at = 12 /\ late \in Nat
    BY ReadNames DEF ReportInv, Reported, Types
  <2>2. \A a, b : Within(a, b) => b \in a..(a + late)
    BY <2>1 DEF Within
  <2> QED
    BY <2>1, <2>2 DEF Skewed, SkewBounded
<1> QED
  BY <1>1, ReportKept, PTL

\* A late frame never hides a loss: the packets less the duplicates of a
\* report are frames that did arrive.
THEOREM UniqueIsNotOverstated == Spec => []UniqueNotOverstated
<1>1. ReportInv => UniqueNotOverstated
  BY ReadNames DEF ReportInv, Reported, Skewed, UniqueNotOverstated
<1> QED
  BY <1>1, ReportKept, PTL
=============================================================================
