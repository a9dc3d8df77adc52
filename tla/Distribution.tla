---------------------------- MODULE Distribution ----------------------------
(***************************************************************************)
(* metrics.c sample_distribution_t: round-trip times as the receiver adds  *)
(* them and the control task reports them.  Up to Capacity samples are     *)
(* kept, then a slot chosen by a hash may be replaced.  The report sorts   *)
(* the samples in place, one exchange of two slots after the other, and    *)
(* then reads one percentile after the other; the receiver has the higher  *)
(* priority and takes no lock, so that an echo after the last fence of the *)
(* drain comes between any two of these steps.                             *)
(***************************************************************************)
EXTENDS Integers, Sequences, FiniteSets

CONSTANTS
    Capacity,    \* METRIC_SAMPLE_CAPACITY
    MaxValue,    \* UINT32_MAX
    RTTs,        \* round-trip times that may be measured, also beyond MaxValue
    MaxSamples,  \* bound: samples of a run
    MaxLate      \* bound: samples that arrive while a report is made

ASSUME DistributionAssumption ==
    /\ Capacity \in Nat \ {0} /\ MaxValue \in Nat /\ RTTs \subseteq Nat
    /\ MaxSamples \in Nat /\ MaxLate \in Nat

VARIABLES
    samples,                              \* the reservoir, Len is reservoir_count
    sample_count, sum, min, max,
    last_rtt, jitter_sum, jitter_count, jitter_max,
    pc,          \* the control task: "none", "sort" within qsort, "read" after it
    report,      \* the percentiles read so far
    nel,         \* reservoir_count when qsort was called
    replaced,    \* a slot was replaced while qsort ran
    swap,        \* the exchange qsort is making: two slots and what it read in them
    all,         \* history: how often each value was added
    late         \* history: samples added since the report began

rttVars == <<samples, sample_count, sum, min, max, last_rtt, jitter_sum, jitter_count, jitter_max>>
countVars == <<sample_count, sum, min, max, last_rtt, jitter_sum, jitter_count, jitter_max>>
vars == <<rttVars, pc, report, nel, replaced, swap, all, late>>

Quantiles == <<500, 900, 950, 990, 999>>    \* in thousandths

NoSwap == [stage |-> "none", i |-> 1, j |-> 1, x |-> 0, y |-> 0]

Init ==
    /\ samples = <<>> /\ sample_count = 0 /\ sum = 0 /\ min = MaxValue /\ max = 0
    /\ last_rtt = 0 /\ jitter_sum = 0 /\ jitter_count = 0 /\ jitter_max = 0
    /\ pc = "none" /\ report = <<>> /\ nel = 0 /\ replaced = FALSE /\ swap = NoSwap
    /\ all = [v \in 0..MaxValue |-> 0] /\ late = 0

Smaller(a, b) == IF a < b THEN a ELSE b
Larger(a, b) == IF a > b THEN a ELSE b
Distance(a, b) == IF a > b THEN a - b ELSE b - a

\* sample_hash(count) % count: any slot, for all the properties care.
Slots(count) == 0..(count - 1)

\* The samples after v, the count-th, has been added.
distribution_add(v, count) ==
    \/ Len(samples) < Capacity /\ samples' = Append(samples, v) /\ UNCHANGED replaced
    \/ /\ Len(samples) = Capacity
       /\ \E slot \in Slots(count) :
             \/ /\ slot < Capacity
                /\ samples' = [samples EXCEPT ![slot + 1] = v]
                /\ replaced' = (replaced \/ pc = "sort")
             \/ slot >= Capacity /\ UNCHANGED <<samples, replaced>>

HasPrevious == sample_count > 0

\* metrics_rx for an echo.
Echo(rtt) ==
    LET v == Smaller(rtt, MaxValue)
        jitter == Distance(v, last_rtt)
    IN  /\ sample_count < MaxSamples /\ (pc # "none" => late < MaxLate)
        /\ IF HasPrevious
           THEN /\ jitter_sum' = jitter_sum + jitter
                /\ jitter_count' = jitter_count + 1
                /\ jitter_max' = Larger(jitter_max, jitter)
           ELSE UNCHANGED <<jitter_sum, jitter_count, jitter_max>>
        /\ last_rtt' = v
        /\ sample_count' = sample_count + 1
        /\ sum' = sum + v /\ min' = Smaller(min, v) /\ max' = Larger(max, v)
        /\ distribution_add(v, sample_count + 1)
        /\ all' = [all EXCEPT ![v] = @ + 1]
        /\ late' = IF pc = "none" THEN late ELSE late + 1
        /\ UNCHANGED <<pc, report, nel, swap>>
-----------------------------------------------------------------------------
(* distribution_json, in the control task.                                 *)

ReportBegin ==
    /\ pc = "none"
    /\ pc' = "sort" /\ report' = <<>> /\ nel' = Len(samples) /\ replaced' = FALSE /\ late' = 0
    /\ UNCHANGED <<rttVars, swap, all>>

\* qsort reads two of the elements there were when it was called...
SwapLoad ==
    /\ pc = "sort" /\ swap.stage = "none"
    /\ \E i, j \in 1..nel :
          i # j /\ swap' = [stage |-> "loaded", i |-> i, j |-> j, x |-> samples[i], y |-> samples[j]]
    /\ UNCHANGED <<rttVars, pc, report, nel, replaced, all, late>>

\* ...writes the second over the first...
SwapFirst ==
    /\ swap.stage = "loaded"
    /\ samples' = [samples EXCEPT ![swap.i] = swap.y]
    /\ swap' = [swap EXCEPT !.stage = "stored"]
    /\ UNCHANGED <<countVars, pc, report, nel, replaced, all, late>>

\* ...and then the first over the second.
SwapSecond ==
    /\ swap.stage = "stored"
    /\ samples' = [samples EXCEPT ![swap.j] = swap.x]
    /\ swap' = NoSwap
    /\ UNCHANGED <<countVars, pc, report, nel, replaced, all, late>>

\* compare_u32 puts the first n elements of s in this order.
Ascending(s, n) == \A i, j \in 1..n : i < j => s[i] <= s[j]

\* Mutant: all slots are sorted, the unused ones too.
Mut_SortAll ==
    /\ pc = "sort" /\ pc' = "read" /\ swap.stage = "none"
    /\ samples' = [i \in DOMAIN samples |->
                     IF i <= Capacity - Len(samples) THEN 0 ELSE samples[i - (Capacity - Len(samples))]]
    /\ Ascending(samples', nel)
    /\ UNCHANGED <<countVars, report, nel, replaced, swap, all, late>>

\* qsort returns, with the elements in order unless a slot was replaced under
\* its hands: then any order is possible.
SortDone ==
    /\ pc = "sort" /\ pc' = "read" /\ swap.stage = "none"
    /\ ~replaced => Ascending(samples, nel)
    /\ UNCHANGED <<rttVars, report, nel, replaced, swap, all, late>>

\* Mutant: the rank is rounded down.
Mut_RankDown(q, n) == Larger(1, (q * n) \div 1000)

\* ceil(q * n), at least 1 and at most n.
Rank(q, n) == Smaller(n, Larger(1, (q * n + 999) \div 1000))

nearest_rank(q) == IF samples = <<>> THEN 0 ELSE samples[Rank(q, Len(samples))]

ReadPercentile ==
    /\ pc = "read" /\ Len(report) < Len(Quantiles)
    /\ report' = Append(report, nearest_rank(Quantiles[Len(report) + 1]))
    /\ UNCHANGED <<rttVars, pc, nel, replaced, swap, all, late>>

Reported == pc = "read" /\ Len(report) = Len(Quantiles)

ReportEnd ==
    /\ Reported
    /\ pc' = "none" /\ report' = <<>>
    /\ UNCHANGED <<rttVars, nel, replaced, swap, all, late>>

\* metrics_reset, from configure and arm.
Reset ==
    /\ pc = "none" /\ sample_count > 0
    /\ samples' = <<>> /\ sample_count' = 0 /\ sum' = 0 /\ min' = MaxValue /\ max' = 0
    /\ last_rtt' = 0 /\ jitter_sum' = 0 /\ jitter_count' = 0 /\ jitter_max' = 0
    /\ all' = [v \in 0..MaxValue |-> 0] /\ late' = 0
    /\ UNCHANGED <<pc, report, nel, replaced, swap>>

Next ==
    \/ \E rtt \in RTTs : Echo(rtt)
    \/ ReportBegin \/ SwapLoad \/ SwapFirst \/ SwapSecond \/ SortDone \/ ReadPercentile \/ ReportEnd \/ Reset

Spec == Init /\ [][Next]_vars
-----------------------------------------------------------------------------
Occurrences(s, v) == Cardinality({i \in DOMAIN s : s[i] = v})

\* The samples once the exchange in hand is done.
Settled ==
    CASE swap.stage = "none" -> samples
      [] swap.stage = "loaded" -> [samples EXCEPT ![swap.i] = swap.y, ![swap.j] = swap.x]
      [] swap.stage = "stored" -> [samples EXCEPT ![swap.j] = swap.x]

\* The reservoir holds nothing that was not measured, no sample twice, and
\* every sample as long as they fit, although reports sort it in place and
\* echoes replace slots meanwhile, in the middle of an exchange too: one of
\* them may undo the other, but what is left when the exchange is done are
\* samples (distribution_add, distribution_json).
ReservoirHonest ==
    /\ Len(samples) = Smaller(sample_count, Capacity)
    /\ \A v \in 0..MaxValue :
          /\ Occurrences(Settled, v) <= all[v]
          /\ sample_count <= Capacity => Occurrences(Settled, v) = all[v]

\* v is the q-quantile of the samples: the least of them that has a share of
\* at least q at or below itself.
AtOrBelow(v) == Cardinality({i \in DOMAIN samples : samples[i] <= v})
IsQuantile(v, q) ==
    /\ Occurrences(samples, v) > 0
    /\ AtOrBelow(v) * 1000 >= q * Len(samples)
    /\ \A i \in DOMAIN samples : samples[i] < v => AtOrBelow(samples[i]) * 1000 < q * Len(samples)

\* A report made while no echo arrives gives the percentiles of the samples
\* as they are, also when earlier reports reordered them (nearest_rank).
PercentilesExact ==
    Reported /\ late = 0 /\ samples # <<>> =>
        \A k \in DOMAIN Quantiles : IsQuantile(report[k], Quantiles[k])

\* Percentiles of one report never decrease with the quantile: a 99th below
\* the median is no percentile at all.
PercentilesOrdered == Reported => \A k \in 2..Len(report) : report[k - 1] <= report[k]

\* Jitter is taken over the samples of this run only, one difference for
\* each but the first, and none exceeds the spread the run reports, however
\* far out of range the measured times were (metrics_rx, last_rtt and the
\* two places that bound a value).
JitterConsistent ==
    /\ jitter_count = IF sample_count = 0 THEN 0 ELSE sample_count - 1
    /\ jitter_count > 0 => jitter_max <= max - min
    /\ jitter_max <= jitter_sum /\ jitter_sum <= jitter_count * jitter_max
=============================================================================
