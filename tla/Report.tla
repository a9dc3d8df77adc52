------------------------------- MODULE Report -------------------------------
(***************************************************************************)
(* metrics.c metrics_rx and metrics_json: the receiver counts a frame in   *)
(* the totals, in its stream and in the signal strengths at once; the      *)
(* report of the control task reads them one after the other.  A node in   *)
(* FINISHED still counts frames of its run, so a frame that comes after    *)
(* the last fence of result is counted between two of these reads.         *)
(* What a number means for a stream is SequenceObserve's subject.          *)
(***************************************************************************)
EXTENDS Integers, Sequences, FiniteSets, Functions

CONSTANTS
    Streams,      \* streams in use, 0 to some n
    Rssis,        \* signal strengths the driver may report
    RssiLimit,    \* 127: the histogram has RssiLimit + 1 places
    MaxFrames,    \* bound: frames received
    MaxLate       \* bound: frames received while a report is made

ASSUME ReportAssumption ==
    /\ Streams \subseteq Nat /\ IsFiniteSet(Streams) /\ Rssis \subseteq Int /\ RssiLimit \in Nat
    /\ MaxFrames \in Nat /\ MaxLate \in Nat

VARIABLES
    totals, streams, rssi,    \* the parts of g_metrics that metrics_rx writes
    at,                       \* reads of the report done, -1 when none is made
    report,                   \* read -> value
    late                      \* history: frames counted since the report began

vars == <<totals, streams, rssi, at, report, late>>

Places == 0..RssiLimit
NoReport == [read \in {} |-> 0]

Init ==
    /\ totals = [rx_packets |-> 0, duplicate |-> 0, out_of_order |-> 0]
    /\ streams = [s \in Streams |-> [rx |-> 0, duplicate |-> 0, out_of_order |-> 0, gaps |-> 0]]
    /\ rssi = [count |-> 0, sum |-> 0, min |-> RssiLimit, max |-> -RssiLimit,
               hist |-> [i \in Places |-> 0]]
    /\ at = -1 /\ report = NoReport /\ late = 0
-----------------------------------------------------------------------------
(* metrics_rx                                                              *)

\* What sequence_observe may do to a stream.
Observed(m) ==
    {[m EXCEPT !.rx = @ + 1],
     [m EXCEPT !.rx = @ + 1, !.gaps = @ + 1],
     [m EXCEPT !.rx = @ + 1, !.duplicate = @ + 1],
     [m EXCEPT !.rx = @ + 1, !.out_of_order = @ + 1, !.gaps = IF @ > 0 THEN @ - 1 ELSE @]}

\* Mutant: what the stream has counted in all is added.
Mut_Whole(new, old) == new

\* What a frame added to a counter of its stream.
Added(new, old) == new - old

Place(r) ==
    CASE r + RssiLimit < 0 -> 0
      [] r + RssiLimit > RssiLimit -> RssiLimit
      [] OTHER -> r + RssiLimit

metrics_rx(s, r) ==
    /\ totals.rx_packets < MaxFrames /\ (at >= 0 => late < MaxLate)
    /\ \E m \in Observed(streams[s]) :
          /\ streams' = [streams EXCEPT ![s] = m]
          /\ totals' = [rx_packets |-> totals.rx_packets + 1,
                        duplicate |-> totals.duplicate + Added(m.duplicate, streams[s].duplicate),
                        out_of_order |-> totals.out_of_order
                                         + Added(m.out_of_order, streams[s].out_of_order)]
    /\ rssi' = [count |-> rssi.count + 1, sum |-> rssi.sum + r,
                min |-> IF r < rssi.min THEN r ELSE rssi.min,
                max |-> IF r > rssi.max THEN r ELSE rssi.max,
                hist |-> [rssi.hist EXCEPT ![Place(r)] = @ + 1]]
    /\ late' = IF at >= 0 THEN late + 1 ELSE late
    /\ UNCHANGED <<at, report>>
-----------------------------------------------------------------------------
(* metrics_json                                                            *)

\* Mutant: duplicates are read before the packets.
Mut_DuplicatesFirst ==
    <<"loss", "duplicate", "rx_packets", "out_of_order", "rssi_min", "rssi_max", "rssi_mean",
      "histogram", "stream_rx", "stream_missing", "stream_duplicate", "stream_out_of_order">>

\* Mutant: the streams are reported before the totals.
Mut_StreamsFirst ==
    <<"stream_rx", "stream_missing", "stream_duplicate", "stream_out_of_order", "loss",
      "rx_packets", "duplicate", "out_of_order", "rssi_min", "rssi_max", "rssi_mean", "histogram">>

\* The order of its reads, as far as a receiver's frame changes what is read.
Reads ==
    <<"loss", "rx_packets", "duplicate", "out_of_order", "rssi_min", "rssi_max", "rssi_mean",
      "histogram", "stream_rx", "stream_missing", "stream_duplicate", "stream_out_of_order">>

Sum(field) == SumFunction([s \in Streams |-> streams[s][field]])

\* rssi_mean is kept as the pair it is computed from; signal strengths are 0
\* in a report without frames.
Value(read) ==
    CASE read = "loss" -> Sum("gaps")
      [] read \in {"rx_packets", "duplicate", "out_of_order"} -> totals[read]
      [] read = "rssi_min" -> IF rssi.count > 0 THEN rssi.min ELSE 0
      [] read = "rssi_max" -> IF rssi.count > 0 THEN rssi.max ELSE 0
      [] read = "rssi_mean" -> <<rssi.sum, rssi.count>>
      [] read = "histogram" -> SumFunction(rssi.hist)
      [] read = "stream_rx" -> Sum("rx")
      [] read = "stream_missing" -> Sum("gaps")
      [] read = "stream_duplicate" -> Sum("duplicate")
      [] read = "stream_out_of_order" -> Sum("out_of_order")

ReportBegin ==
    /\ at = -1 /\ at' = 0
    /\ report' = NoReport /\ late' = 0
    /\ UNCHANGED <<totals, streams, rssi>>

Reported == at = Len(Reads)

ReportRead ==
    /\ at >= 0 /\ ~Reported /\ at' = at + 1
    /\ report' = [read \in DOMAIN report \cup {Reads[at + 1]} |->
                    IF read = Reads[at + 1] THEN Value(read) ELSE report[read]]
    /\ UNCHANGED <<totals, streams, rssi, late>>

ReportEnd ==
    /\ Reported /\ at' = -1 /\ report' = NoReport
    /\ UNCHANGED <<totals, streams, rssi, late>>

Next ==
    \/ \E s \in Streams, r \in Rssis : metrics_rx(s, r)
    \/ ReportBegin \/ ReportRead \/ ReportEnd

Spec == Init /\ [][Next]_vars
-----------------------------------------------------------------------------
\* A report made while no frame arrives adds up: the totals are the sums of
\* the streams, every frame is in the histogram, whatever its strength, and
\* the mean lies between the extremes.
ReportAddsUp ==
    Reported /\ late = 0 =>
        /\ report["rx_packets"] = report["stream_rx"]
        /\ report["duplicate"] = report["stream_duplicate"]
        /\ report["out_of_order"] = report["stream_out_of_order"]
        /\ report["loss"] = report["stream_missing"]
        /\ report["histogram"] = report["rx_packets"]
        /\ LET mean == report["rssi_mean"] IN
           /\ report["rssi_min"] * mean[2] <= mean[1]
           /\ mean[1] <= report["rssi_max"] * mean[2]

\* Frames that arrive meanwhile are missing from the parts read first and
\* from nothing else: no total exceeds the sum of its streams, and none
\* falls short of it by more than those frames.
SkewBounded ==
    Reported =>
        \A pair \in {<<"rx_packets", "stream_rx">>, <<"duplicate", "stream_duplicate">>,
                     <<"out_of_order", "stream_out_of_order">>, <<"rx_packets", "histogram">>} :
            report[pair[2]] \in report[pair[1]]..(report[pair[1]] + late)

\* Packets less duplicates, which the host takes for the frames that arrived,
\* never exceeds those that did: a late frame cannot hide a loss.
UniqueNotOverstated ==
    Reported => report["rx_packets"] - report["duplicate"] <= totals.rx_packets - totals.duplicate
=============================================================================
