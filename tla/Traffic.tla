------------------------------- MODULE Traffic -------------------------------
(***************************************************************************)
(* generator.c generator_task with a clock: which stream sends when, with  *)
(* which number, and what metrics.c and the host's output.rs make of it.   *)
(* Node has the same loop without time but with all the other tasks.       *)
(***************************************************************************)
EXTENDS Integers, FiniteSets

CONSTANTS
    Configs,       \* the configurations a run may have
    Second,        \* clock ticks in a second, 1000000 in the code
    MaxStreams,    \* HARNESS_MAX_STREAMS
    MaxTime,       \* bound: the clock
    MaxPackets,    \* bound: packets of a class
    MaxEchoes      \* bound: echoes received

ASSUME TrafficAssumption ==
    /\ Second \in Nat \ {0} /\ MaxStreams \in Nat \ {0, 1} /\ MaxTime \in Nat
    /\ MaxPackets \in Nat /\ MaxEchoes \in Nat
    /\ \A c \in Configs :
          /\ c.mode \in {"ping", "stream", "saturation", "latency", "sink"}
          /\ c.streams \in 1..MaxStreams /\ c.duration \in Nat \ {0}
          /\ c.mode \in {"ping", "stream"} => c.rate \in Nat \ {0}
          /\ c.mode = "latency" => c.rate \in Nat \ {0} /\ c.probe_rate \in Nat \ {0}

Streams == 0..(MaxStreams - 1)
Classes == {"packet", "probe", "background"}

VARIABLES
    cfg,          \* g_config; mode "sink" is any role that generates nothing
    now,          \* esp_timer_get_time
    g_state,
    g_metrics,
    gen,          \* generator task: "none", "new", "loop", "wait" or "send"
    start,        \* its start_us
    index,        \* packets of each class scheduled so far
    plan,         \* class, stream and deadline of the packet in hand
    sequences,    \* next number of each stream
    \* History:
    begun,        \* when the start command was executed, 0 before
    stopped,      \* a stop command ended the run
    numbers,      \* per stream, the numbers of the submitted frames
    answered      \* the pings of which an echo came back

taskVars == <<start, index, plan, sequences>>
history  == <<begun, stopped, numbers, answered>>
vars     == <<cfg, now, g_state, g_metrics, gen, taskVars, history>>

\* The node is armed, some time after boot.
Init ==
    /\ cfg \in Configs /\ now = 1 /\ g_state = "ARMED"
    /\ g_metrics = [start_us |-> 0, end_us |-> 0, first_tx_us |-> 0, last_tx_us |-> 0,
                    tx_requested |-> [s \in Streams |-> 0], tx_submitted |-> [s \in Streams |-> 0],
                    total_requested |-> 0,    \* totals.tx_requested
                    total_submitted |-> 0,    \* totals.tx_submitted
                    lateness |-> 0,           \* dispatch_lateness.sample_count
                    rtt |-> 0]                \* rtt.sample_count
    /\ gen = "none" /\ start = 0 /\ index = [c \in Classes |-> 0]
    /\ plan = [class |-> "packet", stream |-> 0, deadline |-> 0]
    /\ sequences = [s \in Streams |-> 0]
    /\ begun = 0 /\ stopped = FALSE /\ numbers = [s \in Streams |-> {}]
    /\ answered = {}

Tick ==
    /\ now < MaxTime /\ now' = now + 1
    /\ UNCHANGED <<cfg, g_state, g_metrics, gen, taskVars, history>>
-----------------------------------------------------------------------------
(* Commands, and the echoes of pings.                                      *)

\* Mutant: start_us is left to the generator, which a sink does not have.
Mut_StartUntimed == g_metrics

StampStart == [g_metrics EXCEPT !.start_us = now]

Start ==
    /\ g_state = "ARMED" /\ g_state' = "RUNNING"
    /\ g_metrics' = StampStart /\ begun' = now
    /\ gen' = IF cfg.mode = "sink" THEN gen ELSE "new"
    /\ UNCHANGED <<cfg, now, taskVars, stopped, numbers, answered>>

Stop ==
    /\ g_state \in {"ARMED", "RUNNING"} /\ g_state' = "FINISHED"
    /\ g_metrics' = [g_metrics EXCEPT !.end_us = now]
    /\ stopped' = TRUE
    /\ UNCHANGED <<cfg, now, gen, taskVars, begun, numbers, answered>>

\* The streams on which the generator sends PACKET_PING.
PingStreams ==
    CASE cfg.mode = "ping" -> Streams
      [] cfg.mode = "latency" -> {MaxStreams - 1}
      [] OTHER -> {}

\* The pings the radio accepted, as stream and number.
Pings == UNION {{s} \X numbers[s] : s \in PingStreams}

\* An echo arrives.  The air may repeat a ping or its echo, and metrics_rx
\* takes a sample of every PACKET_ECHO, the repeated ones too.
Echo ==
    /\ g_metrics.rtt < MaxEchoes
    /\ g_metrics' = [g_metrics EXCEPT !.rtt = @ + 1]
    /\ \E ping \in Pings : answered' = answered \cup {ping}
    /\ UNCHANGED <<cfg, now, g_state, gen, taskVars, begun, stopped, numbers>>
-----------------------------------------------------------------------------
(* generator_task.                                                         *)

GenBegin ==
    /\ gen = "new" /\ gen' = "loop"
    /\ start' = now /\ g_metrics' = [g_metrics EXCEPT !.start_us = now]
    /\ UNCHANGED <<cfg, now, g_state, index, plan, sequences, history>>

Scheduled == cfg.mode # "saturation"

RateOf(class) ==
    CASE class = "packet" -> cfg.rate * cfg.streams
      [] class = "probe" -> cfg.probe_rate
      [] class = "background" -> cfg.rate

\* Mutant: each deadline is a rounded period after the one before.
Mut_Relative(class) == start + index[class] * (Second \div RateOf(class))

\* Absolute deadlines, so that delay and rounding do not accumulate.
Deadline(class) == start + (index[class] * Second) \div RateOf(class)

\* Probes have the last stream to themselves, background the others.
StreamOf(class) ==
    CASE class = "packet" -> index[class] % cfg.streams
      [] class = "probe" -> MaxStreams - 1
      [] class = "background" ->
            index[class] % (IF cfg.streams > MaxStreams - 1 THEN MaxStreams - 1 ELSE cfg.streams)

\* Mutant: probes and background alternate, whatever their rates.
Mut_Alternate ==
    CASE cfg.mode # "latency" -> "packet"
      [] cfg.mode = "latency" /\ index["probe"] <= index["background"] -> "probe"
      [] OTHER -> "background"

\* The class that is due next, a probe before background.
NextClass ==
    CASE cfg.mode # "latency" -> "packet"
      [] cfg.mode = "latency" /\ Deadline("probe") <= Deadline("background") -> "probe"
      [] OTHER -> "background"

Over == g_state # "RUNNING" \/ now >= start + cfg.duration

GenLoop ==
    /\ gen = "loop" /\ ~Over /\ index[NextClass] < MaxPackets
    /\ gen' = "wait"
    /\ plan' = [class |-> NextClass, stream |-> StreamOf(NextClass),
                deadline |-> IF Scheduled THEN Deadline(NextClass) ELSE 0]
    /\ UNCHANGED <<cfg, now, g_state, g_metrics, start, index, sequences, history>>

\* wait_deadline returns; metrics_tx_requested.
GenRequest ==
    /\ gen = "wait" /\ now >= plan.deadline
    /\ gen' = "send"
    /\ g_metrics' = [g_metrics EXCEPT !.total_requested = @ + 1, !.tx_requested[plan.stream] = @ + 1]
    /\ UNCHANGED <<cfg, now, g_state, taskVars, history>>

\* metrics_dispatch_lateness, once the slot is taken or given up.
Samples(outcome) == IF Scheduled THEN 1 ELSE 0

\* Mutant: the number advances whether or not the frame was accepted.
Mut_NumberSpent(outcome) == 1

\* sequences[stream]++ when send_one returns true.
Advance(outcome) == IF outcome = "submitted" THEN 1 ELSE 0

\* index++ whatever became of the packet.
Skip(outcome) == 1

\* The rest of send_one and of the loop's body.
GenSend(outcome) ==
    LET s == plan.stream
        m == [g_metrics EXCEPT !.lateness = @ + Samples(outcome)]
    IN  /\ gen = "send" /\ gen' = "loop"
        /\ \/ /\ outcome = "submitted"
              /\ g_metrics' = [m EXCEPT !.total_submitted = @ + 1, !.tx_submitted[s] = @ + 1,
                                        !.last_tx_us = now,
                                        !.first_tx_us = IF @ = 0 THEN now ELSE @]
              /\ numbers' = [numbers EXCEPT ![s] = @ \cup {sequences[s]}]
           \/ /\ outcome # "submitted"
              /\ g_metrics' = m /\ UNCHANGED numbers
        /\ sequences' = [sequences EXCEPT ![s] = @ + Advance(outcome)]
        /\ index' = [index EXCEPT ![plan.class] = @ + Skip(outcome)]
        /\ UNCHANGED <<cfg, now, g_state, start, plan, begun, stopped, answered>>

GenEnd ==
    /\ gen = "loop" /\ Over
    /\ gen' = "none" /\ g_state' = "FINISHED"
    /\ g_metrics' = IF g_state = "RUNNING" THEN [g_metrics EXCEPT !.end_us = now] ELSE g_metrics
    /\ UNCHANGED <<cfg, now, taskVars, history>>

Next ==
    \/ Tick \/ Start \/ Stop \/ Echo \/ GenBegin \/ GenLoop \/ GenRequest \/ GenEnd
    \/ \E outcome \in {"submitted", "api_failure", "slot_timeout"} : GenSend(outcome)

Spec == Init /\ [][Next]_vars
-----------------------------------------------------------------------------
(* What metrics_json and output::save report.                              *)

Minus(a, b) == IF a > b THEN a - b ELSE 0
elapsed_us == Minus(g_metrics.end_us, g_metrics.start_us)
tx_window_us == Minus(g_metrics.last_tx_us, g_metrics.first_tx_us)

\* Mutant: probes are looked for on the first stream in every mode.
Mut_FirstStream == 0

probe_stream == IF cfg.mode = "latency" THEN MaxStreams - 1 ELSE 0
network_or_echo_probe_loss == Minus(g_metrics.tx_submitted[probe_stream], g_metrics.rtt)
-----------------------------------------------------------------------------
\* The frames the radio accepted carry the numbers 0, 1, 2... on every stream
\* whatever was refused or timed out in between: a gap at the receiver means
\* a frame lost on the air (generator.c sequences).
NumbersContiguous ==
    \A s \in Streams : numbers[s] = 0..(g_metrics.tx_submitted[s] - 1)

ClassesInUse == IF cfg.mode = "latency" THEN {"probe", "background"} ELSE {"packet"}

StreamsOf(class) ==
    CASE class = "packet" -> 0..(cfg.streams - 1)
      [] class = "probe" -> {MaxStreams - 1}
      [] class = "background" -> 0..(cfg.streams - 1) \ {MaxStreams - 1}

\* Streams of a class take turns: no two differ by more than one packet, also
\* when packets fail (generator.c index and background_index).
TakeTurns ==
    \A class \in ClassesInUse : \A s, t \in StreamsOf(class) :
        g_metrics.tx_requested[s] <= g_metrics.tx_requested[t] + 1

\* Packets of a class for which metrics_tx_requested was called.
Requested(class) ==
    CASE class = "packet" -> g_metrics.total_requested
      [] class = "probe" -> g_metrics.tx_requested[MaxStreams - 1]
      [] class = "background" -> g_metrics.total_requested - g_metrics.tx_requested[MaxStreams - 1]

\* No class is ever ahead of its rate, whatever the rounding of its period:
\* of the packets requested so far the last was due by now (generator.c
\* deadline_us).
NeverAhead ==
    Scheduled => \A class \in ClassesInUse :
        Requested(class) > 0 =>
            (Requested(class) - 1) * Second < (now - start + 1) * RateOf(class)

\* Packets are scheduled in the order of their deadlines, so that under load
\* neither probes nor background wait behind packets that are due later
\* (generator.c next_probe_us, next_background_us).
DeadlinesInOrder ==
    [][gen = "loop" /\ gen' = "wait" /\ Scheduled => plan.deadline <= plan'.deadline]_vars

\* Every packet with a deadline has a sample of its lateness, the ones that
\* found no slot or were refused too; saturation has none.
LatenessComplete ==
    gen = "loop" => g_metrics.lateness = IF Scheduled THEN g_metrics.total_requested ELSE 0

\* A packet that was refused or found no slot shifts nothing: not the numbers
\* of the frames after it, not the turns of the streams, not the samples of
\* lateness (generator.c send_one and the two loops).
FailuresShiftNothing == NumbersContiguous /\ TakeTurns /\ LatenessComplete

\* The elapsed time of a run that was started is at most the time since then,
\* and a generator that was not stopped reports its whole run: at least its
\* duration, with every dispatch inside.  (A node stopped while still armed
\* has no start_us and reports the time since boot.)
ElapsedTrue ==
    begun > 0 =>
        /\ elapsed_us <= now - begun
        /\ g_state = "FINISHED" /\ ~stopped =>
              /\ cfg.duration <= elapsed_us
              /\ tx_window_us > 0 => /\ g_metrics.start_us <= g_metrics.first_tx_us
                                    /\ g_metrics.last_tx_us <= g_metrics.end_us

Lost == Cardinality(Pings \ answered)
Repeats == g_metrics.rtt - Cardinality(answered)
OtherStreams == Cardinality(Pings) - g_metrics.tx_submitted[probe_stream]

\* The probe loss of the summary against the pings that really had no echo:
\* it is never too high, however echoes and background traffic interleave, and
\* too low by no more than the repeated echoes, each of which hides a loss,
\* and the pings sent on streams the summary does not look at (output.rs
\* network_or_echo_probe_loss against the samples of metrics_rx).
ProbeLossBounds ==
    cfg.mode \in {"ping", "latency"} =>
        /\ network_or_echo_probe_loss <= Lost
        /\ Lost <= network_or_echo_probe_loss + Repeats + OtherStreams

\* What README.md says of the probe loss: submitted minus completed.  It does
\* not hold of pings on several streams, which scenario and firmware accept:
\* output.rs subtracts the samples of all streams from the pings of the first.
ProbeLossDocumented ==
    cfg.mode = "ping" =>
        network_or_echo_probe_loss = Minus(g_metrics.total_submitted, g_metrics.rtt)
=============================================================================
