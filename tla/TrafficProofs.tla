---------------------------- MODULE TrafficProofs ----------------------------
(***************************************************************************)
(* Proofs about Traffic, for every clock rate, number of streams and set   *)
(* of configurations.  The generator's loop is followed through one        *)
(* invariant per question: Counts (what was requested against index),      *)
(* Turns (which stream's turn it is), Timely (deadlines against the        *)
(* clock), Numbered (numbers against submitted frames), Clocked (the       *)
(* times of the report) and Answered (pings against their echoes).         *)
(***************************************************************************)
EXTENDS Traffic, FiniteSetTheorems, TLAPS

Metrics ==
    [start_us : Nat, end_us : Nat, first_tx_us : Nat, last_tx_us : Nat,
     tx_requested : [Streams -> Nat], tx_submitted : [Streams -> Nat],
     total_requested : Nat, total_submitted : Nat, lateness : Nat, rtt : Nat]

Types ==
    /\ cfg \in Configs /\ now \in Nat \ {0}
    /\ g_state \in {"ARMED", "RUNNING", "FINISHED"}
    /\ gen \in {"none", "new", "loop", "wait", "send"}
    /\ g_metrics \in Metrics
    /\ start \in Nat /\ begun \in Nat /\ stopped \in BOOLEAN
    /\ index \in [Classes -> Nat]
    /\ plan \in [class : Classes, stream : Streams, deadline : Nat]
    /\ sequences \in [Streams -> Nat] /\ numbers \in [Streams -> SUBSET Nat]

\* A run that has not sent yet has counted nothing.
Fresh == g_state = "ARMED" \/ gen = "new" \/ cfg.mode = "sink"

Begins ==
    /\ g_state = "ARMED" \/ cfg.mode = "sink" => gen = "none"
    /\ Fresh => /\ index = [c \in Classes |-> 0]
                /\ g_metrics.total_requested = 0
                /\ g_metrics.tx_requested = [s \in Streams |-> 0]
                /\ g_metrics.first_tx_us = 0 /\ plan.deadline = 0

\* The packet in hand is the one its class has next.
Planned ==
    gen \in {"wait", "send"} =>
        /\ plan.class \in ClassesInUse
        /\ plan.stream = StreamOf(plan.class)
        /\ plan.deadline = IF Scheduled THEN Deadline(plan.class) ELSE 0

InHand(class) == IF gen = "send" /\ plan.class = class THEN 1 ELSE 0
Unsampled == IF gen = "send" THEN 1 ELSE 0

Counts ==
    /\ \A class \in ClassesInUse : Requested(class) = index[class] + InHand(class)
    /\ g_metrics.lateness = IF Scheduled THEN g_metrics.total_requested - Unsampled ELSE 0

\* Streams that share a class, 0..(Fan - 1).
Fan(class) ==
    CASE class = "packet" -> cfg.streams
      [] class = "probe" -> 1
      [] class = "background" ->
            IF cfg.streams > MaxStreams - 1 THEN MaxStreams - 1 ELSE cfg.streams

Turn(class) ==
    \A s \in 0..(Fan(class) - 1) :
        g_metrics.tx_requested[s] =
            (Requested(class) \div Fan(class)) + (IF s < Requested(class) % Fan(class) THEN 1 ELSE 0)

\* After k packets the first k % n of n streams are one packet ahead.
Turns == \A class \in ClassesInUse \ {"probe"} : Turn(class)

Due(class, n) == start + (n * Second) \div RateOf(class)

Timely ==
    Scheduled =>
        /\ gen = "send" => plan.deadline <= now
        /\ \A class \in ClassesInUse :
              /\ Requested(class) > 0 => Due(class, Requested(class) - 1) <= now
              /\ gen \in {"loop", "wait", "send"} => plan.deadline <= Deadline(class)

Numbered ==
    \A s \in Streams :
        /\ sequences[s] = g_metrics.tx_submitted[s]
        /\ numbers[s] = 0..(g_metrics.tx_submitted[s] - 1)

Clocked ==
    /\ start <= now /\ begun <= now
    /\ g_metrics.end_us <= now /\ g_metrics.last_tx_us <= now
    /\ g_state = "ARMED" => begun = 0
    /\ g_state = "RUNNING" \/ gen # "none" => begun > 0
    /\ stopped => g_state = "FINISHED"
    /\ gen # "none" /\ ~stopped => g_state = "RUNNING"
    /\ begun > 0 => begun <= g_metrics.start_us /\ g_metrics.start_us <= now
    /\ gen \in {"loop", "wait", "send"} => start = g_metrics.start_us
    /\ g_metrics.first_tx_us = 0 => g_metrics.last_tx_us = 0
    /\ g_metrics.first_tx_us # 0 => g_metrics.start_us <= g_metrics.first_tx_us
    /\ g_state = "FINISHED" /\ ~stopped =>
          /\ gen = "none"
          /\ g_metrics.start_us + cfg.duration <= g_metrics.end_us
          /\ g_metrics.last_tx_us <= g_metrics.end_us

TrafficInv ==
    Types /\ Begins /\ Planned /\ Counts /\ Turns /\ Timely /\ Numbered /\ Clocked
-----------------------------------------------------------------------------
(* Arithmetic of deadlines and turns.                                      *)

\* A number is its quotient times the divisor plus its remainder.
LEMMA Split == ASSUME NEW a \in Nat, NEW n \in Nat \ {0}
               PROVE  /\ a \div n \in Nat /\ a % n \in 0..(n - 1)
                      /\ a = n * (a \div n) + (a % n)
  OBVIOUS

\* A larger factor makes a product at least one divisor larger.
LEMMA Spread == ASSUME NEW n \in Nat \ {0}, NEW p \in Nat, NEW q \in Nat, p < q
                PROVE  n * p + n <= n * q
<1>1. q - p - 1 \in Nat
  OBVIOUS
<1>2. n * (q - p - 1) >= 0
  BY <1>1
<1> QED
  BY <1>2

\* Quotient and remainder are the only numbers that do.
LEMMA SplitOnce == ASSUME NEW n \in Nat \ {0}, NEW q \in Nat, NEW r \in 0..(n - 1)
                   PROVE  (n * q + r) \div n = q /\ (n * q + r) % n = r
<1> DEFINE a == n * q + r
           p == a \div n
           t == a % n
<1>1. a \in Nat
  OBVIOUS
<1>2. p \in Nat /\ t \in 0..(n - 1) /\ a = n * p + t
  BY <1>1, Split
<1> HIDE DEF p, t
<1>3. ~(p < q)
  BY <1>2, Spread
<1>4. ~(q < p)
  BY <1>2, Spread
<1>5. p = q
  BY <1>2, <1>3, <1>4
<1>6. t = r
  BY <1>2, <1>5
<1> QED
  BY <1>5, <1>6 DEF p, t

\* One packet more moves the turn to the next stream, from the last stream
\* to the first.
LEMMA NextTurn == ASSUME NEW k \in Nat, NEW n \in Nat \ {0}
                  PROVE  IF k % n = n - 1
                         THEN (k + 1) \div n = (k \div n) + 1 /\ (k + 1) % n = 0
                         ELSE (k + 1) \div n = k \div n /\ (k + 1) % n = (k % n) + 1
<1> DEFINE q == k \div n
           r == k % n
<1>1. q \in Nat /\ r \in 0..(n - 1) /\ k = n * q + r
  BY Split
<1> HIDE DEF q, r
<1>2. CASE r = n - 1
  <2>1. k + 1 = n * (q + 1) + 0 /\ q + 1 \in Nat /\ 0 \in 0..(n - 1)
    BY <1>1, <1>2
  <2>2. (n * (q + 1) + 0) \div n = q + 1 /\ (n * (q + 1) + 0) % n = 0
    BY <2>1, SplitOnce
  <2>3. (k + 1) \div n = q + 1 /\ (k + 1) % n = 0
    BY <2>1, <2>2, Zenon
  <2> QED
    BY <1>2, <2>3 DEF q, r
<1>3. CASE r # n - 1
  <2>1. k + 1 = n * q + (r + 1) /\ r + 1 \in 0..(n - 1)
    BY <1>1, <1>3
  <2>2. (n * q + (r + 1)) \div n = q /\ (n * q + (r + 1)) % n = r + 1
    BY <1>1, <2>1, SplitOnce
  <2>3. (k + 1) \div n = q /\ (k + 1) % n = r + 1
    BY <2>1, <2>2, Zenon
  <2> QED
    BY <1>3, <2>3 DEF q, r
<1> QED
  BY <1>2, <1>3

\* A deadline does not move back when its packet's index grows.
LEMMA LaterIndex == ASSUME NEW k \in Nat, NEW rate \in Nat \ {0}
                    PROVE  /\ (k * Second) \div rate \in Nat
                           /\ ((k + 1) * Second) \div rate \in Nat
                           /\ (k * Second) \div rate <= ((k + 1) * Second) \div rate
<1>1. Second \in Nat
  BY TrafficAssumption
<1>2. k * Second \in Nat /\ (k + 1) * Second \in Nat /\ k * Second <= (k + 1) * Second
  BY <1>1
<1> DEFINE a == k * Second
           b == (k + 1) * Second
<1> HIDE DEF a, b
<1>3. a \in Nat /\ b \in Nat /\ a <= b
  BY <1>2 DEF a, b
<1>4. a \div rate \in Nat /\ b \div rate \in Nat /\ a \div rate <= b \div rate
  BY <1>3
<1> QED
  BY <1>4 DEF a, b

\* A deadline that has passed bounds what was requested.
LEMMA DueBound == ASSUME NEW k \in Nat, NEW rate \in Nat \ {0}, NEW t \in Nat,
                         (k * Second) \div rate <= t
                  PROVE  k * Second < (t + 1) * rate
<1> DEFINE a == k * Second
<1>1. a \in Nat
  BY TrafficAssumption
<1>2. a \div rate <= t
  OBVIOUS
<1> HIDE DEF a
<1>3. a < (t + 1) * rate
  BY <1>1, <1>2
<1> QED
  BY <1>3 DEF a
-----------------------------------------------------------------------------
(* Types, and what each step does to the counters.                         *)

\* The constants, the configuration and what is derived from it have the
\* types the arithmetic needs; a scheduled class has a rate (control.c
\* parse_config rejects a rate of zero).
LEMMA ConfigTypes ==
    ASSUME Types
    PROVE  /\ Second \in Nat \ {0} /\ MaxStreams \in Nat \ {0, 1}
           /\ cfg.mode \in {"ping", "stream", "saturation", "latency", "sink"}
           /\ cfg.streams \in 1..MaxStreams /\ cfg.duration \in Nat \ {0}
           /\ MaxStreams - 1 \in Streams /\ 0 \in Streams
           /\ ClassesInUse \subseteq Classes
           /\ \A class \in ClassesInUse :
                 /\ Fan(class) \in 1..MaxStreams
                 /\ 0..(Fan(class) - 1) \subseteq Streams
                 /\ Scheduled /\ cfg.mode # "sink" => RateOf(class) \in Nat \ {0}
<1>1. /\ Second \in Nat \ {0} /\ MaxStreams \in Nat \ {0, 1}
      /\ cfg.mode \in {"ping", "stream", "saturation", "latency", "sink"}
      /\ cfg.streams \in 1..MaxStreams /\ cfg.duration \in Nat \ {0}
      /\ cfg.mode \in {"ping", "stream"} => cfg.rate \in Nat \ {0}
      /\ cfg.mode = "latency" => cfg.rate \in Nat \ {0} /\ cfg.probe_rate \in Nat \ {0}
  BY TrafficAssumption DEF Types
<1>2. MaxStreams - 1 \in Streams /\ 0 \in Streams
  BY <1>1 DEF Streams
<1>3. ClassesInUse \subseteq Classes
  BY DEF ClassesInUse, Classes
<1>4. ASSUME NEW class \in ClassesInUse
      PROVE  /\ Fan(class) \in 1..MaxStreams
             /\ 0..(Fan(class) - 1) \subseteq Streams
             /\ Scheduled /\ cfg.mode # "sink" => RateOf(class) \in Nat \ {0}
  <2>1. CASE class = "packet"
    <3>1. cfg.mode # "latency"
      BY <2>1 DEF ClassesInUse
    <3>2. Scheduled /\ cfg.mode # "sink" => cfg.rate * cfg.streams \in Nat \ {0}
      BY <1>1, <3>1 DEF Scheduled
    <3> QED
      BY <1>1, <2>1, <3>2 DEF Fan, RateOf, Streams
  <2>2. CASE class = "probe"
    <3>1. cfg.mode = "latency"
      BY <2>2 DEF ClassesInUse
    <3> QED
      BY <1>1, <2>2, <3>1 DEF Fan, RateOf, Streams
  <2>3. CASE class = "background"
    <3>1. cfg.mode = "latency"
      BY <2>3 DEF ClassesInUse
    <3> QED
      BY <1>1, <2>3, <3>1 DEF Fan, RateOf, Streams
  <2> QED
    BY <2>1, <2>2, <2>3 DEF ClassesInUse
<1> QED
  BY <1>1, <1>2, <1>3, <1>4

\* The streams of a class, and its next stream, are streams.
LEMMA StreamTypes ==
    ASSUME Types, NEW class \in ClassesInUse
    PROVE  /\ StreamOf(class) \in Streams
           /\ class # "probe" => StreamOf(class) = index[class] % Fan(class)
           /\ class # "probe" => StreamOf(class) \in 0..(Fan(class) - 1)
           /\ class = "probe" => StreamOf(class) = MaxStreams - 1
           /\ class = "background" => StreamOf(class) # MaxStreams - 1
<1>1. /\ MaxStreams \in Nat \ {0, 1} /\ cfg.streams \in 1..MaxStreams
      /\ class \in Classes /\ Fan(class) \in 1..MaxStreams
      /\ MaxStreams - 1 \in Streams /\ 0..(Fan(class) - 1) \subseteq Streams
  BY ConfigTypes
<1>2. index[class] \in Nat
  BY <1>1 DEF Types
<1>3. index[class] % Fan(class) \in 0..(Fan(class) - 1)
  <2>1. Fan(class) \in Nat \ {0}
    BY <1>1
  <2> QED
    BY <1>2, <2>1, Split
<1>4. class # "probe" => StreamOf(class) = index[class] % Fan(class)
  BY <1>1 DEF StreamOf, Fan, Classes
<1>5. class = "probe" => StreamOf(class) = MaxStreams - 1
  BY DEF StreamOf
<1>6. class = "background" => Fan(class) - 1 < MaxStreams - 1
  BY <1>1 DEF Fan
<1> QED
  BY <1>1, <1>3, <1>4, <1>5, <1>6

\* The counters of traffic stay as they are.
CountersKept ==
    /\ g_metrics'.total_requested = g_metrics.total_requested
    /\ g_metrics'.tx_requested = g_metrics.tx_requested
    /\ g_metrics'.total_submitted = g_metrics.total_submitted
    /\ g_metrics'.tx_submitted = g_metrics.tx_submitted
    /\ g_metrics'.lateness = g_metrics.lateness
    /\ g_metrics'.first_tx_us = g_metrics.first_tx_us
    /\ g_metrics'.last_tx_us = g_metrics.last_tx_us

TimesKept ==
    g_metrics'.start_us = g_metrics.start_us /\ g_metrics'.end_us = g_metrics.end_us

\* Start, stop, the echoes and the ends of the task count no traffic.
LEMMA QuietStep ==
    ASSUME Types, \/ Tick \/ Start \/ Stop \/ Echo \/ GenBegin \/ GenLoop \/ GenEnd
                  \/ UNCHANGED vars
    PROVE  g_metrics' \in Metrics /\ CountersKept
<1>1. /\ g_metrics \in Metrics /\ now \in Nat
      /\ g_metrics.rtt \in Nat
  BY DEF Types, Metrics
<1>2. CASE Tick \/ GenLoop \/ UNCHANGED vars
  BY <1>1, <1>2 DEF Tick, GenLoop, vars, CountersKept
<1>3. CASE Start \/ GenBegin
  BY <1>1, <1>3 DEF Start, GenBegin, StampStart, CountersKept, Metrics
<1>4. CASE Stop \/ GenEnd
  BY <1>1, <1>4 DEF Stop, GenEnd, CountersKept, Metrics
<1>5. CASE Echo
  BY <1>1, <1>5 DEF Echo, CountersKept, Metrics
<1> QED
  BY <1>2, <1>3, <1>4, <1>5

\* metrics_tx_requested counts the packet for its stream and in the totals.
LEMMA RequestStep ==
    ASSUME Types, GenRequest
    PROVE  /\ g_metrics' \in Metrics /\ TimesKept
           /\ g_metrics'.total_requested = g_metrics.total_requested + 1
           /\ g_metrics'.tx_requested = [g_metrics.tx_requested EXCEPT ![plan.stream] = @ + 1]
           /\ g_metrics'.total_submitted = g_metrics.total_submitted
           /\ g_metrics'.tx_submitted = g_metrics.tx_submitted
           /\ g_metrics'.lateness = g_metrics.lateness /\ g_metrics'.rtt = g_metrics.rtt
           /\ g_metrics'.first_tx_us = g_metrics.first_tx_us
           /\ g_metrics'.last_tx_us = g_metrics.last_tx_us
<1>1. plan.stream \in Streams /\ g_metrics \in Metrics
  BY DEF Types
<1>2. g_metrics.tx_requested \in [Streams -> Nat] /\ g_metrics.total_requested \in Nat
  BY <1>1 DEF Metrics
<1> DEFINE f == [g_metrics.tx_requested EXCEPT ![plan.stream] = @ + 1]
<1>3. f \in [Streams -> Nat]
  BY <1>1, <1>2
<1>4. g_metrics' = [g_metrics EXCEPT !.total_requested = @ + 1, !.tx_requested = f]
  BY <1>1 DEF GenRequest, Metrics
<1> HIDE DEF f
<1>5. g_metrics' \in Metrics
  <2> DEFINE g == [g_metrics EXCEPT !.total_requested = @ + 1]
  <2>1. g \in Metrics
    BY <1>1, <1>2 DEF Metrics
  <2>2. g_metrics' = [g EXCEPT !.tx_requested = f]
    BY <1>1, <1>4 DEF Metrics
  <2> QED
    BY <1>3, <2>1, <2>2 DEF Metrics
<1>6. /\ TimesKept
      /\ g_metrics'.total_requested = g_metrics.total_requested + 1
      /\ g_metrics'.tx_requested = f
      /\ g_metrics'.total_submitted = g_metrics.total_submitted
      /\ g_metrics'.tx_submitted = g_metrics.tx_submitted
      /\ g_metrics'.lateness = g_metrics.lateness /\ g_metrics'.rtt = g_metrics.rtt
      /\ g_metrics'.first_tx_us = g_metrics.first_tx_us
      /\ g_metrics'.last_tx_us = g_metrics.last_tx_us
  BY <1>1, <1>2, <1>3, <1>4 DEF Metrics, TimesKept
<1> QED
  BY <1>5, <1>6 DEF f

\* The end of send_one samples the lateness and, when the radio accepted the
\* frame, counts it.
LEMMA SendStep ==
    ASSUME Types, NEW outcome \in {"submitted", "api_failure", "slot_timeout"}, GenSend(outcome)
    PROVE  /\ g_metrics' \in Metrics /\ TimesKept
           /\ g_metrics'.total_requested = g_metrics.total_requested
           /\ g_metrics'.tx_requested = g_metrics.tx_requested
           /\ g_metrics'.lateness = g_metrics.lateness + (IF Scheduled THEN 1 ELSE 0)
           /\ g_metrics'.rtt = g_metrics.rtt
           /\ outcome = "submitted" =>
                 /\ g_metrics'.total_submitted = g_metrics.total_submitted + 1
                 /\ g_metrics'.tx_submitted = [g_metrics.tx_submitted EXCEPT ![plan.stream] = @ + 1]
                 /\ g_metrics'.last_tx_us = now
                 /\ g_metrics'.first_tx_us =
                       IF g_metrics.first_tx_us = 0 THEN now ELSE g_metrics.first_tx_us
           /\ outcome # "submitted" =>
                 /\ g_metrics'.total_submitted = g_metrics.total_submitted
                 /\ g_metrics'.tx_submitted = g_metrics.tx_submitted
                 /\ g_metrics'.last_tx_us = g_metrics.last_tx_us
                 /\ g_metrics'.first_tx_us = g_metrics.first_tx_us
<1> DEFINE m == [g_metrics EXCEPT !.lateness = @ + Samples(outcome)]
<1>1. now \in Nat /\ plan.stream \in Streams /\ g_metrics \in Metrics
  BY DEF Types
<1>2. Samples(outcome) \in Nat /\ Samples(outcome) = IF Scheduled THEN 1 ELSE 0
  BY DEF Samples
<1>3. /\ m \in Metrics /\ m.lateness = g_metrics.lateness + Samples(outcome)
      /\ m.start_us = g_metrics.start_us /\ m.end_us = g_metrics.end_us
      /\ m.total_requested = g_metrics.total_requested
      /\ m.tx_requested = g_metrics.tx_requested /\ m.rtt = g_metrics.rtt
      /\ m.total_submitted = g_metrics.total_submitted
      /\ m.tx_submitted = g_metrics.tx_submitted
      /\ m.last_tx_us = g_metrics.last_tx_us /\ m.first_tx_us = g_metrics.first_tx_us
  BY <1>1, <1>2 DEF Metrics
<1>4. outcome # "submitted" => g_metrics' = m
  BY DEF GenSend
<1>5. outcome = "submitted" =>
         g_metrics' = [m EXCEPT !.total_submitted = @ + 1, !.tx_submitted[plan.stream] = @ + 1,
                                !.last_tx_us = now,
                                !.first_tx_us = IF @ = 0 THEN now ELSE @]
  BY DEF GenSend
<1> HIDE DEF m
<1>6. CASE outcome # "submitted"
  BY <1>2, <1>3, <1>4, <1>6 DEF TimesKept
<1>7. CASE outcome = "submitted"
  <2> DEFINE f == [g_metrics.tx_submitted EXCEPT ![plan.stream] = @ + 1]
             t == IF g_metrics.first_tx_us = 0 THEN now ELSE g_metrics.first_tx_us
  <2>1. f \in [Streams -> Nat] /\ t \in Nat
    BY <1>1 DEF Metrics
  <2>2. g_metrics' = [m EXCEPT !.total_submitted = @ + 1, !.tx_submitted = f,
                               !.last_tx_us = now, !.first_tx_us = t]
    BY <1>1, <1>3, <1>5, <1>7 DEF Metrics
  <2> HIDE DEF f, t
  <2>3. g_metrics' \in Metrics
    <3> DEFINE g == [m EXCEPT !.total_submitted = @ + 1]
               h == [g EXCEPT !.tx_submitted = f]
               j == [h EXCEPT !.last_tx_us = now]
    <3>1. g \in Metrics
      BY <1>3 DEF Metrics
    <3>2. h \in Metrics
      BY <2>1, <3>1 DEF Metrics
    <3>3. j \in Metrics
      BY <1>1, <3>2 DEF Metrics
    <3>4. g_metrics' = [j EXCEPT !.first_tx_us = t]
      BY <1>3, <2>2 DEF Metrics
    <3> QED
      BY <2>1, <3>3, <3>4 DEF Metrics
  <2>4. /\ TimesKept
        /\ g_metrics'.total_requested = g_metrics.total_requested
        /\ g_metrics'.tx_requested = g_metrics.tx_requested
        /\ g_metrics'.lateness = g_metrics.lateness + Samples(outcome)
        /\ g_metrics'.rtt = g_metrics.rtt
        /\ g_metrics'.total_submitted = g_metrics.total_submitted + 1
        /\ g_metrics'.tx_submitted = f
        /\ g_metrics'.last_tx_us = now /\ g_metrics'.first_tx_us = t
    BY <1>1, <1>2, <1>3, <2>1, <2>2 DEF Metrics, TimesKept
  <2> QED
    BY <1>2, <1>7, <2>3, <2>4 DEF f, t
<1> QED
  BY <1>6, <1>7

\* A deadline, and the class NextClass picks, have their types.
LEMMA PlanTypes ==
    ASSUME Types, cfg.mode # "sink"
    PROVE  /\ NextClass \in ClassesInUse
           /\ Scheduled => \A class \in ClassesInUse :
                 Deadline(class) \in Nat /\ Deadline(NextClass) <= Deadline(class)
<1>1. NextClass \in ClassesInUse
  BY DEF NextClass, ClassesInUse
<1>2. ASSUME Scheduled, NEW class \in ClassesInUse
      PROVE  Deadline(class) \in Nat
  <2>1. index[class] \in Nat /\ RateOf(class) \in Nat \ {0} /\ start \in Nat
    BY <1>2, ConfigTypes DEF Types
  <2>2. (index[class] * Second) \div RateOf(class) \in Nat
    BY <2>1, LaterIndex
  <2> QED
    BY <2>1, <2>2 DEF Deadline
<1>3. ASSUME Scheduled, NEW class \in ClassesInUse
      PROVE  Deadline(NextClass) <= Deadline(class)
  <2>1. \A c \in ClassesInUse : Deadline(c) \in Nat
    BY <1>2, <1>3
  <2>2. CASE cfg.mode # "latency"
    BY <1>1, <2>1, <2>2 DEF ClassesInUse
  <2>3. CASE cfg.mode = "latency"
    <3>1. Deadline("probe") \in Nat /\ Deadline("background") \in Nat
      BY <2>1, <2>3 DEF ClassesInUse
    <3> QED
      BY <2>3, <3>1 DEF NextClass, ClassesInUse
  <2> QED
    BY <2>2, <2>3
<1> QED
  BY <1>1, <1>2, <1>3

\* The states of the initial condition satisfy every part of the invariant.
LEMMA TrafficInit == Init => TrafficInv
<1> SUFFICES ASSUME Init PROVE TrafficInv
  OBVIOUS
<1>1. Types
  <2>1. 0 \in Streams
    BY TrafficAssumption DEF Streams
  <2>2. g_metrics \in Metrics
    BY DEF Init, Metrics
  <2>3. plan \in [class : Classes, stream : Streams, deadline : Nat]
    BY <2>1 DEF Init, Classes
  <2>4. cfg \in Configs /\ g_state = "ARMED" /\ gen = "none" /\ stopped \in BOOLEAN
    BY DEF Init
  <2>5. /\ now \in Nat \ {0} /\ start \in Nat /\ begun \in Nat /\ index \in [Classes -> Nat]
        /\ sequences \in [Streams -> Nat] /\ numbers \in [Streams -> SUBSET Nat]
    BY DEF Init
  <2> QED
    BY <2>2, <2>3, <2>4, <2>5 DEF Types
<1>2. /\ gen = "none" /\ g_state = "ARMED" /\ now = 1 /\ start = 0 /\ begun = 0
      /\ stopped = FALSE /\ index = [c \in Classes |-> 0]
      /\ plan = [class |-> "packet", stream |-> 0, deadline |-> 0]
      /\ sequences = [s \in Streams |-> 0] /\ numbers = [s \in Streams |-> {}]
      /\ g_metrics.start_us = 0 /\ g_metrics.end_us = 0
      /\ g_metrics.first_tx_us = 0 /\ g_metrics.last_tx_us = 0
      /\ g_metrics.tx_requested = [s \in Streams |-> 0]
      /\ g_metrics.tx_submitted = [s \in Streams |-> 0]
      /\ g_metrics.total_requested = 0 /\ g_metrics.total_submitted = 0
      /\ g_metrics.lateness = 0 /\ g_metrics.rtt = 0
  BY DEF Init
<1>3. \A class \in ClassesInUse : class \in Classes /\ Requested(class) = 0 /\ index[class] = 0
  BY <1>1, <1>2, ConfigTypes DEF Requested, Classes
<1>4. Begins /\ Planned /\ Counts
  BY <1>2, <1>3 DEF Begins, Planned, Counts, InHand, Unsampled
<1>5. Turns
  <2> SUFFICES ASSUME NEW class \in ClassesInUse, NEW s \in 0..(Fan(class) - 1)
               PROVE  g_metrics.tx_requested[s] =
                        (Requested(class) \div Fan(class)) +
                        (IF s < Requested(class) % Fan(class) THEN 1 ELSE 0)
    BY DEF Turns, Turn
  <2>1. Fan(class) \in Nat \ {0} /\ s \in Streams /\ s \in Nat
    BY <1>1, ConfigTypes
  <2>2. 0 \div Fan(class) = 0 /\ 0 % Fan(class) = 0
    BY <2>1
  <2>3. g_metrics.tx_requested[s] = 0 /\ Requested(class) = 0
    BY <1>2, <1>3, <2>1
  <2> QED
    BY <2>1, <2>2, <2>3
<1>6. Timely /\ Numbered
  BY <1>2, <1>3 DEF Timely, Numbered
<1>7. Clocked
  BY <1>1, <1>2, ConfigTypes DEF Clocked
<1> QED
  BY <1>1, <1>4, <1>5, <1>6, <1>7 DEF TrafficInv

\* Every step keeps the types.
LEMMA TypesStep == TrafficInv /\ [Next]_vars => Types'
<1> SUFFICES ASSUME TrafficInv, [Next]_vars PROVE Types'
  OBVIOUS
<1>0. Types /\ Begins
  BY DEF TrafficInv
<1>1. CASE Tick \/ Echo \/ UNCHANGED vars
  <2>1. g_metrics' \in Metrics
    BY <1>0, <1>1, QuietStep
  <2> QED
    BY <1>0, <1>1, <2>1 DEF Types, Tick, Echo, vars, taskVars, history
<1>2. CASE Start \/ Stop \/ GenBegin \/ GenEnd
  <2>1. g_metrics' \in Metrics
    BY <1>0, <1>2, QuietStep
  <2> QED
    BY <1>0, <1>2, <2>1 DEF Types, Start, Stop, GenBegin, GenEnd, taskVars, history
<1>3. CASE GenLoop
  <2>1. cfg.mode # "sink"
    BY <1>0, <1>3 DEF Begins, GenLoop
  <2>2. /\ NextClass \in ClassesInUse /\ NextClass \in Classes
        /\ StreamOf(NextClass) \in Streams
        /\ Scheduled => Deadline(NextClass) \in Nat
    BY <1>0, <2>1, PlanTypes, ConfigTypes, StreamTypes
  <2>3. plan' \in [class : Classes, stream : Streams, deadline : Nat]
    BY <1>3, <2>2 DEF GenLoop
  <2> QED
    BY <1>0, <1>3, <2>3 DEF Types, GenLoop, history
<1>4. CASE GenRequest
  <2>1. g_metrics' \in Metrics
    BY <1>0, <1>4, RequestStep
  <2> QED
    BY <1>0, <1>4, <2>1 DEF Types, GenRequest, taskVars, history
<1>5. ASSUME NEW outcome \in {"submitted", "api_failure", "slot_timeout"}, GenSend(outcome)
      PROVE  Types'
  <2>1. g_metrics' \in Metrics
    BY <1>0, <1>5, SendStep
  <2>2. /\ sequences' \in [Streams -> Nat] /\ index' \in [Classes -> Nat]
    BY <1>0, <1>5 DEF Types, GenSend, Advance, Skip
  <2>3. numbers' \in [Streams -> SUBSET Nat]
    BY <1>0, <1>5 DEF Types, GenSend
  <2> QED
    BY <1>0, <1>5, <2>1, <2>2, <2>3 DEF Types, GenSend
<1> QED
  BY <1>1, <1>2, <1>3, <1>4, <1>5 DEF Next

\* Configuration and schedule stay what they are during a run.
LEMMA ConfigKept ==
    ASSUME [Next]_vars
    PROVE  /\ cfg' = cfg /\ ClassesInUse' = ClassesInUse /\ Scheduled' = Scheduled
           /\ \A class \in Classes : Fan(class)' = Fan(class) /\ RateOf(class)' = RateOf(class)
<1>1. cfg' = cfg
  BY DEF Next, Tick, Start, Stop, Echo, GenBegin, GenLoop, GenRequest, GenSend, GenEnd, vars
<1> QED
  BY <1>1 DEF ClassesInUse, Scheduled, Fan, RateOf

\* What was requested does not change where the counters do not.
LEMMA RequestedKept ==
    ASSUME cfg' = cfg, g_metrics'.total_requested = g_metrics.total_requested,
           g_metrics'.tx_requested = g_metrics.tx_requested
    PROVE  \A class \in Classes : Requested(class)' = Requested(class)
  BY DEF Requested

\* A request counts for the class of the packet in hand and for no other,
\* because probes and background share no stream.
LEMMA RequestedStep ==
    ASSUME TrafficInv, GenRequest
    PROVE  \A class \in ClassesInUse :
              Requested(class)' = Requested(class) + (IF class = plan.class THEN 1 ELSE 0)
<1>0. Types /\ Planned /\ gen = "wait"
  BY DEF TrafficInv, GenRequest
<1>1. plan.class \in ClassesInUse /\ plan.stream = StreamOf(plan.class)
  BY <1>0 DEF Planned
<1>2. /\ g_metrics'.total_requested = g_metrics.total_requested + 1
      /\ g_metrics'.tx_requested = [g_metrics.tx_requested EXCEPT ![plan.stream] = @ + 1]
  BY <1>0, RequestStep
<1>3. /\ g_metrics.total_requested \in Nat /\ g_metrics.tx_requested \in [Streams -> Nat]
      /\ MaxStreams - 1 \in Streams
  BY <1>0, ConfigTypes DEF Types, Metrics
<1>4. /\ plan.class = "probe" => plan.stream = MaxStreams - 1
      /\ plan.class = "background" => plan.stream # MaxStreams - 1
  BY <1>0, <1>1, StreamTypes
<1>5. CASE cfg.mode = "latency"
  <2>1. ClassesInUse = {"probe", "background"}
    BY <1>5 DEF ClassesInUse
  <2>2. g_metrics.tx_requested[MaxStreams - 1] \in Nat
    BY <1>3
  <2>3. g_metrics'.tx_requested[MaxStreams - 1] =
           g_metrics.tx_requested[MaxStreams - 1] + (IF plan.class = "probe" THEN 1 ELSE 0)
    BY <1>1, <1>2, <1>3, <1>4, <2>1
  <2> QED
    BY <1>1, <1>2, <1>3, <2>1, <2>2, <2>3 DEF Requested
<1>6. CASE cfg.mode # "latency"
  <2>1. ClassesInUse = {"packet"}
    BY <1>6 DEF ClassesInUse
  <2> QED
    BY <1>1, <1>2, <2>1 DEF Requested
<1> QED
  BY <1>5, <1>6

\* No step disturbs what holds before the first packet.
LEMMA BeginsStep == TrafficInv /\ [Next]_vars => Begins'
<1> SUFFICES ASSUME TrafficInv, [Next]_vars PROVE Begins'
  OBVIOUS
<1>0. Types /\ Begins /\ cfg' = cfg
  BY ConfigKept DEF TrafficInv
<1>1. CASE Tick \/ Start \/ Stop \/ Echo \/ GenBegin \/ GenEnd \/ UNCHANGED vars
  <2>1. /\ g_metrics'.total_requested = g_metrics.total_requested
        /\ g_metrics'.tx_requested = g_metrics.tx_requested
        /\ g_metrics'.first_tx_us = g_metrics.first_tx_us
    BY <1>0, <1>1, QuietStep DEF CountersKept
  <2>2. index' = index /\ plan' = plan
    BY <1>1 DEF Tick, Start, Stop, Echo, GenBegin, GenEnd, vars, taskVars
  <2>3. Fresh' => Fresh
    BY <1>0, <1>1 DEF Fresh, Begins, Tick, Start, Stop, Echo, GenBegin, GenEnd, vars
  <2>4. (g_state = "ARMED" \/ cfg.mode = "sink" => gen = "none")'
    BY <1>0, <1>1 DEF Begins, Tick, Start, Stop, Echo, GenBegin, GenEnd, vars
  <2> QED
    BY <1>0, <2>1, <2>2, <2>3, <2>4 DEF Begins
<1>2. CASE GenLoop \/ GenRequest \/ \E outcome \in {"submitted", "api_failure", "slot_timeout"} :
                                        GenSend(outcome)
  <2>1. gen # "none" /\ gen' # "new" /\ g_state' = g_state
    BY <1>2 DEF GenLoop, GenRequest, GenSend
  <2>2. ~Fresh'
    BY <1>0, <2>1 DEF Fresh, Begins
  <2> QED
    BY <2>2 DEF Begins, Fresh
<1> QED
  BY <1>1, <1>2 DEF Next

\* The packet in hand stays the one its class has next until it is sent.
LEMMA PlannedStep == TrafficInv /\ [Next]_vars => Planned'
<1> SUFFICES ASSUME TrafficInv, [Next]_vars, gen' \in {"wait", "send"}
             PROVE  (/\ plan.class \in ClassesInUse
                     /\ plan.stream = StreamOf(plan.class)
                     /\ plan.deadline = IF Scheduled THEN Deadline(plan.class) ELSE 0)'
  BY DEF Planned
<1>0. Types /\ Begins /\ Planned /\ cfg' = cfg
  BY ConfigKept DEF TrafficInv
<1>1. CASE GenLoop
  <2>1. cfg.mode # "sink"
    BY <1>0, <1>1 DEF Begins, GenLoop
  <2>2. NextClass \in ClassesInUse
    BY <1>0, <2>1, PlanTypes
  <2>3. /\ plan'.class = NextClass /\ plan'.stream = StreamOf(NextClass)
        /\ plan'.deadline = (IF Scheduled THEN Deadline(NextClass) ELSE 0)
        /\ start' = start /\ index' = index
    BY <1>1 DEF GenLoop
  <2> QED
    BY <1>0, <2>2, <2>3 DEF ClassesInUse, Scheduled, StreamOf, Deadline, RateOf
<1>2. CASE ~GenLoop
  <2>1. /\ gen \in {"wait", "send"} /\ plan' = plan /\ start' = start /\ index' = index
    BY <1>0, <1>2 DEF Begins, Next, Tick, Start, Stop, Echo, GenBegin, GenRequest, GenSend,
                      GenEnd, vars, taskVars
  <2> QED
    BY <1>0, <2>1 DEF Planned, ClassesInUse, Scheduled, StreamOf, Deadline, RateOf
<1> QED
  BY <1>1, <1>2

\* A packet is counted when it is requested and indexed when it is done with.
LEMMA CountsStep == TrafficInv /\ [Next]_vars => Counts'
<1> SUFFICES ASSUME TrafficInv, [Next]_vars PROVE Counts'
  OBVIOUS
<1>0. Types /\ Begins /\ Planned /\ Counts
  BY DEF TrafficInv
<1>1. /\ cfg' = cfg /\ ClassesInUse' = ClassesInUse /\ Scheduled' = Scheduled
      /\ ClassesInUse \subseteq Classes
  BY <1>0, ConfigKept, ConfigTypes
<1>2. /\ index \in [Classes -> Nat] /\ g_metrics.lateness \in Nat
      /\ g_metrics.total_requested \in Nat
  BY <1>0 DEF Types, Metrics
<1>3. CASE \/ Tick \/ Start \/ Stop \/ Echo \/ GenBegin \/ GenLoop \/ GenEnd \/ UNCHANGED vars
  <2>1. CountersKept
    BY <1>0, <1>3, QuietStep
  <2>2. index' = index /\ (gen' = "send" <=> gen = "send") /\ (gen = "send" => plan' = plan)
    BY <1>0, <1>3 DEF Begins, Tick, Start, Stop, Echo, GenBegin, GenLoop, GenEnd, vars, taskVars
  <2>3. \A class \in ClassesInUse : Requested(class)' = Requested(class)
    BY <1>1, <2>1, RequestedKept DEF CountersKept
  <2> QED
    BY <1>0, <1>1, <2>1, <2>2, <2>3 DEF Counts, InHand, Unsampled, CountersKept
<1>4. CASE GenRequest
  <2>1. gen = "wait" /\ gen' = "send" /\ index' = index /\ plan' = plan
    BY <1>4 DEF GenRequest, taskVars
  <2>2. \A class \in ClassesInUse :
           Requested(class)' = Requested(class) + (IF class = plan.class THEN 1 ELSE 0)
    BY <1>4, RequestedStep
  <2>3. /\ g_metrics'.lateness = g_metrics.lateness
        /\ g_metrics'.total_requested = g_metrics.total_requested + 1
    BY <1>0, <1>4, RequestStep
  <2>4. ASSUME NEW class \in ClassesInUse
        PROVE  Requested(class)' = index'[class] + InHand(class)'
    <3>1. Requested(class) = index[class] /\ index[class] \in Nat
      BY <1>0, <1>1, <1>2, <2>1 DEF Counts, InHand
    <3> QED
      BY <2>1, <2>2, <3>1 DEF InHand
  <2> QED
    BY <1>0, <1>1, <1>2, <2>1, <2>3, <2>4 DEF Counts, Unsampled
<1>5. ASSUME NEW outcome \in {"submitted", "api_failure", "slot_timeout"}, GenSend(outcome)
      PROVE  Counts'
  <2>1. /\ gen = "send" /\ gen' = "loop"
        /\ index' = [index EXCEPT ![plan.class] = @ + 1]
    BY <1>5 DEF GenSend, Skip
  <2>2. /\ g_metrics'.lateness = g_metrics.lateness + (IF Scheduled THEN 1 ELSE 0)
        /\ g_metrics'.total_requested = g_metrics.total_requested
        /\ g_metrics'.tx_requested = g_metrics.tx_requested
    BY <1>0, <1>5, SendStep
  <2>3. \A class \in ClassesInUse : Requested(class)' = Requested(class)
    BY <1>1, <2>2, RequestedKept
  <2>4. ASSUME NEW class \in ClassesInUse
        PROVE  Requested(class)' = index'[class] + InHand(class)'
    <3>1. Requested(class) = index[class] + InHand(class) /\ index[class] \in Nat
      BY <1>0, <1>1, <1>2 DEF Counts
    <3>2. index'[class] = index[class] + InHand(class)
      BY <1>1, <1>2, <2>1 DEF InHand
    <3>3. InHand(class)' = 0
      BY <2>1 DEF InHand
    <3> QED
      BY <2>3, <3>1, <3>2, <3>3 DEF InHand
  <2> QED
    BY <1>0, <1>1, <1>2, <2>1, <2>2, <2>4 DEF Counts, Unsampled
<1> QED
  BY <1>3, <1>4, <1>5 DEF Next

\* A request is counted for the stream whose turn it is.
LEMMA TurnsStep == TrafficInv /\ [Next]_vars => Turns'
<1> SUFFICES ASSUME TrafficInv, [Next]_vars PROVE Turns'
  OBVIOUS
<1>0. Types /\ Planned /\ Counts /\ Turns
  BY DEF TrafficInv
<1>1. /\ cfg' = cfg /\ ClassesInUse' = ClassesInUse /\ ClassesInUse \subseteq Classes
      /\ \A class \in ClassesInUse : Fan(class)' = Fan(class)
  BY <1>0, ConfigKept, ConfigTypes
<1>2. CASE ~GenRequest
  <2>1. /\ g_metrics'.total_requested = g_metrics.total_requested
        /\ g_metrics'.tx_requested = g_metrics.tx_requested
    BY <1>0, <1>2, QuietStep, SendStep DEF Next, CountersKept
  <2>2. \A class \in ClassesInUse : Requested(class)' = Requested(class)
    BY <1>1, <2>1, RequestedKept
  <2> QED
    BY <1>0, <1>1, <2>1, <2>2 DEF Turns, Turn
<1>3. CASE GenRequest
  <2> SUFFICES ASSUME NEW class \in ClassesInUse, class # "probe",
                      NEW s \in 0..(Fan(class) - 1)
               PROVE  g_metrics'.tx_requested[s] =
                         (Requested(class)' \div Fan(class)) +
                         (IF s < Requested(class)' % Fan(class) THEN 1 ELSE 0)
    BY <1>1 DEF Turns, Turn
  <2> DEFINE n == Fan(class)
             k == Requested(class)
  <2>1. n \in Nat \ {0} /\ s \in Nat /\ s \in Streams
    BY <1>0, ConfigTypes
  <2>2. gen = "wait" /\ plan.class \in ClassesInUse /\ plan.stream = StreamOf(plan.class)
    BY <1>0, <1>3 DEF GenRequest, Planned
  <2>3. k \in Nat /\ k = index[class]
    BY <1>0, <1>1, <2>2 DEF Counts, InHand, Types
  <2>4. g_metrics.tx_requested[s] = (k \div n) + (IF s < k % n THEN 1 ELSE 0)
    BY <1>0 DEF Turns, Turn
  <2>5. /\ g_metrics'.tx_requested = [g_metrics.tx_requested EXCEPT ![plan.stream] = @ + 1]
        /\ g_metrics.tx_requested \in [Streams -> Nat]
    BY <1>0, <1>3, RequestStep DEF Types, Metrics
  <2>6. Requested(class)' = k + (IF class = plan.class THEN 1 ELSE 0)
    BY <1>3, RequestedStep
  <2>7. k \div n \in Nat /\ k % n \in 0..(n - 1)
    BY <2>1, <2>3, Split
  <2>8. CASE class = plan.class
    <3>1. plan.stream = k % n
      BY <1>0, <2>2, <2>3, <2>8, StreamTypes
    <3>2. /\ k % n = n - 1 => (k + 1) \div n = (k \div n) + 1 /\ (k + 1) % n = 0
          /\ k % n # n - 1 => (k + 1) \div n = k \div n /\ (k + 1) % n = (k % n) + 1
      BY <2>1, <2>3, NextTurn
    <3>3. Requested(class)' = k + 1
      BY <2>6, <2>8
    <3>4. g_metrics'.tx_requested[s] =
             g_metrics.tx_requested[s] + (IF s = plan.stream THEN 1 ELSE 0)
      BY <2>1, <2>5
    <3> HIDE DEF k, n
    <3>5. g_metrics'.tx_requested[s] = ((k + 1) \div n) + (IF s < (k + 1) % n THEN 1 ELSE 0)
      <4> DEFINE q == k \div n
                 t == k % n
                 f == g_metrics'.tx_requested[s]
                 q1 == (k + 1) \div n
                 t1 == (k + 1) % n
      <4>1. /\ f = q + (IF s < t THEN 1 ELSE 0) + (IF s = t THEN 1 ELSE 0)
            /\ q \in Nat /\ t \in 0..(n - 1) /\ s \in 0..(n - 1) /\ n \in Nat \ {0}
            /\ t = n - 1 => q1 = q + 1 /\ t1 = 0
            /\ t # n - 1 => q1 = q /\ t1 = t + 1
        BY <2>1, <2>4, <2>7, <3>1, <3>2, <3>4 DEF n
      <4> HIDE DEF q, t, f, q1, t1
      <4>2. f = q1 + (IF s < t1 THEN 1 ELSE 0)
        BY <4>1
      <4> QED
        BY <4>2 DEF f, q1, t1
    <3> QED
      BY <3>3, <3>5 DEF n
  <2>9. CASE class # plan.class
    <3>1. class = "background" /\ plan.class = "probe"
      BY <2>2, <2>9 DEF ClassesInUse
    <3>2. s # plan.stream
      <4>1. plan.stream = MaxStreams - 1
        BY <1>0, <2>2, <3>1, StreamTypes
      <4>2. n <= MaxStreams - 1 /\ MaxStreams \in Nat
        BY <1>0, <3>1, ConfigTypes DEF Fan
      <4> QED
        BY <2>1, <4>1, <4>2
    <3>3. g_metrics'.tx_requested[s] = g_metrics.tx_requested[s]
      BY <2>1, <2>5, <3>2
    <3>4. Requested(class)' = k
      BY <2>3, <2>6, <2>9
    <3> QED
      BY <2>4, <3>3, <3>4
  <2> QED
    BY <2>8, <2>9
<1> QED
  BY <1>2, <1>3

\* Deadlines are kept in order, and no packet is requested before its own.
LEMMA TimelyStep == TrafficInv /\ [Next]_vars => Timely'
<1> SUFFICES ASSUME TrafficInv, [Next]_vars, Scheduled
             PROVE  /\ gen' = "send" => plan'.deadline <= now'
                    /\ \A class \in ClassesInUse :
                          /\ Requested(class)' > 0 => Due(class, Requested(class) - 1)' <= now'
                          /\ gen' \in {"loop", "wait", "send"} => plan'.deadline <= Deadline(class)'
  BY ConfigKept DEF Timely
<1>0. Types /\ Begins /\ Planned /\ Counts /\ Timely
  BY DEF TrafficInv
<1>1. /\ cfg' = cfg /\ ClassesInUse \subseteq Classes
      /\ \A class \in ClassesInUse : RateOf(class)' = RateOf(class)
  BY <1>0, ConfigKept, ConfigTypes
<1>2. now \in Nat /\ start \in Nat /\ plan.deadline \in Nat /\ index \in [Classes -> Nat]
  BY <1>0 DEF Types
<1>3. CASE Tick \/ Stop \/ Echo \/ Start \/ GenEnd \/ UNCHANGED vars
  <2>1. /\ now' \in Nat /\ now <= now' /\ start' = start /\ index' = index /\ plan' = plan
    BY <1>2, <1>3 DEF Tick, Stop, Echo, Start, GenEnd, vars, taskVars
  <2>2. \A class \in ClassesInUse : Requested(class)' = Requested(class)
    BY <1>0, <1>1, <1>3, QuietStep, RequestedKept DEF CountersKept
  <2>3. gen' \in {"loop", "wait", "send"} => gen' = gen
    BY <1>0, <1>3 DEF Begins, Tick, Stop, Echo, Start, GenEnd, vars
  <2>4. ASSUME NEW class \in ClassesInUse
        PROVE  /\ Requested(class)' > 0 => Due(class, Requested(class) - 1)' <= now'
               /\ gen' \in {"loop", "wait", "send"} => plan'.deadline <= Deadline(class)'
    <3>1. Deadline(class)' = Deadline(class)
      BY <1>1, <2>1 DEF Deadline
    <3>2. Due(class, Requested(class) - 1)' = Due(class, Requested(class) - 1)
      BY <1>1, <2>1, <2>2 DEF Due
    <3>3. ASSUME Requested(class) > 0 PROVE Due(class, Requested(class) - 1) \in Nat
      <4>1. Requested(class) - 1 \in Nat /\ cfg.mode # "sink"
        <5>1. index[class] \in Nat /\ Requested(class) = index[class] + InHand(class)
          BY <1>0, <1>1, <1>2 DEF Counts
        <5>2. InHand(class) \in {0, 1} /\ (cfg.mode = "sink" => InHand(class) = 0 /\ index[class] = 0)
          BY <1>0, <1>1 DEF InHand, Begins, Fresh
        <5> QED
          BY <3>3, <5>1, <5>2
      <4>2. RateOf(class) \in Nat \ {0}
        BY <1>0, <4>1, ConfigTypes
      <4>3. ((Requested(class) - 1) * Second) \div RateOf(class) \in Nat
        BY <4>1, <4>2, LaterIndex
      <4> QED
        BY <1>2, <4>3 DEF Due
    <3>4. Requested(class) > 0 => Due(class, Requested(class) - 1) <= now
      BY <1>0 DEF Timely
    <3>5. gen \in {"loop", "wait", "send"} => plan.deadline <= Deadline(class)
      BY <1>0 DEF Timely
    <3>6. Requested(class)' > 0 => Due(class, Requested(class) - 1)' <= now'
      BY <1>2, <2>1, <2>2, <3>2, <3>3, <3>4
    <3> QED
      BY <2>1, <2>3, <3>1, <3>5, <3>6
  <2>5. gen' = "send" => plan'.deadline <= now'
    BY <1>0, <1>2, <2>1, <2>3 DEF Timely
  <2> QED
    BY <2>4, <2>5
<1>4. CASE GenBegin
  <2>1. /\ gen = "new" /\ gen' = "loop" /\ start' = now /\ index' = index /\ plan' = plan
    BY <1>4 DEF GenBegin
  <2>2. Fresh
    BY <2>1 DEF Fresh
  <2>3. plan.deadline = 0 /\ cfg.mode # "sink"
    BY <1>0, <2>1, <2>2 DEF Begins
  <2>4. ASSUME NEW class \in ClassesInUse
        PROVE  Requested(class)' = 0 /\ Deadline(class)' \in Nat
    <3>1. Requested(class) = 0
      <4>1. index[class] = 0
        BY <1>0, <1>1, <2>2 DEF Begins
      <4> QED
        BY <1>0, <2>1, <4>1 DEF Counts, InHand
    <3>2. Requested(class)' = Requested(class)
      BY <1>0, <1>1, <1>4, QuietStep, RequestedKept DEF CountersKept
    <3>3. RateOf(class) \in Nat \ {0} /\ index[class] \in Nat
      BY <1>0, <1>1, <1>2, <2>3, ConfigTypes
    <3>4. (index[class] * Second) \div RateOf(class) \in Nat
      BY <3>3, LaterIndex
    <3>5. Deadline(class)' = now + (index[class] * Second) \div RateOf(class)
      BY <1>1, <2>1 DEF Deadline
    <3> QED
      BY <1>2, <3>1, <3>2, <3>4, <3>5
  <2> QED
    BY <2>1, <2>3, <2>4
<1>5. CASE GenLoop
  <2>1. cfg.mode # "sink" /\ gen = "loop" /\ gen' = "wait"
    BY <1>0, <1>5 DEF Begins, GenLoop
  <2>2. /\ plan'.deadline = Deadline(NextClass)
        /\ now' = now /\ start' = start /\ index' = index
    BY <1>5 DEF GenLoop
  <2>3. \A class \in ClassesInUse : Requested(class)' = Requested(class)
    BY <1>0, <1>1, <1>5, QuietStep, RequestedKept DEF CountersKept
  <2>4. ASSUME NEW class \in ClassesInUse
        PROVE  /\ Requested(class)' > 0 => Due(class, Requested(class) - 1)' <= now'
               /\ plan'.deadline <= Deadline(class)'
    <3>1. Deadline(class)' = Deadline(class)
      BY <1>1, <2>2 DEF Deadline
    <3>2. Due(class, Requested(class) - 1)' = Due(class, Requested(class) - 1)
      BY <1>1, <2>2, <2>3 DEF Due
    <3>3. Deadline(NextClass) <= Deadline(class)
      BY <1>0, <2>1, PlanTypes
    <3>4. Requested(class) > 0 => Due(class, Requested(class) - 1) <= now
      BY <1>0 DEF Timely
    <3> QED
      BY <2>2, <2>3, <3>1, <3>2, <3>3, <3>4
  <2> QED
    BY <2>1, <2>4
<1>6. CASE GenRequest
  <2>1. /\ gen = "wait" /\ gen' = "send" /\ plan.deadline <= now
        /\ now' = now /\ start' = start /\ index' = index /\ plan' = plan
    BY <1>2, <1>6 DEF GenRequest, taskVars
  <2>2. plan.class \in ClassesInUse /\ plan.deadline = Deadline(plan.class)
    BY <1>0, <2>1 DEF Planned
  <2>3. ASSUME NEW class \in ClassesInUse
        PROVE  /\ Requested(class)' > 0 => Due(class, Requested(class) - 1)' <= now'
               /\ plan'.deadline <= Deadline(class)'
    <3>1. Deadline(class)' = Deadline(class)
      BY <1>1, <2>1 DEF Deadline
    <3>2. plan.deadline <= Deadline(class)
      BY <1>0, <2>1 DEF Timely
    <3>3. Requested(class) = index[class] /\ index[class] \in Nat
      BY <1>0, <1>1, <1>2, <2>1 DEF Counts, InHand
    <3>4. Requested(class)' = Requested(class) + (IF class = plan.class THEN 1 ELSE 0)
      BY <1>6, RequestedStep
    <3>5. CASE class = plan.class
      <4>1. Requested(class)' - 1 = index[class]
        BY <3>3, <3>4, <3>5
      <4>2. Due(class, Requested(class) - 1)' = Deadline(class)
        BY <1>1, <2>1, <4>1 DEF Due, Deadline
      <4> QED
        BY <2>1, <2>2, <3>1, <3>2, <3>5, <4>2
    <3>6. CASE class # plan.class
      <4>1. Requested(class)' = Requested(class)
        BY <3>3, <3>4, <3>6
      <4>2. Due(class, Requested(class) - 1)' = Due(class, Requested(class) - 1)
        BY <1>1, <2>1, <4>1 DEF Due
      <4>3. Requested(class) > 0 => Due(class, Requested(class) - 1) <= now
        BY <1>0 DEF Timely
      <4> QED
        BY <2>1, <3>1, <3>2, <4>1, <4>2, <4>3
    <3> QED
      BY <3>5, <3>6
  <2> QED
    BY <2>1, <2>3
<1>7. ASSUME NEW outcome \in {"submitted", "api_failure", "slot_timeout"}, GenSend(outcome)
      PROVE  /\ gen' = "send" => plan'.deadline <= now'
             /\ \A class \in ClassesInUse :
                   /\ Requested(class)' > 0 => Due(class, Requested(class) - 1)' <= now'
                   /\ gen' \in {"loop", "wait", "send"} => plan'.deadline <= Deadline(class)'
  <2>1. /\ gen = "send" /\ gen' = "loop" /\ now' = now /\ start' = start /\ plan' = plan
        /\ index' = [index EXCEPT ![plan.class] = @ + 1]
    BY <1>7 DEF GenSend, Skip
  <2>2. cfg.mode # "sink" /\ plan.class \in ClassesInUse
    BY <1>0, <2>1 DEF Begins, Planned
  <2>3. \A class \in ClassesInUse : Requested(class)' = Requested(class)
    BY <1>0, <1>1, <1>7, SendStep, RequestedKept
  <2>4. ASSUME NEW class \in ClassesInUse
        PROVE  /\ Requested(class)' > 0 => Due(class, Requested(class) - 1)' <= now'
               /\ plan'.deadline <= Deadline(class)'
    <3>1. RateOf(class) \in Nat \ {0} /\ index[class] \in Nat
      BY <1>0, <1>1, <1>2, <2>2, ConfigTypes
    <3>2. index'[class] = index[class] \/ index'[class] = index[class] + 1
      BY <1>1, <1>2, <2>1
    <3>3. /\ (index[class] * Second) \div RateOf(class) \in Nat
          /\ ((index[class] + 1) * Second) \div RateOf(class) \in Nat
          /\ (index[class] * Second) \div RateOf(class) <= ((index[class] + 1) * Second) \div RateOf(class)
      BY <3>1, LaterIndex
    <3>4. Deadline(class)' = start + (index'[class] * Second) \div RateOf(class)
      BY <1>1, <2>1 DEF Deadline
    <3>5. Deadline(class) <= Deadline(class)' /\ Deadline(class) \in Nat /\ Deadline(class)' \in Nat
      <4> DEFINE d == (index[class] * Second) \div RateOf(class)
                 e == ((index[class] + 1) * Second) \div RateOf(class)
      <4>1. d \in Nat /\ e \in Nat /\ d <= e
        BY <3>3
      <4>2. Deadline(class) = start + d /\ (Deadline(class)' = start + d \/ Deadline(class)' = start + e)
        BY <3>2, <3>4 DEF Deadline
      <4> HIDE DEF d, e
      <4> QED
        BY <1>2, <4>1, <4>2
    <3>6. plan.deadline <= Deadline(class)
      BY <1>0, <2>1 DEF Timely
    <3>7. Due(class, Requested(class) - 1)' = Due(class, Requested(class) - 1)
      BY <1>1, <2>1, <2>3 DEF Due
    <3>8. Requested(class) > 0 => Due(class, Requested(class) - 1) <= now
      BY <1>0 DEF Timely
    <3>9. plan'.deadline <= Deadline(class)'
      BY <1>2, <2>1, <3>5, <3>6
    <3> QED
      BY <2>1, <2>3, <3>7, <3>8, <3>9
  <2> QED
    BY <2>1, <2>4
<1> QED
  BY <1>3, <1>4, <1>5, <1>6, <1>7 DEF Next

\* Only an accepted frame takes a number, and it takes the next one.
LEMMA NumberedStep == TrafficInv /\ [Next]_vars => Numbered'
<1> SUFFICES ASSUME TrafficInv, [Next]_vars, NEW s \in Streams
             PROVE  /\ sequences'[s] = g_metrics'.tx_submitted[s]
                    /\ numbers'[s] = 0..(g_metrics'.tx_submitted[s] - 1)
  BY DEF Numbered
<1>0. Types /\ Numbered
  BY DEF TrafficInv
<1>1. /\ sequences \in [Streams -> Nat] /\ numbers \in [Streams -> SUBSET Nat]
      /\ g_metrics.tx_submitted \in [Streams -> Nat]
      /\ sequences[s] = g_metrics.tx_submitted[s]
      /\ numbers[s] = 0..(g_metrics.tx_submitted[s] - 1)
  BY <1>0 DEF Types, Metrics, Numbered
<1>2. CASE ~\E outcome \in {"submitted", "api_failure", "slot_timeout"} : GenSend(outcome)
  <2>1. g_metrics'.tx_submitted = g_metrics.tx_submitted
    BY <1>0, <1>2, QuietStep, RequestStep DEF Next, CountersKept
  <2>2. sequences' = sequences /\ numbers' = numbers
    BY <1>2 DEF Next, Tick, Start, Stop, Echo, GenBegin, GenLoop, GenRequest, GenEnd, vars,
                taskVars, history
  <2> QED
    BY <1>1, <2>1, <2>2
<1>3. ASSUME NEW outcome \in {"submitted", "api_failure", "slot_timeout"}, GenSend(outcome)
      PROVE  /\ sequences'[s] = g_metrics'.tx_submitted[s]
             /\ numbers'[s] = 0..(g_metrics'.tx_submitted[s] - 1)
  <2>1. CASE outcome = "submitted"
    <3>1. /\ g_metrics'.tx_submitted = [g_metrics.tx_submitted EXCEPT ![plan.stream] = @ + 1]
          /\ sequences' = [sequences EXCEPT ![plan.stream] = @ + 1]
          /\ numbers' = [numbers EXCEPT ![plan.stream] = @ \cup {sequences[plan.stream]}]
      BY <1>0, <1>3, <2>1, SendStep DEF GenSend, Advance
    <3>2. CASE s = plan.stream
      <4> DEFINE n == g_metrics.tx_submitted[s]
      <4>1. n \in Nat /\ numbers'[s] = (0..(n - 1)) \cup {n}
        BY <1>1, <3>1, <3>2
      <4>2. g_metrics'.tx_submitted[s] = n + 1 /\ sequences'[s] = n + 1
        BY <1>1, <3>1, <3>2
      <4> HIDE DEF n
      <4>3. (0..(n - 1)) \cup {n} = 0..((n + 1) - 1)
        BY <4>1
      <4> QED
        BY <4>1, <4>2, <4>3
    <3>3. CASE s # plan.stream
      BY <1>1, <3>1, <3>3
    <3> QED
      BY <3>2, <3>3
  <2>2. CASE outcome # "submitted"
    <3>1. g_metrics'.tx_submitted = g_metrics.tx_submitted /\ numbers' = numbers
      BY <1>0, <1>3, <2>2, SendStep DEF GenSend
    <3>2. sequences' = [sequences EXCEPT ![plan.stream] = @ + 0]
      BY <1>3, <2>2 DEF GenSend, Advance
    <3>3. sequences'[s] = sequences[s]
      BY <1>1, <3>2
    <3> QED
      BY <1>1, <3>1, <3>3
  <2> QED
    BY <2>1, <2>2
<1> QED
  BY <1>2, <1>3

\* The times of the report follow the clock.
LEMMA ClockedStep == TrafficInv /\ [Next]_vars => Clocked'
<1> SUFFICES ASSUME TrafficInv, [Next]_vars PROVE Clocked'
  OBVIOUS
<1>0. Types /\ Begins /\ Clocked /\ cfg' = cfg
  BY ConfigKept DEF TrafficInv
<1>1. /\ now \in Nat \ {0} /\ start \in Nat /\ begun \in Nat /\ cfg.duration \in Nat \ {0}
      /\ g_metrics.start_us \in Nat /\ g_metrics.end_us \in Nat
      /\ g_metrics.first_tx_us \in Nat /\ g_metrics.last_tx_us \in Nat
  BY <1>0, ConfigTypes DEF Types, Metrics
<1>2. CASE Tick \/ Echo \/ GenLoop \/ GenRequest \/ UNCHANGED vars
  <2>1. /\ TimesKept /\ g_metrics'.first_tx_us = g_metrics.first_tx_us
        /\ g_metrics'.last_tx_us = g_metrics.last_tx_us
    <3>1. CASE GenRequest
      BY <1>0, <3>1, RequestStep
    <3>2. CASE Tick \/ Echo \/ GenLoop \/ UNCHANGED vars
      <4>1. g_metrics \in Metrics
        BY <1>0 DEF Types
      <4>2. TimesKept
        BY <3>2, <4>1 DEF Tick, Echo, GenLoop, vars, TimesKept, Metrics
      <4> QED
        BY <1>0, <3>2, <4>2, QuietStep DEF CountersKept
    <3> QED
      BY <1>2, <3>1, <3>2
  <2>2. /\ now' \in Nat /\ now <= now' /\ start' = start /\ begun' = begun
        /\ stopped' = stopped /\ g_state' = g_state
    BY <1>1, <1>2 DEF Tick, Echo, GenLoop, GenRequest, vars, taskVars, history
  <2>3. /\ gen' = "none" <=> gen = "none"
        /\ gen' \in {"loop", "wait", "send"} => gen \in {"loop", "wait", "send"}
    BY <1>2 DEF Tick, Echo, GenLoop, GenRequest, vars
  <2> QED
    BY <1>0, <1>1, <2>1, <2>2, <2>3 DEF Clocked, TimesKept
<1>3. CASE Start
  <2>1. /\ g_state = "ARMED" /\ g_state' = "RUNNING" /\ begun' = now /\ now' = now
        /\ start' = start /\ stopped' = stopped /\ gen' \in {"none", "new"} /\ gen = "none"
    BY <1>0, <1>3 DEF Start, Begins, taskVars
  <2>2. g_metrics'.start_us = now /\ g_metrics'.end_us = g_metrics.end_us
    BY <1>0, <1>3 DEF Start, StampStart, Types, Metrics
  <2>3. /\ g_metrics'.first_tx_us = g_metrics.first_tx_us
        /\ g_metrics'.last_tx_us = g_metrics.last_tx_us
    BY <1>0, <1>3, QuietStep DEF CountersKept
  <2>4. g_metrics.first_tx_us = 0
    BY <1>0, <2>1 DEF Begins, Fresh
  <2> QED
    BY <1>0, <1>1, <2>1, <2>2, <2>3, <2>4 DEF Clocked
<1>4. CASE Stop
  <2>1. /\ g_state \in {"ARMED", "RUNNING"} /\ g_state' = "FINISHED" /\ now' = now
        /\ start' = start /\ gen' = gen /\ begun' = begun /\ stopped' = TRUE
    BY <1>4 DEF Stop, taskVars
  <2>2. g_metrics'.start_us = g_metrics.start_us /\ g_metrics'.end_us = now
    BY <1>0, <1>4 DEF Stop, Types, Metrics
  <2>3. /\ g_metrics'.first_tx_us = g_metrics.first_tx_us
        /\ g_metrics'.last_tx_us = g_metrics.last_tx_us
    BY <1>0, <1>4, QuietStep DEF CountersKept
  <2> QED
    BY <1>0, <1>1, <2>1, <2>2, <2>3 DEF Clocked
<1>5. CASE GenBegin
  <2>1. /\ gen = "new" /\ gen' = "loop" /\ start' = now /\ now' = now /\ g_state' = g_state
        /\ begun' = begun /\ stopped' = stopped
    BY <1>5 DEF GenBegin, history
  <2>2. g_metrics'.start_us = now /\ g_metrics'.end_us = g_metrics.end_us
    BY <1>0, <1>5 DEF GenBegin, Types, Metrics
  <2>3. /\ g_metrics'.first_tx_us = g_metrics.first_tx_us
        /\ g_metrics'.last_tx_us = g_metrics.last_tx_us
    BY <1>0, <1>5, QuietStep DEF CountersKept
  <2>4. g_metrics.first_tx_us = 0
    BY <1>0, <2>1 DEF Begins, Fresh
  <2> QED
    BY <1>0, <1>1, <2>1, <2>2, <2>3, <2>4 DEF Clocked
<1>6. ASSUME NEW outcome \in {"submitted", "api_failure", "slot_timeout"}, GenSend(outcome)
      PROVE  Clocked'
  <2>1. /\ gen = "send" /\ gen' = "loop" /\ start' = start /\ now' = now /\ g_state' = g_state
        /\ begun' = begun /\ stopped' = stopped
    BY <1>6 DEF GenSend
  <2>2. /\ TimesKept
        /\ \/ /\ g_metrics'.last_tx_us = now
              /\ g_metrics'.first_tx_us =
                    IF g_metrics.first_tx_us = 0 THEN now ELSE g_metrics.first_tx_us
           \/ /\ g_metrics'.last_tx_us = g_metrics.last_tx_us
              /\ g_metrics'.first_tx_us = g_metrics.first_tx_us
    BY <1>0, <1>6, SendStep
  <2> QED
    BY <1>0, <1>1, <2>1, <2>2 DEF Clocked, TimesKept
<1>7. CASE GenEnd
  <2>1. /\ gen = "loop" /\ gen' = "none" /\ start' = start /\ now' = now
        /\ g_state' = "FINISHED" /\ begun' = begun /\ stopped' = stopped
        /\ g_state = "RUNNING" => now >= start + cfg.duration
    BY <1>7 DEF GenEnd, Over, taskVars, history
  <2>2. /\ g_metrics'.start_us = g_metrics.start_us
        /\ g_metrics'.end_us = IF g_state = "RUNNING" THEN now ELSE g_metrics.end_us
    BY <1>0, <1>7 DEF GenEnd, Types, Metrics
  <2>3. /\ g_metrics'.first_tx_us = g_metrics.first_tx_us
        /\ g_metrics'.last_tx_us = g_metrics.last_tx_us
    BY <1>0, <1>7, QuietStep DEF CountersKept
  <2> QED
    BY <1>0, <1>1, <2>1, <2>2, <2>3 DEF Clocked
<1> QED
  BY <1>2, <1>3, <1>4, <1>5, <1>6, <1>7 DEF Next

\* The invariant holds in every run.
LEMMA TrafficInvariant == Spec => []TrafficInv
<1>1. TrafficInv /\ [Next]_vars => TrafficInv'
  BY TypesStep, BeginsStep, PlannedStep, CountsStep, TurnsStep, TimelyStep, NumberedStep,
     ClockedStep DEF TrafficInv
<1> QED
  BY TrafficInit, <1>1, PTL DEF Spec
-----------------------------------------------------------------------------
(* The properties.                                                         *)

\* A refused packet or a packet without a slot shifts no number, no turn and
\* no lateness sample (generator.c send_one and the two loops), with any
\* number of streams and whatever the rates.
THEOREM NothingShifts == Spec => []FailuresShiftNothing
<1>1. TrafficInv => NumbersContiguous
  BY DEF TrafficInv, NumbersContiguous, Numbered
<1>2. TrafficInv => LatenessComplete
  <2> SUFFICES ASSUME TrafficInv, gen = "loop"
               PROVE  g_metrics.lateness = IF Scheduled THEN g_metrics.total_requested ELSE 0
    BY DEF LatenessComplete
  <2>1. g_metrics.total_requested \in Nat /\ Unsampled = 0
    BY DEF TrafficInv, Types, Metrics, Unsampled
  <2> QED
    BY <2>1 DEF TrafficInv, Counts
<1>3. TrafficInv => TakeTurns
  <2> SUFFICES ASSUME TrafficInv, NEW class \in ClassesInUse,
                      NEW s \in StreamsOf(class), NEW t \in StreamsOf(class)
               PROVE  g_metrics.tx_requested[s] <= g_metrics.tx_requested[t] + 1
    BY DEF TakeTurns
  <2>0. Types /\ Turns /\ Counts
    BY DEF TrafficInv
  <2>1. g_metrics.tx_requested \in [Streams -> Nat] /\ index \in [Classes -> Nat]
    BY <2>0 DEF Types, Metrics
  <2>2. CASE class = "probe"
    <3>1. s = t /\ s \in Streams
      BY <2>0, <2>2, ConfigTypes DEF StreamsOf
    <3> QED
      BY <2>1, <3>1
  <2>3. CASE class # "probe"
    <3> DEFINE n == Fan(class)
               k == Requested(class)
    <3>1. s \in 0..(n - 1) /\ t \in 0..(n - 1)
      BY <2>0, <2>3, ConfigTypes DEF StreamsOf, Fan, ClassesInUse
    <3>2. k \in Nat /\ n \in Nat \ {0}
      <4>1. class \in Classes /\ InHand(class) \in Nat /\ n \in Nat \ {0}
        BY <2>0, ConfigTypes DEF InHand
      <4> QED
        BY <2>0, <2>1, <4>1 DEF Counts
    <3>3. k \div n \in Nat
      BY <3>2, Split
    <3>4. /\ g_metrics.tx_requested[s] = (k \div n) + (IF s < k % n THEN 1 ELSE 0)
          /\ g_metrics.tx_requested[t] = (k \div n) + (IF t < k % n THEN 1 ELSE 0)
      BY <2>0, <2>3, <3>1 DEF Turns, Turn
    <3> HIDE DEF k, n
    <3> QED
      BY <3>3, <3>4
  <2> QED
    BY <2>2, <2>3
<1> QED
  BY <1>1, <1>2, <1>3, TrafficInvariant, PTL DEF FailuresShiftNothing

\* No class is ever ahead of its rate: k + 1 packets take at least k whole
\* periods, for every rate and every clock (generator.c deadline_us).
THEOREM RatesAreCaps == Spec => []NeverAhead
<1>1. TrafficInv => NeverAhead
  <2> SUFFICES ASSUME TrafficInv, Scheduled, NEW class \in ClassesInUse, Requested(class) > 0
               PROVE  (Requested(class) - 1) * Second < (now - start + 1) * RateOf(class)
    BY DEF NeverAhead
  <2>0. Types /\ Begins /\ Counts /\ Timely /\ Clocked
    BY DEF TrafficInv
  <2>1. class \in Classes /\ index[class] \in Nat /\ now \in Nat /\ start \in Nat
    BY <2>0, ConfigTypes DEF Types
  <2>2. Requested(class) = index[class] + InHand(class) /\ InHand(class) \in {0, 1}
    BY <2>0 DEF Counts, InHand
  <2>3. Requested(class) - 1 \in Nat
    BY <2>1, <2>2
  <2>4. cfg.mode # "sink"
    <3>1. cfg.mode = "sink" => InHand(class) = 0 /\ index[class] = 0
      BY <2>0, <2>1 DEF Begins, Fresh, InHand
    <3> QED
      BY <2>2, <3>1
  <2>5. RateOf(class) \in Nat \ {0}
    BY <2>0, <2>4, ConfigTypes
  <2>6. ((Requested(class) - 1) * Second) \div RateOf(class) \in Nat
    BY <2>3, <2>5, LaterIndex
  <2>7. start + ((Requested(class) - 1) * Second) \div RateOf(class) <= now
    BY <2>0 DEF Timely, Due
  <2>8. /\ ((Requested(class) - 1) * Second) \div RateOf(class) <= now - start
        /\ now - start \in Nat
    <3> DEFINE d == ((Requested(class) - 1) * Second) \div RateOf(class)
    <3>1. d \in Nat /\ start + d <= now
      BY <2>6, <2>7
    <3> HIDE DEF d
    <3>2. d <= now - start /\ now - start \in Nat
      BY <2>1, <3>1
    <3> QED
      BY <3>2 DEF d
  <2> QED
    BY <2>3, <2>5, <2>8, DueBound
<1> QED
  BY <1>1, TrafficInvariant, PTL

\* The times the report is computed from are those of the run (control.c
\* dispatch, generator.c generator_task, metrics.c metrics_json).
THEOREM ElapsedIsTrue == Spec => []ElapsedTrue
<1>1. TrafficInv => ElapsedTrue
  <2> SUFFICES ASSUME TrafficInv, begun > 0
               PROVE  /\ elapsed_us <= now - begun
                      /\ g_state = "FINISHED" /\ ~stopped =>
                            /\ cfg.duration <= elapsed_us
                            /\ tx_window_us > 0 =>
                                  /\ g_metrics.start_us <= g_metrics.first_tx_us
                                  /\ g_metrics.last_tx_us <= g_metrics.end_us
    BY DEF ElapsedTrue
  <2>0. Types /\ Clocked
    BY DEF TrafficInv
  <2>1. /\ now \in Nat /\ begun \in Nat /\ cfg.duration \in Nat \ {0}
        /\ g_metrics.start_us \in Nat /\ g_metrics.end_us \in Nat
        /\ g_metrics.first_tx_us \in Nat /\ g_metrics.last_tx_us \in Nat
    BY <2>0, ConfigTypes DEF Types, Metrics
  <2>2. elapsed_us <= now - begun
    BY <2>0, <2>1 DEF Clocked, elapsed_us, Minus
  <2>3. g_state = "FINISHED" /\ ~stopped => cfg.duration <= elapsed_us
    BY <2>0, <2>1 DEF Clocked, elapsed_us, Minus
  <2>4. g_state = "FINISHED" /\ ~stopped /\ tx_window_us > 0 =>
           /\ g_metrics.start_us <= g_metrics.first_tx_us
           /\ g_metrics.last_tx_us <= g_metrics.end_us
    BY <2>0, <2>1 DEF Clocked, tx_window_us, Minus
  <2> QED
    BY <2>2, <2>3, <2>4
<1> QED
  BY <1>1, TrafficInvariant, PTL

\* Packets are taken in the order of their deadlines, probes and background
\* of a latency run too (generator.c next_probe_us, next_background_us).
THEOREM DeadlinesKeepOrder == Spec => DeadlinesInOrder
<1>1. TrafficInv /\ [Next]_vars =>
         [gen = "loop" /\ gen' = "wait" /\ Scheduled => plan.deadline <= plan'.deadline]_vars
  <2> SUFFICES ASSUME TrafficInv, Next, gen = "loop", gen' = "wait", Scheduled
               PROVE  plan.deadline <= plan'.deadline
    OBVIOUS
  <2>1. GenLoop
    BY DEF TrafficInv, Begins, Next, Tick, Start, Stop, Echo, GenBegin, GenRequest, GenSend, GenEnd
  <2>2. cfg.mode # "sink"
    BY DEF TrafficInv, Begins
  <2>3. NextClass \in ClassesInUse
    BY <2>2, PlanTypes DEF TrafficInv
  <2>4. plan'.deadline = Deadline(NextClass)
    BY <2>1 DEF GenLoop
  <2> QED
    BY <2>3, <2>4 DEF TrafficInv, Timely
<1> QED
  BY <1>1, TrafficInvariant, PTL DEF Spec, DeadlinesInOrder

\* Frames of type PACKET_PING the radio accepted, as counters.
PingsSubmitted ==
    CASE cfg.mode = "ping" -> g_metrics.total_submitted
      [] cfg.mode = "latency" -> g_metrics.tx_submitted[MaxStreams - 1]
      [] OTHER -> 0

\* Only pings have echoes, every answered ping has a sample, and the counters
\* count the pings.
Answered ==
    /\ answered \subseteq Pings /\ Cardinality(answered) <= g_metrics.rtt
    /\ IsFiniteSet(Pings) /\ Cardinality(Pings) = PingsSubmitted
    /\ \A s \in Streams : g_metrics.tx_submitted[s] <= g_metrics.total_submitted

\* What the radio accepted is kept, or grows by one frame.
LEMMA Submitting ==
    ASSUME TrafficInv, [Next]_vars
    PROVE  \/ /\ g_metrics'.total_submitted = g_metrics.total_submitted
              /\ g_metrics'.tx_submitted = g_metrics.tx_submitted
              /\ numbers' = numbers
           \/ /\ g_metrics'.total_submitted = g_metrics.total_submitted + 1
              /\ g_metrics'.tx_submitted = [g_metrics.tx_submitted EXCEPT ![plan.stream] = @ + 1]
              /\ numbers' = [numbers EXCEPT ![plan.stream] = @ \cup {sequences[plan.stream]}]
<1>0. Types
  BY DEF TrafficInv
<1>1. CASE \/ Tick \/ Start \/ Stop \/ Echo \/ GenBegin \/ GenLoop \/ GenEnd \/ GenRequest
           \/ UNCHANGED vars
  <2>1. /\ g_metrics'.total_submitted = g_metrics.total_submitted
        /\ g_metrics'.tx_submitted = g_metrics.tx_submitted
    BY <1>0, <1>1, QuietStep, RequestStep DEF CountersKept
  <2>2. numbers' = numbers
    BY <1>1 DEF Tick, Start, Stop, Echo, GenBegin, GenLoop, GenEnd, GenRequest, vars, history
  <2> QED
    BY <2>1, <2>2
<1>2. ASSUME NEW outcome \in {"submitted", "api_failure", "slot_timeout"}, GenSend(outcome),
             outcome = "submitted"
      PROVE  /\ g_metrics'.total_submitted = g_metrics.total_submitted + 1
             /\ g_metrics'.tx_submitted = [g_metrics.tx_submitted EXCEPT ![plan.stream] = @ + 1]
             /\ numbers' = [numbers EXCEPT ![plan.stream] = @ \cup {sequences[plan.stream]}]
  <2>1. numbers' = [numbers EXCEPT ![plan.stream] = @ \cup {sequences[plan.stream]}]
    BY <1>2 DEF GenSend
  <2> QED
    BY <1>0, <1>2, <2>1, SendStep
<1>3. ASSUME NEW outcome \in {"submitted", "api_failure", "slot_timeout"}, GenSend(outcome),
             outcome # "submitted"
      PROVE  /\ g_metrics'.total_submitted = g_metrics.total_submitted
             /\ g_metrics'.tx_submitted = g_metrics.tx_submitted
             /\ numbers' = numbers
  <2>1. numbers' = numbers
    BY <1>3 DEF GenSend
  <2> QED
    BY <1>0, <1>3, <2>1, SendStep
<1> QED
  BY <1>1, <1>2, <1>3 DEF Next

\* A submitted ping is one more ping, since its number is new; a submitted
\* frame of background is none.
LEMMA PingsStep ==
    ASSUME TrafficInv, [Next]_vars, Answered
    PROVE  /\ Pings \subseteq Pings' /\ IsFiniteSet(Pings') /\ Cardinality(Pings') = PingsSubmitted'
           /\ \A s \in Streams : g_metrics'.tx_submitted[s] <= g_metrics'.total_submitted
<1>0. /\ Types /\ Numbered /\ cfg' = cfg /\ MaxStreams - 1 \in Streams
      /\ PingStreams' = PingStreams /\ PingStreams \subseteq Streams
  BY ConfigKept, ConfigTypes DEF TrafficInv, PingStreams
<1>1. /\ plan.stream \in Streams /\ g_metrics.total_submitted \in Nat
      /\ g_metrics.tx_submitted \in [Streams -> Nat] /\ numbers \in [Streams -> SUBSET Nat]
  BY <1>0 DEF Types, Metrics
<1>2. CASE /\ g_metrics'.total_submitted = g_metrics.total_submitted
           /\ g_metrics'.tx_submitted = g_metrics.tx_submitted
           /\ numbers' = numbers
  <2>1. Pings' = Pings
    BY <1>0, <1>2 DEF Pings
  <2>2. PingsSubmitted' = PingsSubmitted
    BY <1>0, <1>2 DEF PingsSubmitted
  <2> QED
    BY <1>2, <2>1, <2>2 DEF Answered
<1>3. CASE /\ g_metrics'.total_submitted = g_metrics.total_submitted + 1
           /\ g_metrics'.tx_submitted = [g_metrics.tx_submitted EXCEPT ![plan.stream] = @ + 1]
           /\ numbers' = [numbers EXCEPT ![plan.stream] = @ \cup {sequences[plan.stream]}]
  <2> DEFINE s == plan.stream
             ping == <<s, sequences[s]>>
  <2>1. \A t \in Streams : g_metrics'.tx_submitted[t] <= g_metrics'.total_submitted
    BY <1>1, <1>3 DEF Answered
  <2>2. sequences[s] \notin numbers[s]
    BY <1>0, <1>1 DEF Numbered
  <2>3. CASE s \notin PingStreams
    <3>1. Pings' = Pings
      BY <1>0, <1>1, <1>3, <2>3 DEF Pings
    <3>2. PingsSubmitted' = PingsSubmitted
      BY <1>0, <1>1, <1>3, <2>3 DEF PingsSubmitted, PingStreams
    <3> QED
      BY <2>1, <3>1, <3>2 DEF Answered
  <2>4. CASE s \in PingStreams
    <3>1. Pings' = Pings \cup {ping}
      <4>1. \A t \in PingStreams : {t} \X numbers'[t] =
               ({t} \X numbers[t]) \cup (IF t = s THEN {ping} ELSE {})
        BY <1>0, <1>1, <1>3
      <4>2. Pings' = UNION {{t} \X numbers'[t] : t \in PingStreams}
        BY <1>0 DEF Pings
      <4> QED
        BY <2>4, <4>1, <4>2 DEF Pings
    <3>2. ping \notin Pings
      BY <2>2 DEF Pings
    <3>3. Cardinality(Pings') = Cardinality(Pings) + 1 /\ IsFiniteSet(Pings')
      BY <3>1, <3>2, FS_AddElement DEF Answered
    <3>4. PingsSubmitted' = PingsSubmitted + 1
      BY <1>0, <1>1, <1>3, <2>4 DEF PingsSubmitted, PingStreams
    <3> QED
      BY <2>1, <3>1, <3>3, <3>4 DEF Answered
  <2> QED
    BY <2>3, <2>4
<1> QED
  BY <1>2, <1>3, Submitting

LEMMA AnsweredInvariant == Spec => []Answered
<1>1. Init => Answered
  <2> SUFFICES ASSUME Init PROVE Answered
    OBVIOUS
  <2>1. Types /\ 0 \in Streams /\ MaxStreams - 1 \in Streams
    BY TrafficInit, ConfigTypes DEF TrafficInv
  <2>2. /\ g_metrics.rtt = 0 /\ g_metrics.total_submitted = 0 /\ answered = {}
        /\ g_metrics.tx_submitted = [s \in Streams |-> 0] /\ numbers = [s \in Streams |-> {}]
    BY DEF Init
  <2>3. Pings = {}
    BY <2>1, <2>2 DEF Pings, PingStreams
  <2>4. PingsSubmitted = 0
    BY <2>1, <2>2 DEF PingsSubmitted
  <2> QED
    BY <2>1, <2>2, <2>3, <2>4, FS_EmptySet DEF Answered
<1>2. TrafficInv /\ Answered /\ [Next]_vars => Answered'
  <2> SUFFICES ASSUME TrafficInv, Answered, [Next]_vars PROVE Answered'
    OBVIOUS
  <2>0. Types /\ g_metrics.rtt \in Nat
    BY DEF TrafficInv, Types, Metrics
  <2>1. answered' \subseteq Pings' /\ Cardinality(answered') <= g_metrics'.rtt
    <3>1. CASE Echo
      <4>1. PICK ping \in Pings : answered' = answered \cup {ping}
        BY <3>1 DEF Echo
      <4>2. g_metrics'.rtt = g_metrics.rtt + 1
        BY <2>0, <3>1 DEF Echo, Types, Metrics
      <4>3. IsFiniteSet(answered)
        BY FS_Subset DEF Answered
      <4>4. /\ Cardinality(answered) \in Nat
            /\ Cardinality(answered') \in {Cardinality(answered), Cardinality(answered) + 1}
        BY <4>1, <4>3, FS_AddElement, FS_CardinalityType
      <4> QED
        BY <2>0, <4>1, <4>2, <4>4, PingsStep DEF Answered
    <3>2. CASE ~Echo
      <4>1. answered' = answered
        BY <3>2 DEF Next, Tick, Start, Stop, GenBegin, GenLoop, GenRequest, GenSend, GenEnd, vars,
                    history
      <4>2. g_metrics'.rtt = g_metrics.rtt
        <5>1. CASE \/ Tick \/ Start \/ Stop \/ GenBegin \/ GenLoop \/ GenEnd \/ GenRequest
                   \/ UNCHANGED vars
          BY <2>0, <5>1 DEF Types, Tick, Start, StampStart, Stop, GenBegin, GenLoop, GenEnd,
                            GenRequest, vars, Metrics
        <5>2. ASSUME NEW outcome \in {"submitted", "api_failure", "slot_timeout"}, GenSend(outcome)
              PROVE  g_metrics'.rtt = g_metrics.rtt
          BY <2>0, <5>2, SendStep
        <5> QED
          BY <3>2, <5>1, <5>2 DEF Next
      <4> QED
        BY <4>1, <4>2, PingsStep DEF Answered
    <3> QED
      BY <3>1, <3>2
  <2> QED
    BY <2>1, PingsStep DEF Answered
<1> QED
  BY <1>1, <1>2, TrafficInvariant, PTL DEF Spec

\* With any number of streams, repeated echoes and background, the probe loss
\* of the summary is never more than the pings without an echo, and less only
\* by the repeated echoes and the pings of other streams (output.rs
\* network_or_echo_probe_loss).
THEOREM ProbeLossIsBounded == Spec => []ProbeLossBounds
<1>1. TrafficInv /\ Answered => ProbeLossBounds
  <2> SUFFICES ASSUME TrafficInv, Answered, cfg.mode \in {"ping", "latency"}
               PROVE  /\ network_or_echo_probe_loss <= Lost
                      /\ Lost <= network_or_echo_probe_loss + Repeats + OtherStreams
    BY DEF ProbeLossBounds
  <2>0. probe_stream \in Streams
    BY ConfigTypes DEF TrafficInv, probe_stream
  <2>1. /\ g_metrics.rtt \in Nat /\ g_metrics.total_submitted \in Nat
        /\ g_metrics.tx_submitted[probe_stream] \in Nat
    BY <2>0 DEF TrafficInv, Types, Metrics
  <2>2. /\ Cardinality(Pings) \in Nat
        /\ g_metrics.tx_submitted[probe_stream] <= Cardinality(Pings)
    BY <2>0, <2>1 DEF Answered, PingsSubmitted, probe_stream
  <2>3. /\ Cardinality(answered) \in Nat /\ Cardinality(answered) <= Cardinality(Pings)
        /\ Lost = Cardinality(Pings) - Cardinality(answered)
    <3>1. /\ IsFiniteSet(answered) /\ Cardinality(answered) <= Cardinality(Pings)
      BY FS_Subset DEF Answered
    <3>2. Pings \cap answered = answered
      BY DEF Answered
    <3>3. Cardinality(Pings \ answered) = Cardinality(Pings) - Cardinality(Pings \cap answered)
      BY FS_Difference DEF Answered
    <3> QED
      BY <3>1, <3>2, <3>3, FS_CardinalityType DEF Lost
  <2> QED
    BY <2>1, <2>2, <2>3 DEF Answered, network_or_echo_probe_loss, Minus, Repeats, OtherStreams
<1> QED
  BY <1>1, TrafficInvariant, AnsweredInvariant, PTL
=============================================================================
