----------------------------- MODULE HostProofs -----------------------------
(***************************************************************************)
(* Proofs about the host program.                                          *)
(*                                                                         *)
(* ScenarioConfig: for every scenario file, every run number and every     *)
(* configure line, where TLC varies up to three fields of a valid one.     *)
(* The arithmetic and the comparison of the two sets of rules are lemmas   *)
(* about single values; the invariant only says which line each g_config   *)
(* was made from.                                                          *)
(*                                                                         *)
(* System: for any number of sessions, torn lines, reboots and             *)
(* interruptions, what the host may believe of an answer, of a measurement *)
(* and of what it saves.  SystemInv says of each site which lines may be   *)
(* on their way, from which request of which session, and what they tell   *)
(* of the node; Traffic relates the two nodes.                             *)
(***************************************************************************)
EXTENDS System, ScenarioConfig, TLAPS

(* Scenarios and configurations.                                           *)

\* The conjunct of ConfigUsable for one configuration.
Usable(cfg) ==
    /\ make_rate_config(cfg) # "none"
    /\ 0 \notin Divisors(cfg)
    /\ cfg.mode \in {"saturation", "latency-under-load"} \/ Rate(cfg) > 0
    /\ \A f \in Frames(cfg) : f.size \in HeaderSize..MaxPacket /\ f.stream < MaxStreams
    /\ \A f, g \in Frames(cfg) : f.stream = g.stream => f.type = g.type

\* Whatever a client writes, the checks of parse_config leave numbers in
\* range and a mode that has the rates it needs (control.c parse_config).
LEMMA AcceptedNumbers ==
    ASSUME NEW l, Accepts(l)
    PROVE  LET cfg == Cfg(l)  n == cfg.numbers IN
           /\ cfg.mode \in Modes
           /\ n.packet_size \in HeaderSize..MaxPacket /\ n.streams \in 1..MaxStreams
           /\ n.background_packet_size \in 0..MaxPacket
           /\ n.packet_rate_per_stream \in Nat /\ n.probe_rate \in Nat /\ n.background_rate \in Nat
           /\ cfg.mode \notin {"saturation", "latency-under-load"} => n.packet_rate_per_stream # 0
           /\ cfg.mode = "latency-under-load" =>
                 /\ n.probe_rate # 0 /\ n.background_rate # 0
                 /\ n.background_packet_size >= HeaderSize
<1> DEFINE t == l.traffic
           n == Numbers(t)
<1>1. ParseTraffic(t)
  BY DEF Accepts
<1>2. Has(t, "mode") /\ t.mode \in Modes /\ Item(t, "mode", "") = t.mode
  <2>1. Item(t, "mode", "") \in Modes
    BY <1>1 DEF ParseTraffic
  <2>2. "" \notin Modes
    BY DEF Modes
  <2> QED
    BY <2>1, <2>2 DEF Item
<1>3. /\ n.packet_size \in HeaderSize..MaxPacket /\ n.streams \in 1..MaxStreams
      /\ n.background_packet_size \in 0..MaxPacket
      /\ n.packet_rate_per_stream \in 0..MaxUInt32 /\ n.probe_rate \in 0..MaxUInt32
      /\ n.background_rate \in 0..MaxUInt32
      /\ RatesPresent(Item(t, "mode", ""), n)
  BY <1>1 DEF ParseTraffic, integer_in_range
<1>4. Cfg(l).mode = t.mode /\ Cfg(l).numbers = n
  BY DEF Cfg
<1> HIDE DEF t, n
<1>5. n.packet_rate_per_stream \in Nat /\ n.probe_rate \in Nat /\ n.background_rate \in Nat
  <2>1. \A x \in 0..MaxUInt32 : x \in Nat
    OBVIOUS
  <2> QED
    BY <1>3, <2>1
<1>6. /\ t.mode \notin {"saturation", "latency-under-load"} => n.packet_rate_per_stream # 0
      /\ t.mode = "latency-under-load" =>
            /\ n.probe_rate # 0 /\ n.background_rate # 0
            /\ n.background_packet_size >= HeaderSize
  BY <1>2, <1>3 DEF RatesPresent
<1> QED
  BY <1>2, <1>3, <1>4, <1>5, <1>6, Zenon

\* Whatever line is accepted, make_rate_config knows its rate on its band.
LEMMA AcceptedRate == ASSUME NEW l, Accepts(l) PROVE make_rate_config(Cfg(l)) # "none"
<1> DEFINE r == l.radio
<1>1. ParseRadio(r)
  BY DEF Accepts
<1>2. r.band \in {"2.4ghz", "5ghz"}
  <2>1. Item(r, "band", "") \in {"2.4ghz", "5ghz"}
    BY <1>1 DEF ParseRadio
  <2> QED
    BY <2>1 DEF Item
<1>3. r.phy_rate \in PhyRates /\ ~(r.band = "5ghz" /\ r.phy_rate = "1m")
  <2>1. phy_valid(Item(r, "phy_rate", ""), r.band)
    BY <1>1 DEF ParseRadio
  <2>2. "" \notin PhyRates
    BY DEF PhyRates
  <2>3. Item(r, "phy_rate", "") = r.phy_rate
    BY <2>1, <2>2 DEF Item, phy_valid
  <2> QED
    BY <2>1, <2>3 DEF phy_valid
<1>4. Cfg(l).band = r.band /\ Cfg(l).phy_rate = r.phy_rate
  BY DEF Cfg
<1> HIDE DEF r
<1> QED
  BY <1>2, <1>3, <1>4 DEF make_rate_config, PhyRates

\* Whatever line is accepted, the node can run its configuration.
LEMMA AcceptedUsable == ASSUME NEW l, Accepts(l) PROVE Usable(Cfg(l))
<1> DEFINE cfg == Cfg(l)
           n == cfg.numbers
<1>1. /\ cfg.mode \in Modes
      /\ n.packet_size \in HeaderSize..MaxPacket /\ n.streams \in 1..MaxStreams
      /\ n.background_packet_size \in 0..MaxPacket
      /\ n.packet_rate_per_stream \in Nat /\ n.probe_rate \in Nat /\ n.background_rate \in Nat
      /\ cfg.mode \notin {"saturation", "latency-under-load"} => n.packet_rate_per_stream # 0
      /\ cfg.mode = "latency-under-load" =>
            /\ n.probe_rate # 0 /\ n.background_rate # 0
            /\ n.background_packet_size >= HeaderSize
  BY AcceptedNumbers
<1>2. make_rate_config(cfg) # "none"
  BY AcceptedRate
<1> HIDE DEF cfg
<1>3. BackgroundStreams(n) \in 1..(MaxStreams - 1)
  BY <1>1 DEF BackgroundStreams, MaxStreams
<1>4. 0 \notin Divisors(cfg)
  BY <1>1, <1>3 DEF Divisors
<1>5. cfg.mode \in {"saturation", "latency-under-load"} \/ Rate(cfg) > 0
  <2> SUFFICES ASSUME cfg.mode \notin {"saturation", "latency-under-load"} PROVE Rate(cfg) > 0
    OBVIOUS
  <2>1. n.packet_rate_per_stream \in Nat \ {0} /\ n.streams \in Nat \ {0}
    BY <1>1
  <2>2. n.packet_rate_per_stream * n.streams > 0
    BY <2>1
  <2> QED
    BY <2>2 DEF Rate
<1>6. CASE cfg.mode = "latency-under-load"
  <2>1. n.background_packet_size \in HeaderSize..MaxPacket
    BY <1>1, <1>6 DEF HeaderSize, MaxPacket
  <2>2. ASSUME NEW f \in Frames(cfg)
        PROVE  \/ f.type = "ping" /\ f.stream = MaxStreams - 1 /\ f.size = n.packet_size
               \/ /\ f.type = "stream" /\ f.stream \in 0..(BackgroundStreams(n) - 1)
                  /\ f.size = n.background_packet_size
    BY <1>6 DEF Frames
  <2>3. \A f \in Frames(cfg) : f.size \in HeaderSize..MaxPacket /\ f.stream < MaxStreams
    BY <1>1, <1>3, <2>1, <2>2 DEF MaxStreams
  <2>4. \A f, g \in Frames(cfg) : f.stream = g.stream => f.type = g.type
    BY <1>3, <2>2 DEF MaxStreams
  <2> QED
    BY <1>2, <1>4, <1>5, <2>3, <2>4 DEF Usable, cfg
<1>7. CASE cfg.mode # "latency-under-load"
  <2>1. ASSUME NEW f \in Frames(cfg)
        PROVE  /\ f.type = (IF cfg.mode = "ping" THEN "ping" ELSE "stream")
               /\ f.stream \in 0..(n.streams - 1) /\ f.size = n.packet_size
    BY <1>7 DEF Frames
  <2>2. \A f \in Frames(cfg) : f.size \in HeaderSize..MaxPacket /\ f.stream < MaxStreams
    BY <1>1, <2>1 DEF MaxStreams
  <2>3. \A f, g \in Frames(cfg) : f.stream = g.stream => f.type = g.type
    BY <2>1
  <2> QED
    BY <1>2, <1>4, <1>5, <2>2, <2>3 DEF Usable, cfg
<1> QED
  BY <1>6, <1>7

\* No configure line, from the host program or typed by hand, leaves a node
\* with a configuration it cannot run (control.c parse_config, radio.c
\* make_rate_config, generator.c generator_task).
THEOREM ConfigsAreUsable == ScenarioSpec => []ConfigUsable
<1> DEFINE Inv == /\ DOMAIN g_config = {"A", "B"}
                  /\ \A site \in {"A", "B"} : g_config[site] # None => Usable(g_config[site])
<1>1. ScenarioInit => Inv
  BY DEF ScenarioInit
<1>2. Inv /\ [ScenarioNext]_scenarioVars => Inv'
  <2> SUFFICES ASSUME Inv, [ScenarioNext]_scenarioVars PROVE Inv'
    OBVIOUS
  <2>1. CASE UNCHANGED g_config
    BY <2>1
  <2>2. ASSUME NEW site \in {"A", "B"}, NEW l, Accepts(l),
               g_config' = [g_config EXCEPT ![site] = Cfg(l)]
        PROVE  Inv'
    <3>1. Usable(Cfg(l))
      BY <2>2, AcceptedUsable
    <3>2. \A other \in {"A", "B"} :
             g_config'[other] = IF other = site THEN Cfg(l) ELSE g_config[other]
      BY <2>2
    <3> QED
      BY <2>2, <3>1, <3>2
  <2>3. \/ UNCHANGED g_config
        \/ \E site \in {"A", "B"} : \E l \in Typed \cup {Body(scenario, site, run_id)} :
              Accepts(l) /\ g_config' = [g_config EXCEPT ![site] = Cfg(l)]
    BY DEF ScenarioNext, Load, Configure, Type, scenarioVars
  <2> QED
    BY <2>1, <2>2, <2>3
<1>3. Inv => ConfigUsable
  BY DEF ConfigUsable, Usable
<1> QED
  BY <1>1, <1>2, <1>3, PTL DEF ScenarioSpec
-----------------------------------------------------------------------------
(* The rules of the two sides.                                             *)

\* The exceptions RulesAgree lists.
Exceptional(s, run) ==
    s.duration < MicroNs \/ s.traffic.background_packet_size > MaxPacket \/ run = 0

\* A duration that validate let through is a number of microseconds the node
\* takes, unless it is shorter than one (runner.rs duration_us).
LEMMA DurationInMicroseconds ==
    ASSUME NEW d \in Nat, d > 0, d <= DayUs * MicroNs
    PROVE  d \div MicroNs \in 1..DayUs <=> ~(d < MicroNs)
<1>1. MicroNs \in Nat \ {0} /\ DayUs \in Nat \ {0}
  BY ScenarioAssumption
<1> DEFINE q == d \div MicroNs
<1>2. q \in Nat /\ d % MicroNs \in 0..(MicroNs - 1) /\ d = MicroNs * q + (d % MicroNs)
  BY <1>1
<1> HIDE DEF q
<1>3. q <= DayUs
  <2> SUFFICES ASSUME q > DayUs PROVE FALSE
    BY <1>1, <1>2
  <2>1. q - DayUs - 1 \in Nat
    BY <1>1, <1>2
  <2>2. MicroNs * (q - DayUs - 1) >= 0
    BY <1>1, <2>1
  <2>3. MicroNs * q >= MicroNs * DayUs + MicroNs
    BY <1>1, <1>2, <2>2
  <2> QED
    BY <1>1, <1>2, <2>3
<1>4. q = 0 => d < MicroNs
  BY <1>1, <1>2
<1>5. q > 0 => ~(d < MicroNs)
  <2> SUFFICES ASSUME q > 0 PROVE MicroNs <= d
    BY <1>1
  <2>1. MicroNs * (q - 1) >= 0
    BY <1>1, <1>2
  <2> QED
    BY <1>1, <1>2, <2>1
<1> QED
  BY <1>1, <1>2, <1>3, <1>4, <1>5 DEF q

\* On the radio's fields the node asks nothing that the host did not.
LEMMA RadioRulesAgree ==
    ASSUME NEW s \in ScenarioFiles, validate(s)
    PROVE  ParseRadio(s.radio)
<1> DEFINE r == s.radio
<1>1. r \in [band : {"2.4ghz", "5ghz"}, country : STRING, channel : Nat, phy_rate : STRING,
             tx_power_dbm : Int, encryption : BOOLEAN, key : STRING]
  BY DEF ScenarioFiles
<1>2. DOMAIN r = {"band", "country", "channel", "phy_rate", "tx_power_dbm", "encryption", "key"}
  BY <1>1
<1>3. /\ r.channel \in IF r.band = "5ghz" THEN Channels5 ELSE 1..14
      /\ r.country = "upper2"
      /\ r.tx_power_dbm >= 2 * 8 /\ r.tx_power_dbm <= 20 * 8 /\ r.tx_power_dbm % 2 = 0
      /\ r.encryption => r.key = "hex32"
      /\ r.phy_rate \in PhyRates \ IF r.band = "5ghz" THEN {"1m"} ELSE {}
  BY DEF validate
<1>4. /\ Item(r, "tx_power_dbm", -8) = r.tx_power_dbm /\ Item(r, "band", "") = r.band
      /\ Item(r, "country", "") = r.country /\ Item(r, "channel", -1) = r.channel
      /\ Item(r, "phy_rate", "") = r.phy_rate /\ Item(r, "encryption", FALSE) = r.encryption
      /\ Item(r, "key", "") = r.key
  BY <1>2 DEF Item, Has
<1>5. r.band \in {"2.4ghz", "5ghz"}
  BY <1>1
<1> HIDE DEF r
<1>6. r.channel \in 1..255
  BY <1>3 DEF Channels5
<1>7. channel_valid(r.band, r.channel) /\ phy_valid(r.phy_rate, r.band)
  BY <1>3 DEF channel_valid, phy_valid
<1>8. r.encryption => parse_key(r.key)
  BY <1>3 DEF parse_key
<1>9. ParseRadio(r)
  BY <1>3, <1>4, <1>5, <1>6, <1>7, <1>8 DEF ParseRadio, integer_in_range
<1> QED
  BY <1>9 DEF r

\* On the traffic's fields it asks for the background size in every mode.
LEMMA TrafficRulesAgree ==
    ASSUME NEW s \in ScenarioFiles, validate(s)
    PROVE  ParseTraffic(s.traffic) <=> ~(s.traffic.background_packet_size > MaxPacket)
<1> DEFINE t == s.traffic
           n == Numbers(t)
<1>1. t \in [mode : Modes, streams : Nat, tx_window : Nat, packet_size : Nat,
             packet_rate_per_stream : 0..MaxUInt32, probe_rate : 0..MaxUInt32,
             background_packet_size : Nat, background_rate : 0..MaxUInt32]
  BY DEF ScenarioFiles
<1>2. DOMAIN t = {"mode", "streams", "tx_window", "packet_size", "packet_rate_per_stream",
                  "probe_rate", "background_packet_size", "background_rate"}
  BY <1>1
<1>3. /\ t.packet_size \in HeaderSize..MaxPacket
      /\ t.streams \in 1..MaxStreams /\ t.tx_window \in 1..MaxTxWindow
      /\ t.mode \notin {"saturation", "latency-under-load"} => t.packet_rate_per_stream > 0
      /\ t.mode = "latency-under-load" =>
            /\ t.probe_rate > 0 /\ t.background_rate > 0
            /\ t.background_packet_size \in HeaderSize..MaxPacket
  BY DEF validate
<1>4. /\ n.packet_size = t.packet_size /\ n.streams = t.streams /\ n.tx_window = t.tx_window
      /\ n.packet_rate_per_stream = t.packet_rate_per_stream /\ n.probe_rate = t.probe_rate
      /\ n.background_packet_size = t.background_packet_size
      /\ n.background_rate = t.background_rate
      /\ Item(t, "mode", "") = t.mode
  BY <1>2 DEF Numbers, Item, Has
<1>5. /\ t.mode \in Modes /\ t.background_packet_size \in Nat
      /\ t.packet_rate_per_stream \in 0..MaxUInt32 /\ t.probe_rate \in 0..MaxUInt32
      /\ t.background_rate \in 0..MaxUInt32
  BY <1>1
<1>6. ParseTraffic(t) <=>
         /\ Item(t, "mode", "") \in Modes
         /\ n.packet_size \in HeaderSize..MaxPacket /\ n.streams \in 1..MaxStreams
         /\ n.tx_window \in 1..MaxTxWindow /\ n.background_packet_size \in 0..MaxPacket
         /\ n.packet_rate_per_stream \in 0..MaxUInt32 /\ n.probe_rate \in 0..MaxUInt32
         /\ n.background_rate \in 0..MaxUInt32
         /\ RatesPresent(Item(t, "mode", ""), n)
  BY DEF ParseTraffic, integer_in_range
<1> HIDE DEF t, n
<1>7. RatesPresent(t.mode, n)
  <2>1. \A x \in 0..MaxUInt32 : x > 0 => x # 0
    OBVIOUS
  <2>2. \A x \in HeaderSize..MaxPacket : x >= HeaderSize
    OBVIOUS
  <2> QED
    BY <1>3, <1>4, <1>5, <2>1, <2>2 DEF RatesPresent
<1>8. t.background_packet_size \in 0..MaxPacket <=> ~(t.background_packet_size > MaxPacket)
  BY <1>5 DEF MaxPacket
<1>9. ParseTraffic(t) <=> ~(t.background_packet_size > MaxPacket)
  BY <1>3, <1>4, <1>5, <1>6, <1>7, <1>8
<1> QED
  BY <1>9 DEF t

\* For each node the answer is the same, and the exceptions are the only
\* reasons to refuse.
LEMMA BothAccept ==
    ASSUME NEW s \in ScenarioFiles, validate(s), NEW run \in 0..MaxUInt32, NEW site \in {"A", "B"}
    PROVE  Accepts(Body(s, site, run)) <=> ~Exceptional(s, run)
<1> DEFINE l == Body(s, site, run)
<1>1. /\ l.radio = s.radio /\ l.traffic = s.traffic /\ l.run_id = run /\ l.peer_mac = "mac"
      /\ l.duration_us = s.duration \div MicroNs
      /\ l.role \in {"generator", "sink", "ping_initiator", "echo_responder"}
      /\ DOMAIN l = {"run_id", "peer_mac", "radio", "traffic", "duration_us", "role"}
  BY DEF Body
<1>2. /\ Has(l, "radio") /\ Has(l, "traffic") /\ Item(l, "run_id", -1) = run
      /\ Item(l, "duration_us", -1) = l.duration_us /\ Item(l, "peer_mac", "") = "mac"
      /\ Item(l, "role", "") = l.role
  BY <1>1 DEF Item, Has
<1> HIDE DEF l
<1>3. ParseRun(l) <=> run \in 1..MaxUInt32 /\ s.duration \div MicroNs \in 1..DayUs
  BY <1>1, <1>2 DEF ParseRun, integer_in_range, parse_mac
<1>4. s.duration \in Nat /\ s.duration > 0 /\ s.duration <= DayUs * MicroNs
  BY DEF validate, ScenarioFiles
<1>5. s.duration \div MicroNs \in 1..DayUs <=> ~(s.duration < MicroNs)
  BY <1>4, DurationInMicroseconds
<1>6. run \in 1..MaxUInt32 <=> run # 0
  BY ScenarioAssumption
<1>7. ParseRadio(l.radio)
  BY <1>1, RadioRulesAgree
<1>8. ParseTraffic(l.traffic) <=> ~(s.traffic.background_packet_size > MaxPacket)
  BY <1>1, TrafficRulesAgree
<1>9. Accepts(l) <=> ~Exceptional(s, run)
  BY <1>3, <1>5, <1>6, <1>7, <1>8 DEF Accepts, Exceptional
<1> QED
  BY <1>9 DEF l

\* Which line each configuration was made from.
Configured ==
    /\ stage \in {"loaded", "A", "B", "invalid_config", "invalid_json"} =>
          scenario \in ScenarioFiles /\ validate(scenario) /\ run_id \in 0..MaxUInt32
    /\ stage \in {"file", "loaded", "host_refused", "invalid_config", "invalid_json"} =>
          g_config = [site \in {"A", "B"} |-> None]
    /\ stage = "A" => /\ ~Exceptional(scenario, run_id) /\ scenario.radio.key # "long"
                      /\ g_config = [site \in {"A", "B"} |->
                            IF site = "A" THEN Cfg(Body(scenario, "A", run_id)) ELSE None]
    /\ stage = "B" => /\ ~Exceptional(scenario, run_id) /\ scenario.radio.key # "long"
                      /\ g_config = [site \in {"A", "B"} |-> Cfg(Body(scenario, site, run_id))]
    /\ stage = "invalid_config" => Exceptional(scenario, run_id) /\ scenario.radio.key # "long"
    /\ stage = "invalid_json" => scenario.radio.key = "long"

\* Load, Configure and Type keep account of it.
LEMMA ConfiguredInvariant == ScenarioSpec => []Configured
<1>1. ScenarioInit => Configured
  BY DEF ScenarioInit, Configured
<1>2. Configured /\ [ScenarioNext]_scenarioVars => Configured'
  <2> SUFFICES ASSUME Configured, [ScenarioNext]_scenarioVars PROVE Configured'
    OBVIOUS
  <2>1. ASSUME NEW s \in Scenarios, Load(s) PROVE Configured'
    <3>1. s \in ScenarioFiles /\ run_id' \in 0..MaxUInt32
      BY <2>1, ScenarioAssumption DEF Load
    <3>2. g_config' = [site \in {"A", "B"} |-> None] /\ scenario' = s
      BY <2>1 DEF Load, Configured
    <3>3. stage' = IF validate(s) THEN "loaded" ELSE "host_refused"
      BY <2>1 DEF Load
    <3> QED
      BY <3>1, <3>2, <3>3 DEF Configured
  <2>2. ASSUME NEW site \in {"A", "B"}, Configure(site) PROVE Configured'
    <3>1. /\ stage = (IF site = "A" THEN "loaded" ELSE "A")
          /\ scenario' = scenario /\ run_id' = run_id
      BY <2>2 DEF Configure
    <3>2. scenario \in ScenarioFiles /\ validate(scenario) /\ run_id \in 0..MaxUInt32
      BY <3>1 DEF Configured
    <3>3. Accepts(Body(scenario, site, run_id)) <=> ~Exceptional(scenario, run_id)
      BY <3>2, BothAccept
    <3>0. FitsLine(Body(scenario, site, run_id)) <=> scenario.radio.key # "long"
      <4>1. Has(Body(scenario, site, run_id), "radio")
            /\ Body(scenario, site, run_id).radio = scenario.radio
        BY DEF Body, Has
      <4>2. Item(scenario.radio, "key", "") = scenario.radio.key
        BY <3>2 DEF ScenarioFiles, Item, Has
      <4> QED
        BY <4>1, <4>2 DEF FitsLine
    <3>4. CASE /\ FitsLine(Body(scenario, site, run_id)) /\ Accepts(Body(scenario, site, run_id))
      <4>1. /\ g_config' = [g_config EXCEPT ![site] = Cfg(Body(scenario, site, run_id))]
            /\ stage' = site
        BY <2>2, <3>4 DEF Configure
      <4>2. CASE site = "A"
        <5>1. g_config = [x \in {"A", "B"} |-> None]
          BY <3>1, <4>2 DEF Configured
        <5>2. g_config' = [x \in {"A", "B"} |->
                              IF x = "A" THEN Cfg(Body(scenario, "A", run_id)) ELSE None]
          BY <4>1, <4>2, <5>1
        <5> QED
          BY <3>0, <3>1, <3>2, <3>3, <3>4, <4>1, <4>2, <5>2 DEF Configured
      <4>3. CASE site = "B"
        <5>1. g_config = [x \in {"A", "B"} |->
                              IF x = "A" THEN Cfg(Body(scenario, "A", run_id)) ELSE None]
          BY <3>1, <4>3 DEF Configured
        <5>2. g_config' = [x \in {"A", "B"} |-> Cfg(Body(scenario, x, run_id))]
          BY <4>1, <4>3, <5>1
        <5> QED
          BY <3>0, <3>1, <3>2, <3>3, <3>4, <4>1, <4>3, <5>2 DEF Configured
      <4> QED
        BY <4>2, <4>3
    <3>5. CASE /\ FitsLine(Body(scenario, site, run_id)) /\ ~Accepts(Body(scenario, site, run_id))
      <4>1. stage' = "invalid_config" /\ g_config' = g_config
        BY <2>2, <3>5 DEF Configure
      <4>2. site = "A"
        BY <3>1, <3>3, <3>5 DEF Configured
      <4>3. g_config = [x \in {"A", "B"} |-> None]
        BY <3>1, <4>2 DEF Configured
      <4> QED
        BY <3>0, <3>1, <3>2, <3>3, <3>5, <4>1, <4>3 DEF Configured
    <3>6. CASE ~FitsLine(Body(scenario, site, run_id))
      <4>1. stage' = "invalid_json" /\ g_config' = g_config
        BY <2>2, <3>6 DEF Configure
      <4>2. site = "A"
        BY <3>0, <3>1, <3>6 DEF Configured
      <4>3. g_config = [x \in {"A", "B"} |-> None]
        BY <3>1, <4>2 DEF Configured
      <4> QED
        BY <3>0, <3>1, <3>2, <3>6, <4>1, <4>3 DEF Configured
    <3> QED
      BY <3>4, <3>5, <3>6
  <2>3. ASSUME NEW site \in {"A", "B"}, NEW l \in Typed, Type(site, l) PROVE Configured'
    BY <2>3 DEF Type, Configured
  <2>4. CASE UNCHANGED scenarioVars
    BY <2>4 DEF scenarioVars, Configured
  <2> QED
    BY <2>1, <2>2, <2>3, <2>4 DEF ScenarioNext
<1> QED
  BY <1>1, <1>2, PTL DEF ScenarioSpec

\* Host and node disagree about the listed exceptions and about nothing else,
\* for every scenario file (scenario.rs validate, control.c parse_config).
THEOREM RulesDoAgree == ScenarioSpec => []RulesAgree
<1>1. Configured => RulesAgree
  BY DEF Configured, RulesAgree, Exceptional
<1> QED
  BY <1>1, ConfiguredInvariant, PTL

\* B never refuses what A took, and the two configurations fit each other,
\* for every scenario file (runner.rs, control.c parse_config).
THEOREM PairsFit == ScenarioSpec => []PairFits
<1>1. Configured => PairFits
  <2> SUFFICES ASSUME Configured PROVE PairFits
    OBVIOUS
  <2>1. stage \in {"invalid_config", "invalid_json"} => g_config["A"] = None
    BY DEF Configured
  <2>2. ASSUME stage = "B"
        PROVE  LET a == g_config["A"]  b == g_config["B"] IN
               /\ <<a.role, b.role>> \in {<<"generator", "sink">>,
                                          <<"ping_initiator", "echo_responder">>}
               /\ (\E f \in Frames(a) : f.type = "ping") => b.role = "echo_responder"
               /\ [a EXCEPT !.role = b.role] = b
    <3> DEFINE a == Cfg(Body(scenario, "A", run_id))
               b == Cfg(Body(scenario, "B", run_id))
    <3>1. g_config["A"] = a /\ g_config["B"] = b
      BY <2>2 DEF Configured
    <3>2. /\ a.role = (IF Initiates(scenario.traffic.mode) THEN "ping_initiator" ELSE "generator")
          /\ b.role = (IF Initiates(scenario.traffic.mode) THEN "echo_responder" ELSE "sink")
          /\ a.mode = scenario.traffic.mode
      BY DEF Cfg, Body
    <3>3. [a EXCEPT !.role = b.role] = b
      BY DEF Cfg, Body
    <3>4. (\E f \in Frames(a) : f.type = "ping") => Initiates(a.mode)
      BY DEF Frames, Initiates
    <3> HIDE DEF a, b
    <3> QED
      BY <3>1, <3>2, <3>3, <3>4
  <2> QED
    BY <2>1, <2>2 DEF PairFits
<1> QED
  BY <1>1, ConfiguredInvariant, PTL
-----------------------------------------------------------------------------
(* What holds of the lines between the host and a node.                    *)

\* The operator, or the script that calls the host, takes longer than the
\* milliseconds in which a node that waits for a line reads it.
Rested == \A s \in Sites : node[s].busy # "none" \/ to_node[s] = <<>>

\* A session is begun in such a state only.
Unhurried == [][Begin => Rested]_vars

\* The command of a request by its id: opening a port starts at 1, and both
\* sites are sent the same requests in the same order.
CmdOf == <<"info", "configure", "arm", "start", "stop", "result", "info">>

\* The id of the next request to a site that is open, by step.
NextA == <<1, 1, 1, 2, 2, 3, 3, 3, 4, 4, 5, 6, 6, 7, 7, 8, 8>>
NextB == <<1, 1, 1, 1, 2, 2, 3, 4, 4, 5, 5, 5, 6, 6, 7, 7, 8>>
NextOf(s) == IF s = "A" THEN NextA ELSE NextB

\* The step that opens s for the measurement.
OpenStep(s) == IF s = "A" THEN 3 ELSE 4

\* The session has opened s.
Open(s) == step > OpenStep(s)

\* The session waits for an answer of s.
Waits(s) == waiting /\ Site = s

\* The node is in a command that takes it several steps.
Executing(s) == node[s].busy \in {"configure", "stop", "result"}

\* Requests of the session to s that may be under way: the one it waits for,
\* and a stop whose failure it ignored.
Pending(s) ==
    (IF Waits(s) THEN {next_id[s] - 1} ELSE {})
    \cup (IF next_id[s] = 6 \/ (next_id[s] = 7 /\ Waits(s)) THEN {5} ELSE {})

\* Types of an answer and of what a client sees of a node.
Answers == [id : Nat, cmd : {"info", "configure", "arm", "start", "stop", "result"},
            ok : BOOLEAN, run_id : Nat, boot : Nat, session : Nat]
Nodes == [state : {"BOOT", "IDLE", "CONFIGURED", "ARMED", "RUNNING", "FINISHED", "ERROR"},
          run_id : Nat, role : {"ROLE_NONE", "ROLE_GENERATOR", "ROLE_SINK"},
          generator : {"none", "sending", "ending"}, gen_run : Nat,
          busy : {"none", "boot", "configure", "stop", "result"},
          reply : {"none", "ok", "invalid_state", "invalid_config", "run_id_mismatch",
                   "generator_start", "radio_config", "drain_timeout", "bad_request"}]

\* Types of the state; a step is a call of the script or its end.
SystemTypeOK ==
    /\ node \in [Sites -> Nodes] /\ boot \in [Sites -> Nat] /\ reading \in [Sites -> Request]
    /\ to_node \in [Sites -> Seq(Request)] /\ to_host \in [Sites -> Seq(Answers)]
    /\ session \in Nat /\ step \in 0..Len(Script) + 1 /\ waiting \in BOOLEAN
    /\ waiting => step \in 1..Len(Script)
    /\ next_id \in [Sites -> Nat] /\ found \subseteq Sites
    /\ opened \in [Sites -> Nat] /\ checked \in [Sites -> Nat]
    /\ results \in [Sites -> Answers] /\ outcome \in {"none", "saved", "failed"}
    /\ (step # 0 => session > 0)

\* The number of the next request follows from the step.
Ids ==
    /\ \A s \in Sites : Open(s) => next_id[s] = NextOf(s)[step] + (IF Waits(s) THEN 1 ELSE 0)
    /\ waiting /\ Opens => next_id[Site] = 2

\* The role that configure gives a site.
RoleOf(s) == IF s = "A" THEN "ROLE_GENERATOR" ELSE "ROLE_SINK"

\* A request is one of a session so far, with the fields its call has.
LineOK(s, r) ==
    /\ r.id \in 1..7 /\ r.cmd = CmdOf[r.id] /\ r.session \in 1..session
    /\ r.run_id = IF r.cmd = "info" THEN 0 ELSE r.session
    /\ r.role = IF r.id = 2 THEN RoleOf(s) ELSE "ROLE_NONE"

\* An answer is to such a request; a measurement answers for its own run
\* only.
AnswerOK(s, a) ==
    /\ a.id \in 1..7 /\ a.cmd = CmdOf[a.id] /\ a.session \in 1..session /\ a.boot <= boot[s]
    /\ a.ok /\ a.id \in 3..6 => a.run_id = a.session

\* A node executes the command it has read, for the run that command names;
\* a generator that lives while the node runs is of that run.
NodeOK(s) ==
    /\ node[s].run_id <= session /\ node[s].gen_run <= session
    /\ s = "B" => node[s].role # "ROLE_GENERATOR" /\ node[s].generator = "none"
    /\ node[s].state = "RUNNING" /\ node[s].generator # "none" => node[s].gen_run = node[s].run_id
    /\ Executing(s) =>
         LineOK(s, reading[s]) /\ reading[s].cmd = node[s].busy /\ reading[s].run_id = node[s].run_id

\* All lines of a site are of these kinds.
LinesOK(s) ==
    /\ NodeOK(s)
    /\ \A i \in DOMAIN to_node[s] : LineOK(s, to_node[s][i])
    /\ \A i \in DOMAIN to_host[s] : AnswerOK(s, to_host[s][i])

\* Nothing but the opening of a port follows the opening of a port.
Grouped(q) == \A i, j \in DOMAIN q : i < j /\ q[i].id = 1 => q[j].id = 1

\* Requests of one session, after any number of openings.
Before(x, y) == x.id < y.id \/ (x.id = 1 /\ y.id = 1)
Rising(q) == \A i, j \in DOMAIN q : i < j => Before(q[i], q[j])

\* What a session leaves to the next one in the input of a node.
Kept(s) ==
    /\ Grouped(to_node[s]) \/ Rising(to_node[s])
    /\ node[s].busy # "none" => Grouped(to_node[s])

\* Until a session has opened s, what is under way are requests of earlier
\* sessions and, behind all of them, openings.
Opening(s) ==
    InSession /\ ~Open(s) =>
       /\ Grouped(to_node[s])
       /\ Executing(s) => reading[s].session < session
       /\ \A j \in DOMAIN to_node[s] : to_node[s][j].id # 1 => to_node[s][j].session < session
       /\ Waits(s) =>
            /\ Grouped(to_host[s])
            /\ \A i \in DOMAIN to_host[s] : to_host[s][i].id = 1 =>
                 /\ ~Executing(s)
                 /\ \A j \in DOMAIN to_node[s] : to_node[s][j].id = 1
                 /\ node[s].busy = "boot" => to_node[s] = <<>>

\* A line that is no opening belongs to a request of this session that is
\* pending.
InPending(s, x) == x.id # 1 => x.session = session /\ x.id \in Pending(s)

\* From then on what is under way are openings and, behind all of them, the
\* requests it has not got the answer of, in the order of their ids.
Opened(s) ==
    Open(s) =>
       /\ Rising(to_host[s]) /\ Rising(to_node[s])
       /\ \A i \in DOMAIN to_host[s] : InPending(s, to_host[s][i])
       /\ \A j \in DOMAIN to_node[s] : InPending(s, to_node[s][j])
       /\ \A i \in DOMAIN to_host[s], j \in DOMAIN to_node[s] : Before(to_host[s][i], to_node[s][j])
       /\ Executing(s) =>
            /\ InPending(s, reading[s])
            /\ \A i \in DOMAIN to_host[s] : Before(to_host[s][i], reading[s])
            /\ \A j \in DOMAIN to_node[s] : Before(reading[s], to_node[s][j])
       /\ node[s].busy # "none" => \A j \in DOMAIN to_node[s] : to_node[s][j].id # 1

\* No answer is from before the boot the session recorded.
BootsOK(s) ==
    /\ opened[s] <= boot[s]
    /\ Open(s) => \A i \in DOMAIN to_host[s] :
                     to_host[s][i].id # 1 => opened[s] <= to_host[s][i].boot

\* The step that asks s for its result.
ResultStep(s) == IF s = "A" THEN 13 ELSE 14

\* The boots of the recorded info, the result and the last check are in
\* this order.
ResultsOK(s) ==
    /\ step > ResultStep(s) =>
         /\ results[s].session = session /\ results[s].run_id = session
         /\ opened[s] <= results[s].boot /\ results[s].boot <= boot[s]
         /\ \A i \in DOMAIN to_host[s] : to_host[s][i].id = 7 => results[s].boot <= to_host[s][i].boot
    /\ step > ResultStep(s) + 2 => results[s].boot <= checked[s]

\* What holds of a site.
SiteInv(s) == LinesOK(s) /\ Kept(s) /\ Opening(s) /\ Opened(s) /\ BootsOK(s) /\ ResultsOK(s)

\* States of a node in a measurement.
InMeasurement == {"ARMED", "RUNNING", "FINISHED"}

\* Node A has a generator of this session's run only after B was armed.
StartedA ==
    InSession /\ node["A"].generator # "none" /\ node["A"].gen_run = session => step >= 10

\* B measures this session's run only once the host has sent it its arm.
ArmedB == InSession /\ Measuring("B") => step >= 7

\* From the answer to arm on B measures, unless it has rebooted.
MeasuredB ==
    /\ step >= 8 /\ opened["B"] = boot["B"] => Measuring("B")
    /\ Open("B") => \A i \in DOMAIN to_host["B"] :
          to_host["B"][i].id = 3 /\ to_host["B"][i].ok /\ to_host["B"][i].boot = boot["B"]
          => Measuring("B")

\* From the answer to result on A has no generator.
QuietA ==
    /\ step >= 14 => node["A"].generator = "none"
    /\ Open("A") => \A i \in DOMAIN to_host["A"] :
          to_host["A"][i].id = 6 /\ to_host["A"][i].ok => node["A"].generator = "none"

\* What holds between the sites.
Traffic == StartedA /\ ArmedB /\ MeasuredB /\ QuietA

\* A cannot be started for this session's run any more: it does not have that
\* run, or its state does not lead to ARMED, or an old generator lives that
\* can only end by writing FINISHED.
Spoilt ==
    node["A"].run_id = session =>
       /\ node["A"].busy # "configure" /\ node["A"].state # "RUNNING"
       /\ node["A"].state \in {"CONFIGURED", "ARMED"} => node["A"].generator = "sending"

\* Nothing but this session's generator has sent, or can.
Clear == ~stray /\ (node["A"].generator = "none" \/ node["A"].gen_run = session)

\* So after an old generator has sent into B's measurement, A is not started.
StrayA ==
    /\ InSession /\ stray => step >= 7 /\ Spoilt
    /\ step >= 11 => Clear
    /\ Open("A") => \A i \in DOMAIN to_host["A"] :
          to_host["A"][i].id = 4 /\ to_host["A"][i].ok => Clear

\* The inductive invariant.
SystemInv ==
    /\ SystemTypeOK /\ Ids /\ (\A s \in Sites : SiteInv(s)) /\ Traffic /\ StrayA
    /\ SavedResultsOwn /\ SavedTrafficOwn
-----------------------------------------------------------------------------
(* The script, in numbers.                                                 *)

\* The site of each call of the script.
LEMMA ScriptSites ==
    /\ Len(Script) = 16
    /\ \A i \in 1..16 : Script[i][1] \in Sites
    /\ \A i \in 1..16 : Script[i][1] = "A" <=> i \in {1, 3, 5, 8, 10, 11, 13, 15}
    /\ \A i \in 1..16 : Script[i][1] = "B" <=> i \in {2, 4, 6, 7, 9, 12, 14, 16}
  BY DEF Script, Sites

\* The command of each call.
LEMMA ScriptCalls ==
    \A i \in 1..16 :
        /\ Script[i][2] = "probe" <=> i \in {1, 2}
        /\ Script[i][2] = "open" <=> i \in {3, 4}
        /\ Script[i][2] = "configure" <=> i \in {5, 6}
        /\ Script[i][2] = "arm" <=> i \in {7, 8}
        /\ Script[i][2] = "start" <=> i \in {9, 10}
        /\ Script[i][2] = "stop" <=> i \in {11, 12}
        /\ Script[i][2] = "result" <=> i \in {13, 14}
        /\ Script[i][2] = "check" <=> i \in {15, 16}
  BY DEF Script

\* The numbers of the requests, by step.
LEMMA NextIds ==
    /\ \A i \in 1..17 : NextA[i] =
          CASE i <= 3 -> 1 [] i \in 4..5 -> 2 [] i \in 6..8 -> 3 [] i \in 9..10 -> 4
            [] i = 11 -> 5 [] i \in 12..13 -> 6 [] i \in 14..15 -> 7 [] i \in 16..17 -> 8
    /\ \A i \in 1..17 : NextB[i] =
          CASE i <= 4 -> 1 [] i \in 5..6 -> 2 [] i = 7 -> 3 [] i \in 8..9 -> 4
            [] i \in 10..12 -> 5 [] i \in 13..14 -> 6 [] i \in 15..16 -> 7 [] i = 17 -> 8
  BY DEF NextA, NextB

\* The number and the command of a request, at the step that sends it.
LEMMA ScheduleHere ==
    ASSUME NEW i \in 1..16, NEW s, s = Script[i][1]
    PROVE  /\ s \in Sites
           /\ Script[i][2] \in {"probe", "open"} <=> i <= OpenStep(s)
           /\ Script[i][2] = "open" <=> i = OpenStep(s)
           /\ i > OpenStep(s) =>
                /\ NextOf(s)[i] \in 2..7
                /\ CmdOf[NextOf(s)[i]] = IF Script[i][2] = "check" THEN "info" ELSE Script[i][2]
                /\ Script[i][2] = "configure" <=> NextOf(s)[i] = 2
                /\ Script[i][2] = "stop" <=> NextOf(s)[i] = 5
                /\ Script[i][2] = "result" <=> NextOf(s)[i] = 6
                /\ Script[i][2] = "result" <=> i = ResultStep(s)
                /\ Script[i][2] = "check" <=> i = ResultStep(s) + 2
           /\ i > ResultStep(s) <=> NextOf(s)[i] >= 7
           /\ i >= OpenStep(s) => NextOf(s)[i + 1] = NextOf(s)[i] + 1
           /\ NextOf(s)[OpenStep(s)] = 1 /\ OpenStep(s) \in 3..4 /\ ResultStep(s) \in 13..14
<1> USE DEF NextOf, OpenStep, ResultStep, CmdOf
<1>1. CASE s = "A"
  <2>1. i \in {1, 3, 5, 8, 10, 11, 13, 15}
    BY <1>1, ScriptSites
  <2> QED
    BY <1>1, <2>1, ScriptSites, ScriptCalls, NextIds
<1>2. CASE s = "B"
  <2>1. i \in {2, 4, 6, 7, 9, 12, 14, 16}
    BY <1>2, ScriptSites
  <2>2. s # "A" /\ s \in Sites
    BY <1>2 DEF Sites
  <2>3. OpenStep(s) = 4 /\ ResultStep(s) = 14 /\ NextOf(s) = NextB
    BY <2>2
  <2> HIDE DEF NextOf, OpenStep, ResultStep
  <2> QED
    BY <2>1, <2>2, <2>3, ScriptCalls, NextIds
<1> QED
  BY <1>1, <1>2, ScriptSites DEF Sites

\* A step changes nothing in the schedule of the other site.
LEMMA ScheduleThere ==
    ASSUME NEW i \in 1..16, NEW s \in Sites, s # Script[i][1]
    PROVE  /\ i # OpenStep(s) /\ i # ResultStep(s) /\ i # ResultStep(s) + 2
           /\ i >= OpenStep(s) => NextOf(s)[i + 1] = NextOf(s)[i]
<1> USE DEF NextOf, OpenStep, ResultStep
<1>1. CASE s = "A"
  <2>1. i \in {2, 4, 6, 7, 9, 12, 14, 16}
    BY <1>1, ScriptSites DEF Sites
  <2> QED
    BY <1>1, <2>1, NextIds
<1>2. CASE s = "B"
  <2>1. Script[i][1] = "A"
    BY <1>2, ScriptSites DEF Sites
  <2>2. i \in {1, 3, 5, 8, 10, 11, 13, 15}
    BY <2>1, ScriptSites
  <2> QED
    BY <1>2, <2>2, NextIds
<1> QED
  BY <1>1, <1>2 DEF Sites
-----------------------------------------------------------------------------
(* A line that is read leaves the others in their order, a line that is    *)
(* written is the last.                                                    *)

\* What reading a line leaves.
LEMMA Read ==
    ASSUME NEW S, NEW q \in Seq(S), q # <<>>
    PROVE  /\ Tail(q) \in Seq(S) /\ 1 \in DOMAIN q /\ Head(q) = q[1] /\ Head(q) \in S
           /\ \A j \in DOMAIN q : j \in Nat /\ j >= 1
           /\ \A j \in DOMAIN Tail(q) :
                 j \in Nat /\ j >= 1 /\ j + 1 \in DOMAIN q /\ Tail(q)[j] = q[j + 1]
  OBVIOUS

\* What writing a line adds.
LEMMA Written ==
    ASSUME NEW S, NEW q \in Seq(S), NEW x \in S
    PROVE  /\ Append(q, x) \in Seq(S)
           /\ \A j \in DOMAIN Append(q, x) :
                 /\ j \in Nat
                 /\ \/ j \in DOMAIN q /\ Append(q, x)[j] = q[j] /\ j < Len(q) + 1
                    \/ j = Len(q) + 1 /\ Append(q, x)[j] = x
  OBVIOUS

\* Reading a line keeps the order of the others.
LEMMA OrderRead ==
    ASSUME NEW S, NEW q \in Seq(S), q # <<>>
    PROVE  /\ Grouped(q) => Grouped(Tail(q))
           /\ Rising(q) => Rising(Tail(q)) /\ \A j \in DOMAIN Tail(q) : Before(Head(q), Tail(q)[j])
           /\ /\ Grouped(q) \/ Rising(q)
              /\ Head(q).id # 1 /\ \A j \in DOMAIN q : q[j].id \in Nat \ {0}
              => Grouped(Tail(q))
           /\ Grouped(q) /\ Head(q).id = 1 => \A j \in DOMAIN Tail(q) : Tail(q)[j].id = 1
<1> DEFINE t == Tail(q)
<1>1. /\ 1 \in DOMAIN q /\ Head(q) = q[1]
      /\ \A j \in DOMAIN t : j \in Nat /\ j >= 1 /\ j + 1 \in DOMAIN q /\ t[j] = q[j + 1]
  BY Read
<1> HIDE DEF t
<1>2. Grouped(q) => Grouped(t)
  BY <1>1 DEF Grouped
<1>3. Rising(q) => Rising(t)
  BY <1>1 DEF Rising
<1>4. Rising(q) => \A j \in DOMAIN t : Before(Head(q), t[j])
  BY <1>1 DEF Rising
<1>5. Grouped(q) /\ Head(q).id = 1 => \A j \in DOMAIN t : t[j].id = 1
  BY <1>1 DEF Grouped
<1>6. ASSUME Rising(q), Head(q).id # 1, \A j \in DOMAIN q : q[j].id \in Nat \ {0}
      PROVE  Grouped(t)
  <2>1. \A j \in DOMAIN t : t[j].id # 1
    BY <1>1, <1>4, <1>6 DEF Before
  <2> QED
    BY <2>1 DEF Grouped
<1> QED
  BY <1>2, <1>3, <1>4, <1>5, <1>6 DEF t

\* Writing an opening behind openings, or a line behind those it follows,
\* keeps the order.
LEMMA OrderWritten ==
    ASSUME NEW S, NEW q \in Seq(S), NEW x \in S
    PROVE  /\ Grouped(q) /\ x.id = 1 => Grouped(Append(q, x))
           /\ (\A i \in DOMAIN q : q[i].id # 1) => Grouped(Append(q, x))
           /\ Rising(q) /\ (\A i \in DOMAIN q : Before(q[i], x)) => Rising(Append(q, x))
<1> DEFINE t == Append(q, x)
<1>1. \A j \in DOMAIN t : /\ j \in Nat
                          /\ \/ j \in DOMAIN q /\ t[j] = q[j] /\ j < Len(q) + 1
                             \/ j = Len(q) + 1 /\ t[j] = x
  BY Written
<1>2. Len(q) \in Nat
  OBVIOUS
<1> HIDE DEF t
<1>3. Grouped(q) /\ x.id = 1 => Grouped(t)
  BY <1>1, <1>2 DEF Grouped
<1>4. (\A i \in DOMAIN q : q[i].id # 1) => Grouped(t)
  BY <1>1, <1>2 DEF Grouped
<1>5. Rising(q) /\ (\A i \in DOMAIN q : Before(q[i], x)) => Rising(t)
  BY <1>1, <1>2 DEF Rising
<1> QED
  BY <1>3, <1>4, <1>5 DEF t

\* No lines are in any order.
LEMMA NothingWritten == Grouped(<<>>) /\ Rising(<<>>)
  BY DEF Grouped, Rising
-----------------------------------------------------------------------------
(* What a command does to a node.                                          *)

\* Commands that take a node several steps.
Waiting == {"configure", "stop", "result"}

\* What commands make of the state of a node, configure apart.
Leads(n, m) ==
    \/ m.state = n.state
    \/ m.state \in {"FINISHED", "ERROR"}
    \/ n.state = "CONFIGURED" /\ m.state = "ARMED"
    \/ n.state = "ARMED" /\ m.state = "RUNNING" /\ n.generator = "none"

\* A command does nothing to the generator of a node.
SameGenerator(n, m) == m.generator = n.generator /\ m.gen_run = n.gen_run

\* A command up to its first wait (control.c dispatch).
LEMMA DispatchFacts ==
    ASSUME NEW n \in Nodes, NEW c \in Request, NEW m \in Dispatched(n, c), n.busy = "none"
    PROVE  /\ m \in Nodes
           /\ m.busy = "none" \/ (m.busy \in Waiting /\ m.busy = c.cmd)
           /\ c.cmd # "configure" => m.run_id = n.run_id /\ m.role = n.role /\ Leads(n, m)
           /\ c.cmd = "configure" =>
                /\ m.state = n.state
                /\ \/ m.run_id = n.run_id /\ m.role = n.role /\ m.busy = "none"
                   \/ m.run_id = c.run_id /\ m.role = c.role /\ m.busy = "configure" /\ n.state # "RUNNING"
           /\ \/ SameGenerator(n, m)
              \/ /\ c.cmd = "start" /\ n.role = "ROLE_GENERATOR" /\ m.reply = "ok"
                 /\ n.generator = "none" /\ m.generator = "sending" /\ m.gen_run = n.run_id
           /\ c.cmd \in {"arm", "start", "stop", "result"} /\ c.run_id # 0
                 /\ (m.busy # "none" \/ m.reply = "ok") => m.run_id = c.run_id
           /\ c.cmd = "arm" /\ m.reply = "ok" => m.state = "ARMED"
           /\ c.cmd = "start" /\ m.reply = "ok" => n.state = "ARMED" /\ n.generator = "none"
           /\ c.cmd = "result" /\ m.busy = "none" => m.reply # "ok"
           /\ n.state \in InMeasurement /\ n.generator = "none" /\ n.role # "ROLE_GENERATOR"
                 => m.state \in InMeasurement
           /\ m.state \in InMeasurement /\ n.state \notin InMeasurement
                 => c.cmd = "arm" /\ m.reply = "ok"
<1> USE DEF Answer, Continues, Nodes, Request, InMeasurement, Waiting, Leads, SameGenerator
<1>1. CASE c.cmd = "info"
  BY <1>1 DEF Dispatched
<1>2. CASE c.cmd = "configure"
  <2>1. m \in ConfigureLine(n, c)
    BY <1>2 DEF Dispatched
  <2>2. \/ \E code \in {"invalid_state", "invalid_config"} : m = Answer(n, code)
        \/ /\ m = Continues([n EXCEPT !.run_id = c.run_id, !.role = c.role], "configure")
           /\ n.state \notin {"RUNNING", "ARMED"}
    <3> HIDE DEF Answer, Continues
    <3> QED
      BY <2>1 DEF ConfigureLine
  <2>3. CASE \E code \in {"invalid_state", "invalid_config"} : m = Answer(n, code)
    BY <1>2, <2>3
  <2>4. CASE /\ m = Continues([n EXCEPT !.run_id = c.run_id, !.role = c.role], "configure")
             /\ n.state \notin {"RUNNING", "ARMED"}
    BY <1>2, <2>4
  <2> QED
    BY <2>2, <2>3, <2>4
<1>3. CASE c.cmd \in {"arm", "start", "stop", "result"} /\ Mismatch(n, c)
  BY <1>3 DEF Dispatched
<1>4. CASE c.cmd = "arm" /\ ~Mismatch(n, c)
  BY <1>4 DEF Dispatched, ArmLine, Mismatch
<1>5. CASE c.cmd = "start" /\ ~Mismatch(n, c)
  <2> DEFINE failed == Answer([n EXCEPT !.state = "ERROR"], "generator_start")
             sends == Answer([n EXCEPT !.state = "RUNNING", !.generator = "sending",
                                       !.gen_run = n.run_id], "ok")
             listens == Answer([n EXCEPT !.state = "RUNNING"], "ok")
  <2>1. Dispatched(n, c) = StartLine(n) /\ (c.run_id # 0 => c.run_id = n.run_id)
    BY <1>5 DEF Dispatched, Mismatch
  <2>2. \/ n.state # "ARMED" /\ m = Answer(n, "invalid_state")
        \/ n.state = "ARMED" /\ m = failed /\ (n.generator # "none" \/ n.role = "ROLE_GENERATOR")
        \/ n.state = "ARMED" /\ m = sends /\ n.generator = "none" /\ n.role = "ROLE_GENERATOR"
        \/ n.state = "ARMED" /\ m = listens /\ n.generator = "none"
    <3> HIDE DEF Answer, Continues
    <3> QED
      BY <2>1 DEF StartLine
  <2>3. CASE n.state # "ARMED" /\ m = Answer(n, "invalid_state")
    BY <1>5, <2>1, <2>3
  <2>4. CASE n.state = "ARMED" /\ m = failed /\ (n.generator # "none" \/ n.role = "ROLE_GENERATOR")
    BY <1>5, <2>1, <2>4
  <2>5. CASE n.state = "ARMED" /\ m = sends /\ n.generator = "none" /\ n.role = "ROLE_GENERATOR"
    BY <1>5, <2>1, <2>5
  <2>6. CASE n.state = "ARMED" /\ m = listens /\ n.generator = "none"
    BY <1>5, <2>1, <2>6
  <2> QED
    BY <2>2, <2>3, <2>4, <2>5, <2>6
<1>6. CASE c.cmd = "stop" /\ ~Mismatch(n, c)
  BY <1>6 DEF Dispatched, StopLine, Mismatch
<1>7. CASE c.cmd = "result" /\ ~Mismatch(n, c)
  BY <1>7 DEF Dispatched, ResultLine, Mismatch
<1> QED
  BY <1>1, <1>2, <1>3, <1>4, <1>5, <1>6, <1>7

\* The end of a command that waited.
LEMMA CompleteFacts ==
    ASSUME NEW n \in Nodes, NEW m \in Completed(n)
    PROVE  /\ m \in Nodes /\ n.busy \in Waiting /\ m.busy = "none"
           /\ m.run_id = n.run_id /\ m.role = n.role /\ SameGenerator(n, m)
           /\ n.busy # "configure" => m.state = n.state
           /\ n.busy = "configure" => m.state \notin InMeasurement
           /\ n.busy = "result" /\ m.reply = "ok" => m.generator = "none"
<1> USE DEF Answer, Nodes, InMeasurement, Waiting, SameGenerator
<1>1. CASE n.busy = "configure"
  BY <1>1 DEF Completed
<1>2. CASE n.busy \in {"stop", "result"} /\ n.generator # "none"
  BY <1>2 DEF Completed
<1>3. CASE n.busy \in {"stop", "result"} /\ n.generator = "none"
  BY <1>3 DEF Completed
<1>4. n.busy \in Waiting
  BY DEF Completed
<1> QED
  BY <1>1, <1>2, <1>3, <1>4

\* A step of the generator task.
LEMMA GeneratorFacts ==
    ASSUME NEW n \in Nodes, NEW m \in GeneratorSteps(n)
    PROVE  /\ m \in Nodes /\ n.generator # "none"
           /\ m.busy = n.busy /\ m.run_id = n.run_id /\ m.role = n.role /\ m.gen_run = n.gen_run
           /\ \/ n.generator = "sending" /\ m.generator = "ending" /\ m.state \in {"FINISHED", "ERROR"}
              \/ n.generator = "ending" /\ m.generator = "none" /\ m.state = n.state
<1> USE DEF Nodes
<1>1. CASE n.generator = "sending"
  BY <1>1 DEF GeneratorSteps
<1>2. CASE n.generator = "ending"
  BY <1>2 DEF GeneratorSteps
<1>3. CASE n.generator = "none"
  BY <1>3 DEF GeneratorSteps
<1> QED
  BY <1>1, <1>2, <1>3

\* A node that has booted has no run, and app_main gives it none.
LEMMA BootFacts ==
    /\ \A n \in BootedNodes : /\ n \in Nodes /\ n.run_id = 0 /\ n.role = "ROLE_NONE"
                              /\ n.generator = "none" /\ n.gen_run = 0
                              /\ n.busy = "boot" /\ n.state \in {"BOOT", "ERROR"}
    /\ \A n \in Nodes : /\ Up(n) \in Nodes /\ Up(n).busy = "none" /\ Up(n).run_id = n.run_id
                        /\ Up(n).role = n.role /\ SameGenerator(n, Up(n))
                        /\ Up(n).state = IF n.state = "BOOT" THEN "IDLE" ELSE n.state
<1>1. ASSUME NEW n \in BootedNodes
      PROVE  /\ n \in Nodes /\ n.run_id = 0 /\ n.role = "ROLE_NONE"
             /\ n.generator = "none" /\ n.gen_run = 0
             /\ n.busy = "boot" /\ n.state \in {"BOOT", "ERROR"}
  BY DEF BootedNodes, NewNode, Nodes
<1>2. ASSUME NEW n \in Nodes
      PROVE  /\ Up(n) \in Nodes /\ Up(n).busy = "none" /\ Up(n).run_id = n.run_id
             /\ Up(n).role = n.role /\ SameGenerator(n, Up(n))
             /\ Up(n).state = IF n.state = "BOOT" THEN "IDLE" ELSE n.state
  <2> DEFINE state == IF n.state = "BOOT" THEN "IDLE" ELSE n.state
             m == [n EXCEPT !.busy = "none", !.state = state]
  <2>1. Up(n) = m
    BY Zenon DEF Up
  <2>2. state \in {"IDLE", "CONFIGURED", "ARMED", "RUNNING", "FINISHED", "ERROR"}
    BY DEF Nodes
  <2> HIDE DEF state
  <2>3. /\ m \in Nodes /\ m.busy = "none" /\ m.run_id = n.run_id
        /\ m.role = n.role /\ m.generator = n.generator /\ m.gen_run = n.gen_run /\ m.state = state
    BY <2>2 DEF Nodes
  <2> HIDE DEF m
  <2> QED
    BY <2>1, <2>3 DEF SameGenerator, state
<1> QED
  BY <1>1, <1>2
-----------------------------------------------------------------------------
(* Steps that leave a site as it is, but for an answer the host takes from *)
(* its line.                                                               *)

\* The output of a site, before and after the host has read a line or none.
Fewer(t, q) == t = q \/ (q # <<>> /\ t = Tail(q))

\* Lines that are left are lines that were there, in their order.
LEMMA FewerAnswers ==
    ASSUME NEW S, NEW q \in Seq(S), NEW t, Fewer(t, q)
    PROVE  /\ t \in Seq(S)
           /\ \A j \in DOMAIN t : \E i \in DOMAIN q : t[j] = q[i]
           /\ Grouped(q) => Grouped(t)
           /\ Rising(q) => Rising(t)
<1>1. CASE t = q
  BY <1>1
<1>2. CASE q # <<>> /\ t = Tail(q)
  <2>1. /\ t \in Seq(S)
        /\ \A j \in DOMAIN t : j + 1 \in DOMAIN q /\ t[j] = q[j + 1]
    BY <1>2, Read
  <2>2. (Grouped(q) => Grouped(t)) /\ (Rising(q) => Rising(t))
    BY <1>2, OrderRead
  <2> QED
    BY <2>1, <2>2
<1> QED
  BY <1>1, <1>2 DEF Fewer

\* The state of a site but for its output.
SiteVars(s) == <<node[s], reading[s], boot[s], to_node[s]>>

\* What the host keeps of a site.
HostSiteVars(s) == <<next_id[s], opened[s], checked[s], results[s]>>

\* Reading a line, or waiting for no answer any more, keeps what holds of a
\* site.
LEMMA SiteKept ==
    ASSUME NEW s \in Sites, SystemTypeOK, SiteInv(s), SiteVars(s)' = SiteVars(s),
           HostSiteVars(s)' = HostSiteVars(s),
           Fewer(to_host'[s], to_host[s]), session' = session, Waits(s)' => Waits(s),
           InSession' <=> InSession, Open(s)' <=> Open(s),
           Open(s) => Pending(s) \subseteq Pending(s)',
           step' > ResultStep(s) <=> step > ResultStep(s),
           step' > ResultStep(s) + 2 <=> step > ResultStep(s) + 2
    PROVE  SiteInv(s)'
<1> USE DEF SiteInv, SiteVars, HostSiteVars
<1> DEFINE q == to_host[s]
           t == to_host'[s]
<1>1. /\ \A j \in DOMAIN t : \E i \in DOMAIN q : t[j] = q[i]
      /\ Grouped(q) => Grouped(t)
      /\ Rising(q) => Rising(t)
  <2>1. q \in Seq(Answers)
    BY DEF SystemTypeOK
  <2> QED
    BY <2>1, FewerAnswers
<1>2. LinesOK(s)'
  BY <1>1 DEF LinesOK, NodeOK, LineOK, AnswerOK, Executing
<1>3. Kept(s)'
  BY DEF Kept
<1>4. Opening(s)'
  BY <1>1 DEF Opening, Executing
<1>5. Opened(s)'
  <2> SUFFICES ASSUME Open(s)' PROVE Opened(s)'
    BY DEF Opened
  <2> DEFINE P == Pending(s)
             R == Pending(s)'
             Mine(x, Q) == x.id # 1 => x.session = session /\ x.id \in Q
  <2>1. P \subseteq R
    OBVIOUS
  <2>2. /\ \A i \in DOMAIN q : Mine(q[i], P)
        /\ \A j \in DOMAIN to_node[s] : Mine(to_node[s][j], P)
        /\ Executing(s) => Mine(reading[s], P)
    BY DEF Opened, InPending
  <2> HIDE DEF P, R
  <2>3. /\ \A i \in DOMAIN t : Mine(t[i], R)
        /\ \A j \in DOMAIN to_node[s] : Mine(to_node[s][j], R)
        /\ Executing(s) => Mine(reading[s], R)
    BY <1>1, <2>1, <2>2
  <2>4. /\ \A i \in DOMAIN t : InPending(s, to_host[s][i])'
        /\ \A j \in DOMAIN to_node'[s] : InPending(s, to_node[s][j])'
        /\ Executing(s)' => InPending(s, reading[s])'
    BY <2>3 DEF InPending, Executing, R
  <2> QED
    BY <1>1, <2>4 DEF Opened, Executing
<1>6. BootsOK(s)' /\ ResultsOK(s)'
  BY <1>1 DEF BootsOK, ResultsOK
<1> QED
  BY <1>2, <1>3, <1>4, <1>5, <1>6

\* The session is over.
LEMMA SiteLeft ==
    ASSUME NEW s \in Sites, SystemTypeOK, SiteInv(s), SiteVars(s)' = SiteVars(s),
           opened'[s] = opened[s], Fewer(to_host'[s], to_host[s]), session' = session, step' = 0
    PROVE  SiteInv(s)'
<1> USE DEF SiteInv, SiteVars
<1>1. \A j \in DOMAIN to_host'[s] : \E i \in DOMAIN to_host[s] : to_host'[s][j] = to_host[s][i]
  <2>1. to_host[s] \in Seq(Answers)
    BY DEF SystemTypeOK
  <2> QED
    BY <2>1, FewerAnswers
<1>2. LinesOK(s)'
  BY <1>1 DEF LinesOK, NodeOK, LineOK, AnswerOK, Executing
<1>3. Kept(s)'
  BY DEF Kept
<1>4. ~InSession' /\ ~Open(s)' /\ ~(step' > ResultStep(s)) /\ ~(step' > ResultStep(s) + 2)
  BY DEF InSession, Open, OpenStep, ResultStep
<1> QED
  BY <1>2, <1>3, <1>4 DEF Opening, Opened, BootsOK, ResultsOK

\* A session begins with nodes at rest.
LEMMA SiteBegun ==
    ASSUME NEW s \in Sites, SystemTypeOK, SiteInv(s), SiteVars(s)' = SiteVars(s),
           opened'[s] = opened[s], to_host'[s] = to_host[s], session' = session + 1,
           step' \in {1, 3}, waiting' = FALSE, node[s].busy # "none" \/ to_node[s] = <<>>
    PROVE  SiteInv(s)'
<1> USE DEF SiteInv, SiteVars
<1>1. session \in Nat
  BY DEF SystemTypeOK
<1>2. \A k \in 1..session : k \in 1..session' /\ k < session'
  BY <1>1
<1>3. LinesOK(s)'
  <2>1. NodeOK(s)'
    <3>1. node[s].run_id \in Nat /\ node[s].gen_run \in Nat
      BY DEF SystemTypeOK, Nodes
    <3> QED
      BY <1>1, <1>2, <3>1 DEF LinesOK, NodeOK, LineOK, Executing
  <2> QED
    BY <1>2, <2>1 DEF LinesOK, LineOK, AnswerOK
<1>4. Kept(s)'
  BY DEF Kept
<1>5. ~Open(s)' /\ ~(step' > ResultStep(s)) /\ ~(step' > ResultStep(s) + 2) /\ ~Waits(s)'
  BY DEF Open, OpenStep, ResultStep, Waits
<1>6. Grouped(to_node[s])
  BY NothingWritten DEF Kept
<1>7. Opening(s)'
  <2>1. Executing(s) => reading[s].session < session'
    BY <1>2 DEF LinesOK, NodeOK, LineOK
  <2>2. \A j \in DOMAIN to_node[s] : to_node[s][j].session < session'
    BY <1>2 DEF LinesOK, LineOK
  <2> QED
    BY <1>5, <1>6, <2>1, <2>2 DEF Opening, Executing
<1> QED
  BY <1>3, <1>4, <1>5, <1>7 DEF Opened, BootsOK, ResultsOK
-----------------------------------------------------------------------------
(* The host writes a request.                                              *)

\* The id of the request of this step.
Id == IF Opens THEN 1 ELSE next_id[Site]

\* The site and the id of the request that the session makes or waits for.
LEMMA ThisStep ==
    ASSUME SystemTypeOK, Ids, Requesting
    PROVE  /\ step \in 1..16 /\ Site \in Sites /\ session \in Nat \ {0}
           /\ Opens <=> ~Open(Site)
           /\ Open(Site) => /\ NextOf(Site)[step] \in 2..7
                            /\ next_id[Site] = NextOf(Site)[step] + (IF waiting THEN 1 ELSE 0)
<1>1. step \in 1..16 /\ session \in Nat \ {0}
  BY ScriptSites DEF SystemTypeOK, Requesting
<1>2. Site \in Sites /\ (Opens <=> step <= OpenStep(Site)) /\ OpenStep(Site) \in 3..4
  BY <1>1, ScheduleHere DEF Site, Opens, Call
<1>3. Opens <=> ~Open(Site)
  BY <1>1, <1>2 DEF Open
<1>4. Open(Site) => NextOf(Site)[step] \in 2..7
  BY <1>1, ScheduleHere DEF Site, Open
<1> QED
  BY <1>1, <1>2, <1>3, <1>4 DEF Ids, Waits

\* The line that Send writes.
LEMMA LineWritten ==
    ASSUME SystemTypeOK, Ids, Requesting, ~waiting
    PROVE  /\ Line(Id) \in Request /\ LineOK(Site, Line(Id))
           /\ Line(Id).id = Id /\ Line(Id).session = session
           /\ Id \in 1..7 /\ (Id = 1 <=> Opens)
<1>1. /\ step \in 1..16 /\ Site \in Sites /\ session \in Nat \ {0}
      /\ Opens <=> ~Open(Site)
      /\ Open(Site) => next_id[Site] = NextOf(Site)[step]
  BY ThisStep
<1>2. CmdOf[1] = "info"
  BY DEF CmdOf
<1>3. CASE Opens
  <2>1. Line(Id) = [id |-> 1, cmd |-> "info", run_id |-> 0, role |-> "ROLE_NONE", session |-> session]
    BY <1>3 DEF Line, Id, Opens
  <2> QED
    BY <1>1, <1>2, <1>3, <2>1 DEF Request, LineOK, Id
<1>4. CASE ~Opens
  <2> DEFINE n == NextOf(Site)[step]
  <2>1. /\ n \in 2..7 /\ CmdOf[n] = IF Call = "check" THEN "info" ELSE Call
        /\ Call = "configure" <=> n = 2
        /\ Call = "check" <=> step = ResultStep(Site) + 2
        /\ CmdOf[n] \in {"info", "configure", "arm", "start", "stop", "result"}
    <3>1. /\ n \in 2..7 /\ CmdOf[n] = IF Call = "check" THEN "info" ELSE Call
          /\ Call = "configure" <=> n = 2
          /\ Call = "check" <=> step = ResultStep(Site) + 2
      BY <1>1, <1>4, ScheduleHere DEF Open, Site, Call
    <3> QED
      BY <3>1 DEF CmdOf
  <2>2. Id = n /\ Id # 1
    BY <1>1, <1>4, <2>1 DEF Id
  <2> HIDE DEF n
  <2>3. Call # "info"
    BY <1>1, ScriptCalls DEF Script, Call
  <2>4. Line(Id) = [id |-> n, cmd |-> CmdOf[n], run_id |-> IF CmdOf[n] = "info" THEN 0 ELSE session,
                    role |-> IF n = 2 THEN RoleOf(Site) ELSE "ROLE_NONE", session |-> session]
    BY <1>4, <2>1, <2>2, <2>3 DEF Line, RoleOf
  <2> QED
    BY <1>1, <1>4, <2>1, <2>2, <2>4 DEF Request, LineOK, RoleOf
<1> QED
  BY <1>3, <1>4

\* Opening a port drops what was in its input and writes an info.
LEMMA SiteOpening ==
    ASSUME NEW s \in Sites, s = Site, SystemTypeOK, Ids, SiteInv(s), Send, Opens
    PROVE  SiteInv(s)'
<1> DEFINE q == to_node[s]
           x == Line(Id)
<1>1. /\ Requesting /\ ~waiting /\ waiting' = TRUE /\ step' = step /\ session' = session
      /\ node' = node /\ reading' = reading /\ boot' = boot /\ opened' = opened
      /\ results' = results /\ checked' = checked
      /\ to_node' = [to_node EXCEPT ![Site] = Append(@, Line(Id))] /\ to_host' = Drained
  BY DEF Send, Id
<1>2. ~Open(s) /\ step \in 1..16
  BY <1>1, ThisStep
<1>3. x \in Request /\ LineOK(s, x) /\ x.id = 1
  BY <1>1, LineWritten
<1>4. q \in Seq(Request) /\ to_node'[s] = Append(q, x) /\ to_host'[s] = <<>>
  <2>1. to_node \in [Sites -> Seq(Request)] /\ to_host \in [Sites -> Seq(Answers)]
    BY DEF SystemTypeOK
  <2> QED
    BY <1>1, <1>2, <2>1 DEF Drained
<1>5. InSession /\ ~Open(s)' /\ Grouped(q)
  BY <1>1, <1>2 DEF SiteInv, Opening, InSession, Open
<1>6. Grouped(Append(q, x))
  BY <1>3, <1>4, <1>5, OrderWritten
<1>7. \A j \in DOMAIN Append(q, x) : \/ j \in DOMAIN q /\ Append(q, x)[j] = q[j]
                                     \/ Append(q, x)[j] = x
  BY <1>3, <1>4, Written
<1> HIDE DEF q, x
<1>8. \A j \in DOMAIN to_host'[s] : FALSE
  BY <1>4
<1>9. LinesOK(s)'
  <2>1. \A j \in DOMAIN to_node'[s] : LineOK(s, to_node'[s][j])
    BY <1>3, <1>4, <1>7 DEF SiteInv, LinesOK, q
  <2> QED
    BY <1>1, <1>8, <2>1 DEF SiteInv, LinesOK, NodeOK, LineOK, Executing
<1>10. Opening(s)'
  <2>1. \A j \in DOMAIN to_node'[s] : to_node'[s][j].id # 1 => to_node'[s][j].session < session
    BY <1>2, <1>3, <1>4, <1>5, <1>7 DEF SiteInv, Opening, q
  <2>2. Executing(s) => reading[s].session < session
    BY <1>2, <1>5 DEF SiteInv, Opening
  <2>3. Grouped(to_host'[s])
    BY <1>4, NothingWritten
  <2> QED
    BY <1>1, <1>4, <1>6, <1>8, <2>1, <2>2, <2>3 DEF Opening, Executing
<1>11. Kept(s)'
  BY <1>4, <1>6 DEF Kept
<1>12. ~(step' > ResultStep(s)) /\ ~(step' > ResultStep(s) + 2)
  BY <1>1, <1>2 DEF Open, OpenStep, ResultStep
<1> QED
  BY <1>1, <1>5, <1>9, <1>10, <1>11, <1>12 DEF SiteInv, Opened, BootsOK, ResultsOK

\* A request on an open port is the last in the input of its site.
LEMMA SiteRequest ==
    ASSUME NEW s \in Sites, s = Site, SystemTypeOK, Ids, SiteInv(s), Send, ~Opens
    PROVE  SiteInv(s)'
<1> DEFINE q == to_node[s]
           x == Line(Id)
           n == next_id[s]
<1>1. /\ Requesting /\ ~waiting /\ waiting' = TRUE /\ step' = step /\ session' = session
      /\ node' = node /\ reading' = reading /\ boot' = boot /\ opened' = opened
      /\ results' = results /\ checked' = checked /\ to_host' = to_host
      /\ to_node' = [to_node EXCEPT ![Site] = Append(@, Line(Id))]
      /\ next_id' = [next_id EXCEPT ![Site] = Id + 1]
  BY DEF Send, Id, Drained
<1>2. Open(s) /\ Open(s)' /\ step \in 1..16 /\ n \in 2..7 /\ Id = n
  BY <1>1, ThisStep DEF Id, Open
<1>3. x \in Request /\ LineOK(s, x) /\ x.id = n /\ x.session = session
  BY <1>1, <1>2, LineWritten
<1>4. q \in Seq(Request) /\ to_node'[s] = Append(q, x) /\ next_id'[s] = n + 1
  BY <1>1, <1>2 DEF SystemTypeOK
<1>5. \A j \in DOMAIN Append(q, x) : \/ j \in DOMAIN q /\ Append(q, x)[j] = q[j]
                                     \/ Append(q, x)[j] = x
  BY <1>3, <1>4, Written
<1>6. /\ \A k \in Pending(s) : k < n /\ k \in Pending(s)'
      /\ n \in Pending(s)'
  BY <1>1, <1>2, <1>4 DEF Pending, Waits, Site
<1>7. \A y : InPending(s, y) /\ y.id \in 1..7 => Before(y, x)
  BY <1>2, <1>3, <1>6 DEF InPending, Before
<1>8. /\ \A j \in DOMAIN q : Before(q[j], x)
      /\ \A i \in DOMAIN to_host[s] : Before(to_host[s][i], x)
      /\ Executing(s) => Before(reading[s], x)
  BY <1>2, <1>7 DEF SiteInv, Opened, LinesOK, NodeOK, LineOK, AnswerOK
<1>9. Rising(Append(q, x))
  BY <1>2, <1>3, <1>4, <1>8, OrderWritten DEF SiteInv, Opened
<1>10. node[s].busy # "none" => Grouped(Append(q, x))
  BY <1>2, <1>3, <1>4, OrderWritten DEF SiteInv, Opened
<1> DEFINE P == Pending(s)
           R == Pending(s)'
           Mine(y, Q) == y.id # 1 => y.session = session /\ y.id \in Q
<1>11. /\ \A i \in DOMAIN to_host[s] : Mine(to_host[s][i], R)
       /\ \A j \in DOMAIN Append(q, x) : Mine(Append(q, x)[j], R)
       /\ Executing(s) => Mine(reading[s], R)
  <2>1. /\ \A i \in DOMAIN to_host[s] : Mine(to_host[s][i], P)
        /\ \A j \in DOMAIN q : Mine(q[j], P)
        /\ Executing(s) => Mine(reading[s], P)
    BY <1>2 DEF SiteInv, Opened, InPending
  <2>2. Mine(x, R)
    BY <1>3, <1>6
  <2>3. P \subseteq R
    BY <1>6
  <2> HIDE DEF P, R, q, x
  <2> QED
    BY <1>5, <2>1, <2>2, <2>3
<1>12. Opened(s)'
  <2>1. /\ \A i \in DOMAIN to_host'[s] : InPending(s, to_host[s][i])'
        /\ \A j \in DOMAIN to_node'[s] : InPending(s, to_node[s][j])'
        /\ Executing(s)' => InPending(s, reading[s])'
    BY <1>1, <1>4, <1>11 DEF InPending, Executing
  <2> HIDE DEF P, R, q, x
  <2>2. /\ Rising(to_host'[s]) /\ Rising(to_node'[s])
    BY <1>1, <1>2, <1>4, <1>9 DEF SiteInv, Opened
  <2>3. \A i \in DOMAIN to_host[s], j \in DOMAIN Append(q, x) : Before(to_host[s][i], Append(q, x)[j])
    BY <1>2, <1>5, <1>8 DEF SiteInv, Opened, q
  <2>4. Executing(s) => /\ \A i \in DOMAIN to_host[s] : Before(to_host[s][i], reading[s])
                        /\ \A j \in DOMAIN Append(q, x) : Before(reading[s], Append(q, x)[j])
    BY <1>2, <1>5, <1>8 DEF SiteInv, Opened, q
  <2>5. node[s].busy # "none" => \A j \in DOMAIN Append(q, x) : Append(q, x)[j].id # 1
    BY <1>2, <1>3, <1>5 DEF SiteInv, Opened, q
  <2> QED
    BY <1>1, <1>4, <2>1, <2>2, <2>3, <2>4, <2>5 DEF Opened, Executing
<1> HIDE DEF q, x
<1>13. LinesOK(s)'
  <2>1. \A j \in DOMAIN to_node'[s] : LineOK(s, to_node'[s][j])
    BY <1>3, <1>4, <1>5 DEF SiteInv, LinesOK, q
  <2> QED
    BY <1>1, <2>1 DEF SiteInv, LinesOK, NodeOK, LineOK, AnswerOK, Executing
<1>14. Kept(s)'
  BY <1>1, <1>4, <1>9, <1>10 DEF Kept
<1> QED
  BY <1>1, <1>2, <1>12, <1>13, <1>14 DEF SiteInv, Opening, BootsOK, ResultsOK
-----------------------------------------------------------------------------
(* The host takes an answer.                                               *)

\* The answer to the opening of a port: behind it are openings only.
LEMMA SiteOpens ==
    ASSUME NEW s \in Sites, s = Site, SystemTypeOK, Ids, SiteInv(s), Requesting, waiting,
           to_host[s] # <<>>, to_host'[s] = Tail(to_host[s]), Call = "open",
           Matches(Head(to_host[s])), Accepted(Head(to_host[s]))
    PROVE  SiteInv(s)'
<1> USE DEF SiteInv
<1> DEFINE a == Head(to_host[s])
           q == to_host[s]
           t == Tail(to_host[s])
<1>1. /\ step' = step + 1 /\ waiting' = FALSE /\ opened' = [opened EXCEPT ![Site] = a.boot]
      /\ node' = node /\ reading' = reading /\ boot' = boot /\ to_node' = to_node
      /\ session' = session
  BY DEF Accepted, nodeVars
<1>2. /\ step \in 1..16 /\ step = OpenStep(s) /\ ~Open(s) /\ Open(s)' /\ Opens
      /\ ~(step' > ResultStep(s)) /\ ~(step' > ResultStep(s) + 2)
  <2>1. step \in 1..16 /\ Opens
    BY ThisStep DEF Opens
  <2>2. step = OpenStep(s) /\ OpenStep(s) \in 3..4 /\ ResultStep(s) \in 13..14
    BY <2>1, ScheduleHere DEF Site, Call
  <2> QED
    BY <1>1, <2>1, <2>2 DEF Open
<1>3. a.id = 1
  BY <1>2 DEF Matches, Ids
<1>4. /\ q \in Seq(Answers) /\ 1 \in DOMAIN q /\ q[1] = a
      /\ \A j \in DOMAIN t : j + 1 \in DOMAIN q /\ t[j] = q[j + 1]
  <2>1. q \in Seq(Answers)
    BY DEF SystemTypeOK
  <2> QED
    BY <2>1, Read
<1>5. /\ Grouped(q) /\ ~Executing(s) /\ \A j \in DOMAIN to_node[s] : to_node[s][j].id = 1
      /\ node[s].busy = "boot" => to_node[s] = <<>>
  BY <1>2, <1>3, <1>4 DEF Opening, Waits, InSession
<1>6. \A j \in DOMAIN t : t[j].id = 1
  BY <1>3, <1>4, <1>5, OrderRead
<1>7. opened'[s] = a.boot /\ a.boot <= boot[s]
  BY <1>1, <1>4 DEF SystemTypeOK, LinesOK, AnswerOK
<1> HIDE DEF q, t, a
<1>8. to_host'[s] = t
  BY DEF t
<1>9. LinesOK(s)'
  BY <1>1, <1>4, <1>8 DEF LinesOK, NodeOK, LineOK, AnswerOK, Executing, q
<1>10. Opened(s)'
  <2>1. node[s].busy # "none" => to_node[s] = <<>>
    <3>1. node[s] \in Nodes
      BY DEF SystemTypeOK
    <3> QED
      BY <1>5, <3>1 DEF Executing, Nodes
  <2>2. ~Executing(s)' /\ Rising(to_host'[s]) /\ Rising(to_node'[s])
    BY <1>1, <1>5, <1>6, <1>8 DEF Rising, Before, Executing
  <2>3. /\ \A i \in DOMAIN to_host'[s] : InPending(s, to_host[s][i])'
        /\ \A j \in DOMAIN to_node'[s] : InPending(s, to_node[s][j])'
    BY <1>1, <1>5, <1>6, <1>8 DEF InPending
  <2>4. \A i \in DOMAIN to_host'[s], j \in DOMAIN to_node'[s] : Before(to_host'[s][i], to_node'[s][j])
    BY <1>1, <1>5, <1>6, <1>8 DEF Before
  <2>5. node'[s].busy # "none" => \A j \in DOMAIN to_node'[s] : FALSE
    BY <1>1, <2>1
  <2> QED
    BY <2>2, <2>3, <2>4, <2>5 DEF Opened
<1>11. Opening(s)' /\ ResultsOK(s)'
  BY <1>2 DEF Opening, ResultsOK
<1>12. BootsOK(s)'
  BY <1>1, <1>6, <1>7, <1>8 DEF BootsOK
<1> QED
  BY <1>1, <1>9, <1>10, <1>11, <1>12 DEF Kept

\* The answer to a later request: nothing is behind it.
LEMMA SiteAnswered ==
    ASSUME NEW s \in Sites, s = Site, SystemTypeOK, Ids, SiteInv(s), Requesting, waiting,
           to_host[s] # <<>>, to_host'[s] = Tail(to_host[s]), ~Opens,
           Matches(Head(to_host[s])), Head(to_host[s]).ok, Accepted(Head(to_host[s]))
    PROVE  SiteInv(s)'
<1> USE DEF SiteInv
<1> DEFINE a == Head(to_host[s])
           q == to_host[s]
           t == Tail(to_host[s])
           n == next_id[s]
<1>1. /\ step' = step + 1 /\ waiting' = FALSE /\ node' = node /\ reading' = reading
      /\ boot' = boot /\ to_node' = to_node /\ session' = session
      /\ checked' = (IF Call = "check" THEN [checked EXCEPT ![Site] = a.boot] ELSE checked)
      /\ results' = (IF Call = "result" THEN [results EXCEPT ![Site] = a] ELSE results)
      /\ opened' = opened
  BY DEF Accepted, nodeVars, Opens
<1>2. /\ step \in 1..16 /\ Open(s) /\ Open(s)' /\ n \in 3..8 /\ n = NextOf(s)[step] + 1
      /\ Call = "result" <=> step = ResultStep(s)
      /\ Call = "result" => n = 7
      /\ Call = "check" => step = ResultStep(s) + 2
      /\ step = ResultStep(s) + 2 => Call = "check" /\ n = 8
      /\ ResultStep(s) \in 13..14
  <2>1. step \in 1..16 /\ Open(s) /\ NextOf(s)[step] \in 2..7 /\ n = NextOf(s)[step] + 1
    BY ThisStep
  <2>2. /\ Call = "result" <=> NextOf(s)[step] = 6
        /\ Call = "result" <=> step = ResultStep(s)
        /\ Call = "check" <=> step = ResultStep(s) + 2
    <3>1. step > OpenStep(s) /\ s = Script[step][1]
      BY <2>1 DEF Open, Site
    <3> QED
      BY <2>1, <3>1, ScheduleHere DEF Call
  <2>3. /\ step > ResultStep(s) => NextOf(s)[step] >= 7
        /\ ResultStep(s) \in 13..14
    BY <2>1, ScheduleHere DEF Site
  <2>4. Open(s)'
    BY <1>1, <2>1 DEF Open, OpenStep
  <2> QED
    BY <2>1, <2>2, <2>3, <2>4
<1>3. a.id = n - 1 /\ a.id # 1 /\ (Call = "result" => a.id = 6) /\ (Call = "check" => a.id = 7)
  BY <1>2 DEF Matches
<1>4. /\ q \in Seq(Answers) /\ 1 \in DOMAIN q /\ q[1] = a /\ Rising(q)
      /\ \A j \in DOMAIN t : j + 1 \in DOMAIN q /\ t[j] = q[j + 1]
      /\ t \in Seq(Answers)
  <2>1. q \in Seq(Answers) /\ Rising(q)
    BY <1>2 DEF SystemTypeOK, Opened
  <2> QED
    BY <2>1, Read
<1>5. \A y : InPending(s, y) => ~Before(a, y)
  <2>1. \A k \in Pending(s) : k \in Nat /\ k <= n - 1
    BY <1>2 DEF Pending, Waits
  <2> QED
    BY <1>2, <1>3, <2>1 DEF InPending, Before
<1>6. ~Executing(s)
  BY <1>2, <1>4, <1>5 DEF Opened
<1>7. \A j \in DOMAIN to_node[s] : FALSE
  BY <1>2, <1>4, <1>5 DEF Opened
<1>8. \A j \in DOMAIN t : FALSE
  <2>1. \A j \in DOMAIN t : Before(a, t[j])
    BY <1>4, OrderRead
  <2>2. \A j \in DOMAIN t : InPending(s, t[j])
    BY <1>2, <1>4 DEF Opened
  <2> QED
    BY <1>5, <2>1, <2>2
<1>9. AnswerOK(s, a) /\ a.session = session /\ opened[s] <= a.boot /\ a.boot <= boot[s]
  BY <1>2, <1>3, <1>4 DEF LinesOK, AnswerOK, Opened, InPending, BootsOK
<1> HIDE DEF q, t, a
<1>10. to_host'[s] = t
  BY DEF t
<1>11. LinesOK(s)'
  BY <1>1, <1>8, <1>10 DEF LinesOK, NodeOK, LineOK, Executing
<1>12. Opened(s)'
  BY <1>1, <1>6, <1>7, <1>8, <1>10 DEF Opened, Rising, Executing
<1>13. Kept(s)' /\ Opening(s)' /\ BootsOK(s)'
  BY <1>1, <1>2, <1>8, <1>10 DEF Kept, Opening, BootsOK
<1>14. ResultsOK(s)'
  <2>1. CASE Call = "result"
    <3>1. results'[s] = a /\ checked' = checked
      BY <1>1, <2>1 DEF SystemTypeOK
    <3>2. a.run_id = session
      BY <1>3, <1>9, <2>1 DEF AnswerOK, a
    <3>3. ~(step' > ResultStep(s) + 2)
      BY <1>1, <1>2, <2>1
    <3> QED
      BY <1>1, <1>8, <1>9, <1>10, <3>1, <3>2, <3>3 DEF ResultsOK
  <2>2. CASE Call = "check"
    <3>1. results' = results /\ checked'[s] = a.boot
      BY <1>1, <2>2 DEF SystemTypeOK
    <3>2. step > ResultStep(s) /\ results[s].boot <= a.boot
      BY <1>2, <1>3, <1>4, <2>2 DEF ResultsOK, q
    <3> QED
      BY <1>1, <1>2, <1>8, <1>10, <2>2, <3>1, <3>2 DEF ResultsOK
  <2>3. CASE Call \notin {"result", "check"}
    <3>1. results' = results /\ checked' = checked
      BY <1>1, <2>3
    <3>2. step # ResultStep(s) /\ step # ResultStep(s) + 2
      BY <1>2, <2>3
    <3>3. /\ step' > ResultStep(s) => step > ResultStep(s)
          /\ step' > ResultStep(s) + 2 => step > ResultStep(s) + 2
      BY <1>1, <1>2, <3>2
    <3> QED
      BY <1>1, <1>8, <1>10, <3>1, <3>3 DEF ResultsOK
  <2> QED
    BY <2>1, <2>2, <2>3
<1> QED
  BY <1>11, <1>12, <1>13, <1>14
-----------------------------------------------------------------------------
(* Every step of the host, for either site.                                *)

\* The host goes on to the next step, without an answer that matters to s.
LEMMA Advanced ==
    ASSUME NEW s \in Sites, SystemTypeOK, Ids, Requesting, waiting, step' = step + 1,
           waiting' = FALSE, next_id'[s] = next_id[s], s # Site \/ Call \in {"probe", "stop"}
    PROVE  /\ InSession' <=> InSession
           /\ Waits(s)' => Waits(s)
           /\ Open(s)' <=> Open(s)
           /\ Open(s) => Pending(s) \subseteq Pending(s)'
           /\ step' > ResultStep(s) <=> step > ResultStep(s)
           /\ step' > ResultStep(s) + 2 <=> step > ResultStep(s) + 2
<1>1. step \in 1..16 /\ Site \in Sites
  BY ThisStep
<1>2. InSession /\ InSession' /\ ~Waits(s)'
  BY <1>1 DEF InSession, Waits
<1>3. OpenStep(s) \in Nat /\ ResultStep(s) \in Nat
  BY DEF OpenStep, ResultStep
<1>4. CASE s # Site
  <2>1. step # OpenStep(s) /\ step # ResultStep(s) /\ step # ResultStep(s) + 2
    BY <1>1, <1>4, ScheduleThere DEF Site
  <2>2. ~Waits(s)
    BY <1>4 DEF Waits
  <2>3. Pending(s) = Pending(s)'
    BY <1>2, <2>2 DEF Pending
  <2> QED
    BY <1>1, <1>2, <1>3, <2>1, <2>3 DEF Open
<1>5. CASE s = Site /\ Call = "probe"
  <2>1. step < OpenStep(s)
    BY <1>1, <1>5, ScheduleHere DEF Site, Call
  <2>2. step + 1 <= OpenStep(s) /\ step + 1 <= ResultStep(s)
    BY <1>1, <1>3, <2>1 DEF OpenStep, ResultStep
  <2> QED
    BY <1>1, <1>2, <1>3, <2>1, <2>2 DEF Open
<1>6. CASE s = Site /\ Call = "stop"
  <2>1. /\ Script[step][2] = "stop" /\ step > OpenStep(s) /\ s = Script[step][1]
    <3>1. Opens <=> step <= OpenStep(s)
      BY <1>1, <1>6, ScheduleHere DEF Site, Call, Opens
    <3> QED
      BY <1>1, <1>3, <1>6, <3>1 DEF Opens, Call, Site
  <2>2. step # ResultStep(s) /\ step # ResultStep(s) + 2 /\ NextOf(s)[step] = 5
    BY <1>1, <2>1, ScheduleHere
  <2>3. next_id[s] = 6
    BY <1>1, <1>3, <1>6, <2>1, <2>2, ThisStep DEF Open
  <2>4. Pending(s) = {5} /\ Pending(s)' = {5}
    BY <1>2, <2>3 DEF Pending
  <2> QED
    BY <1>1, <1>2, <1>3, <2>1, <2>2, <2>4 DEF Open
<1> QED
  BY <1>4, <1>5, <1>6

\* A request that failed.
LEMMA SiteFailed ==
    ASSUME NEW s \in Sites, SystemTypeOK, Ids, SiteInv(s), Requesting, waiting, Failed,
           Fewer(to_host'[s], to_host[s])
    PROVE  SiteInv(s)'
<1>1. CASE Call \in {"probe", "stop"}
  <2>1. /\ step' = step + 1 /\ waiting' = FALSE /\ SiteVars(s)' = SiteVars(s)
        /\ HostSiteVars(s)' = HostSiteVars(s) /\ session' = session /\ next_id'[s] = next_id[s]
    BY <1>1 DEF Failed, nodeVars, SiteVars, HostSiteVars
  <2> QED
    BY <1>1, <2>1, Advanced, SiteKept
<1>2. CASE Call \notin {"probe", "stop"}
  <2>1. /\ step' = 0 /\ SiteVars(s)' = SiteVars(s) /\ opened'[s] = opened[s] /\ session' = session
    BY <1>2 DEF Failed, End, nodeVars, SiteVars
  <2> QED
    BY <2>1, SiteLeft
<1> QED
  BY <1>1, <1>2

\* A step that leaves the host where it is.
LEMMA SiteWaits ==
    ASSUME NEW s \in Sites, SystemTypeOK, SiteInv(s), Fewer(to_host'[s], to_host[s]),
           UNCHANGED <<nodeVars, hostVars>>
    PROVE  SiteInv(s)'
<1>1. /\ SiteVars(s)' = SiteVars(s) /\ HostSiteVars(s)' = HostSiteVars(s) /\ session' = session
      /\ step' = step /\ waiting' = waiting /\ next_id' = next_id
  BY DEF nodeVars, hostVars, SiteVars, HostSiteVars
<1>2. /\ Waits(s)' <=> Waits(s)
      /\ InSession' <=> InSession
      /\ Open(s)' <=> Open(s)
  BY <1>1 DEF Waits, Site, InSession, Open
<1>3. Pending(s) = Pending(s)'
  BY <1>1, <1>2 DEF Pending
<1> QED
  BY <1>1, <1>2, <1>3, SiteKept

\* Every step of the host keeps what holds of each site.
LEMMA HostSites ==
    ASSUME NEW s \in Sites, SystemTypeOK, Ids, SiteInv(s),
           Begin \/ HostStep \/ TornLine \/ Abort, Begin => Rested
    PROVE  SiteInv(s)'
<1>1. CASE Begin
  <2>1. step = 0 /\ waiting = FALSE
    BY <1>1 DEF Begin, InSession, SystemTypeOK
  <2>2. /\ SiteVars(s)' = SiteVars(s) /\ opened'[s] = opened[s] /\ to_host'[s] = to_host[s]
        /\ session' = session + 1 /\ step' \in {1, 3} /\ waiting' = FALSE
        /\ node[s].busy # "none" \/ to_node[s] = <<>>
    BY <1>1, <2>1 DEF Begin, nodeVars, SiteVars, FirstOpen, Rested
  <2> QED
    BY <2>2, SiteBegun
<1>2. CASE Send
  <2>1. CASE s = Site
    BY <1>2, <2>1, SiteOpening, SiteRequest
  <2>2. CASE s # Site
    <3>1. to_node \in [Sites -> Seq(Request)] /\ to_host \in [Sites -> Seq(Answers)]
          /\ next_id \in [Sites -> Nat]
      BY DEF SystemTypeOK
    <3>2. /\ SiteVars(s)' = SiteVars(s) /\ HostSiteVars(s)' = HostSiteVars(s)
          /\ Fewer(to_host'[s], to_host[s]) /\ session' = session /\ step' = step
      BY <1>2, <2>2, <3>1 DEF Send, SiteVars, HostSiteVars, Fewer, Drained
    <3>3. /\ ~Waits(s)' /\ ~Waits(s)
          /\ InSession' <=> InSession
          /\ Open(s)' <=> Open(s)
      BY <2>2, <3>2 DEF Waits, Site, InSession, Open
    <3>4. Pending(s)' = Pending(s)
      BY <3>2, <3>3 DEF Pending, HostSiteVars
    <3> QED
      BY <3>2, <3>3, <3>4, SiteKept
  <2> QED
    BY <2>1, <2>2
<1>3. CASE Receive
  <2>1. /\ Requesting /\ waiting /\ to_host[Site] # <<>>
        /\ to_host' = [to_host EXCEPT ![Site] = Tail(@)]
        /\ to_host \in [Sites -> Seq(Answers)]
    BY <1>3 DEF Receive, SystemTypeOK
  <2>2. /\ s = Site => to_host'[s] = Tail(to_host[s])
        /\ Fewer(to_host'[s], to_host[s])
    BY <2>1 DEF Fewer
  <2>3. CASE UNCHANGED <<nodeVars, hostVars>>
    BY <2>2, <2>3, SiteWaits
  <2>4. CASE Failed
    BY <2>1, <2>2, <2>4, SiteFailed
  <2>5. CASE Matches(Head(to_host[Site])) /\ Head(to_host[Site]).ok /\ Accepted(Head(to_host[Site]))
    <3>1. CASE s = Site /\ Call = "open"
      BY <2>1, <2>2, <2>5, <3>1, SiteOpens
    <3>2. CASE s = Site /\ ~Opens
      BY <2>1, <2>2, <2>5, <3>2, SiteAnswered
    <3>3. CASE s # Site \/ Call = "probe"
      <4>1. /\ step' = step + 1 /\ waiting' = FALSE /\ SiteVars(s)' = SiteVars(s)
            /\ session' = session /\ next_id'[s] = next_id[s]
        BY <2>5 DEF Accepted, nodeVars, SiteVars
      <4>2. HostSiteVars(s)' = HostSiteVars(s)
        BY <2>5, <3>3 DEF Accepted, HostSiteVars, SystemTypeOK
      <4> QED
        BY <2>1, <2>2, <3>3, <4>1, <4>2, Advanced, SiteKept
    <3> QED
      BY <3>1, <3>2, <3>3 DEF Opens
  <2> QED
    BY <1>3, <2>3, <2>4, <2>5 DEF Receive
<1>4. CASE Timeout
  <2>1. Requesting /\ waiting /\ Failed /\ Fewer(to_host'[s], to_host[s])
    BY <1>4 DEF Timeout, Fewer
  <2> QED
    BY <2>1, SiteFailed
<1>5. CASE TornLine
  <2>1. Fewer(to_host'[s], to_host[s]) /\ UNCHANGED <<nodeVars, hostVars>>
    BY <1>5 DEF TornLine, Fewer, SystemTypeOK
  <2> QED
    BY <2>1, SiteWaits
<1>6. CASE NotTwo \/ Save \/ Abort
  <2>1. /\ step' = 0 /\ SiteVars(s)' = SiteVars(s) /\ opened'[s] = opened[s] /\ session' = session
        /\ Fewer(to_host'[s], to_host[s])
    BY <1>6 DEF NotTwo, Save, Abort, End, nodeVars, SiteVars, Fewer
  <2> QED
    BY <2>1, SiteLeft
<1> QED
  BY <1>1, <1>2, <1>3, <1>4, <1>5, <1>6 DEF HostStep
-----------------------------------------------------------------------------
(* The steps of a node, for its own site.                                  *)

\* The fields of a reply.
LEMMA ReplyFacts ==
    ASSUME NEW r \in Request, NEW n \in Nodes, NEW b \in Nat
    PROVE  /\ Reply(r, n, b) \in Answers
           /\ Reply(r, n, b).id = r.id /\ Reply(r, n, b).cmd = r.cmd
           /\ Reply(r, n, b).session = r.session /\ Reply(r, n, b).boot = b
           /\ Reply(r, n, b).run_id = n.run_id
           /\ Reply(r, n, b).ok <=> n.reply = "ok"
<1> DEFINE ok == n.reply = "ok"
           x == [id |-> r.id, cmd |-> r.cmd, ok |-> ok, run_id |-> n.run_id, boot |-> b,
                 session |-> r.session]
<1>1. Reply(r, n, b) = x
  BY Zenon DEF Reply
<1>2. ok \in BOOLEAN
  BY Zenon
<1> HIDE DEF ok
<1>3. /\ x \in Answers /\ x.id = r.id /\ x.cmd = r.cmd /\ x.session = r.session /\ x.boot = b
      /\ x.run_id = n.run_id /\ x.ok = ok
  BY <1>2 DEF Answers, Request, Nodes
<1> HIDE DEF x
<1>4. ok <=> n.reply = "ok"
  BY DEF ok
<1> QED
  BY <1>1, <1>3, <1>4, Zenon

\* What a step of a node leaves alone.
LEMMA HostKept ==
    ASSUME NEW s \in Sites, UNCHANGED hostVars
    PROVE  /\ HostSiteVars(s)' = HostSiteVars(s) /\ session' = session /\ step' = step
           /\ Waits(s)' <=> Waits(s)
           /\ InSession' <=> InSession
           /\ Open(s)' <=> Open(s)
           /\ Pending(s)' = Pending(s)
<1>1. /\ HostSiteVars(s)' = HostSiteVars(s) /\ session' = session
      /\ step' = step /\ waiting' = waiting /\ next_id' = next_id
  BY DEF hostVars, HostSiteVars
<1>2. /\ Waits(s)' <=> Waits(s)
      /\ InSession' <=> InSession
      /\ Open(s)' <=> Open(s)
  BY <1>1 DEF Waits, Site, InSession, Open
<1>3. Pending(s)' = Pending(s)
  BY <1>1, <1>2 DEF Pending
<1> QED
  BY <1>1, <1>2, <1>3

\* A step of the other node.
LEMMA SiteElsewhere ==
    ASSUME NEW s \in Sites, SystemTypeOK, SiteInv(s), UNCHANGED hostVars,
           SiteVars(s)' = SiteVars(s), to_host'[s] = to_host[s]
    PROVE  SiteInv(s)'
<1>1. Fewer(to_host'[s], to_host[s])
  BY DEF Fewer
<1>2. /\ HostSiteVars(s)' = HostSiteVars(s) /\ session' = session /\ step' = step
      /\ Waits(s)' <=> Waits(s)
      /\ InSession' <=> InSession
      /\ Open(s)' <=> Open(s)
      /\ Pending(s)' = Pending(s)
  BY HostKept
<1> QED
  BY <1>1, <1>2, SiteKept

\* A node enters control_run, or its generator takes a step.
LEMMA SiteUp ==
    ASSUME NEW s \in Sites, SystemTypeOK, SiteInv(s), UNCHANGED hostVars,
           UNCHANGED <<boot, reading, to_node, to_host>>, node'[s] \in Nodes,
           \/ node[s].busy = "boot" /\ node'[s].busy = "none"
           \/ node'[s].busy = node[s].busy,
           node'[s].run_id = node[s].run_id, node'[s].role = node[s].role,
           node'[s].gen_run = node[s].gen_run, node[s].generator = "none" => node'[s].generator = "none",
           node'[s].state = "RUNNING" => node[s].state = "RUNNING"
    PROVE  SiteInv(s)'
<1> USE DEF SiteInv
<1>1. /\ HostSiteVars(s)' = HostSiteVars(s) /\ session' = session /\ step' = step
      /\ Waits(s)' <=> Waits(s)
      /\ InSession' <=> InSession
      /\ Open(s)' <=> Open(s)
      /\ Pending(s)' = Pending(s)
  BY HostKept
<1>2. Executing(s)' <=> Executing(s)
  BY DEF Executing
<1>3. Executing(s) => node'[s].busy = node[s].busy
  BY DEF Executing
<1>4. /\ node'[s].busy # "none" => node[s].busy # "none"
      /\ node'[s].busy = "boot" => node[s].busy = "boot"
  OBVIOUS
<1>5. LinesOK(s)'
  BY <1>1, <1>2, <1>3 DEF LinesOK, NodeOK, LineOK, AnswerOK
<1>6. Kept(s)' /\ Opening(s)'
  BY <1>1, <1>2, <1>4 DEF Kept, Opening
<1>7. Opened(s)'
  BY <1>1, <1>2, <1>4 DEF Opened, InPending
<1> QED
  BY <1>1, <1>5, <1>6, <1>7 DEF BootsOK, ResultsOK, HostSiteVars

\* A reboot: no line is left, no answer is of the new boot.
LEMMA SiteReboots ==
    ASSUME NEW s \in Sites, SystemTypeOK, SiteInv(s), UNCHANGED hostVars,
           to_host' = to_host, boot'[s] = boot[s] + 1, to_node'[s] = <<>>,
           node'[s] \in BootedNodes
    PROVE  SiteInv(s)'
<1> USE DEF SiteInv
<1>1. /\ HostSiteVars(s)' = HostSiteVars(s) /\ session' = session /\ step' = step
      /\ Waits(s)' <=> Waits(s)
      /\ InSession' <=> InSession
      /\ Open(s)' <=> Open(s)
      /\ Pending(s)' = Pending(s)
  BY HostKept
<1>2. /\ node'[s].run_id = 0 /\ node'[s].role = "ROLE_NONE" /\ node'[s].generator = "none"
      /\ node'[s].gen_run = 0 /\ node'[s].busy = "boot"
  BY BootFacts
<1>3. ~Executing(s)'
  BY <1>2 DEF Executing
<1>4. /\ boot[s] \in Nat /\ session \in Nat /\ opened[s] \in Nat /\ results[s].boot \in Nat
      /\ \A i \in DOMAIN to_host[s] : to_host[s][i] \in Answers
  <2>1. /\ boot[s] \in Nat /\ session \in Nat /\ opened[s] \in Nat /\ results[s] \in Answers
        /\ to_host[s] \in Seq(Answers)
    BY DEF SystemTypeOK
  <2>2. results[s].boot \in Nat
    BY <2>1 DEF Answers
  <2> HIDE DEF Answers
  <2> QED
    BY <2>1, <2>2
<1>5. \A i \in DOMAIN to_host[s] : AnswerOK(s, to_host[s][i])'
  BY <1>1, <1>4 DEF LinesOK, AnswerOK, Answers
<1>6. \A j \in DOMAIN to_node'[s] : FALSE
  OBVIOUS
<1>7. LinesOK(s)'
  BY <1>1, <1>2, <1>3, <1>4, <1>5, <1>6 DEF LinesOK, NodeOK
<1>8. Kept(s)'
  BY NothingWritten DEF Kept
<1>9. Opening(s)'
  BY <1>1, <1>3, <1>6, NothingWritten DEF Opening
<1>10. Opened(s)'
  BY <1>1, <1>3, <1>6, NothingWritten DEF Opened, InPending
<1>11. BootsOK(s)' /\ ResultsOK(s)'
  BY <1>1, <1>4 DEF BootsOK, ResultsOK, HostSiteVars
<1> QED
  BY <1>7, <1>8, <1>9, <1>10, <1>11

\* The commands by their ids.
LEMMA Commands ==
    ASSUME NEW s, NEW r, LineOK(s, r)
    PROVE  /\ r.id \in 1..7 /\ r.session \in 1..session
           /\ r.id = 1 => r.cmd = "info"
           /\ r.cmd = "configure" <=> r.id = 2
           /\ r.cmd = "arm" <=> r.id = 3
           /\ r.cmd = "start" <=> r.id = 4
           /\ r.cmd = "stop" <=> r.id = 5
           /\ r.cmd = "result" <=> r.id = 6
           /\ r.id \in 2..6 => r.run_id = r.session
           /\ r.id = 2 => r.role = RoleOf(s)
  BY DEF LineOK, CmdOf

\* A node reads a line: either it executes the command, or it has answered.
LEMMA SiteReads ==
    ASSUME NEW s \in Sites, SystemTypeOK, SiteInv(s), UNCHANGED hostVars, boot' = boot,
           node[s].busy = "none", to_node[s] # <<>>,
           node'[s] \in Dispatched(node[s], Head(to_node[s])),
           to_host'[s] = IF node'[s].busy = "none"
                         THEN Append(to_host[s], Reply(Head(to_node[s]), node'[s], boot[s]))
                         ELSE to_host[s],
           reading'[s] = Head(to_node[s]), to_node'[s] = Tail(to_node[s])
    PROVE  SiteInv(s)'
<1> USE DEF SiteInv
<1> DEFINE c == Head(to_node[s])
           n == node[s]
           m == node'[s]
           x == Reply(c, m, boot[s])
           u == to_node[s]
           t == Tail(to_node[s])
           h == to_host[s]
           k == to_host'[s]
<1>1. /\ HostSiteVars(s)' = HostSiteVars(s) /\ session' = session /\ step' = step
      /\ Waits(s)' <=> Waits(s)
      /\ InSession' <=> InSession
      /\ Open(s)' <=> Open(s)
      /\ Pending(s)' = Pending(s)
  BY HostKept
<1>2. /\ n \in Nodes /\ u \in Seq(Request) /\ h \in Seq(Answers) /\ boot[s] \in Nat
      /\ session \in Nat
  BY DEF SystemTypeOK
<1>3. /\ t \in Seq(Request) /\ 1 \in DOMAIN u /\ c = u[1] /\ c \in Request
      /\ \A j \in DOMAIN t : j + 1 \in DOMAIN u /\ t[j] = u[j + 1]
  BY <1>2, Read
<1>4. LineOK(s, c)
  BY <1>3 DEF LinesOK
<1>5. /\ m \in Nodes
      /\ m.busy = "none" \/ (m.busy \in Waiting /\ m.busy = c.cmd)
      /\ c.cmd # "configure" => m.run_id = n.run_id /\ m.role = n.role /\ Leads(n, m)
      /\ c.cmd = "configure" =>
           /\ m.state = n.state
           /\ \/ m.run_id = n.run_id /\ m.role = n.role /\ m.busy = "none"
              \/ m.run_id = c.run_id /\ m.role = c.role /\ m.busy = "configure" /\ n.state # "RUNNING"
      /\ \/ SameGenerator(n, m)
         \/ /\ c.cmd = "start" /\ n.role = "ROLE_GENERATOR"
            /\ n.generator = "none" /\ m.generator = "sending" /\ m.gen_run = n.run_id
      /\ c.cmd \in {"arm", "start", "stop", "result"} /\ c.run_id # 0
            /\ (m.busy # "none" \/ m.reply = "ok") => m.run_id = c.run_id
  BY <1>2, <1>3, DispatchFacts
<1>6. /\ x \in Answers /\ x.id = c.id /\ x.cmd = c.cmd /\ x.session = c.session
      /\ x.boot = boot[s] /\ x.run_id = m.run_id
      /\ x.ok <=> m.reply = "ok"
  BY <1>2, <1>3, <1>5, ReplyFacts
<1>7. /\ k \in Seq(Answers)
      /\ \A i \in DOMAIN k : \/ i \in DOMAIN h /\ k[i] = h[i]
                             \/ m.busy = "none" /\ k[i] = x
      /\ m.busy # "none" => k = h
      /\ m.busy = "none" => k = Append(h, x)
  BY <1>2, <1>6, Written
<1>8.
      /\ Grouped(u) => Grouped(t)
      /\ Rising(u) => Rising(t) /\ \A j \in DOMAIN t : Before(c, t[j])
      /\ (Grouped(u) \/ Rising(u)) /\ c.id # 1 => Grouped(t)
      /\ Grouped(u) /\ c.id = 1 => \A j \in DOMAIN t : t[j].id = 1
  <2>1. \A j \in DOMAIN u : u[j].id \in Nat \ {0}
    BY DEF LinesOK, LineOK
  <2> QED
    BY <1>2, <2>1, OrderRead
<1>9. /\ c.id \in 1..7 /\ c.session \in 1..session
      /\ c.id = 1 => c.cmd = "info"
      /\ c.cmd = "configure" <=> c.id = 2
      /\ c.cmd = "arm" <=> c.id = 3
      /\ c.cmd = "start" <=> c.id = 4
      /\ c.cmd = "stop" <=> c.id = 5
      /\ c.cmd = "result" <=> c.id = 6
      /\ c.id \in 2..6 => c.run_id = c.session
      /\ c.id = 2 => c.role = RoleOf(s)
  BY <1>4, Commands
<1>10. /\ m.busy # "none" => c.id # 1
       /\ Executing(s)' <=> m.busy # "none"
       /\ m.busy # "boot" /\ ~Executing(s)
  BY <1>5, <1>9 DEF Waiting, Executing
<1>11. /\ node[s] = n /\ node'[s] = m /\ to_node[s] = u /\ to_node'[s] = t /\ to_host[s] = h
       /\ to_host'[s] = k /\ reading'[s] = c
  OBVIOUS
<1> HIDE DEF c, n, m, x, u, t, h, k
<1>12. LinesOK(s)'
  <2>1. AnswerOK(s, x)
    <3>1. x.ok /\ x.id \in 3..6 => x.run_id = x.session
      BY <1>2, <1>5, <1>6, <1>9
    <3> QED
      BY <1>2, <1>4, <1>6, <1>9, <3>1 DEF AnswerOK, LineOK
  <2>2. \A i \in DOMAIN k : AnswerOK(s, k[i])
    BY <1>7, <1>11, <2>1 DEF LinesOK
  <2>3. \A i \in DOMAIN to_host'[s] : AnswerOK(s, to_host[s][i])'
    BY <1>1, <1>11, <2>2 DEF AnswerOK
  <2>4. \A j \in DOMAIN to_node'[s] : LineOK(s, to_node[s][j])'
    BY <1>1, <1>3, <1>11 DEF LinesOK, LineOK
  <2>5. m.run_id <= session /\ m.gen_run <= session
    BY <1>2, <1>5, <1>9, <1>11 DEF LinesOK, NodeOK, SameGenerator
  <2>6. s = "B" => m.role # "ROLE_GENERATOR" /\ m.generator = "none"
    <3>1. s = "B" => RoleOf(s) = "ROLE_SINK" /\ n.role # "ROLE_GENERATOR" /\ n.generator = "none"
      BY <1>11 DEF LinesOK, NodeOK, RoleOf
    <3> QED
      BY <1>5, <1>9, <3>1 DEF SameGenerator
  <2>8. m.state = "RUNNING" /\ m.generator # "none" => m.gen_run = m.run_id
    <3>1. n.state = "RUNNING" /\ n.generator # "none" => n.gen_run = n.run_id
      BY <1>11 DEF LinesOK, NodeOK
    <3> QED
      BY <1>5, <3>1 DEF SameGenerator, Leads
  <2>7. Executing(s)' => LineOK(s, reading[s])' /\ c.cmd = m.busy /\ c.run_id = m.run_id
    <3>1. m.busy # "none" => c.run_id = m.run_id
      BY <1>2, <1>5, <1>9 DEF Waiting
    <3> QED
      BY <1>1, <1>4, <1>5, <1>10, <1>11, <3>1 DEF LineOK
  <2> QED
    BY <1>1, <1>11, <2>3, <2>4, <2>5, <2>6, <2>7, <2>8 DEF LinesOK, NodeOK
<1>13. Kept(s)'
  BY <1>8, <1>10, <1>11 DEF Kept
<1>14. Opening(s)'
  <2> SUFFICES ASSUME InSession, ~Open(s)
               PROVE  Opening(s)'
    BY <1>1 DEF Opening
  <2>1. /\ Grouped(u) /\ Grouped(t)
        /\ Executing(s)' => c.session < session
        /\ \A j \in DOMAIN t : t[j].id # 1 => t[j].session < session
    BY <1>3, <1>8, <1>10, <1>11 DEF Opening
  <2>2. c.id = 1 => m.busy = "none" /\ \A j \in DOMAIN t : t[j].id = 1
    BY <1>8, <1>10, <2>1
  <2>3. ASSUME Waits(s)
        PROVE  /\ Grouped(k)
               /\ \A i \in DOMAIN k : k[i].id = 1 => c.id = 1
    <3>1. Grouped(h) /\ \A i \in DOMAIN h : h[i].id = 1 => c.id = 1
      BY <1>3, <1>11, <2>3 DEF Opening
    <3>2. Grouped(Append(h, x))
      BY <1>2, <1>6, <3>1, OrderWritten
    <3> QED
      BY <1>6, <1>7, <3>1, <3>2
  <2> QED
    BY <1>1, <1>10, <1>11, <2>1, <2>2, <2>3 DEF Opening
<1>15. Opened(s)'
  <2> SUFFICES ASSUME Open(s)
               PROVE  Opened(s)'
    BY <1>1 DEF Opened
  <2>1. /\ Rising(h) /\ Rising(u) /\ Rising(t)
        /\ \A j \in DOMAIN t : Before(c, t[j])
        /\ \A i \in DOMAIN h : Before(h[i], c)
        /\ \A i \in DOMAIN h, j \in DOMAIN t : Before(h[i], t[j])
    BY <1>3, <1>8, <1>11 DEF Opened
  <2>2. Rising(k)
    <3>1. \A i \in DOMAIN h : Before(h[i], x)
      BY <1>6, <2>1 DEF Before
    <3> QED
      BY <1>2, <1>6, <1>7, <2>1, <3>1, OrderWritten
  <2>3. /\ \A i \in DOMAIN k : InPending(s, k[i])
        /\ \A j \in DOMAIN t : InPending(s, t[j])
        /\ InPending(s, c)
    BY <1>3, <1>6, <1>7, <1>11 DEF Opened, InPending
  <2>4. \A i \in DOMAIN k, j \in DOMAIN t : Before(k[i], t[j])
    BY <1>6, <1>7, <2>1 DEF Before
  <2>5. m.busy # "none" => /\ \A i \in DOMAIN k : Before(k[i], c)
                           /\ \A j \in DOMAIN t : t[j].id # 1
    BY <1>7, <1>9, <1>10, <2>1 DEF Before
  <2>6. /\ \A i \in DOMAIN to_host'[s] : InPending(s, to_host[s][i])'
        /\ \A j \in DOMAIN to_node'[s] : InPending(s, to_node[s][j])'
        /\ InPending(s, reading[s])'
    BY <1>1, <1>11, <2>3 DEF InPending
  <2> QED
    BY <1>1, <1>10, <1>11, <2>1, <2>2, <2>4, <2>5, <2>6 DEF Opened
<1>16. BootsOK(s)' /\ ResultsOK(s)'
  BY <1>1, <1>6, <1>7, <1>11 DEF BootsOK, ResultsOK, HostSiteVars
<1> QED
  BY <1>12, <1>13, <1>14, <1>15, <1>16

\* A node is done with a command that took its time, and answers.
LEMMA SiteCompletes ==
    ASSUME NEW s \in Sites, SystemTypeOK, SiteInv(s), UNCHANGED hostVars,
           UNCHANGED <<boot, reading, to_node>>, node'[s] \in Completed(node[s]),
           to_host'[s] = Append(to_host[s], Reply(reading[s], node'[s], boot[s]))
    PROVE  SiteInv(s)'
<1> USE DEF SiteInv
<1> DEFINE c == reading[s]
           n == node[s]
           m == node'[s]
           x == Reply(c, m, boot[s])
           u == to_node[s]
           h == to_host[s]
           k == to_host'[s]
<1>1. /\ HostSiteVars(s)' = HostSiteVars(s) /\ session' = session /\ step' = step
      /\ Waits(s)' <=> Waits(s)
      /\ InSession' <=> InSession
      /\ Open(s)' <=> Open(s)
      /\ Pending(s)' = Pending(s)
  BY HostKept
<1>2. /\ n \in Nodes /\ h \in Seq(Answers) /\ boot[s] \in Nat /\ session \in Nat /\ c \in Request
  BY DEF SystemTypeOK
<1>3. /\ m \in Nodes /\ n.busy \in Waiting /\ m.busy = "none"
      /\ m.run_id = n.run_id /\ m.role = n.role /\ SameGenerator(n, m)
      /\ m.state = "RUNNING" => n.state = "RUNNING"
  BY <1>2, CompleteFacts DEF InMeasurement
<1>4. Executing(s) /\ LineOK(s, c) /\ c.cmd = n.busy /\ c.run_id = n.run_id
  BY <1>3 DEF LinesOK, NodeOK, Executing, Waiting
<1>5. /\ c.id \in 1..7 /\ c.session \in 1..session /\ c.id \in {2, 5, 6} /\ c.run_id = c.session
  BY <1>3, <1>4, Commands DEF Waiting
<1>6. /\ x \in Answers /\ x.id = c.id /\ x.cmd = c.cmd /\ x.session = c.session
      /\ x.boot = boot[s] /\ x.run_id = m.run_id
  BY <1>2, <1>3, ReplyFacts
<1>7. /\ \A i \in DOMAIN k : \/ i \in DOMAIN h /\ k[i] = h[i]
                             \/ k[i] = x
      /\ k = Append(h, x)
  BY <1>2, <1>6, Written
<1>8. ~Executing(s)'
  BY <1>3 DEF Executing
<1>9. /\ node[s] = n /\ node'[s] = m /\ to_node[s] = u /\ to_node'[s] = u /\ to_host[s] = h
      /\ to_host'[s] = k /\ reading[s] = c
  OBVIOUS
<1> HIDE DEF c, n, m, x, u, h, k
<1>10. LinesOK(s)'
  <2>1. AnswerOK(s, x)
    <3>1. x.cmd = CmdOf[x.id]
      BY <1>4, <1>6, Zenon DEF LineOK
    <3>2. x.run_id = x.session
      BY <1>3, <1>4, <1>5, <1>6
    <3>3. x.boot <= boot[s]
      BY <1>2, <1>6
    <3> QED
      BY <1>5, <1>6, <3>1, <3>2, <3>3 DEF AnswerOK
  <2>2. \A i \in DOMAIN k : AnswerOK(s, k[i])
    BY <1>7, <1>9, <2>1 DEF LinesOK
  <2>3. \A i \in DOMAIN to_host'[s] : AnswerOK(s, to_host[s][i])'
    BY <1>1, <1>9, <2>2 DEF AnswerOK
  <2>4. \A j \in DOMAIN to_node'[s] : LineOK(s, to_node[s][j])'
    BY <1>1, <1>9 DEF LinesOK, LineOK
  <2> QED
    BY <1>1, <1>3, <1>8, <1>9, <2>3, <2>4 DEF LinesOK, NodeOK, SameGenerator
<1>11. Kept(s)'
  BY <1>3, <1>9 DEF Kept
<1>12. Opening(s)'
  <2> SUFFICES ASSUME InSession, ~Open(s)
               PROVE  Opening(s)'
    BY <1>1 DEF Opening
  <2>1. ASSUME Waits(s)
        PROVE  Grouped(k) /\ \A i \in DOMAIN k : k[i].id # 1
    <3>1. \A i \in DOMAIN h : h[i].id # 1
      BY <1>4, <1>9, <2>1 DEF Opening
    <3> QED
      BY <1>2, <1>5, <1>6, <1>7, <3>1, OrderWritten
  <2> QED
    BY <1>1, <1>8, <1>9, <2>1 DEF Opening
<1>13. Opened(s)'
  <2> SUFFICES ASSUME Open(s)
               PROVE  Opened(s)'
    BY <1>1 DEF Opened
  <2>1. /\ Rising(h) /\ Rising(u)
        /\ \A j \in DOMAIN u : Before(c, u[j])
        /\ \A i \in DOMAIN h : Before(h[i], c)
        /\ \A i \in DOMAIN h, j \in DOMAIN u : Before(h[i], u[j])
    BY <1>4, <1>9 DEF Opened
  <2>2. Rising(k)
    <3>1. \A i \in DOMAIN h : Before(h[i], x)
      BY <1>6, <2>1 DEF Before
    <3> QED
      BY <1>2, <1>6, <1>7, <2>1, <3>1, OrderWritten
  <2>3. /\ \A i \in DOMAIN k : InPending(s, k[i])
        /\ \A j \in DOMAIN u : InPending(s, u[j])
    BY <1>4, <1>6, <1>7, <1>9 DEF Opened, InPending
  <2>4. \A i \in DOMAIN k, j \in DOMAIN u : Before(k[i], u[j])
    BY <1>6, <1>7, <2>1 DEF Before
  <2>5. /\ \A i \in DOMAIN to_host'[s] : InPending(s, to_host[s][i])'
        /\ \A j \in DOMAIN to_node'[s] : InPending(s, to_node[s][j])'
    BY <1>1, <1>9, <2>3 DEF InPending
  <2> QED
    BY <1>1, <1>3, <1>8, <1>9, <2>1, <2>2, <2>4, <2>5 DEF Opened
<1>14. BootsOK(s)' /\ ResultsOK(s)'
  BY <1>1, <1>6, <1>7, <1>9 DEF BootsOK, ResultsOK, HostSiteVars
<1> QED
  BY <1>10, <1>11, <1>12, <1>13, <1>14

\* A step of node r changes nothing of another site.
LEMMA NodeOnly ==
    ASSUME SystemTypeOK, NEW r \in Sites, NodeStep(r) \/ NodeGenerate(r) \/ Reboot(r)
    PROVE  /\ UNCHANGED hostVars
           /\ \A s \in Sites \ {r} : SiteVars(s)' = SiteVars(s) /\ to_host'[s] = to_host[s]
<1> USE DEF SystemTypeOK, SiteVars
<1>1. CASE NodeBoot(r)
  BY <1>1 DEF NodeBoot
<1>2. CASE NodeRead(r)
  BY <1>2 DEF NodeRead, NodeBecomes
<1>3. CASE NodeComplete(r)
  BY <1>3 DEF NodeComplete, NodeBecomes
<1>4. CASE NodeGenerate(r)
  BY <1>4 DEF NodeGenerate
<1>5. CASE Reboot(r)
  BY <1>5 DEF Reboot
<1> QED
  BY <1>1, <1>2, <1>3, <1>4, <1>5 DEF NodeStep

\* What the steps of node r do to its site.
LEMMA NodeActs ==
    ASSUME SystemTypeOK, NEW r \in Sites
    PROVE  /\ NodeBoot(r) =>
                /\ node[r].busy = "boot" /\ node'[r] = Up(node[r])
                /\ UNCHANGED <<boot, reading, to_node, to_host>>
           /\ NodeRead(r) =>
                /\ node[r].busy = "none" /\ to_node[r] # <<>> /\ boot' = boot
                /\ node'[r] \in Dispatched(node[r], Head(to_node[r]))
                /\ to_host'[r] = (IF node'[r].busy = "none"
                                  THEN Append(to_host[r], Reply(Head(to_node[r]), node'[r], boot[r]))
                                  ELSE to_host[r])
                /\ reading'[r] = Head(to_node[r]) /\ to_node'[r] = Tail(to_node[r])
           /\ NodeComplete(r) =>
                /\ UNCHANGED <<boot, reading, to_node>> /\ node'[r] \in Completed(node[r])
                /\ to_host'[r] = Append(to_host[r], Reply(reading[r], node'[r], boot[r]))
           /\ NodeGenerate(r) =>
                node'[r] \in GeneratorSteps(node[r]) /\ UNCHANGED <<boot, reading, to_node, to_host>>
           /\ Reboot(r) =>
                /\ to_host' = to_host /\ boot'[r] = boot[r] + 1 /\ to_node'[r] = <<>>
                /\ reading' = reading /\ node'[r] \in BootedNodes
<1>0. /\ node \in [Sites -> Nodes] /\ boot \in [Sites -> Nat] /\ reading \in [Sites -> Request]
      /\ to_node \in [Sites -> Seq(Request)] /\ to_host \in [Sites -> Seq(Answers)]
  BY DEF SystemTypeOK
<1>1. ASSUME NodeRead(r)
      PROVE  /\ node[r].busy = "none" /\ to_node[r] # <<>> /\ boot' = boot
             /\ node'[r] \in Dispatched(node[r], Head(to_node[r]))
             /\ to_host'[r] = (IF node'[r].busy = "none"
                               THEN Append(to_host[r], Reply(Head(to_node[r]), node'[r], boot[r]))
                               ELSE to_host[r])
             /\ reading'[r] = Head(to_node[r]) /\ to_node'[r] = Tail(to_node[r])
  <2>1. PICK m \in Dispatched(node[r], Head(to_node[r])) : NodeBecomes(r, m, Head(to_node[r]))
    BY <1>1 DEF NodeRead
  <2>2. /\ node'[r] = m
        /\ to_host'[r] = IF m.busy = "none"
                         THEN Append(to_host[r], Reply(Head(to_node[r]), m, boot[r])) ELSE to_host[r]
    BY <1>0, <2>1 DEF NodeBecomes
  <2> QED
    BY <1>0, <1>1, <2>1, <2>2 DEF NodeRead
<1>2. ASSUME NodeComplete(r)
      PROVE  /\ UNCHANGED <<boot, reading, to_node>> /\ node'[r] \in Completed(node[r])
             /\ to_host'[r] = Append(to_host[r], Reply(reading[r], node'[r], boot[r]))
  <2>1. PICK m \in Completed(node[r]) : NodeBecomes(r, m, reading[r])
    BY <1>2 DEF NodeComplete
  <2>2. m.busy = "none"
    BY <1>0, CompleteFacts
  <2>3. /\ node'[r] = m
        /\ to_host'[r] = Append(to_host[r], Reply(reading[r], m, boot[r]))
    BY <1>0, <2>1, <2>2 DEF NodeBecomes
  <2> QED
    BY <1>2, <2>1, <2>3 DEF NodeComplete
<1>3. NodeBoot(r) => /\ node[r].busy = "boot" /\ node'[r] = Up(node[r])
                     /\ UNCHANGED <<boot, reading, to_node, to_host>>
  BY <1>0 DEF NodeBoot
<1>4. NodeGenerate(r) =>
        node'[r] \in GeneratorSteps(node[r]) /\ UNCHANGED <<boot, reading, to_node, to_host>>
  BY <1>0 DEF NodeGenerate
<1>5. Reboot(r) => /\ to_host' = to_host /\ boot'[r] = boot[r] + 1 /\ to_node'[r] = <<>>
                   /\ reading' = reading /\ node'[r] \in BootedNodes
  BY <1>0 DEF Reboot
<1> QED
  BY <1>1, <1>2, <1>3, <1>4, <1>5

\* Every step of a node keeps what holds of each site.
LEMMA NodeSites ==
    ASSUME NEW r \in Sites, NEW s \in Sites, SystemTypeOK, SiteInv(s),
           NodeStep(r) \/ NodeGenerate(r) \/ Reboot(r)
    PROVE  SiteInv(s)'
<1>1. UNCHANGED hostVars
  BY NodeOnly
<1>2. CASE s # r
  BY <1>1, <1>2, NodeOnly, SiteElsewhere
<1>3. CASE s = r /\ NodeBoot(s)
  <2>1. /\ node[s].busy = "boot" /\ node'[s] = Up(node[s])
        /\ UNCHANGED <<boot, reading, to_node, to_host>>
    BY <1>3, NodeActs
  <2>2. node[s] \in Nodes
    BY DEF SystemTypeOK
  <2>3. /\ node'[s] \in Nodes /\ node'[s].busy = "none" /\ node'[s].run_id = node[s].run_id
        /\ node'[s].role = node[s].role
        /\ node'[s].generator = node[s].generator /\ node'[s].gen_run = node[s].gen_run
        /\ node'[s].state = "RUNNING" => node[s].state = "RUNNING"
    BY <2>1, <2>2, BootFacts DEF SameGenerator
  <2> QED
    BY <1>1, <2>1, <2>3, SiteUp
<1>4. CASE s = r /\ NodeRead(s)
  BY <1>1, <1>4, NodeActs, SiteReads
<1>5. CASE s = r /\ NodeComplete(s)
  BY <1>1, <1>5, NodeActs, SiteCompletes
<1>6. CASE s = r /\ NodeGenerate(s)
  <2>1. node'[s] \in GeneratorSteps(node[s]) /\ UNCHANGED <<boot, reading, to_node, to_host>>
    BY <1>6, NodeActs
  <2>2. /\ node'[s] \in Nodes /\ node[s].generator # "none"
        /\ node'[s].busy = node[s].busy /\ node'[s].run_id = node[s].run_id
        /\ node'[s].role = node[s].role /\ node'[s].gen_run = node[s].gen_run
        /\ node'[s].state = "RUNNING" => node[s].state = "RUNNING"
    BY <2>1, GeneratorFacts DEF SystemTypeOK
  <2> QED
    BY <1>1, <2>1, <2>2, SiteUp
<1>7. CASE s = r /\ Reboot(s)
  BY <1>1, <1>7, NodeActs, SiteReboots
<1> QED
  BY <1>2, <1>3, <1>4, <1>5, <1>6, <1>7 DEF NodeStep
-----------------------------------------------------------------------------
(* Types and ids.                                                          *)

\* Every step keeps the types.
LEMMA TypesKept ==
    ASSUME SystemTypeOK, Ids, SystemStep
    PROVE  SystemTypeOK'
<1>0. Len(Script) = 16 /\ NoAnswer \in Answers
  <2> DEFINE no == FALSE
  <2>1. no \in BOOLEAN
    OBVIOUS
  <2>2. NoAnswer = [id |-> 0, cmd |-> "info", ok |-> no, run_id |-> 0, boot |-> 0, session |-> 0]
    BY Zenon DEF NoAnswer
  <2> HIDE DEF no
  <2>3. NoAnswer \in Answers
    BY <2>1, <2>2 DEF Answers
  <2> QED
    BY <2>3, ScriptSites
<1>1. CASE Begin
  BY <1>0, <1>1 DEF Begin, nodeVars, FirstOpen, InSession, SystemTypeOK
<1>2. CASE Send
  <2>1. Requesting /\ ~waiting
    BY <1>2 DEF Send
  <2>2. Line(Id) \in Request /\ Site \in Sites /\ Id + 1 \in Nat
    BY <2>1, LineWritten, ThisStep
  <2>3. to_node' \in [Sites -> Seq(Request)] /\ next_id' \in [Sites -> Nat]
    <3>1. to_node' = [to_node EXCEPT ![Site] = Append(@, Line(Id))]
      BY <1>2 DEF Send, Id
    <3>2. Append(to_node[Site], Line(Id)) \in Seq(Request)
      BY <2>2, Written DEF SystemTypeOK
    <3> QED
      BY <1>2, <2>2, <3>1, <3>2 DEF Send, Id, SystemTypeOK
  <2>4. to_host' \in [Sites -> Seq(Answers)]
    <3>1. <<>> \in Seq(Answers)
      OBVIOUS
    <3> QED
      BY <1>2, <2>2, <3>1 DEF Send, Drained, SystemTypeOK
  <2> QED
    BY <1>2, <2>3, <2>4 DEF Send, Requesting, SystemTypeOK
<1>3. ASSUME Requesting, Failed, to_host' \in [Sites -> Seq(Answers)]
      PROVE  SystemTypeOK'
  <2>1. CASE Call \in {"probe", "stop"}
    <3>1. step' \in 0..17 /\ (step' # 0 => session' > 0)
      BY <1>0, <1>3, <2>1 DEF Failed, Requesting, SystemTypeOK
    <3>2. /\ UNCHANGED <<node, boot, reading, to_node, session, next_id, found, opened,
                         checked, results, outcome>>
          /\ waiting' \in BOOLEAN /\ ~waiting'
      BY <1>3, <2>1, Zenon DEF Failed, nodeVars
    <3> QED
      BY <1>0, <1>3, <3>1, <3>2 DEF SystemTypeOK
  <2>2. CASE Call \notin {"probe", "stop"}
    <3>1. /\ UNCHANGED <<node, boot, reading, to_node, session, next_id, found, opened,
                         checked, results>>
          /\ waiting' \in BOOLEAN /\ ~waiting' /\ step' = 0 /\ outcome' = "failed"
      BY <1>3, <2>2, Zenon DEF Failed, End, nodeVars
    <3> QED
      BY <1>0, <1>3, <3>1 DEF SystemTypeOK
  <2> QED
    BY <2>1, <2>2
<1>4. CASE Receive
  <2>1. /\ Requesting /\ waiting /\ to_host[Site] # <<>>
        /\ to_host' = [to_host EXCEPT ![Site] = Tail(@)] /\ Site \in Sites
    BY <1>4, ThisStep DEF Receive
  <2>2. Tail(to_host[Site]) \in Seq(Answers) /\ Head(to_host[Site]) \in Answers
    BY <2>1, Read DEF SystemTypeOK
  <2>3. to_host' \in [Sites -> Seq(Answers)]
    BY <2>1, <2>2 DEF SystemTypeOK
  <2>4. CASE UNCHANGED <<nodeVars, hostVars>>
    BY <2>3, <2>4 DEF nodeVars, hostVars, SystemTypeOK
  <2>5. CASE Failed
    BY <1>3, <2>1, <2>3, <2>5
  <2>6. CASE Accepted(Head(to_host[Site]))
    <3>1. Head(to_host[Site]).boot \in Nat
      BY <2>2 DEF Answers
    <3>2. opened' \in [Sites -> Nat] /\ checked' \in [Sites -> Nat]
      BY <2>1, <2>6, <3>1 DEF Accepted, SystemTypeOK
    <3>3. results' \in [Sites -> Answers] /\ found' \subseteq Sites
      BY <2>1, <2>2, <2>6 DEF Accepted, SystemTypeOK
    <3>4. step' \in 0..17 /\ (step' # 0 => session' > 0)
      BY <1>0, <2>1, <2>6 DEF Accepted, Requesting, SystemTypeOK
    <3>5. /\ UNCHANGED <<node, boot, reading, to_node, session, next_id, outcome>>
          /\ waiting' \in BOOLEAN /\ ~waiting'
      BY <2>6, Zenon DEF Accepted, nodeVars
    <3> QED
      BY <1>0, <2>3, <3>2, <3>3, <3>4, <3>5 DEF SystemTypeOK
  <2> QED
    BY <1>4, <2>4, <2>5, <2>6 DEF Receive
<1>5. CASE Timeout
  BY <1>3, <1>5 DEF Timeout, SystemTypeOK
<1>6. CASE TornLine
  <2>1. to_host' \in [Sites -> Seq(Answers)]
    BY <1>6, Read DEF TornLine, SystemTypeOK
  <2> QED
    BY <1>6, <2>1 DEF TornLine, nodeVars, hostVars, SystemTypeOK
<1>7. CASE NotTwo \/ Save \/ Abort
  <2>1. /\ step' = 0 /\ waiting' \in BOOLEAN /\ ~waiting' /\ outcome' \in {"saved", "failed"}
        /\ UNCHANGED <<node, boot, reading, to_node, to_host, session, next_id, found, opened,
                       checked, results>>
    BY <1>7, Zenon DEF NotTwo, Save, Abort, End, nodeVars
  <2> QED
    BY <1>0, <2>1 DEF SystemTypeOK
<1>8. ASSUME NEW r \in Sites, NodeStep(r) \/ NodeGenerate(r) \/ Reboot(r)
      PROVE  SystemTypeOK'
  <2> SUFFICES /\ node' \in [Sites -> Nodes] /\ boot' \in [Sites -> Nat]
               /\ reading' \in [Sites -> Request]
               /\ to_node' \in [Sites -> Seq(Request)] /\ to_host' \in [Sites -> Seq(Answers)]
    <3>1. UNCHANGED hostVars
      BY <1>8, NodeOnly
    <3> QED
      BY <3>1 DEF hostVars, SystemTypeOK
  <2> USE DEF SystemTypeOK
  <2>1. CASE NodeBoot(r)
    BY <2>1, BootFacts DEF NodeBoot
  <2>2. CASE NodeRead(r)
    <3>1. /\ node[r] \in Nodes /\ node[r].busy = "none" /\ to_node[r] # <<>>
          /\ to_node[r] \in Seq(Request) /\ boot[r] \in Nat /\ to_host[r] \in Seq(Answers)
      BY <2>2 DEF NodeRead
    <3>2. Tail(to_node[r]) \in Seq(Request) /\ Head(to_node[r]) \in Request
      BY <3>1, Read
    <3>3. PICK m \in Dispatched(node[r], Head(to_node[r])) : NodeBecomes(r, m, Head(to_node[r]))
      BY <2>2 DEF NodeRead
    <3>4. m \in Nodes
      BY <3>1, <3>2, DispatchFacts
    <3>5. Append(to_host[r], Reply(Head(to_node[r]), m, boot[r])) \in Seq(Answers)
      BY <3>1, <3>2, <3>4, ReplyFacts, Written
    <3>6. node' \in [Sites -> Nodes] /\ to_host' \in [Sites -> Seq(Answers)]
      BY <3>3, <3>4, <3>5 DEF NodeBecomes
    <3> QED
      BY <2>2, <3>2, <3>6 DEF NodeRead
  <2>3. CASE NodeComplete(r)
    <3>1. /\ node[r] \in Nodes /\ reading[r] \in Request
          /\ boot[r] \in Nat /\ to_host[r] \in Seq(Answers)
      OBVIOUS
    <3>2. PICK m \in Completed(node[r]) : NodeBecomes(r, m, reading[r])
      BY <2>3 DEF NodeComplete
    <3>3. m \in Nodes
      BY <3>1, CompleteFacts
    <3>4. Append(to_host[r], Reply(reading[r], m, boot[r])) \in Seq(Answers)
      BY <3>1, <3>3, ReplyFacts, Written
    <3>5. node' \in [Sites -> Nodes] /\ to_host' \in [Sites -> Seq(Answers)]
      BY <3>2, <3>3, <3>4 DEF NodeBecomes
    <3> QED
      BY <2>3, <3>5 DEF NodeComplete
  <2>4. CASE NodeGenerate(r)
    BY <2>4, GeneratorFacts DEF NodeGenerate
  <2>5. CASE Reboot(r)
    BY <2>5, BootFacts DEF Reboot
  <2> QED
    BY <1>8, <2>1, <2>2, <2>3, <2>4, <2>5 DEF NodeStep
<1> QED
  BY <1>1, <1>2, <1>4, <1>5, <1>6, <1>7, <1>8 DEF SystemStep, HostStep

\* The session goes on to its next request: it has got the answer to this
\* one, or does without.
Advance ==
    /\ Requesting /\ waiting /\ step' = step + 1 /\ waiting' = FALSE
    /\ UNCHANGED <<node, boot, reading, to_node, next_id, session>>
    /\ Call # "open" => opened' = opened
    /\ to_host[Site] # <<>> => Matches(Head(to_host[Site]))
    /\ Call \notin {"probe", "stop"} => to_host[Site] # <<>> /\ Head(to_host[Site]).ok

\* What a step of the host may be: it begins, writes a request, goes on,
\* stops, or discards a line.
LEMMA HostMoves ==
    ASSUME SystemTypeOK, Begin \/ HostStep \/ TornLine \/ Abort
    PROVE  \/ Begin /\ step' \in {1, 3} /\ waiting' = FALSE
           \/ Send
           \/ Advance
           \/ step' = 0 /\ waiting' = FALSE /\ session' = session
           \/ UNCHANGED <<nodeVars, hostVars>> /\ \A s \in Sites : Fewer(to_host'[s], to_host[s])
<1>1. CASE Begin
  BY <1>1 DEF Begin, InSession, FirstOpen, SystemTypeOK
<1>2. ASSUME Requesting, waiting, Failed, to_host[Site] # <<>> => Matches(Head(to_host[Site]))
      PROVE  \/ Advance
             \/ step' = 0 /\ waiting' = FALSE /\ session' = session
  BY <1>2 DEF Failed, End, nodeVars, Advance
<1>3. CASE Receive
  <2>1. CASE UNCHANGED <<nodeVars, hostVars>>
    BY <1>3, <2>1 DEF Receive, Fewer, SystemTypeOK
  <2>2. CASE Failed /\ Matches(Head(to_host[Site]))
    BY <1>2, <1>3, <2>2 DEF Receive
  <2>3. CASE /\ Accepted(Head(to_host[Site])) /\ Matches(Head(to_host[Site]))
             /\ Head(to_host[Site]).ok
    <3>1. Requesting /\ waiting /\ to_host[Site] # <<>>
      BY <1>3 DEF Receive
    <3>2. /\ step' = step + 1 /\ waiting' = FALSE
          /\ UNCHANGED <<node, boot, reading, to_node, next_id, session>>
          /\ Call # "open" => opened' = opened
      BY <2>3 DEF Accepted, nodeVars
    <3> QED
      BY <2>3, <3>1, <3>2 DEF Advance
  <2> QED
    BY <1>3, <2>1, <2>2, <2>3 DEF Receive
<1>4. CASE Timeout
  BY <1>2, <1>4 DEF Timeout
<1>5. CASE TornLine
  BY <1>5 DEF TornLine, Fewer, SystemTypeOK
<1>6. CASE NotTwo \/ Save \/ Abort
  BY <1>6 DEF NotTwo, Save, Abort, End
<1> QED
  BY <1>1, <1>3, <1>4, <1>5, <1>6 DEF HostStep

\* Every step keeps the ids to the schedule.
LEMMA IdsKept ==
    ASSUME SystemTypeOK, Ids, SystemStep
    PROVE  Ids'
<1>1. CASE step' \in {0, 1, 3} /\ waiting' = FALSE
  BY <1>1 DEF Ids, Open, OpenStep
<1>2. CASE Send
  <2>1. /\ Requesting /\ ~waiting /\ waiting' = TRUE /\ step' = step
        /\ next_id' = [next_id EXCEPT ![Site] = Id + 1] /\ next_id \in [Sites -> Nat]
    BY <1>2 DEF Send, Id, SystemTypeOK
  <2>2. /\ Site \in Sites /\ Site' = Site
        /\ Opens' <=> Opens
        /\ Opens <=> ~Open(Site)
        /\ \A s \in Sites : Open(s)' <=> Open(s)
    BY <2>1, ThisStep DEF Site, Opens, Call, Open
  <2>3. Opens => next_id'[Site] = 2
    BY <2>1, <2>2 DEF Id
  <2>4. ASSUME NEW s \in Sites, Open(s)
        PROVE  next_id'[s] = NextOf(s)[step] + (IF Site = s THEN 1 ELSE 0)
    <3>1. next_id[s] = NextOf(s)[step]
      <4>1. ~Waits(s)
        BY <2>1 DEF Waits
      <4>2. next_id[s] = NextOf(s)[step] + 0
        BY <2>4, <4>1 DEF Ids
      <4>3. NextOf(s)[step] \in Nat
        <5>1. step \in 1..16
          BY <2>1, ThisStep
        <5> QED
          BY <5>1, NextIds DEF NextOf
      <4> QED
        BY <4>2, <4>3
    <3>2. next_id[s] \in Nat
      BY <2>1
    <3> QED
      BY <2>1, <2>2, <2>4, <3>1, <3>2 DEF Id
  <2> QED
    BY <2>1, <2>2, <2>3, <2>4 DEF Ids, Waits
<1>3. CASE /\ Requesting /\ waiting /\ step' = step + 1 /\ waiting' = FALSE /\ next_id' = next_id
  <2>1. step \in 1..16
    BY <1>3, ThisStep
  <2>2. ASSUME NEW s \in Sites, Open(s)'
        PROVE  next_id[s] = NextOf(s)[step + 1] /\ NextOf(s)[step + 1] \in Nat
    <3>1. step >= OpenStep(s) /\ OpenStep(s) \in 3..4
      BY <1>3, <2>1, <2>2 DEF Open, OpenStep
    <3>2. NextOf(s)[step + 1] \in Nat
      BY <2>1, NextIds DEF NextOf
    <3>3. CASE s = Site /\ step = OpenStep(s)
      <4>1. Opens
        BY <2>1, <3>1, <3>3, ScheduleHere DEF Opens, Site, Call
      <4>2. next_id[s] = 2
        BY <1>3, <3>3, <4>1 DEF Ids
      <4>3. NextOf(s)[step + 1] = 2
        <5>1. NextOf(s)[OpenStep(s)] = 1 /\ NextOf(s)[step + 1] = NextOf(s)[step] + 1
          BY <2>1, <3>1, <3>3, ScheduleHere DEF Site
        <5> QED
          BY <3>3, <5>1
      <4> QED
        BY <4>2, <4>3
    <3>4. CASE s = Site /\ step # OpenStep(s)
      <4>1. Open(s)
        BY <2>1, <3>1, <3>4 DEF Open
      <4>2. next_id[s] = NextOf(s)[step] + 1
        BY <1>3, <3>4, <4>1, ThisStep
      <4>3. NextOf(s)[step + 1] = NextOf(s)[step] + 1
        BY <2>1, <3>1, <3>4, ScheduleHere DEF Site
      <4> QED
        BY <3>2, <4>2, <4>3
    <3>5. CASE s # Site
      <4>1. step # OpenStep(s) /\ NextOf(s)[step + 1] = NextOf(s)[step]
        BY <2>1, <3>1, <3>5, ScheduleThere DEF Site
      <4>2. Open(s) /\ ~Waits(s)
        BY <2>1, <3>1, <3>5, <4>1 DEF Open, Waits
      <4>3. next_id[s] = NextOf(s)[step] + 0
        BY <4>2 DEF Ids
      <4> QED
        BY <3>2, <4>1, <4>3
    <3> QED
      BY <3>2, <3>3, <3>4, <3>5
  <2> QED
    BY <1>3, <2>2 DEF Ids, Waits
<1>4. CASE UNCHANGED hostVars
  BY <1>4 DEF Ids, hostVars, Open, Waits, Site, Opens, Call
<1>5. ASSUME NEW r \in Sites, NodeStep(r) \/ NodeGenerate(r) \/ Reboot(r)
      PROVE  UNCHANGED hostVars
  BY <1>5, NodeOnly
<1>6. CASE Begin \/ HostStep \/ TornLine \/ Abort
  BY <1>1, <1>2, <1>3, <1>4, <1>6, HostMoves DEF Advance
<1> QED
  BY <1>4, <1>5, <1>6 DEF SystemStep
-----------------------------------------------------------------------------
(* The traffic.                                                            *)

\* A request that may be under way is the one of this step, or a stop.
LEMMA PendingStep ==
    ASSUME NEW s \in Sites, SystemTypeOK, Ids, Open(s), NEW k \in Pending(s), k # 5
    PROVE  Waits(s) /\ step \in 1..16 /\ Script[step][1] = s /\ NextOf(s)[step] = k
<1>1. Waits(s) /\ k = next_id[s] - 1
  BY DEF Pending
<1>2. Requesting /\ waiting /\ Site = s
  BY <1>1 DEF Waits, Requesting, SystemTypeOK
<1>3. step \in 1..16 /\ NextOf(s)[step] \in 2..7 /\ next_id[s] = NextOf(s)[step] + 1
  BY <1>2, ThisStep
<1> QED
  BY <1>1, <1>2, <1>3 DEF Site

\* The steps of the requests that the traffic depends on.
LEMMA Milestones ==
    ASSUME NEW i \in 1..16
    PROVE  /\ Script[i][1] = "A" /\ NextOf("A")[i] = 3 => i = 8
           /\ Script[i][1] = "A" /\ NextOf("A")[i] = 4 => i = 10
           /\ Script[i][1] = "B" /\ NextOf("B")[i] = 2 => i = 6
           /\ Script[i][1] = "B" /\ NextOf("B")[i] = 6 => i = 14
           /\ Script[i][1] = "A" /\ NextOf("A")[i] = 2 => i = 5
           /\ Script[i][1] = "B" /\ NextOf("B")[i] = 3 => i = 7
           /\ i = 7 => Script[i][1] = "B" /\ NextOf("B")[i] = 3
           /\ i = 10 => Script[i][1] = "A" /\ NextOf("A")[i] = 4
           /\ i = 13 => Script[i][1] = "A" /\ NextOf("A")[i] = 6
<1>1. NextOf("A") = NextA /\ NextOf("B") = NextB
  BY DEF NextOf
<1> QED
  BY <1>1, ScriptSites, NextIds

\* A request of this session that a node reads, or is executing, is pending.
LEMMA OwnRequest ==
    ASSUME NEW s \in Sites, SystemTypeOK, SiteInv(s), InSession,
           NEW c, \/ \E j \in DOMAIN to_node[s] : c = to_node[s][j]
                  \/ Executing(s) /\ c = reading[s],
           c.id # 1, Open(s) \/ c.session = session
    PROVE  Open(s) /\ c.session = session /\ c.id \in Pending(s)
<1>1. CASE Open(s)
  BY <1>1 DEF SiteInv, Opened, InPending
<1>2. CASE ~Open(s)
  <2>1. c.session < session /\ session \in Nat
    BY <1>2 DEF SiteInv, Opening, SystemTypeOK
  <2> QED
    BY <1>2, <2>1
<1> QED
  BY <1>1, <1>2

\* The answer with which a session goes on from an arm, a start or a result.
LEMMA AnswerTaken ==
    ASSUME NEW s \in Sites, SystemTypeOK, Ids, SiteInv(s), Advance,
           Script[step][1] = s, step \in {7, 10, 13}
    PROVE  /\ 1 \in DOMAIN to_host[s] /\ to_host[s][1].id = NextOf(s)[step]
           /\ to_host[s][1].ok /\ to_host[s][1].boot \in Nat /\ opened[s] <= to_host[s][1].boot
           /\ to_host[s][1].boot <= boot[s] /\ Open(s)
<1>1. /\ Requesting /\ waiting /\ step \in 1..16
      /\ to_host[Site] # <<>> => Matches(Head(to_host[Site]))
      /\ Call \notin {"probe", "stop"} => to_host[Site] # <<>> /\ Head(to_host[Site]).ok
  BY ThisStep DEF Advance
<1>2. Site = s /\ Call \notin {"probe", "stop", "open"}
  BY <1>1, ScriptCalls DEF Site, Call
<1>3. to_host[s] # <<>> /\ Matches(Head(to_host[s])) /\ Head(to_host[s]).ok
  BY <1>1, <1>2
<1>4. /\ 1 \in DOMAIN to_host[s] /\ Head(to_host[s]) = to_host[s][1]
      /\ Head(to_host[s]) \in Answers
  BY <1>3, Read DEF SystemTypeOK
<1>5. Open(s) /\ next_id[s] = NextOf(s)[step] + 1 /\ NextOf(s)[step] \in 2..7
  <2>1. Open(s)
    BY DEF Open, OpenStep
  <2> QED
    BY <1>1, <1>2, <2>1, ThisStep
<1>6. to_host[s][1].id = NextOf(s)[step] /\ to_host[s][1].boot \in Nat
  BY <1>2, <1>3, <1>4, <1>5 DEF Matches, Answers
<1>7. opened[s] <= to_host[s][1].boot /\ to_host[s][1].boot <= boot[s]
  BY <1>4, <1>5, <1>6 DEF SiteInv, BootsOK, LinesOK, AnswerOK
<1> QED
  BY <1>3, <1>4, <1>5, <1>6, <1>7

\* Node A executes no configure once the host has gone on from it.
LEMMA NotConfiguring ==
    ASSUME SystemTypeOK, Ids, \A s \in Sites : SiteInv(s), InSession, step >= 7
    PROVE  node["A"].busy # "configure"
<1>0. "A" \in Sites /\ Open("A")
  <2>1. OpenStep("A") = 3 /\ step \in 0..17
    BY ScriptSites DEF SystemTypeOK, OpenStep
  <2> QED
    BY <2>1 DEF Sites, Open
<1>1. SUFFICES ASSUME node["A"].busy = "configure" PROVE FALSE
  OBVIOUS
<1>2. Executing("A") /\ LineOK("A", reading["A"]) /\ reading["A"].cmd = "configure"
  BY <1>0, <1>1 DEF SiteInv, LinesOK, NodeOK, Executing
<1>3. reading["A"].id = 2
  BY <1>2, Commands
<1>4. 2 \in Pending("A")
  BY <1>0, <1>2, <1>3, OwnRequest
<1>5. step \in 1..16 /\ Script[step][1] = "A" /\ NextOf("A")[step] = 2
  BY <1>0, <1>4, PendingStep
<1> QED
  BY <1>5, Milestones

\* Every step of the host keeps what holds between the sites.
LEMMA TrafficHost ==
    ASSUME SystemTypeOK, Ids, \A s \in Sites : SiteInv(s), Traffic,
           \A s \in Sites : SiteInv(s)', Begin \/ HostStep \/ TornLine \/ Abort
    PROVE  Traffic'
<1>0. "A" \in Sites /\ "B" \in Sites /\ OpenStep("A") = 3 /\ OpenStep("B") = 4
  BY DEF Sites, OpenStep
<1>1. CASE Begin /\ step' \in {1, 3} /\ waiting' = FALSE
  <2>1. session' = session + 1 /\ node' = node /\ session \in Nat
    BY <1>1 DEF Begin, nodeVars, SystemTypeOK
  <2>2. /\ node["A"].gen_run \in Nat /\ node["A"].gen_run <= session
        /\ node["B"].run_id \in Nat /\ node["B"].run_id <= session
    BY <1>0 DEF SiteInv, LinesOK, NodeOK, SystemTypeOK, Nodes
  <2>3. StartedA' /\ ArmedB'
    BY <2>1, <2>2 DEF StartedA, ArmedB, Measuring
  <2>4. MeasuredB' /\ QuietA'
    BY <1>0, <1>1 DEF MeasuredB, QuietA, Open
  <2> QED
    BY <2>3, <2>4 DEF Traffic
<1>2. CASE step' = 0 /\ waiting' = FALSE /\ session' = session
  BY <1>0, <1>2 DEF Traffic, StartedA, ArmedB, MeasuredB, QuietA, Open, InSession
<1>3. ASSUME UNCHANGED <<node, boot, opened, step, session>>,
             \A s \in Sites : \A j \in DOMAIN to_host'[s] :
                \E i \in DOMAIN to_host[s] : to_host'[s][j] = to_host[s][i]
      PROVE  Traffic'
  <2>1. StartedA' /\ ArmedB'
    BY <1>3 DEF Traffic, StartedA, ArmedB, Measuring, InSession
  <2>2. MeasuredB'
    BY <1>0, <1>3 DEF Traffic, MeasuredB, Measuring, Open
  <2>3. QuietA'
    BY <1>0, <1>3 DEF Traffic, QuietA, Open
  <2> QED
    BY <2>1, <2>2, <2>3 DEF Traffic
<1>4. CASE Send
  <2>1. \A s \in Sites : to_host'[s] = <<>> \/ to_host'[s] = to_host[s]
    BY <1>4 DEF Send, Drained, SystemTypeOK
  <2>2. UNCHANGED <<node, boot, opened, step, session>>
    BY <1>4 DEF Send
  <2> QED
    BY <1>3, <2>1, <2>2
<1>5. CASE UNCHANGED <<nodeVars, hostVars>> /\ \A s \in Sites : Fewer(to_host'[s], to_host[s])
  <2>1. ASSUME NEW s \in Sites
        PROVE  \A j \in DOMAIN to_host'[s] : \E i \in DOMAIN to_host[s] : to_host'[s][j] = to_host[s][i]
    <3>1. to_host[s] \in Seq(Answers) /\ Fewer(to_host'[s], to_host[s])
      BY <1>5 DEF SystemTypeOK
    <3> QED
      BY <3>1, FewerAnswers
  <2>2. UNCHANGED <<node, boot, opened, step, session>>
    BY <1>5 DEF nodeVars, hostVars
  <2> QED
    BY <1>3, <2>1, <2>2
<1>6. CASE Advance
  <2>1. /\ Requesting /\ waiting /\ step' = step + 1 /\ waiting' = FALSE
        /\ UNCHANGED <<node, boot, session>>
        /\ Call # "open" => opened' = opened
        /\ to_host[Site] # <<>> => Matches(Head(to_host[Site]))
        /\ Call \notin {"probe", "stop"} => to_host[Site] # <<>> /\ Head(to_host[Site]).ok
    BY <1>6 DEF Advance
  <2>2. step \in 1..16
    BY <2>1, ThisStep
  <2>3. Call # "open" \/ step \in {3, 4}
    BY <2>2, ScriptCalls DEF Call
  <2>4. step >= 7 => opened' = opened
    BY <2>1, <2>2, <2>3
  <2>5. \A s \in Sites : \A i \in DOMAIN to_host'[s] :
            Open(s)' => to_host'[s][i].id \in {1, 5}
    <3>1. ASSUME NEW s \in Sites, NEW i \in DOMAIN to_host'[s], Open(s)'
          PROVE  to_host'[s][i].id \in {1, 5}
      <4>1. InPending(s, to_host[s][i])'
        BY <3>1 DEF SiteInv, Opened
      <4>2. Pending(s)' \subseteq {5}
        BY <2>1 DEF Pending, Waits
      <4> QED
        BY <4>1, <4>2 DEF InPending
    <3> QED
      BY <3>1
  <2>7. StartedA' /\ ArmedB'
    BY <2>1, <2>2 DEF Traffic, StartedA, ArmedB, Measuring, InSession
  <2>8. MeasuredB'
    <3>1. ASSUME step' >= 8, opened'["B"] = boot'["B"]
          PROVE  Measuring("B")
      <4>1. CASE step >= 8
        BY <2>1, <2>2, <2>4, <3>1, <4>1 DEF Traffic, MeasuredB
      <4>2. CASE step = 7
        <5>1. Script[step][1] = "B" /\ NextOf("B")[step] = 3
          BY <2>2, <4>2, Milestones
        <5>2. /\ 1 \in DOMAIN to_host["B"] /\ to_host["B"][1].id = 3
              /\ to_host["B"][1].ok /\ to_host["B"][1].boot \in Nat
              /\ opened["B"] <= to_host["B"][1].boot
              /\ to_host["B"][1].boot <= boot["B"] /\ Open("B")
          BY <1>0, <1>6, <4>2, <5>1, AnswerTaken
        <5>3. boot["B"] \in Nat /\ opened["B"] = boot["B"]
          BY <1>0, <2>1, <2>4, <3>1, <4>2 DEF SystemTypeOK
        <5>4. to_host["B"][1].boot = boot["B"]
          BY <5>2, <5>3
        <5> QED
          BY <5>2, <5>4 DEF Traffic, MeasuredB
      <4> QED
        BY <2>1, <2>2, <3>1, <4>1, <4>2
    <3>2. Measuring("B")' <=> Measuring("B")
      BY <2>1 DEF Measuring
    <3> QED
      BY <1>0, <2>5, <3>1, <3>2 DEF MeasuredB
  <2>9. QuietA'
    <3>1. ASSUME step' >= 14
          PROVE  node["A"].generator = "none"
      <4>1. CASE step >= 14
        BY <4>1 DEF Traffic, QuietA
      <4>2. CASE step = 13
        <5>1. Script[step][1] = "A" /\ NextOf("A")[step] = 6
          BY <2>2, <4>2, Milestones
        <5>2. /\ 1 \in DOMAIN to_host["A"] /\ to_host["A"][1].id = 6
              /\ to_host["A"][1].ok /\ Open("A")
          BY <1>0, <1>6, <4>2, <5>1, AnswerTaken
        <5> QED
          BY <5>2 DEF Traffic, QuietA
      <4> QED
        BY <2>1, <2>2, <3>1, <4>1, <4>2
    <3> QED
      BY <1>0, <2>1, <2>5, <3>1 DEF QuietA
  <2> QED
    BY <2>7, <2>8, <2>9 DEF Traffic
<1> QED
  BY <1>1, <1>2, <1>4, <1>5, <1>6, HostMoves

\* What node r reads is a request of this session, if it is more than the
\* opening of a port and the session has opened r or the line is its own.
LEMMA LineRead ==
    ASSUME NEW r \in Sites, SystemTypeOK, SiteInv(r), NodeRead(r)
    PROVE  /\ node[r] \in Nodes /\ node[r].busy = "none" /\ Head(to_node[r]) \in Request
           /\ node'[r] \in Dispatched(node[r], Head(to_node[r]))
           /\ LineOK(r, Head(to_node[r]))
           /\ \E j \in DOMAIN to_node[r] : Head(to_node[r]) = to_node[r][j]
           /\ Open(r) => \A i \in DOMAIN to_host[r] : Before(to_host[r][i], Head(to_node[r]))
           /\ \A i \in DOMAIN to_host'[r] :
                 \/ i \in DOMAIN to_host[r] /\ to_host'[r][i] = to_host[r][i]
                 \/ /\ node'[r].busy = "none"
                    /\ to_host'[r][i].id = Head(to_node[r]).id
                    /\ to_host'[r][i].ok => node'[r].reply = "ok"
<1> DEFINE c == Head(to_node[r])
           m == node'[r]
           x == Reply(c, m, boot[r])
           h == to_host[r]
<1>1. /\ node[r].busy = "none" /\ to_node[r] # <<>>
      /\ m \in Dispatched(node[r], c)
      /\ to_host'[r] = (IF m.busy = "none" THEN Append(h, x) ELSE h)
  BY NodeActs
<1>2. node[r] \in Nodes /\ to_node[r] \in Seq(Request) /\ h \in Seq(Answers) /\ boot[r] \in Nat
  BY DEF SystemTypeOK
<1>3. 1 \in DOMAIN to_node[r] /\ c = to_node[r][1] /\ c \in Request
  BY <1>1, <1>2, Read
<1>4. m \in Nodes
  BY <1>1, <1>2, <1>3, DispatchFacts
<1>5. x \in Answers /\ x.id = c.id /\ (x.ok <=> m.reply = "ok")
  BY <1>2, <1>3, <1>4, ReplyFacts
<1>6. LineOK(r, c) /\ (Open(r) => \A i \in DOMAIN h : Before(h[i], c))
  BY <1>3 DEF SiteInv, LinesOK, Opened
<1>7. \A i \in DOMAIN Append(h, x) : \/ i \in DOMAIN h /\ Append(h, x)[i] = h[i]
                                     \/ Append(h, x)[i] = x
  BY <1>2, <1>5, Written
<1> HIDE DEF c, m, x, h
<1>8. \A i \in DOMAIN to_host'[r] :
         \/ i \in DOMAIN h /\ to_host'[r][i] = h[i]
         \/ m.busy = "none" /\ to_host'[r][i].id = c.id /\ (to_host'[r][i].ok => m.reply = "ok")
  BY <1>1, <1>5, <1>7
<1> QED
  BY <1>1, <1>2, <1>3, <1>6, <1>8 DEF c, m, h

\* Node A gets a generator of the run by its start only, which is step 10.
LEMMA StartedNode ==
    ASSUME SystemTypeOK, Ids, \A s \in Sites : SiteInv(s), StartedA,
           NodeStep("A") \/ NodeGenerate("A") \/ Reboot("A")
    PROVE  StartedA'
<1>0. "A" \in Sites
  BY DEF Sites
<1>1. UNCHANGED hostVars
  BY <1>0, NodeOnly
<1>2. session' = session /\ step' = step /\ (InSession' <=> InSession)
  BY <1>1 DEF hostVars, InSession
<1> DEFINE n == node["A"]
           m == node'["A"]
<1>3. SUFFICES ASSUME InSession, m.generator # "none", m.gen_run = session
               PROVE  step >= 10
  BY <1>2 DEF StartedA
<1>4. n \in Nodes /\ session \in Nat \ {0}
  BY <1>0, <1>3 DEF SystemTypeOK, InSession
<1>5. CASE NodeBoot("A") \/ NodeComplete("A")
  <2>1. SameGenerator(n, m)
    BY <1>0, <1>4, <1>5, NodeActs, BootFacts, CompleteFacts
  <2> QED
    BY <1>3, <2>1 DEF StartedA, SameGenerator
<1>6. CASE NodeGenerate("A")
  <2>1. n.generator # "none" /\ m.gen_run = n.gen_run
    BY <1>0, <1>4, <1>6, NodeActs, GeneratorFacts
  <2> QED
    BY <1>3, <2>1 DEF StartedA
<1>7. CASE Reboot("A")
  <2>1. m \in BootedNodes
    BY <1>0, <1>7, NodeActs
  <2> QED
    BY <1>3, <2>1, BootFacts
<1>8. CASE NodeRead("A")
  <2> DEFINE c == Head(to_node["A"])
  <2>1. /\ n.busy = "none" /\ c \in Request /\ m \in Dispatched(n, c) /\ LineOK("A", c)
        /\ \E j \in DOMAIN to_node["A"] : c = to_node["A"][j]
    BY <1>0, <1>8, LineRead
  <2>2. /\ SameGenerator(n, m) \/ (c.cmd = "start" /\ m.gen_run = n.run_id /\ m.reply = "ok")
        /\ c.cmd = "start" => m.run_id = n.run_id
        /\ c.cmd = "start" /\ c.run_id # 0 /\ m.reply = "ok" => m.run_id = c.run_id
    BY <1>4, <2>1, DispatchFacts
  <2>3. CASE SameGenerator(n, m)
    BY <1>3, <2>3 DEF StartedA, SameGenerator
  <2>4. CASE c.cmd = "start" /\ m.gen_run = n.run_id /\ m.reply = "ok"
    <3>1. c.id = 4 /\ c.run_id = c.session /\ c.session \in 1..session
      BY <2>1, <2>4, Commands
    <3>2. c.session = session
      BY <1>3, <1>4, <2>2, <2>4, <3>1
    <3>3. Open("A") /\ c.id \in Pending("A")
      BY <1>0, <1>3, <2>1, <3>1, <3>2, OwnRequest
    <3>4. step \in 1..16 /\ Script[step][1] = "A" /\ NextOf("A")[step] = 4
      BY <1>0, <3>1, <3>3, PendingStep
    <3> QED
      BY <3>4, Milestones
  <2> QED
    BY <2>2, <2>3, <2>4
<1> QED
  BY <1>5, <1>6, <1>7, <1>8 DEF NodeStep

\* Node B gets into a measurement of the run by its arm only, which is step
\* 7.
LEMMA ArmedNode ==
    ASSUME SystemTypeOK, Ids, \A s \in Sites : SiteInv(s), ArmedB,
           NodeStep("B") \/ NodeGenerate("B") \/ Reboot("B")
    PROVE  ArmedB'
<1>0. "B" \in Sites
  BY DEF Sites
<1>1. UNCHANGED hostVars
  BY <1>0, NodeOnly
<1>2. session' = session /\ step' = step /\ (InSession' <=> InSession)
  BY <1>1 DEF hostVars, InSession
<1> DEFINE n == node["B"]
           m == node'["B"]
<1>3. SUFFICES ASSUME InSession, m.run_id = session, m.busy # "configure", m.state \in InMeasurement
               PROVE  step >= 7
  BY <1>2 DEF ArmedB, Measuring, InMeasurement
<1>4. n \in Nodes /\ session \in Nat \ {0} /\ n.generator = "none"
  BY <1>0, <1>3 DEF SystemTypeOK, InSession, SiteInv, LinesOK, NodeOK
<1>5. SUFFICES \/ n.run_id = session /\ n.busy # "configure" /\ n.state \in InMeasurement
               \/ step >= 7
  BY <1>3 DEF ArmedB, Measuring, InMeasurement
<1>6. CASE NodeBoot("B")
  <2>1. n.busy = "boot" /\ m = Up(n)
    BY <1>0, <1>6, NodeActs
  <2>2. Up(n).run_id = n.run_id /\ (Up(n).state \in InMeasurement <=> n.state \in InMeasurement)
    BY <1>4, BootFacts DEF InMeasurement
  <2> QED
    BY <1>3, <2>1, <2>2
<1>7. CASE NodeComplete("B")
  <2>1. m \in Completed(n)
    BY <1>0, <1>7, NodeActs
  <2>2. /\ m.run_id = n.run_id /\ (n.busy # "configure" => m.state = n.state)
        /\ n.busy = "configure" => m.state \notin InMeasurement
    BY <1>4, <2>1, CompleteFacts
  <2> QED
    BY <1>3, <2>2
<1>8. CASE NodeGenerate("B")
  <2>1. m \in GeneratorSteps(n)
    BY <1>0, <1>8, NodeActs
  <2> QED
    BY <1>4, <2>1, GeneratorFacts
<1>9. CASE Reboot("B")
  <2>1. m \in BootedNodes
    BY <1>0, <1>9, NodeActs
  <2> QED
    BY <1>3, <2>1, BootFacts DEF InMeasurement
<1>10. CASE NodeRead("B")
  <2> DEFINE c == Head(to_node["B"])
  <2>1. /\ n.busy = "none" /\ c \in Request /\ m \in Dispatched(n, c) /\ LineOK("B", c)
        /\ \E j \in DOMAIN to_node["B"] : c = to_node["B"][j]
    BY <1>0, <1>10, LineRead
  <2>2. /\ m.run_id = n.run_id
        /\ m.state \in InMeasurement /\ n.state \notin InMeasurement => c.cmd = "arm" /\ m.reply = "ok"
        /\ c.cmd = "arm" /\ c.run_id # 0 /\ m.reply = "ok" => m.run_id = c.run_id
    BY <1>3, <1>4, <2>1, DispatchFacts
  <2>3. CASE n.state \in InMeasurement
    BY <1>3, <2>1, <2>2, <2>3
  <2>4. CASE n.state \notin InMeasurement
    <3>1. c.cmd = "arm" /\ m.reply = "ok"
      BY <1>3, <2>2, <2>4
    <3>2. c.id = 3 /\ c.run_id = c.session /\ c.session \in 1..session
      BY <2>1, <3>1, Commands
    <3>3. c.session = session
      BY <1>3, <1>4, <2>2, <3>1, <3>2
    <3>4. Open("B") /\ c.id \in Pending("B")
      BY <1>0, <1>3, <2>1, <3>2, <3>3, OwnRequest
    <3>5. step \in 1..16 /\ Script[step][1] = "B" /\ NextOf("B")[step] = 3
      BY <1>0, <3>2, <3>4, PendingStep
    <3> QED
      BY <3>5, Milestones
  <2> QED
    BY <2>3, <2>4
<1> QED
  BY <1>6, <1>7, <1>8, <1>9, <1>10 DEF NodeStep

\* Node B leaves a measurement by a configure or a reboot only; neither is
\* under way once its arm was answered, or the boot recorded is an older one.
LEMMA MeasuredNode ==
    ASSUME SystemTypeOK, Ids, \A s \in Sites : SiteInv(s), MeasuredB,
           NodeStep("B") \/ NodeGenerate("B") \/ Reboot("B")
    PROVE  MeasuredB'
<1>0. "B" \in Sites /\ OpenStep("B") = 4
  BY DEF Sites, OpenStep
<1>1. UNCHANGED hostVars
  BY <1>0, NodeOnly
<1>2. session' = session /\ step' = step /\ opened' = opened /\ (Open("B")' <=> Open("B"))
  BY <1>1 DEF hostVars, Open
<1> DEFINE n == node["B"]
           m == node'["B"]
           h == to_host["B"]
           k == to_host'["B"]
           Armed(a) == a.id = 3 /\ a.ok /\ a.boot = boot["B"]
<1>3. /\ n \in Nodes /\ session \in Nat /\ step \in 0..17 /\ boot["B"] \in Nat
      /\ n.role # "ROLE_GENERATOR" /\ n.generator = "none"
      /\ step >= 8 => Open("B") /\ InSession
      /\ Open("B") => InSession
  <2>1. n \in Nodes /\ session \in Nat /\ step \in 0..17 /\ boot["B"] \in Nat
    BY <1>0, ScriptSites DEF SystemTypeOK
  <2>2. n.role # "ROLE_GENERATOR" /\ n.generator = "none"
    BY <1>0, Zenon DEF SiteInv, LinesOK, NodeOK
  <2> QED
    BY <1>0, <2>1, <2>2 DEF Open, InSession
<1>4. CASE Reboot("B")
  <2>1. /\ boot'["B"] = boot["B"] + 1 /\ to_host' = to_host
    BY <1>0, <1>4, NodeActs
  <2>2. /\ opened["B"] <= boot["B"] /\ opened["B"] \in Nat
    BY <1>0 DEF SiteInv, BootsOK, SystemTypeOK
  <2>3. \A i \in DOMAIN h : h[i].boot <= boot["B"] /\ h[i].boot \in Nat
    <3>1. h \in Seq(Answers)
      BY <1>0 DEF SystemTypeOK
    <3>2. \A i \in DOMAIN h : h[i] \in Answers
      BY <3>1
    <3> QED
      BY <1>0, <3>2 DEF SiteInv, LinesOK, AnswerOK, Answers
  <2> HIDE DEF h
  <2>4. \A i \in DOMAIN h : h[i].boot # boot["B"] + 1
    BY <1>3, <2>3
  <2>5. opened["B"] # boot["B"] + 1
    BY <1>3, <2>2
  <2> QED
    BY <1>2, <2>1, <2>4, <2>5 DEF MeasuredB, h
<1>5. ASSUME boot' = boot,
             \A i \in DOMAIN k : Open("B") /\ Armed(k[i]) =>
                \/ \E j \in DOMAIN h : h[j] = k[i]
                \/ m.run_id = session /\ m.state \in InMeasurement /\ m.busy # "configure",
             ASSUME Measuring("B"), step >= 8 \/ (Open("B") /\ \E j \in DOMAIN h : Armed(h[j]))
             PROVE  m.run_id = session /\ m.state \in InMeasurement /\ m.busy # "configure"
      PROVE  MeasuredB'
  <2>1. /\ step >= 8 /\ opened["B"] = boot["B"] => Measuring("B")
        /\ Open("B") => \A j \in DOMAIN h : Armed(h[j]) => Measuring("B")
    BY DEF MeasuredB
  <2>2. Measuring("B")' <=> m.run_id = session /\ m.state \in InMeasurement /\ m.busy # "configure"
    BY <1>2 DEF Measuring, InMeasurement
  <2>3. step >= 8 /\ opened["B"] = boot["B"] => Measuring("B")'
    BY <1>5, <2>1, <2>2
  <2>4. Open("B") => \A i \in DOMAIN k : Armed(k[i]) => Measuring("B")'
    BY <1>5, <2>1, <2>2
  <2> QED
    BY <1>2, <1>5, <2>3, <2>4 DEF MeasuredB
<1>6. Measuring("B") <=> n.run_id = session /\ n.state \in InMeasurement /\ n.busy # "configure"
  BY DEF Measuring, InMeasurement
<1>7. CASE NodeBoot("B")
  <2>1. n.busy = "boot" /\ m = Up(n) /\ boot' = boot /\ to_host' = to_host
    BY <1>0, <1>7, NodeActs
  <2>2. /\ Up(n).busy = "none" /\ Up(n).run_id = n.run_id
        /\ (Up(n).state \in InMeasurement <=> n.state \in InMeasurement)
    BY <1>3, BootFacts DEF InMeasurement
  <2> QED
    BY <1>5, <1>6, <2>1, <2>2
<1>8. CASE NodeGenerate("B")
  <2>1. m \in GeneratorSteps(n)
    BY <1>0, <1>8, NodeActs
  <2> QED
    BY <1>3, <2>1, GeneratorFacts
<1>9. CASE NodeComplete("B")
  <2> DEFINE x == Reply(reading["B"], m, boot["B"])
  <2>1. /\ m \in Completed(n) /\ boot' = boot /\ k = Append(h, x)
    BY <1>0, <1>9, NodeActs
  <2>2. /\ m \in Nodes /\ n.busy \in Waiting /\ m.busy = "none" /\ m.run_id = n.run_id
        /\ (n.busy # "configure" => m.state = n.state)
    BY <1>3, <2>1, CompleteFacts
  <2>3. reading["B"] \in Request /\ h \in Seq(Answers)
    BY <1>0 DEF SystemTypeOK
  <2>4. x \in Answers /\ x.id = reading["B"].id
    BY <1>3, <2>2, <2>3, ReplyFacts
  <2>5. x.id # 3
    <3>1. LineOK("B", reading["B"]) /\ reading["B"].cmd \in Waiting
      BY <1>0, <2>2 DEF SiteInv, LinesOK, NodeOK, Executing, Waiting
    <3> QED
      BY <2>4, <3>1, Commands DEF Waiting
  <2>6. \A i \in DOMAIN k : (i \in DOMAIN h /\ k[i] = h[i]) \/ k[i] = x
    BY <2>1, <2>3, <2>4, Written
  <2> HIDE DEF x, m, n, h, k
  <2> QED
    BY <1>5, <1>6, <2>1, <2>2, <2>5, <2>6
<1>10. CASE NodeRead("B")
  <2> DEFINE c == Head(to_node["B"])
  <2>1. /\ n.busy = "none" /\ c \in Request /\ m \in Dispatched(n, c) /\ LineOK("B", c)
        /\ \E j \in DOMAIN to_node["B"] : c = to_node["B"][j]
        /\ Open("B") => \A i \in DOMAIN h : Before(h[i], c)
        /\ \A i \in DOMAIN k : \/ i \in DOMAIN h /\ k[i] = h[i]
                               \/ /\ m.busy = "none" /\ k[i].id = c.id
                                  /\ k[i].ok => m.reply = "ok"
    BY <1>0, <1>10, LineRead
  <2>2. boot' = boot
    BY <1>0, <1>10, NodeActs
  <2>3. /\ m \in Nodes
        /\ m.busy = "none" \/ (m.busy \in Waiting /\ m.busy = c.cmd)
        /\ c.cmd # "configure" => m.run_id = n.run_id /\ m.role = n.role
        /\ c.cmd = "arm" /\ c.run_id # 0 /\ m.reply = "ok" => m.run_id = c.run_id
        /\ c.cmd = "arm" /\ m.reply = "ok" => m.state = "ARMED"
        /\ n.state \in InMeasurement => m.state \in InMeasurement
    BY <1>3, <2>1, DispatchFacts
  <2>4. /\ c.id \in 1..7 /\ c.session \in 1..session
        /\ c.cmd = "configure" <=> c.id = 2
        /\ c.cmd = "arm" <=> c.id = 3
        /\ c.id \in 2..6 => c.run_id = c.session
    BY <2>1, Commands
  <2>5. Open("B") /\ c.id # 1 => c.session = session /\ c.id \in Pending("B")
    BY <1>0, <1>3, <2>1, OwnRequest
  <2>6. step >= 8 => c.id # 2
    <3>1. ASSUME step >= 8, c.id = 2 PROVE FALSE
      <4>1. Open("B") /\ 2 \in Pending("B")
        BY <1>3, <2>5, <3>1
      <4>2. step \in 1..16 /\ Script[step][1] = "B" /\ NextOf("B")[step] = 2
        BY <1>0, <4>1, PendingStep
      <4>3. step = 6
        BY <4>2, Milestones
      <4> QED
        BY <3>1, <4>3
    <3> QED
      BY <3>1
  <2> HIDE DEF c, m, n, h, k
  <2>7. ASSUME Measuring("B"), step >= 8 \/ (Open("B") /\ \E j \in DOMAIN h : Armed(h[j]))
        PROVE  m.run_id = session /\ m.state \in InMeasurement /\ m.busy # "configure"
    <3>1. c.id # 2
      BY <2>1, <2>4, <2>6, <2>7 DEF Before
    <3> QED
      BY <1>6, <2>3, <2>4, <2>7, <3>1
  <2>8. \A i \in DOMAIN k : Open("B") /\ Armed(k[i]) =>
            \/ \E j \in DOMAIN h : h[j] = k[i]
            \/ m.run_id = session /\ m.state \in InMeasurement /\ m.busy # "configure"
    <3>1. ASSUME Open("B"), c.id = 3, m.reply = "ok", m.busy = "none"
          PROVE  m.run_id = session /\ m.state \in InMeasurement /\ m.busy # "configure"
      <4>1. c.session = session /\ c.run_id = session /\ session # 0 /\ c.cmd = "arm"
        BY <1>3, <2>4, <2>5, <3>1
      <4> QED
        BY <2>3, <3>1, <4>1 DEF InMeasurement
    <3> QED
      BY <2>1, <3>1
  <2> QED
    BY <1>5, <2>2, <2>7, <2>8
<1> QED
  BY <1>4, <1>7, <1>8, <1>9, <1>10 DEF NodeStep

\* Node A starts a generator at its start only, which was answered before its
\* result.
LEMMA QuietNode ==
    ASSUME SystemTypeOK, Ids, \A s \in Sites : SiteInv(s), QuietA,
           NodeStep("A") \/ NodeGenerate("A") \/ Reboot("A")
    PROVE  QuietA'
<1>0. "A" \in Sites /\ OpenStep("A") = 3
  BY DEF Sites, OpenStep
<1>1. UNCHANGED hostVars
  BY <1>0, NodeOnly
<1>2. step' = step /\ (Open("A")' <=> Open("A"))
  BY <1>1 DEF hostVars, Open
<1> DEFINE n == node["A"]
           m == node'["A"]
           h == to_host["A"]
           k == to_host'["A"]
           Reported(a) == a.id = 6 /\ a.ok
<1>3. /\ n \in Nodes /\ step \in 0..17
      /\ step >= 14 => Open("A")
      /\ Open("A") => InSession
  <2>1. n \in Nodes /\ step \in 0..17
    BY <1>0, ScriptSites DEF SystemTypeOK
  <2> QED
    BY <1>0, <2>1 DEF Open, InSession
<1>4. CASE Reboot("A")
  <2>1. m.generator = "none"
    BY <1>0, <1>4, NodeActs, BootFacts
  <2> QED
    BY <2>1 DEF QuietA
<1>5. ASSUME \A i \in DOMAIN k : Open("A") /\ Reported(k[i]) =>
                (\E j \in DOMAIN h : h[j] = k[i]) \/ m.generator = "none",
             ASSUME n.generator = "none", step >= 14 \/ (Open("A") /\ \E j \in DOMAIN h : Reported(h[j]))
             PROVE  m.generator = "none"
      PROVE  QuietA'
  <2>1. /\ step >= 14 => n.generator = "none"
        /\ Open("A") => \A j \in DOMAIN h : Reported(h[j]) => n.generator = "none"
    BY DEF QuietA
  <2>2. step >= 14 => m.generator = "none"
    BY <1>5, <2>1
  <2>3. Open("A") => \A i \in DOMAIN k : Reported(k[i]) => m.generator = "none"
    BY <1>5, <2>1
  <2> QED
    BY <1>2, <2>2, <2>3 DEF QuietA
<1>6. CASE NodeBoot("A")
  <2>1. m = Up(n) /\ to_host' = to_host
    BY <1>0, <1>6, NodeActs
  <2>2. Up(n).generator = n.generator
    BY <1>3, BootFacts DEF SameGenerator
  <2> QED
    BY <1>5, <2>1, <2>2
<1>7. CASE NodeGenerate("A")
  <2>1. m \in GeneratorSteps(n) /\ to_host' = to_host
    BY <1>0, <1>7, NodeActs
  <2>2. n.generator # "none"
    BY <1>3, <2>1, GeneratorFacts
  <2> QED
    BY <1>5, <2>1, <2>2
<1>8. CASE NodeComplete("A")
  <2> DEFINE x == Reply(reading["A"], m, boot["A"])
  <2>1. /\ m \in Completed(n) /\ k = Append(h, x)
    BY <1>0, <1>8, NodeActs
  <2>2. /\ m \in Nodes /\ n.busy \in Waiting /\ m.generator = n.generator
        /\ n.busy = "result" /\ m.reply = "ok" => m.generator = "none"
    BY <1>3, <2>1, CompleteFacts DEF SameGenerator
  <2>3. reading["A"] \in Request /\ h \in Seq(Answers) /\ boot["A"] \in Nat
    BY <1>0 DEF SystemTypeOK
  <2>4. x \in Answers /\ x.id = reading["A"].id /\ (x.ok <=> m.reply = "ok")
    BY <1>3, <2>2, <2>3, ReplyFacts
  <2>5. x.id = 6 => n.busy = "result"
    <3>1. LineOK("A", reading["A"]) /\ reading["A"].cmd = n.busy
      BY <1>0, <2>2 DEF SiteInv, LinesOK, NodeOK, Executing, Waiting
    <3> QED
      BY <2>4, <3>1, Commands
  <2>6. \A i \in DOMAIN k : (i \in DOMAIN h /\ k[i] = h[i]) \/ k[i] = x
    BY <2>1, <2>3, <2>4, Written
  <2> HIDE DEF x, m, n, h, k
  <2> QED
    BY <1>5, <2>1, <2>2, <2>4, <2>5, <2>6
<1>9. CASE NodeRead("A")
  <2> DEFINE c == Head(to_node["A"])
  <2>1. /\ n.busy = "none" /\ c \in Request /\ m \in Dispatched(n, c) /\ LineOK("A", c)
        /\ \E j \in DOMAIN to_node["A"] : c = to_node["A"][j]
        /\ Open("A") => \A i \in DOMAIN h : Before(h[i], c)
        /\ \A i \in DOMAIN k : \/ i \in DOMAIN h /\ k[i] = h[i]
                               \/ /\ m.busy = "none" /\ k[i].id = c.id
                                  /\ k[i].ok => m.reply = "ok"
    BY <1>0, <1>9, LineRead
  <2>2. /\ m.generator = n.generator \/ c.cmd = "start"
        /\ c.cmd = "result" /\ m.busy = "none" => m.reply # "ok"
    BY <1>3, <2>1, DispatchFacts DEF SameGenerator
  <2>3. /\ c.id \in 1..7
        /\ c.cmd = "start" <=> c.id = 4
        /\ c.cmd = "result" <=> c.id = 6
    BY <2>1, Commands
  <2>4. step >= 14 => c.id # 4
    <3>1. ASSUME step >= 14, c.id = 4 PROVE FALSE
      <4>1. Open("A") /\ 4 \in Pending("A")
        BY <1>0, <1>3, <2>1, <3>1, OwnRequest
      <4>2. step \in 1..16 /\ Script[step][1] = "A" /\ NextOf("A")[step] = 4
        BY <1>0, <4>1, PendingStep
      <4>3. step = 10
        BY <4>2, Milestones
      <4> QED
        BY <3>1, <4>3
    <3> QED
      BY <3>1
  <2> HIDE DEF c, m, n, h, k
  <2>5. ASSUME n.generator = "none", step >= 14 \/ (Open("A") /\ \E j \in DOMAIN h : Reported(h[j]))
        PROVE  m.generator = "none"
    <3>1. c.id # 4
      BY <2>1, <2>3, <2>4, <2>5 DEF Before
    <3> QED
      BY <2>2, <2>3, <2>5, <3>1
  <2>6. \A i \in DOMAIN k : Reported(k[i]) => \E j \in DOMAIN h : h[j] = k[i]
    BY <2>1, <2>2, <2>3
  <2> QED
    BY <1>5, <2>5, <2>6
<1> QED
  BY <1>4, <1>6, <1>7, <1>8, <1>9 DEF NodeStep

\* Every step of a node keeps what holds between the sites.
LEMMA TrafficNode ==
    ASSUME SystemTypeOK, Ids, \A s \in Sites : SiteInv(s), Traffic,
           NEW r \in Sites, NodeStep(r) \/ NodeGenerate(r) \/ Reboot(r)
    PROVE  Traffic'
<1>0. "A" \in Sites /\ "B" \in Sites
  BY DEF Sites
<1>1. UNCHANGED hostVars /\ \A s \in Sites \ {r} : SiteVars(s)' = SiteVars(s) /\ to_host'[s] = to_host[s]
  BY NodeOnly
<1>2. /\ session' = session /\ step' = step /\ opened' = opened
      /\ InSession' <=> InSession
      /\ Open("A")' <=> Open("A")
      /\ Open("B")' <=> Open("B")
  BY <1>1 DEF hostVars, InSession, Open
<1>3. CASE r = "A"
  <2>1. node'["B"] = node["B"] /\ boot'["B"] = boot["B"] /\ to_host'["B"] = to_host["B"]
    BY <1>0, <1>1, <1>3 DEF SiteVars
  <2>2. MeasuredB' /\ ArmedB'
    BY <1>2, <2>1 DEF Traffic, MeasuredB, ArmedB, Measuring
  <2>3. StartedA' /\ QuietA'
    BY <1>3, StartedNode, QuietNode DEF Traffic
  <2> QED
    BY <2>2, <2>3 DEF Traffic
<1>4. CASE r = "B"
  <2>1. node'["A"] = node["A"] /\ boot'["A"] = boot["A"] /\ to_host'["A"] = to_host["A"]
    BY <1>0, <1>1, <1>4 DEF SiteVars
  <2>2. StartedA' /\ QuietA'
    BY <1>2, <2>1 DEF Traffic, StartedA, QuietA
  <2>3. MeasuredB' /\ ArmedB'
    BY <1>4, MeasuredNode, ArmedNode DEF Traffic
  <2> QED
    BY <2>2, <2>3 DEF Traffic
<1> QED
  BY <1>3, <1>4 DEF Sites
-----------------------------------------------------------------------------
(* Generators left behind by earlier sessions.                             *)

\* While an old generator sends into B's measurement, A cannot be started.
LEMMA StraySpoils ==
    ASSUME SystemTypeOK, Ids, \A s \in Sites : SiteInv(s), Traffic, StrayA, InSession, stray \/ Stray
    PROVE  step >= 7 /\ Spoilt
<1>0. "A" \in Sites
  BY DEF Sites
<1>1. CASE stray
  BY <1>1 DEF StrayA
<1>2. CASE Stray
  <2>1. /\ node["A"].generator = "sending" /\ node["A"].gen_run # node["A"].run_id /\ Measuring("B")
    BY <1>2 DEF Stray, Sending, Leftover
  <2>2. step >= 7
    BY <2>1 DEF Traffic, ArmedB
  <2>3. node["A"].state # "RUNNING"
    BY <1>0, <2>1 DEF SiteInv, LinesOK, NodeOK
  <2>4. node["A"].busy # "configure"
    BY <2>2, NotConfiguring
  <2> QED
    BY <2>1, <2>2, <2>3, <2>4 DEF Spoilt
<1> QED
  BY <1>1, <1>2

\* An old generator is not there when nothing but this session's can send.
LEMMA ClearStays ==
    ASSUME Clear
    PROVE  ~(stray \/ Stray)
  BY DEF Clear, Stray, Sending, Leftover

\* Once the host has gone on from the configurations A executes none.
LEMMA SpoiltStays ==
    ASSUME SystemTypeOK, Ids, \A s \in Sites : SiteInv(s), InSession, step >= 7, Spoilt,
           NodeStep("A") \/ NodeGenerate("A") \/ Reboot("A")
    PROVE  Spoilt'
<1>0. "A" \in Sites
  BY DEF Sites
<1> DEFINE n == node["A"]
           m == node'["A"]
<1>1. session' = session
  BY <1>0, NodeOnly DEF hostVars
<1>2. n \in Nodes /\ session \in Nat \ {0} /\ n.busy # "configure"
  BY <1>0, NotConfiguring DEF SystemTypeOK, InSession
<1>3. SUFFICES ASSUME m.run_id = session
               PROVE  /\ m.busy # "configure" /\ m.state # "RUNNING"
                      /\ m.state \in {"CONFIGURED", "ARMED"} => m.generator = "sending"
  BY <1>1 DEF Spoilt
<1>4. n.run_id = session =>
        n.state # "RUNNING" /\ (n.state \in {"CONFIGURED", "ARMED"} => n.generator = "sending")
  BY DEF Spoilt
<1>5. CASE NodeBoot("A")
  <2>1. m = Up(n)
    BY <1>0, <1>5, NodeActs
  <2>2. /\ m.busy = "none" /\ m.run_id = n.run_id /\ m.generator = n.generator
        /\ m.state \in {"IDLE", n.state}
    BY <1>2, <2>1, BootFacts DEF SameGenerator
  <2> QED
    BY <1>3, <1>4, <2>2
<1>6. CASE NodeComplete("A")
  <2>1. m \in Completed(n)
    BY <1>0, <1>6, NodeActs
  <2>2. m.busy = "none" /\ m.run_id = n.run_id /\ m.state = n.state /\ m.generator = n.generator
    BY <1>2, <2>1, CompleteFacts DEF SameGenerator
  <2> QED
    BY <1>3, <1>4, <2>2
<1>7. CASE NodeGenerate("A")
  <2>1. m \in GeneratorSteps(n)
    BY <1>0, <1>7, NodeActs
  <2>2. /\ m.busy = n.busy /\ m.run_id = n.run_id
        /\ m.state \in {"FINISHED", "ERROR"} \/ (n.generator = "ending" /\ m.state = n.state)
    BY <1>2, <2>1, GeneratorFacts
  <2> QED
    BY <1>2, <1>3, <1>4, <2>2
<1>8. CASE Reboot("A")
  <2>1. m.run_id = 0
    BY <1>0, <1>8, NodeActs, BootFacts
  <2> QED
    BY <1>2, <1>3, <2>1
<1>9. CASE NodeRead("A")
  <2> DEFINE c == Head(to_node["A"])
  <2>1. /\ n.busy = "none" /\ c \in Request /\ m \in Dispatched(n, c) /\ LineOK("A", c)
        /\ \E j \in DOMAIN to_node["A"] : c = to_node["A"][j]
    BY <1>0, <1>9, LineRead
  <2>2. c.cmd # "configure"
    <3>1. SUFFICES ASSUME c.id = 2 PROVE FALSE
      BY <2>1, Commands
    <3>2. Open("A")
      <4>1. OpenStep("A") = 3 /\ step \in 0..17
        BY ScriptSites DEF SystemTypeOK, OpenStep
      <4> QED
        BY <4>1 DEF Open
    <3>3. 2 \in Pending("A")
      BY <1>0, <2>1, <3>1, <3>2, OwnRequest
    <3>4. step \in 1..16 /\ Script[step][1] = "A" /\ NextOf("A")[step] = 2
      BY <1>0, <3>2, <3>3, PendingStep
    <3> QED
      BY <3>4, Milestones
  <2>3. /\ m.run_id = n.run_id /\ Leads(n, m) /\ m.busy # "configure"
        /\ SameGenerator(n, m) \/ m.generator = "sending"
    BY <1>2, <2>1, <2>2, DispatchFacts
  <2> QED
    BY <1>3, <1>4, <2>3 DEF Leads, SameGenerator
<1> QED
  BY <1>5, <1>6, <1>7, <1>8, <1>9 DEF NodeStep

\* Every step of the host, and of node B, keeps what holds of old generators.
LEMMA StrayElsewhere ==
    ASSUME SystemTypeOK, Ids, \A s \in Sites : SiteInv(s), Traffic, StrayA,
           UNCHANGED <<node["A"], step, session>>, Remember,
           \A j \in DOMAIN to_host'["A"] : \E i \in DOMAIN to_host["A"] : to_host'["A"][j] = to_host["A"][i]
    PROVE  StrayA'
<1>1. (InSession' <=> InSession) /\ (Open("A")' <=> Open("A")) /\ (Spoilt' <=> Spoilt)
  BY DEF InSession, Open, Spoilt
<1>2. CASE ~InSession
  <2>1. step = 0 /\ ~Open("A")
    BY <1>2 DEF InSession, Open, OpenStep
  <2> QED
    BY <1>1, <1>2, <2>1 DEF StrayA
<1>3. CASE InSession
  <2>1. stray' <=> stray \/ Stray
    BY <1>3 DEF Remember
  <2>2. InSession' /\ stray' => step' >= 7 /\ Spoilt'
    BY <1>1, <1>3, <2>1, StraySpoils
  <2>3. Clear => Clear'
    BY <2>1, ClearStays DEF Clear
  <2> QED
    BY <1>1, <2>2, <2>3 DEF StrayA
<1> QED
  BY <1>2, <1>3

\* Every step of the host keeps it.
LEMMA StrayHost ==
    ASSUME SystemTypeOK, Ids, \A s \in Sites : SiteInv(s), Traffic, StrayA,
           \A s \in Sites : SiteInv(s)', Begin \/ HostStep \/ TornLine \/ Abort, Remember
    PROVE  StrayA'
<1>0. "A" \in Sites /\ OpenStep("A") = 3
  BY DEF Sites, OpenStep
<1>1. CASE Begin /\ step' \in {1, 3}
  <2>1. ~InSession /\ InSession' /\ ~Open("A")'
    BY <1>0, <1>1 DEF Begin, InSession, Open
  <2>2. ~stray'
    BY <2>1 DEF Remember
  <2> QED
    BY <1>1, <2>1, <2>2 DEF StrayA
<1>2. CASE step' = 0
  BY <1>0, <1>2 DEF StrayA, InSession, Open
<1>3. CASE Send
  <2>1. to_host'["A"] = <<>> \/ to_host'["A"] = to_host["A"]
    BY <1>0, <1>3 DEF Send, Drained, SystemTypeOK
  <2>2. UNCHANGED <<node["A"], step, session>>
    BY <1>3 DEF Send
  <2> QED
    BY <2>1, <2>2, StrayElsewhere
<1>4. CASE UNCHANGED <<nodeVars, hostVars>> /\ \A s \in Sites : Fewer(to_host'[s], to_host[s])
  <2>1. \A j \in DOMAIN to_host'["A"] : \E i \in DOMAIN to_host["A"] : to_host'["A"][j] = to_host["A"][i]
    <3>1. to_host["A"] \in Seq(Answers) /\ Fewer(to_host'["A"], to_host["A"])
      BY <1>0, <1>4 DEF SystemTypeOK
    <3> QED
      BY <3>1, FewerAnswers
  <2>2. UNCHANGED <<node["A"], step, session>>
    BY <1>4 DEF nodeVars, hostVars
  <2> QED
    BY <2>1, <2>2, StrayElsewhere
<1>5. CASE Advance
  <2>1. /\ Requesting /\ waiting /\ step' = step + 1 /\ ~waiting' /\ UNCHANGED <<node, session>>
        /\ step \in 1..16 /\ InSession
    BY <1>5, ThisStep DEF Advance, InSession
  <2>2. stray' <=> stray \/ Stray
    BY <2>1 DEF Remember
  <2>3. stray' => step' >= 7 /\ Spoilt'
    <3>1. ASSUME stray' PROVE step >= 7 /\ Spoilt
      BY <2>1, <2>2, <3>1, StraySpoils
    <3>2. Spoilt' <=> Spoilt
      BY <2>1 DEF Spoilt
    <3> QED
      BY <2>1, <3>1, <3>2
  <2>4. Clear => Clear'
    BY <2>1, <2>2, ClearStays DEF Clear
  <2>5. step' >= 11 => Clear
    <3>1. CASE step = 10
      <4>1. Script[step][1] = "A" /\ NextOf("A")[step] = 4
        BY <2>1, <3>1, Milestones
      <4>2. 1 \in DOMAIN to_host["A"] /\ to_host["A"][1].id = 4 /\ to_host["A"][1].ok /\ Open("A")
        BY <1>0, <1>5, <3>1, <4>1, AnswerTaken
      <4> QED
        BY <4>2 DEF StrayA
    <3> QED
      BY <2>1, <3>1 DEF StrayA
  <2>6. ASSUME NEW i \in DOMAIN to_host'["A"], Open("A")'
        PROVE  to_host'["A"][i].id \in {1, 5}
    <3>1. InPending("A", to_host["A"][i])'
      BY <1>0, <2>6 DEF SiteInv, Opened
    <3>2. Pending("A")' \subseteq {5}
      BY <2>1 DEF Pending, Waits
    <3> QED
      BY <3>1, <3>2 DEF InPending
  <2> QED
    BY <2>3, <2>4, <2>5, <2>6 DEF StrayA
<1> QED
  BY <1>1, <1>2, <1>3, <1>4, <1>5, HostMoves

\* Every step of a node keeps it: a start that succeeds finds no generator.
LEMMA StrayNode ==
    ASSUME SystemTypeOK, Ids, \A s \in Sites : SiteInv(s), Traffic, StrayA, Remember,
           NEW r \in Sites, NodeStep(r) \/ NodeGenerate(r) \/ Reboot(r)
    PROVE  StrayA'
<1>0. "A" \in Sites /\ "B" \in Sites /\ OpenStep("A") = 3
  BY DEF Sites, OpenStep
<1>1. UNCHANGED hostVars /\ \A s \in Sites \ {r} : SiteVars(s)' = SiteVars(s) /\ to_host'[s] = to_host[s]
  BY NodeOnly
<1>2. session' = session /\ step' = step /\ (InSession' <=> InSession) /\ (Open("A")' <=> Open("A"))
  BY <1>1 DEF hostVars, InSession, Open
<1>3. CASE r = "B"
  <2>1. UNCHANGED <<node["A"], step, session, to_host["A"]>>
    BY <1>0, <1>1, <1>2, <1>3 DEF SiteVars
  <2> QED
    BY <2>1, StrayElsewhere
<1>4. CASE ~InSession
  <2>1. step = 0 /\ ~Open("A")
    BY <1>0, <1>4 DEF InSession, Open
  <2> QED
    BY <1>2, <1>4, <2>1 DEF StrayA
<1>5. CASE r = "A" /\ InSession
  <2> DEFINE n == node["A"]
             m == node'["A"]
             h == to_host["A"]
             k == to_host'["A"]
             Runs(a) == a.id = 4 /\ a.ok
  <2>1. stray' <=> stray \/ Stray
    BY <1>5 DEF Remember
  <2>2. n \in Nodes /\ session \in Nat \ {0} /\ step \in 0..17
    BY <1>0, <1>5, ScriptSites DEF SystemTypeOK, InSession
  <2>3. InSession' /\ stray' => step' >= 7 /\ Spoilt'
    <3>1. ASSUME stray' PROVE step >= 7 /\ Spoilt'
      <4>1. step >= 7 /\ Spoilt
        BY <1>5, <2>1, <3>1, StraySpoils
      <4> QED
        BY <1>5, <4>1, SpoiltStays
    <3> QED
      BY <1>2, <3>1
  <2>4. Clear' <=> ~stray' /\ (m.generator = "none" \/ m.gen_run = session)
    BY <1>2 DEF Clear
  <2>5. SUFFICES /\ Open("A") /\ Clear => m.generator = "none" \/ m.gen_run = session
                 /\ \A i \in DOMAIN k : Open("A") /\ Runs(k[i]) =>
                       (\E j \in DOMAIN h : h[j] = k[i]) \/ Clear'
    <3>1. /\ step >= 11 => Clear /\ Open("A")
          /\ Open("A") => \A j \in DOMAIN h : Runs(h[j]) => Clear
      BY <1>0, <2>2 DEF StrayA, Open
    <3>2. Open("A") /\ Clear => Clear'
      BY <2>1, <2>4, <2>5, ClearStays
    <3> QED
      BY <1>2, <2>3, <2>5, <3>1, <3>2 DEF StrayA
  <2>6. Clear => n.generator = "none" \/ n.gen_run = session
    BY DEF Clear
  <2>7. CASE NodeBoot("A")
    <3>1. m = Up(n) /\ k = h
      BY <1>0, <2>7, NodeActs
    <3>2. m.generator = n.generator /\ m.gen_run = n.gen_run
      BY <2>2, <3>1, BootFacts DEF SameGenerator
    <3> QED
      BY <2>6, <3>1, <3>2
  <2>8. CASE NodeGenerate("A")
    <3>1. m \in GeneratorSteps(n) /\ k = h
      BY <1>0, <2>8, NodeActs
    <3>2. n.generator # "none" /\ m.gen_run = n.gen_run
      BY <2>2, <3>1, GeneratorFacts
    <3> QED
      BY <2>6, <3>1, <3>2
  <2>9. CASE Reboot("A")
    <3>1. m \in BootedNodes /\ k = h
      BY <1>0, <2>9, NodeActs
    <3>2. m.generator = "none"
      BY <3>1, BootFacts
    <3> QED
      BY <3>1, <3>2
  <2>10. CASE NodeComplete("A")
    <3> DEFINE x == Reply(reading["A"], m, boot["A"])
    <3>1. m \in Completed(n) /\ k = Append(h, x)
      BY <1>0, <2>10, NodeActs
    <3>2. m \in Nodes /\ n.busy \in Waiting /\ m.generator = n.generator /\ m.gen_run = n.gen_run
      BY <2>2, <3>1, CompleteFacts DEF SameGenerator
    <3>3. reading["A"] \in Request /\ h \in Seq(Answers) /\ boot["A"] \in Nat
      BY <1>0 DEF SystemTypeOK
    <3>4. x \in Answers /\ x.id = reading["A"].id
      BY <3>2, <3>3, ReplyFacts
    <3>5. x.id # 4
      <4>1. LineOK("A", reading["A"]) /\ reading["A"].cmd \in Waiting
        BY <1>0, <3>2 DEF SiteInv, LinesOK, NodeOK, Executing, Waiting
      <4> QED
        BY <3>4, <4>1, Commands DEF Waiting
    <3>6. \A i \in DOMAIN k : (i \in DOMAIN h /\ k[i] = h[i]) \/ k[i] = x
      BY <3>1, <3>3, <3>4, Written
    <3> HIDE DEF x, m, n, h, k
    <3> QED
      BY <2>6, <3>2, <3>5, <3>6
  <2>11. CASE NodeRead("A")
    <3> DEFINE c == Head(to_node["A"])
    <3>1. /\ n.busy = "none" /\ c \in Request /\ m \in Dispatched(n, c) /\ LineOK("A", c)
          /\ \E j \in DOMAIN to_node["A"] : c = to_node["A"][j]
          /\ \A i \in DOMAIN k : \/ i \in DOMAIN h /\ k[i] = h[i]
                                 \/ /\ m.busy = "none" /\ k[i].id = c.id
                                    /\ k[i].ok => m.reply = "ok"
      BY <1>0, <2>11, LineRead
    <3>2. /\ \/ SameGenerator(n, m)
             \/ c.cmd = "start" /\ m.reply = "ok" /\ m.gen_run = n.run_id
          /\ c.cmd = "start" => m.run_id = n.run_id
          /\ c.cmd = "start" /\ c.run_id # 0 /\ m.reply = "ok" => m.run_id = c.run_id
          /\ c.cmd = "start" /\ m.reply = "ok" => n.state = "ARMED" /\ n.generator = "none"
      BY <2>2, <3>1, DispatchFacts
    <3>3. c.id \in 1..7 /\ (c.cmd = "start" <=> c.id = 4) /\ (c.id = 4 => c.run_id = c.session)
      BY <3>1, Commands
    <3>4. Open("A") /\ c.id = 4 => c.session = session
      BY <1>0, <1>5, <3>1, OwnRequest
    <3>5. Open("A") /\ c.cmd = "start" /\ m.reply = "ok" => n.run_id = session
      BY <2>2, <3>2, <3>3, <3>4
    <3>6. Open("A") /\ c.cmd = "start" /\ m.reply = "ok" => Clear'
      <4>1. ASSUME Open("A"), c.cmd = "start", m.reply = "ok"
            PROVE  ~stray' /\ (m.generator = "none" \/ m.gen_run = session)
        <5>1. n.run_id = session /\ n.state = "ARMED" /\ n.generator = "none"
          BY <3>2, <3>5, <4>1
        <5>2. ~Spoilt
          BY <5>1 DEF Spoilt
        <5>3. ~stray'
          BY <1>5, <2>1, <5>2, StraySpoils
        <5> QED
          BY <3>2, <5>1, <5>3 DEF SameGenerator
      <4> QED
        BY <2>4, <4>1
    <3> HIDE DEF c, m, n, h, k
    <3>7. Open("A") /\ Clear => m.generator = "none" \/ m.gen_run = session
      BY <2>6, <3>2, <3>5 DEF SameGenerator
    <3>8. \A i \in DOMAIN k : Open("A") /\ Runs(k[i]) =>
                       (\E j \in DOMAIN h : h[j] = k[i]) \/ Clear'
      BY <3>1, <3>3, <3>6
    <3> QED
      BY <3>7, <3>8
  <2> QED
    BY <1>5, <2>7, <2>8, <2>9, <2>10, <2>11 DEF NodeStep
<1> QED
  BY <1>3, <1>4, <1>5 DEF Sites
-----------------------------------------------------------------------------
(* The invariant.                                                          *)

\* What is saved was recorded from answers to this session, from one boot.
LEMMA SavedKept ==
    ASSUME SystemTypeOK, \A s \in Sites : SiteInv(s), SavedResultsOwn, SystemStep
    PROVE  SavedResultsOwn'
<1>1. CASE Begin
  BY <1>1 DEF Begin, SavedResultsOwn, InSession, FirstOpen
<1>2. CASE Save
  <2>1. /\ step = 17 /\ UNCHANGED <<session, opened, results>>
        /\ outcome' = "saved" => opened = checked
    BY <1>2, ScriptSites DEF Save, End
  <2>2. ASSUME NEW s \in Sites, outcome' = "saved"
        PROVE  results[s].session = session /\ results[s].run_id = session
               /\ results[s].boot = opened[s]
    <3>1. ResultStep(s) \in {13, 14}
      BY DEF ResultStep
    <3>2. /\ results[s].session = session /\ results[s].run_id = session
          /\ opened[s] <= results[s].boot /\ results[s].boot <= checked[s]
      BY <2>1, <3>1 DEF SiteInv, ResultsOK
    <3>3. opened[s] \in Nat /\ results[s].boot \in Nat /\ opened[s] = checked[s]
      <4>1. opened[s] \in Nat /\ results[s] \in Answers
        BY DEF SystemTypeOK
      <4> QED
        BY <2>1, <2>2, <4>1 DEF Answers
    <3> QED
      BY <3>2, <3>3
  <2> QED
    BY <2>1, <2>2 DEF SavedResultsOwn
<1>3. CASE NotTwo \/ Abort
  BY <1>3 DEF NotTwo, Abort, End, SavedResultsOwn
<1>4. ASSUME Requesting, Failed
      PROVE  SavedResultsOwn'
  <2>1. CASE Call \in {"probe", "stop"}
    <3>1. step' = step + 1 /\ step \in Nat
      BY <1>4, <2>1, ScriptSites DEF Failed, Requesting
    <3> QED
      BY <3>1 DEF SavedResultsOwn, InSession
  <2>2. CASE Call \notin {"probe", "stop"}
    BY <1>4, <2>2 DEF Failed, End, SavedResultsOwn
  <2> QED
    BY <2>1, <2>2
<1>5. CASE Timeout
  BY <1>4, <1>5 DEF Timeout
<1>6. CASE Receive
  <2>1. CASE UNCHANGED <<nodeVars, hostVars>>
    BY <2>1 DEF SavedResultsOwn, InSession, hostVars
  <2>2. CASE Failed
    BY <1>4, <1>6, <2>2 DEF Receive
  <2>3. CASE Accepted(Head(to_host[Site]))
    <3>1. step' = step + 1 /\ step \in Nat
      BY <1>6, <2>3, ScriptSites DEF Receive, Accepted, Requesting
    <3> QED
      BY <3>1 DEF SavedResultsOwn, InSession
  <2> QED
    BY <1>6, <2>1, <2>2, <2>3 DEF Receive
<1>7. CASE Send
  BY <1>7 DEF Send, SavedResultsOwn, InSession
<1>8. CASE TornLine
  BY <1>8 DEF TornLine, SavedResultsOwn, InSession, hostVars
<1>9. ASSUME NEW r \in Sites, NodeStep(r) \/ NodeGenerate(r) \/ Reboot(r)
      PROVE  SavedResultsOwn'
  <2>1. UNCHANGED hostVars
    BY <1>9, NodeOnly
  <2> QED
    BY <2>1 DEF SavedResultsOwn, InSession, hostVars
<1> QED
  BY <1>1, <1>2, <1>3, <1>5, <1>6, <1>7, <1>8, <1>9 DEF SystemStep, HostStep

\* Nor has an old generator sent into what is saved.
LEMMA SavedTrafficKept ==
    ASSUME SystemTypeOK, StrayA, SavedTrafficOwn, SystemStep, Remember
    PROVE  SavedTrafficOwn'
<1>1. SUFFICES ASSUME outcome' = "saved", ~InSession'
               PROVE  ~stray'
  BY DEF SavedTrafficOwn
<1>2. step' = 0
  BY <1>1 DEF InSession
<1>3. CASE ~InSession /\ outcome' = outcome
  BY <1>1, <1>3 DEF SavedTrafficOwn, Remember
<1>4. CASE Save
  <2>1. step = 17 /\ InSession
    BY <1>4, ScriptSites DEF Save, InSession
  <2>2. Clear
    BY <2>1 DEF StrayA
  <2> QED
    BY <2>1, <2>2, ClearStays DEF Remember
<1>5. ASSUME UNCHANGED hostVars
      PROVE  ~InSession /\ outcome' = outcome
  BY <1>1, <1>5 DEF hostVars, InSession
<1>6. ~Begin /\ ~NotTwo /\ ~Abort
  BY <1>1 DEF Begin, NotTwo, Abort, End, InSession, FirstOpen
<1>7. CASE Send
  BY <1>1, <1>3, <1>7 DEF Send, InSession
<1>8. ~(Requesting /\ Failed)
  <2>1. SUFFICES ASSUME Requesting, Failed PROVE FALSE
    OBVIOUS
  <2>2. step \in 1..16
    BY <2>1, ScriptSites DEF Requesting
  <2> QED
    BY <1>1, <1>2, <2>1, <2>2 DEF Failed, End
<1>9. CASE Receive
  <2>1. ~Accepted(Head(to_host[Site]))
    <3>1. SUFFICES ASSUME Accepted(Head(to_host[Site])) PROVE FALSE
      OBVIOUS
    <3>2. step' = step + 1 /\ step \in 1..16
      BY <1>9, <3>1, ScriptSites DEF Receive, Requesting, Accepted
    <3> QED
      BY <1>2, <3>2
  <2>2. UNCHANGED hostVars
    BY <1>8, <1>9, <2>1 DEF Receive
  <2> QED
    BY <1>3, <1>5, <2>2
<1>10. ~Timeout
  BY <1>8 DEF Timeout
<1>11. CASE TornLine
  BY <1>3, <1>5, <1>11 DEF TornLine
<1>12. ASSUME NEW r \in Sites, NodeStep(r) \/ NodeGenerate(r) \/ Reboot(r)
       PROVE  ~stray'
  BY <1>3, <1>5, <1>12, NodeOnly
<1> QED
  BY <1>4, <1>6, <1>7, <1>9, <1>10, <1>11, <1>12 DEF SystemStep, HostStep

\* The invariant holds at first.
LEMMA SystemInit == Init => SystemInv
<1> SUFFICES ASSUME Init PROVE SystemInv
  OBVIOUS
<1>1. SystemTypeOK
  <2>1. NoAnswer \in Answers /\ NoRequest \in Request
    <3> DEFINE no == FALSE
    <3>1. no \in BOOLEAN
      OBVIOUS
    <3>2. NoAnswer = [id |-> 0, cmd |-> "info", ok |-> no, run_id |-> 0, boot |-> 0, session |-> 0]
      BY Zenon DEF NoAnswer
    <3> HIDE DEF no
    <3> QED
      BY <3>1, <3>2 DEF Answers, Request, NoRequest
  <2>2. waiting \in BOOLEAN /\ ~waiting
    BY Zenon DEF Init
  <2>3. node \in [Sites -> Nodes]
    <3>1. \A n \in BootedNodes : n \in Nodes
      BY BootFacts
    <3> QED
      BY <3>1 DEF Init
  <2>4. step \in 0..Len(Script) + 1
    BY ScriptSites DEF Init
  <2>5. /\ to_node \in [Sites -> Seq(Request)] /\ to_host \in [Sites -> Seq(Answers)]
        /\ reading \in [Sites -> Request] /\ results \in [Sites -> Answers]
    BY <2>1 DEF Init
  <2> QED
    BY <2>2, <2>3, <2>4, <2>5 DEF Init, SystemTypeOK
<1>2. \A s \in Sites : ~Open(s) /\ ~Waits(s)
  BY DEF Init, Open, OpenStep, Waits
<1>3. Ids
  BY <1>2 DEF Init, Ids
<1>4. ASSUME NEW s \in Sites
      PROVE  SiteInv(s)
  <2>1. /\ node[s].run_id = 0 /\ node[s].role = "ROLE_NONE" /\ node[s].generator = "none"
        /\ node[s].gen_run = 0 /\ node[s].busy = "boot"
    <3>1. node[s] \in BootedNodes
      BY DEF Init
    <3> QED
      BY <3>1, BootFacts
  <2>2. /\ to_node[s] = <<>> /\ to_host[s] = <<>> /\ session = 0 /\ opened[s] = 0 /\ boot[s] = 1
        /\ step = 0 /\ ~InSession
    BY DEF Init, InSession
  <2>3. ~Executing(s) /\ ResultStep(s) \in {13, 14}
    BY <2>1 DEF Executing, ResultStep
  <2>4. LinesOK(s)
    BY <2>1, <2>2, <2>3 DEF LinesOK, NodeOK
  <2>5. Kept(s)
    BY <2>2, NothingWritten DEF Kept
  <2> QED
    BY <1>2, <2>2, <2>3, <2>4, <2>5 DEF SiteInv, Opening, Opened, BootsOK, ResultsOK
<1>5. Traffic
  <2>1. step = 0 /\ "A" \in Sites /\ "B" \in Sites
    BY DEF Init, Sites
  <2> QED
    BY <1>2, <2>1 DEF Traffic, StartedA, ArmedB, MeasuredB, QuietA, InSession
<1>6. SavedResultsOwn /\ SavedTrafficOwn
  BY DEF Init, SavedResultsOwn, SavedTrafficOwn
<1>7. StrayA
  <2>1. step = 0 /\ "A" \in Sites
    BY DEF Init, Sites
  <2> QED
    BY <1>2, <2>1 DEF StrayA, InSession
<1> QED
  BY <1>1, <1>3, <1>4, <1>5, <1>6, <1>7 DEF SystemInv

\* Every step keeps the invariant.
LEMMA SystemKept ==
    ASSUME SystemInv, [Next]_vars, [Begin => Rested]_vars
    PROVE  SystemInv'
<1> USE DEF SystemInv
<1>1. CASE Next /\ (Begin => Rested)
  <2>0. SystemStep /\ Remember
    BY <1>1 DEF Next
  <2>1. SystemTypeOK' /\ Ids' /\ SavedResultsOwn' /\ SavedTrafficOwn'
    BY <2>0, TypesKept, IdsKept, SavedKept, SavedTrafficKept
  <2>2. CASE Begin \/ HostStep \/ TornLine \/ Abort
    <3>1. \A s \in Sites : SiteInv(s)'
      BY <1>1, <2>2, HostSites
    <3>2. Traffic' /\ StrayA'
      BY <2>0, <2>2, <3>1, TrafficHost, StrayHost
    <3> QED
      BY <2>1, <3>1, <3>2
  <2>3. ASSUME NEW r \in Sites, NodeStep(r) \/ NodeGenerate(r) \/ Reboot(r)
        PROVE  SystemInv'
    <3>1. \A s \in Sites : SiteInv(s)'
      BY <2>3, NodeSites
    <3>2. Traffic' /\ StrayA'
      BY <2>0, <2>3, TrafficNode, StrayNode
    <3> QED
      BY <2>1, <3>1, <3>2
  <2> QED
    BY <2>0, <2>2, <2>3 DEF SystemStep
<1>2. CASE vars' = vars
  <2>1. UNCHANGED <<nodeVars, hostVars>> /\ to_host' = to_host /\ stray' = stray
    BY <1>2 DEF vars, systemVars
  <2>2. UNCHANGED <<node, boot, reading, to_node, session, step, waiting, next_id, found, opened,
                    checked, results, outcome>>
    BY <2>1 DEF nodeVars, hostVars
  <2>3. \A s \in Sites : SiteInv(s)'
    BY <2>1, SiteWaits DEF Fewer
  <2>4. SystemTypeOK'
    BY <2>1, <2>2 DEF SystemTypeOK
  <2>5. Ids'
    BY <2>2 DEF Ids, Open, Waits, Site, Opens, Call
  <2>6. Traffic'
    BY <2>1, <2>2 DEF Traffic, StartedA, ArmedB, MeasuredB, QuietA, Measuring, Open, InSession
  <2>7. SavedResultsOwn' /\ SavedTrafficOwn'
    BY <2>1, <2>2 DEF SavedResultsOwn, SavedTrafficOwn, InSession
  <2>8. StrayA'
    BY <2>1, <2>2 DEF StrayA, Spoilt, Clear, Open, InSession
  <2> QED
    BY <2>3, <2>4, <2>5, <2>6, <2>7, <2>8
<1> QED
  BY <1>1, <1>2
-----------------------------------------------------------------------------
(* The theorems.                                                           *)

\* In every state of every run the ids of the requests are those the step of
\* the session says, and nodes, lines and host have their types: whatever is
\* lost, rebooted or interrupted, and however closely sessions follow each
\* other (device.rs next_id, runner.rs run).
THEOREM RequestIds == Spec => [](SystemTypeOK /\ Ids)
<1>1. Init => SystemTypeOK /\ Ids
  BY SystemInit DEF SystemInv
<1>2. SystemTypeOK /\ Ids /\ [Next]_vars => (SystemTypeOK /\ Ids)'
  <2> SUFFICES ASSUME SystemTypeOK, Ids, [Next]_vars
               PROVE  SystemTypeOK' /\ Ids'
    OBVIOUS
  <2>1. CASE Next
    BY <2>1, TypesKept, IdsKept DEF Next
  <2>2. CASE vars' = vars
    <3>1. UNCHANGED <<node, boot, reading, to_node, to_host, session, step, waiting, next_id,
                      found, opened, checked, results, outcome>>
      BY <2>2 DEF vars, systemVars, nodeVars, hostVars
    <3>2. SystemTypeOK'
      BY <3>1 DEF SystemTypeOK
    <3>3. Ids'
      BY <3>1 DEF Ids, Open, Waits, Site, Opens, Call
    <3> QED
      BY <3>2, <3>3
  <2> QED
    BY <2>1, <2>2
<1> QED
  BY <1>1, <1>2, PTL DEF Spec

\* The invariant holds always.
LEMMA SystemInvariant == Spec /\ Unhurried => []SystemInv
<1>1. SystemInv /\ [Next]_vars /\ [Begin => Rested]_vars => SystemInv'
  BY SystemKept
<1> QED
  BY <1>1, SystemInit, PTL DEF Spec, Unhurried

\* As long as the generator of this session's run sends, node B measures that
\* run, for any number of sessions, lost lines, reboots and interruptions: A
\* gets its start only after the host has the answer to B's arm, and B leaves
\* the measurement with a configure only, which the host sends before
\* (runner.rs run, control.c dispatch).
THEOREM TrafficIsMeasured == Spec /\ Unhurried => []TrafficMeasured
<1>1. SystemInv => TrafficMeasured
  <2> SUFFICES ASSUME SystemInv, Undisturbed, Sending("A"), ~Leftover("A")
               PROVE  Measuring("B")
    BY DEF TrafficMeasured
  <2>1. InSession /\ opened["B"] = boot["B"]
    BY DEF Undisturbed, FirstOpen, InSession
  <2>2. step >= 10
    BY <2>1 DEF SystemInv, Traffic, StartedA, Sending, Leftover
  <2>3. step \in Nat
    BY ScriptSites DEF SystemInv, SystemTypeOK
  <2> QED
    BY <2>1, <2>2, <2>3 DEF SystemInv, Traffic, MeasuredB
<1> QED
  BY <1>1, SystemInvariant, PTL

\* No frame of a generator that an earlier session left behind is in what a
\* session saves: such a task keeps A from being started, by the state it
\* writes at its end or by its handle (generator.c generator_start, runner.rs
\* run).
THEOREM SavedTrafficIsOwn == Spec /\ Unhurried => []SavedTrafficOwn
<1>1. SystemInv => SavedTrafficOwn
  BY DEF SystemInv
<1> QED
  BY <1>1, SystemInvariant, PTL

\* Node B makes its report only when node A sends nothing more: the host asks
\* B for its result after the answer of A to the same request, which A gives
\* without a generator only (runner.rs run, control.c result).
THEOREM ReportFollowsTraffic == Spec /\ Unhurried => []ReportAfterTraffic
<1>1. SystemInv => ReportAfterTraffic
  <2> SUFFICES ASSUME SystemInv, Undisturbed, node["B"].busy = "result", node["B"].run_id = session
               PROVE  ~Sending("A")
    BY DEF ReportAfterTraffic
  <2>0. "B" \in Sites
    BY DEF Sites
  <2>1. InSession /\ opened["A"] = boot["A"] /\ SystemTypeOK /\ Ids /\ SiteInv("B") /\ Executing("B")
    BY <2>0 DEF Undisturbed, FirstOpen, InSession, SystemInv, Executing
  <2>2. LineOK("B", reading["B"]) /\ reading["B"].cmd = "result" /\ reading["B"].run_id = session
    BY <2>1 DEF SiteInv, LinesOK, NodeOK
  <2>3. reading["B"].id = 6 /\ reading["B"].session = session
    BY <2>2, Commands
  <2>4. Open("B") /\ 6 \in Pending("B")
    BY <2>0, <2>1, <2>3, OwnRequest
  <2>5. step \in 1..16 /\ Script[step][1] = "B" /\ NextOf("B")[step] = 6
    BY <2>0, <2>1, <2>4, PendingStep
  <2>6. step = 14
    BY <2>5, Milestones
  <2> QED
    BY <2>1, <2>6 DEF SystemInv, Traffic, QuietA, Sending
<1> QED
  BY <1>1, SystemInvariant, PTL

\* A saved session holds a result of each node, of this session's run and of
\* the boot whose info it recorded (runner.rs boot_id, device.rs drain).
THEOREM SavedResultsAreOwn == Spec /\ Unhurried => []SavedResultsOwn
<1>1. SystemInv => SavedResultsOwn
  BY DEF SystemInv
<1> QED
  BY <1>1, SystemInvariant, PTL

\* From arm on the host takes no answer for that to its request but this very
\* one: what is left of earlier sessions is gone or waits behind the answer
\* to the opening of the port (device.rs request_with_timeout).
THEOREM AnswersAreOwn == Spec /\ Unhurried => OwnAnswers
<1> DEFINE Own(s) ==
       (Requesting /\ Site = s /\ step' = step + 1 /\ to_host[s] # <<>>
          /\ Call \in {"arm", "start", "stop", "result"})
       => Head(to_host[s]).session = session /\ Head(to_host[s]).cmd = Call
<1>1. SystemInv /\ [Next]_vars => [\A s \in Sites : Own(s)]_vars
  <2> SUFFICES ASSUME SystemInv, SystemStep, NEW s \in Sites, Requesting, Site = s,
                      step' = step + 1, to_host[s] # <<>>, Call \in {"arm", "start", "stop", "result"}
               PROVE  Head(to_host[s]).session = session /\ Head(to_host[s]).cmd = Call
    BY DEF Own, Next
  <2>1. SystemTypeOK /\ Ids /\ SiteInv(s) /\ step \in 1..16
    BY ThisStep DEF SystemInv
  <2>2. Advance
    <3>1. CASE Begin \/ HostStep \/ TornLine \/ Abort
      <4>1. ~Begin
        BY <2>1 DEF Begin, InSession
      <4>2. step' # 0 /\ step' # step
        BY <2>1
      <4>3. ~Send /\ ~UNCHANGED hostVars
        BY <4>2 DEF Send, hostVars
      <4> QED
        BY <2>1, <3>1, <4>1, <4>2, <4>3, HostMoves
    <3>2. ASSUME NEW r \in Sites, NodeStep(r) \/ NodeGenerate(r) \/ Reboot(r)
          PROVE  FALSE
      <4>1. UNCHANGED hostVars
        BY <2>1, <3>2, NodeOnly
      <4> QED
        BY <2>1, <4>1 DEF hostVars
    <3> QED
      BY <3>1, <3>2 DEF SystemStep
  <2> DEFINE a == Head(to_host[s])
  <2>3. waiting /\ Matches(a) /\ ~Opens
    BY <2>2 DEF Advance, Opens
  <2>4. /\ Open(s) /\ next_id[s] = NextOf(s)[step] + 1 /\ NextOf(s)[step] \in 2..7
    BY <2>1, <2>3, ThisStep
  <2>5. a.id = NextOf(s)[step] /\ a.id # 1
    BY <2>3, <2>4 DEF Matches
  <2>6. \E i \in DOMAIN to_host[s] : a = to_host[s][i]
    BY <2>1, Read DEF SystemTypeOK
  <2> HIDE DEF a
  <2>7. a.session = session /\ a.cmd = CmdOf[a.id]
    BY <2>1, <2>4, <2>5, <2>6 DEF SiteInv, LinesOK, AnswerOK, Opened, InPending
  <2>8. CmdOf[NextOf(s)[step]] = Call
    <3>1. step > OpenStep(s) /\ s = Script[step][1]
      BY <2>4 DEF Open, Site
    <3>2. CmdOf[NextOf(s)[step]] = IF Call = "check" THEN "info" ELSE Call
      BY <2>1, <3>1, ScheduleHere DEF Call
    <3> QED
      BY <3>2
  <2> QED
    BY <2>5, <2>7, <2>8 DEF a
<1> QED
  BY <1>1, SystemInvariant, PTL DEF OwnAnswers, Spec
=============================================================================
