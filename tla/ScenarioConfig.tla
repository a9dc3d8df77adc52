--------------------------- MODULE ScenarioConfig ---------------------------
(***************************************************************************)
(* A scenario's way from its file into a node: Scenario::validate on the   *)
(* host, the configure line the runner makes of it, parse_config on the    *)
(* node, and what radio_configure and the generator then derive from       *)
(* g_config.  The two sides check the same rules in two languages.         *)
(*                                                                         *)
(* Times are scaled: MicroNs nanoseconds to the microsecond, DayUs         *)
(* microseconds to the day.  Powers are in eighths of a dBm, so that a     *)
(* value between two quarters exists.                                      *)
(***************************************************************************)
EXTENDS Integers

CONSTANTS
    Scenarios,     \* scenario files: [duration, radio, traffic], duration in ns
    RunIds,        \* what unique_run_id may return, 0 included
    Typed,         \* configure lines of clients other than the host program
    MicroNs, DayUs,
    MaxUInt32      \* the host's u32 fields and the node's checks end here

Modes == {"ping", "stream", "multi-stream", "saturation", "latency-under-load"}

\* What serde makes of a file: unsigned numbers, one of the bands and modes.
ScenarioFiles ==
    [duration : Nat,
     radio : [band : {"2.4ghz", "5ghz"}, country : STRING, channel : Nat, phy_rate : STRING,
              tx_power_dbm : Int, encryption : BOOLEAN, key : STRING],
     traffic : [mode : Modes, streams : Nat, tx_window : Nat, packet_size : Nat,
                packet_rate_per_stream : 0..MaxUInt32, probe_rate : 0..MaxUInt32,
                background_packet_size : Nat, background_rate : 0..MaxUInt32]]

ASSUME ScenarioAssumption ==
    /\ MicroNs \in Nat \ {0} /\ DayUs \in Nat \ {0} /\ MaxUInt32 \in Nat
    /\ RunIds \subseteq 0..MaxUInt32
    /\ Scenarios \subseteq ScenarioFiles

VARIABLES
    scenario,      \* the file loaded, or None
    run_id,        \* the host's number of the run
    g_config,      \* of each node; None before its first configure
    stage          \* "file", "host_refused", "loaded", "A" or "B" configured,
                   \* "invalid_config", "invalid_json", "typed"

scenarioVars == <<scenario, run_id, g_config, stage>>

None == [none |-> TRUE]
HeaderSize == 28
MaxPacket == 250
MaxStreams == 16
MaxTxWindow == 32
Channels5 == {36, 40, 44, 48, 149, 153, 157, 161, 165}
PhyRates == {"1m", "6m", "24m", "54m", "mcs0", "mcs7", "he-mcs0", "he-mcs7"}
-----------------------------------------------------------------------------
(* The host.                                                               *)

\* Scenario::validate; country and key are the classes it tells apart.
validate(s) ==
    LET r == s.radio  t == s.traffic IN
    /\ s.duration > 0 /\ s.duration <= DayUs * MicroNs
    /\ t.packet_size \in HeaderSize..MaxPacket
    /\ t.streams \in 1..MaxStreams
    /\ t.tx_window \in 1..MaxTxWindow
    /\ r.channel \in IF r.band = "5ghz" THEN Channels5 ELSE 1..14
    /\ r.country = "upper2"
    /\ r.tx_power_dbm >= 2 * 8 /\ r.tx_power_dbm <= 20 * 8 /\ r.tx_power_dbm % 2 = 0
    /\ r.encryption => r.key = "hex32"
    /\ r.phy_rate \in PhyRates \ IF r.band = "5ghz" THEN {"1m"} ELSE {}
    /\ CASE t.mode = "saturation" -> TRUE
         [] t.mode = "latency-under-load" ->
              /\ t.probe_rate > 0 /\ t.background_rate > 0
              /\ t.background_packet_size \in HeaderSize..MaxPacket
         [] OTHER -> t.packet_rate_per_stream > 0

Initiates(mode) == mode \in {"ping", "latency-under-load"}

\* The body of the configure request, for node A or B.
Body(s, site, run) ==
    [run_id |-> run, peer_mac |-> "mac", radio |-> s.radio, traffic |-> s.traffic,
     duration_us |-> s.duration \div MicroNs,
     role |-> IF Initiates(s.traffic.mode)
              THEN IF site = "A" THEN "ping_initiator" ELSE "echo_responder"
              ELSE IF site = "A" THEN "generator" ELSE "sink"]
-----------------------------------------------------------------------------
(* The node.                                                               *)

Has(obj, name) == name \in DOMAIN obj

\* number_item, string_item, bool_item: a missing field has its fallback.
Item(obj, name, fallback) == IF Has(obj, name) THEN obj[name] ELSE fallback

integer_in_range(v, lo, hi) == v \in lo..hi

\* Texts are of two kinds: what the parser takes, and anything else.
parse_mac(text) == text = "mac"
parse_key(text) == text = "hex32"

\* Mutant: the last channel of the 5 GHz list forgotten.
Mut_ChannelForgotten(band, channel) ==
    IF band = "5ghz" THEN channel \in Channels5 \ {165} ELSE channel \in 1..14

channel_valid(band, channel) ==
    IF band = "5ghz" THEN channel \in Channels5 ELSE channel \in 1..14

phy_valid(phy, band) == phy \in PhyRates /\ ~(band = "5ghz" /\ phy = "1m")

ParseRun(l) ==
    /\ Has(l, "radio") /\ Has(l, "traffic")
    /\ integer_in_range(Item(l, "run_id", -1), 1, MaxUInt32)
    /\ integer_in_range(Item(l, "duration_us", -1), 1, DayUs)
    /\ parse_mac(Item(l, "peer_mac", ""))
    /\ Item(l, "role", "") \in {"generator", "sink", "ping_initiator", "echo_responder"}

ParseRadio(r) ==
    LET power == Item(r, "tx_power_dbm", -8) IN
    /\ Item(r, "band", "") \in {"2.4ghz", "5ghz"}
    /\ Item(r, "country", "") = "upper2"
    /\ integer_in_range(Item(r, "channel", -1), 1, 255)
    /\ power >= 2 * 8 /\ power <= 20 * 8 /\ power % 2 = 0
    /\ channel_valid(r.band, r.channel) /\ phy_valid(Item(r, "phy_rate", ""), r.band)
    /\ Item(r, "encryption", FALSE) => parse_key(Item(r, "key", ""))

\* The numeric fields with their fallbacks.
Numbers(t) ==
    [packet_size |-> Item(t, "packet_size", -1),
     streams |-> Item(t, "streams", 1),
     tx_window |-> Item(t, "tx_window", 1),
     packet_rate_per_stream |-> Item(t, "packet_rate_per_stream", 0),
     probe_rate |-> Item(t, "probe_rate", 0),
     background_packet_size |-> Item(t, "background_packet_size", 0),
     background_rate |-> Item(t, "background_rate", 0)]

\* Mutant: the fallback of a rate passes where a rate is needed.
Mut_RateUnchecked(mode, n) ==
    mode = "latency-under-load" =>
        /\ n.probe_rate # 0 /\ n.background_rate # 0
        /\ n.background_packet_size >= HeaderSize

\* The checks behind the assignments to cfg.
RatesPresent(mode, n) ==
    /\ mode \notin {"saturation", "latency-under-load"} => n.packet_rate_per_stream # 0
    /\ mode = "latency-under-load" =>
        /\ n.probe_rate # 0 /\ n.background_rate # 0
        /\ n.background_packet_size >= HeaderSize

ParseTraffic(t) ==
    LET n == Numbers(t)  mode == Item(t, "mode", "") IN
    /\ mode \in Modes
    /\ integer_in_range(n.packet_size, HeaderSize, MaxPacket)
    /\ integer_in_range(n.streams, 1, MaxStreams)
    /\ integer_in_range(n.tx_window, 1, MaxTxWindow)
    /\ integer_in_range(n.background_packet_size, 0, MaxPacket)
    /\ \A rate \in {n.packet_rate_per_stream, n.probe_rate, n.background_rate} :
          integer_in_range(rate, 0, MaxUInt32)
    /\ RatesPresent(mode, n)

\* control_run reads lines of up to 2047 bytes.  All texts of a configure line
\* that is accepted are short, but for the key of a radio without encryption,
\* whose length nobody checks: the class "long" takes the line over the limit.
FitsLine(l) == Has(l, "radio") => Item(l.radio, "key", "") # "long"

Accepts(l) == ParseRun(l) /\ ParseRadio(l.radio) /\ ParseTraffic(l.traffic)

Cfg(l) ==
    [run_id |-> l.run_id, role |-> l.role, duration_us |-> l.duration_us,
     band |-> l.radio.band, phy_rate |-> l.radio.phy_rate,
     mode |-> l.traffic.mode, numbers |-> Numbers(l.traffic)]

-----------------------------------------------------------------------------
(* What radio_configure and the generator make of a configuration.         *)

\* make_rate_config: the PHY mode of the rate, "none" where it returns false.
make_rate_config(cfg) ==
    CASE cfg.phy_rate = "1m" /\ cfg.band = "2.4ghz" -> "11B"
      [] cfg.phy_rate \in {"6m", "24m", "54m"} -> IF cfg.band = "5ghz" THEN "11A" ELSE "11G"
      [] cfg.phy_rate \in {"mcs0", "mcs7"} -> "HT20"
      [] cfg.phy_rate \in {"he-mcs0", "he-mcs7"} -> "HE20"
      [] OTHER -> "none"

BackgroundStreams(n) == IF n.streams > 15 THEN 15 ELSE n.streams

Rate(cfg) ==
    IF cfg.mode = "saturation" THEN 0
    ELSE cfg.numbers.packet_rate_per_stream * cfg.numbers.streams

\* The frames generator_task sends, and what it divides by.
Frames(cfg) ==
    LET n == cfg.numbers IN
    IF cfg.mode = "latency-under-load"
    THEN {[type |-> "ping", stream |-> MaxStreams - 1, size |-> n.packet_size]} \cup
         {[type |-> "stream", stream |-> i, size |-> n.background_packet_size] :
            i \in 0..BackgroundStreams(n) - 1}
    ELSE {[type |-> IF cfg.mode = "ping" THEN "ping" ELSE "stream", stream |-> i,
           size |-> n.packet_size] : i \in 0..n.streams - 1}

Divisors(cfg) ==
    IF cfg.mode = "latency-under-load"
    THEN {cfg.numbers.probe_rate, cfg.numbers.background_rate, BackgroundStreams(cfg.numbers)}
    ELSE {cfg.numbers.streams}
-----------------------------------------------------------------------------
ScenarioInit ==
    /\ scenario = None /\ run_id = 0 /\ stage = "file"
    /\ g_config = [site \in {"A", "B"} |-> None]

Load(s) ==
    /\ stage = "file"
    /\ scenario' = s /\ run_id' \in RunIds
    /\ stage' = IF validate(s) THEN "loaded" ELSE "host_refused"
    /\ UNCHANGED g_config

\* One configure request: A's first, B's only when A's succeeded.
\* parse_config assigns g_config once, behind every check.  A line that does
\* not fit is read in pieces, none of which is a command: the node answers
\* them with invalid_json and the id 0, and the host waits in vain.
Configure(site) ==
    LET l == Body(scenario, site, run_id) IN
    /\ stage = IF site = "A" THEN "loaded" ELSE "A"
    /\ \/ FitsLine(l) /\ Accepts(l) /\ g_config' = [g_config EXCEPT ![site] = Cfg(l)] /\ stage' = site
       \/ FitsLine(l) /\ ~Accepts(l) /\ stage' = "invalid_config" /\ UNCHANGED g_config
       \/ ~FitsLine(l) /\ stage' = "invalid_json" /\ UNCHANGED g_config
    /\ UNCHANGED <<scenario, run_id>>

\* Another program writes a configure line, with fields left out perhaps.
Type(site, l) ==
    /\ stage = "file" /\ stage' = "typed"
    /\ g_config' = IF FitsLine(l) /\ Accepts(l) THEN [g_config EXCEPT ![site] = Cfg(l)] ELSE g_config
    /\ UNCHANGED <<scenario, run_id>>

ScenarioNext ==
    \/ \E s \in Scenarios : Load(s)
    \/ \E site \in {"A", "B"} : Configure(site) \/ \E l \in Typed : Type(site, l)

ScenarioSpec == ScenarioInit /\ [][ScenarioNext]_scenarioVars
-----------------------------------------------------------------------------
\* The scenarios that pass Scenario::validate and that the node does not take
\* are these and no others: parse_config refuses one that is shorter than a
\* microsecond, has a background size too large for the node in a mode that
\* does not use it, or is numbered 0 by unique_run_id; and control_run cannot
\* read one whose unused key is too long for its line.  Otherwise the two sets
\* of rules agree.
RulesAgree ==
    stage \in {"A", "B", "invalid_config", "invalid_json"} =>
        /\ (stage = "invalid_json") <=> (scenario.radio.key = "long")
        /\ (stage = "invalid_config") <=>
              /\ scenario.radio.key # "long"
              /\ \/ scenario.duration < MicroNs
                 \/ scenario.traffic.background_packet_size > MaxPacket
                 \/ run_id = 0

\* Whatever line configured it, a node can do what its configuration says:
\* make_rate_config knows the rate on the band, generator_task divides by no
\* zero and is unpaced in saturation only, bench_encode takes every size, every
\* stream has a place in the metrics, and the probes' stream is theirs alone.
ConfigUsable ==
    \A site \in {"A", "B"} : LET cfg == g_config[site] IN cfg # None =>
        /\ make_rate_config(cfg) # "none"
        /\ 0 \notin Divisors(cfg)
        /\ cfg.mode \in {"saturation", "latency-under-load"} \/ Rate(cfg) > 0
        /\ \A f \in Frames(cfg) : f.size \in HeaderSize..MaxPacket /\ f.stream < MaxStreams
        /\ \A f, g \in Frames(cfg) : f.stream = g.stream => f.type = g.type

\* The two nodes of a run fit: B never refuses what A took, pings have an
\* echo, and both count for the same run and time (runner.rs, parse_config).
PairFits ==
    /\ stage \in {"invalid_config", "invalid_json"} => g_config["A"] = None
    /\ stage = "B" =>
        LET a == g_config["A"]  b == g_config["B"] IN
        /\ <<a.role, b.role>> \in {<<"generator", "sink">>, <<"ping_initiator", "echo_responder">>}
        /\ (\E f \in Frames(a) : f.type = "ping") => b.role = "echo_responder"
        /\ [a EXCEPT !.role = b.role] = b

\* "duration must be 1us..24h": so is every scenario that validate let through
\* and a node was asked to run.
DurationInRange ==
    stage \in {"A", "B", "invalid_config"} =>
        scenario.duration \in MicroNs..(DayUs * MicroNs)
=============================================================================
