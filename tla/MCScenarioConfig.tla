-------------------------- MODULE MCScenarioConfig --------------------------
(***************************************************************************)
(* Scenario files and configure lines at and around every limit: one valid *)
(* file per mode, and each with up to three fields set to other values.    *)
(***************************************************************************)
EXTENDS ScenarioConfig, FiniteSets

BaseRadio ==
    [band |-> "2.4ghz", country |-> "upper2", channel |-> 6, phy_rate |-> "mcs0",
     tx_power_dbm |-> 160, encryption |-> FALSE, key |-> "none"]

BaseTraffic ==
    [mode |-> "stream", streams |-> 2, tx_window |-> 1, packet_size |-> 64,
     packet_rate_per_stream |-> 10, probe_rate |-> 5, background_packet_size |-> 100,
     background_rate |-> 5]

RadioValues ==
    [band |-> {"2.4ghz", "5ghz"}, country |-> {"upper2", "other"},
     channel |-> {0, 1, 14, 15, 36, 165, 166}, phy_rate |-> {"1m", "54m", "he-mcs7", "11m"},
     tx_power_dbm |-> {14, 16, 17, 160, 162}, encryption |-> BOOLEAN, key |-> {"hex32", "other", "long"}]

TrafficValues ==
    [mode |-> {"ping", "stream", "multi-stream", "saturation", "latency-under-load"},
     streams |-> {0, 1, 15, 16, 17}, tx_window |-> {0, 32, 33}, packet_size |-> {27, 28, 250, 251},
     packet_rate_per_stream |-> {0, 1}, probe_rate |-> {0, 1},
     background_packet_size |-> {0, 27, 28, 250, 251}, background_rate |-> {0, 1}]

\* rec with up to three of its fields set to other values.
Varied(rec, values) ==
    LET one(rs) == UNION {{[r EXCEPT ![f] = v] : r \in rs, v \in values[f]} : f \in DOMAIN values}
    IN  one(one(one({rec})))

\* The optional fields left out, as a client may.
Without(rec, fields) == [f \in DOMAIN rec \ fields |-> rec[f]]

MCScenarios ==
    [duration : {8}, radio : Varied(BaseRadio, RadioValues), traffic : {BaseTraffic}] \cup
    [duration : {0, 1, 4, 16, 17}, radio : {BaseRadio}, traffic : Varied(BaseTraffic, TrafficValues)]

MCTyped ==
    {[run_id |-> run, peer_mac |-> mac, role |-> "generator", duration_us |-> us,
      radio |-> BaseRadio, traffic |-> [BaseTraffic EXCEPT !.packet_rate_per_stream = rate]] :
        run \in {0, 1, MaxUInt32, MaxUInt32 + 1}, mac \in {"mac", "other"},
        us \in {0, DayUs, DayUs + 1}, rate \in {1, MaxUInt32, MaxUInt32 + 1}} \cup
    {[run_id |-> 1, peer_mac |-> "mac", role |-> role, duration_us |-> 2,
      radio |-> BaseRadio, traffic |-> Without([BaseTraffic EXCEPT !.mode = m], fields)] :
        role \in {"generator", "sink", "ping_initiator"}, m \in TrafficValues.mode,
        fields \in SUBSET DOMAIN BaseTraffic} \cup
    {[run_id |-> 1, peer_mac |-> "mac", role |-> "generator", duration_us |-> 2,
      radio |-> Without(BaseRadio, fields), traffic |-> BaseTraffic] :
        fields \in SUBSET DOMAIN BaseRadio} \cup
    {Without([run_id |-> 1, peer_mac |-> "mac", role |-> "generator", duration_us |-> 2,
              radio |-> BaseRadio, traffic |-> BaseTraffic], {f}) :
        f \in {"run_id", "peer_mac", "role", "duration_us", "radio", "traffic"}}
=============================================================================
