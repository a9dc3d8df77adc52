----------------------------- MODULE MCTraffic -----------------------------
(* Configurations for Traffic: every mode, with rates that do not divide   *)
(* the second.                                                             *)
EXTENDS Traffic

Run(mode, streams, rate, probe_rate, duration) ==
    [mode |-> mode, streams |-> streams, rate |-> rate, probe_rate |-> probe_rate,
     duration |-> duration]

\* Pings on more than one stream, which scenario and firmware accept.
PingStreamsTwo == {Run("ping", 2, 2, 0, 4)}

\* Second is 10: periods of 10/3, 10/4 and, under load, 10/3 against 10/4.
AllModes ==
    {Run("ping", 1, 3, 0, 5), Run("stream", 1, 4, 0, 7), Run("stream", 2, 2, 0, 6),
     Run("saturation", 2, 0, 0, 1), Run("latency", 1, 4, 3, 6), Run("latency", 3, 3, 4, 5),
     Run("sink", 1, 0, 0, 4)} \cup PingStreamsTwo
=============================================================================
