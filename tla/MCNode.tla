------------------------------- MODULE MCNode -------------------------------
(* Values for the constants of Node: what the client writes and what the   *)
(* air carries.                                                            *)
EXTENDS Node

Line(c, r) == [cmd |-> c, run_id |-> r, role |-> "ROLE_NONE", tx_window |-> 1]

Configure(runs, role, windows) ==
    [cmd : {"configure"}, run_id : runs, role : {role}, tx_window : windows]

\* Lines without run_id, which every configured run accepts.
RunCommands == {Line(c, 0) : c \in {"arm", "start", "stop", "result"}}

\* A client that measures with a generator, and makes mistakes.
GeneratorCommands ==
    Configure(RunIds, "ROLE_GENERATOR", 1..MaxWindow) \cup RunCommands
    \cup {Line("status", 0), Line("bad_request", 0), Line("configure", 1), Line("arm", 1)}

\* A client that configures an echo responder again and again, or makes it a
\* sink with a smaller window.
EchoCommands == Configure(RunIds, "ROLE_ECHO_RESPONDER", {MaxWindow}) \cup RunCommands
EchoOrSinkCommands == EchoCommands \cup Configure({1}, "ROLE_SINK", {1})

Sent(types) == [type : types, run_id : RunIds]
Pings == Sent({"PACKET_PING"})
AllFrames == Sent({"PACKET_PING", "PACKET_STREAM"}) \cup {NoFrame, TooLong}
Silence == {}
=============================================================================
