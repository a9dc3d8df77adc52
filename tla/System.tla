------------------------------- MODULE System -------------------------------
(***************************************************************************)
(* The benchmark as a whole: the host program (device.rs, runner.rs), two  *)
(* nodes and a serial line to each.  Every node is what NodeProtocol says  *)
(* a client sees of it; Node implements that.                              *)
(*                                                                         *)
(* A session is one invocation of the host.  Its request ids start at 1    *)
(* again whenever it opens a port, so that an answer the last session did  *)
(* not wait for meets the next one.  Lines get lost when a read times out  *)
(* in the middle of one, nodes reboot, and the operator may interrupt the  *)
(* host at any point.                                                      *)
(***************************************************************************)
EXTENDS NodeCommands, Sequences

CONSTANTS
    MaxSessions,    \* bound: sessions; the run id of a session is its number
    MaxTorn,        \* bound: answers torn by a read timeout
    MaxReboots,     \* bound: reboots of a node
    MaxAborts       \* bound: sessions interrupted or ended by an I/O error

Sites == {"A", "B"}

ASSUME SystemAssumption ==
    /\ MaxSessions \in Nat /\ MaxTorn \in Nat /\ MaxReboots \in Nat /\ MaxAborts \in Nat

VARIABLES
    node,       \* what a client sees of each node
    boot,       \* boot_id, new with every reboot
    reading,    \* the request a node executes
    to_node,    \* serial input of each node
    to_host,    \* its output, as far as the host has not read it
    session,    \* number of sessions begun
    step,       \* where the current one is in Script, 0 when there is none
    waiting,    \* its request is written, the answer not yet read
    next_id,    \* Device.next_id
    found,      \* ports that discovery may use
    opened,     \* Device.info.boot_id
    checked,    \* boot_id of the last info
    results,    \* the result answers
    outcome,    \* of the last session that ended
    torn, aborts,
    stray       \* history: see Stray

nodeVars == <<node, boot, reading, to_node>>
hostVars == <<session, step, waiting, next_id, found, opened, checked, results, outcome, aborts>>
systemVars == <<nodeVars, to_host, hostVars, torn>>
vars == <<systemVars, stray>>

\* session is history: which session a line belongs to.
Request == [id : Nat, cmd : {"info", "configure", "arm", "start", "stop", "result"},
            run_id : Nat, role : {"ROLE_NONE", "ROLE_GENERATOR", "ROLE_SINK"}, session : Nat]
NoRequest == [id |-> 0, cmd |-> "info", run_id |-> 0, role |-> "ROLE_NONE", session |-> 0]
NoAnswer == [id |-> 0, cmd |-> "info", ok |-> FALSE, run_id |-> 0, boot |-> 0, session |-> 0]

Init ==
    /\ node \in [Sites -> BootedNodes]
    /\ boot = [s \in Sites |-> 1]
    /\ reading = [s \in Sites |-> NoRequest]
    /\ to_node = [s \in Sites |-> <<>>] /\ to_host = [s \in Sites |-> <<>>]
    /\ session = 0 /\ step = 0 /\ waiting = FALSE
    /\ next_id = [s \in Sites |-> 1]
    /\ found = {}
    /\ opened = [s \in Sites |-> 0] /\ checked = [s \in Sites |-> 0]
    /\ results = [s \in Sites |-> NoAnswer]
    /\ outcome = "none" /\ torn = 0 /\ aborts = 0 /\ stray = FALSE
-----------------------------------------------------------------------------
(* The nodes.                                                              *)

\* send_json: the answer to the request r, given by node n after boot b.
Reply(r, n, b) ==
    [id |-> r.id, cmd |-> r.cmd, ok |-> n.reply = "ok", run_id |-> n.run_id, boot |-> b,
     session |-> r.session]

\* Node s becomes n; if that ends the request r, the answer is written.
NodeBecomes(s, n, r) ==
    /\ node' = [node EXCEPT ![s] = n]
    /\ to_host' = IF n.busy = "none" THEN [to_host EXCEPT ![s] = Append(@, Reply(r, n, boot[s]))]
                  ELSE to_host

NodeBoot(s) ==
    /\ node[s].busy = "boot"
    /\ node' = [node EXCEPT ![s] = Up(@)]
    /\ UNCHANGED <<boot, reading, to_node, to_host, hostVars, torn>>

NodeRead(s) ==
    /\ node[s].busy = "none" /\ to_node[s] # <<>>
    /\ \E n \in Dispatched(node[s], Head(to_node[s])) : NodeBecomes(s, n, Head(to_node[s]))
    /\ reading' = [reading EXCEPT ![s] = Head(to_node[s])]
    /\ to_node' = [to_node EXCEPT ![s] = Tail(@)]
    /\ UNCHANGED <<boot, hostVars, torn>>

NodeComplete(s) ==
    /\ \E n \in Completed(node[s]) : NodeBecomes(s, n, reading[s])
    /\ UNCHANGED <<boot, reading, to_node, hostVars, torn>>

NodeGenerate(s) ==
    /\ \E n \in GeneratorSteps(node[s]) : node' = [node EXCEPT ![s] = n]
    /\ UNCHANGED <<boot, reading, to_node, to_host, hostVars, torn>>

\* Power, watchdog or panic: the lines not yet read are gone.
Reboot(s) ==
    /\ boot[s] <= MaxReboots
    /\ boot' = [boot EXCEPT ![s] = @ + 1]
    /\ \E n \in BootedNodes : node' = [node EXCEPT ![s] = n]
    /\ to_node' = [to_node EXCEPT ![s] = <<>>]
    /\ UNCHANGED <<reading, to_host, hostVars, torn>>
-----------------------------------------------------------------------------
(* The host.                                                               *)

\* Mutant: the generator is started before its receiver is armed.
Mut_ArmLate ==
    << <<"A", "probe">>, <<"B", "probe">>, <<"A", "open">>, <<"B", "open">>,
       <<"A", "configure">>, <<"B", "configure">>, <<"A", "arm">>, <<"A", "start">>,
       <<"B", "arm">>, <<"B", "start">>, <<"A", "stop">>, <<"B", "stop">>,
       <<"A", "result">>, <<"B", "result">>, <<"A", "check">>, <<"B", "check">> >>

\* discover, the two opens and the requests of runner::run, in their order.
Script ==
    << <<"A", "probe">>, <<"B", "probe">>, <<"A", "open">>, <<"B", "open">>,
       <<"A", "configure">>, <<"B", "configure">>, <<"B", "arm">>, <<"A", "arm">>,
       <<"B", "start">>, <<"A", "start">>, <<"A", "stop">>, <<"B", "stop">>,
       <<"A", "result">>, <<"B", "result">>, <<"A", "check">>, <<"B", "check">> >>

FirstOpen == 3
InSession == step # 0
Requesting == step \in 1..Len(Script)
Site == Script[step][1]
Call == Script[step][2]
Opens == Call \in {"probe", "open"}

\* With ports on the command line there is nothing to discover.
Begin ==
    /\ ~InSession /\ session < MaxSessions
    /\ session' = session + 1
    /\ \/ step' = 1 /\ found' = {}
       \/ step' = FirstOpen /\ found' = Sites
    /\ results' = [s \in Sites |-> NoAnswer]
    /\ UNCHANGED <<nodeVars, to_host, waiting, next_id, opened, checked, outcome, aborts, torn>>

End(how) ==
    /\ step' = 0 /\ waiting' = FALSE /\ outcome' = how
    /\ UNCHANGED <<nodeVars, session, next_id, found, opened, checked, results, aborts>>

\* The line request_with_timeout writes: info for a probe, an open and the
\* last check, else the command with the run id, configure with a role.
Line(id) ==
    LET info == Opens \/ Call = "check"
        role == IF Site = "A" THEN "ROLE_GENERATOR" ELSE "ROLE_SINK"
    IN  [id |-> id, cmd |-> IF info THEN "info" ELSE Call,
         run_id |-> IF info THEN 0 ELSE session,
         role |-> IF Call = "configure" THEN role ELSE "ROLE_NONE", session |-> session]

\* Device::drain, when a port is opened.
Drained == IF Opens THEN [to_host EXCEPT ![Site] = <<>>] ELSE to_host

\* request_with_timeout up to the write; opening a port starts the ids again.
Send ==
    /\ Requesting /\ ~waiting
    /\ step = FirstOpen => found = Sites
    /\ LET id == IF Opens THEN 1 ELSE next_id[Site]
       IN  /\ next_id' = [next_id EXCEPT ![Site] = id + 1]
           /\ to_node' = [to_node EXCEPT ![Site] = Append(@, Line(id))]
    /\ to_host' = Drained
    /\ waiting' = TRUE
    /\ UNCHANGED <<node, boot, reading, session, step, found, opened, checked, results,
                   outcome, aborts, torn>>

\* Discovery did not find exactly two nodes.
NotTwo ==
    /\ step = FirstOpen /\ found # Sites
    /\ End("failed") /\ UNCHANGED <<to_host, torn>>

\* An error of a probe means no node, one of stop is ignored, any other
\* ends the session.
Failed ==
    \/ /\ Call \in {"probe", "stop"}
       /\ step' = step + 1 /\ waiting' = FALSE
       /\ UNCHANGED <<nodeVars, session, next_id, found, opened, checked, results, outcome, aborts>>
    \/ Call \notin {"probe", "stop"} /\ End("failed")

\* What the caller takes from the answer a.
Accepted(a) ==
    /\ step' = step + 1 /\ waiting' = FALSE
    /\ found'   = IF Call = "probe" THEN found \cup {Site} ELSE found
    /\ opened'  = IF Call = "open" THEN [opened EXCEPT ![Site] = a.boot] ELSE opened
    /\ checked' = IF Call = "check" THEN [checked EXCEPT ![Site] = a.boot] ELSE checked
    /\ results' = IF Call = "result" THEN [results EXCEPT ![Site] = a] ELSE results
    /\ UNCHANGED <<nodeVars, session, next_id, outcome, aborts>>

\* Mutant: any answer will do, whatever its id.
Mut_AnyId(a) == TRUE

Matches(a) == a.id = next_id[Site] - 1

\* The loop of request_with_timeout.
Receive ==
    /\ Requesting /\ waiting /\ to_host[Site] # <<>>
    /\ to_host' = [to_host EXCEPT ![Site] = Tail(@)]
    /\ LET a == Head(to_host[Site])
       IN  \/ ~Matches(a) /\ UNCHANGED <<nodeVars, hostVars>>
           \/ Matches(a) /\ ~a.ok /\ Failed
           \/ Matches(a) /\ a.ok /\ Accepted(a)
    /\ UNCHANGED torn

\* A read that times out within a line discards what it has read of it, and
\* the rest parses as nothing.
TornLine ==
    /\ Requesting /\ waiting /\ to_host[Site] # <<>>
    /\ torn < MaxTorn /\ torn' = torn + 1
    /\ to_host' = [to_host EXCEPT ![Site] = Tail(@)]
    /\ UNCHANGED <<nodeVars, hostVars>>

\* Mutant: a request waits for its answer without a deadline.
Mut_NoTimeout == Requesting /\ FALSE /\ UNCHANGED systemVars

\* No answer within the timeout: the node is in one of its waits, booting,
\* or it has nothing left to say.  A node free to read the next line does so
\* within milliseconds.
Timeout ==
    /\ Requesting /\ waiting /\ to_host[Site] = <<>>
    /\ node[Site].busy # "none" \/ to_node[Site] = <<>>
    /\ Failed
    /\ UNCHANGED <<to_host, torn>>

\* Mutant: the boot ids are not compared.
Mut_SaveUnchecked ==
    /\ step = Len(Script) + 1
    /\ End("saved")
    /\ UNCHANGED <<to_host, torn>>

Save ==
    /\ step = Len(Script) + 1
    /\ End(IF opened = checked THEN "saved" ELSE "failed")
    /\ UNCHANGED <<to_host, torn>>

\* The operator interrupts the host, or the port fails.
Abort ==
    /\ InSession /\ aborts < MaxAborts
    /\ aborts' = aborts + 1
    /\ step' = 0 /\ waiting' = FALSE /\ outcome' = "failed"
    /\ UNCHANGED <<nodeVars, to_host, session, next_id, found, opened, checked, results, torn>>

HostStep == Send \/ NotTwo \/ Receive \/ Timeout \/ Save
NodeStep(s) == NodeBoot(s) \/ NodeRead(s) \/ NodeComplete(s)

SystemStep ==
    \/ Begin \/ HostStep \/ TornLine \/ Abort
    \/ \E s \in Sites : NodeStep(s) \/ NodeGenerate(s) \/ Reboot(s)

\* Node s may send frames with this session's run id: send_one puts into them
\* the run id of the configuration in force, whatever run the task is of.
Sending(s) == node[s].generator = "sending" /\ node[s].run_id = session

\* The task was created for an earlier run and outlived it.
Leftover(s) == node[s].gen_run # node[s].run_id

\* Node s counts frames of this session's run; what it counts while it is
\* being configured it forgets at the end.
Measuring(s) ==
    /\ node[s].run_id = session /\ node[s].state \in {"ARMED", "RUNNING", "FINISHED"}
    /\ node[s].busy # "configure"

\* Frames that are not of this session's run may enter its measurement.
Stray == Sending("A") /\ Leftover("A") /\ Measuring("B")

\* stray: that was so at some time of the current session, or the last one.
Remember == stray' = IF InSession THEN stray \/ Stray ELSE stray /\ ~InSession'

Next == SystemStep /\ Remember

Spec == Init /\ [][Next]_vars

\* The host runs, nodes read their lines, and each of their waits ends: a
\* drain and radio_configure have timeouts.
FairSpec == Spec /\ WF_systemVars(HostStep) /\ \A s \in Sites : WF_systemVars(NodeStep(s))
-----------------------------------------------------------------------------
\* The host has both devices open and neither has rebooted since.
Undisturbed == step > FirstOpen + 1 /\ opened = boot

\* As long as node A sends frames of this session's run, node B measures that
\* run: no frame is lost to the order in which the host configures, arms,
\* starts and stops the two, whichever of its requests failed or timed out
\* (runner.rs run, receiver.c measurement_state).  A generator left behind by
\* an earlier session may send under this run id before anybody measures.
TrafficMeasured ==
    Undisturbed /\ Sending("A") => Leftover("A") \/ Measuring("B")

\* No such frame gets into what a session saves: when a generator that an
\* earlier session left on A could still send after B was armed, then arm or
\* start of A is refused, because the task has written FINISHED or is still
\* there (runner.rs run; generator.c generator_start and the last write of
\* generator_task).
SavedTrafficOwn == outcome = "saved" /\ ~InSession => ~stray

\* Node B makes its report only when node A sends nothing more, also after a
\* stop of A that failed and was ignored (runner.rs, the order of the result
\* requests; control.c, generator_wait_stopped in result).
ReportAfterTraffic ==
    Undisturbed /\ node["B"].busy = "result" /\ node["B"].run_id = session => ~Sending("A")

\* A saved session holds one result of each node, of this session's run and
\* of the boot whose info the session recorded, although requests carry the
\* same ids in every session and late answers stay in the line (device.rs
\* next_id, drain; runner.rs boot_id).
SavedResultsOwn ==
    outcome = "saved" /\ ~InSession =>
        \A s \in Sites : /\ results[s].session = session /\ results[s].run_id = session
                        /\ results[s].boot = opened[s]

\* From arm on the host takes no answer for that to its request but this very
\* one, not a late one of its own session nor one to an earlier session's
\* command (device.rs request_with_timeout).  An old info or configure it may
\* take, when sessions that were given up follow each other closely; the
\* answer to arm then tells whether the node has executed the configure of
\* this one.
OwnAnswers ==
    [][\A s \in Sites :
          (Requesting /\ Site = s /\ step' = step + 1 /\ to_host[s] # <<>>
             /\ Call \in {"arm", "start", "stop", "result"})
          => Head(to_host[s]).session = session /\ Head(to_host[s]).cmd = Call]_vars

\* Every session comes to an end, saved or failed, whatever is lost.
SessionEnds == InSession ~> ~InSession
=============================================================================
