---------------------------- MODULE NodeCommands ----------------------------
(***************************************************************************)
(* control.c dispatch as a client sees it: which commands a node accepts   *)
(* in which state, what they answer, and which of them take their time.    *)
(* A node is a record, and an operation gives the set of records it may    *)
(* leave: Node implements that, System puts two of them behind serial      *)
(* lines.                                                                  *)
(***************************************************************************)
EXTENDS Naturals

\* busy is the command being executed, "boot" before control_run, or "none".
\* generator tells whether the generator task lives and, if so, whether it may
\* still send or has only to end; gen_run is the run it was created for.
NewNode(state) ==
    [state |-> state, run_id |-> 0, role |-> "ROLE_NONE", generator |-> "none", gen_run |-> 0,
     busy |-> "boot", reply |-> "none"]

\* app_main enters control_run in ERROR when radio_init has failed.
BootedNodes == {NewNode("BOOT"), NewNode("ERROR")}

Up(n) == [n EXCEPT !.busy = "none", !.state = IF @ = "BOOT" THEN "IDLE" ELSE @]

Answer(n, code) == [n EXCEPT !.busy = "none", !.reply = code]
Continues(n, command) == [n EXCEPT !.busy = command, !.reply = "none"]

\* A body that parse_config refuses has no role.  An accepted one replaces
\* g_config before radio_configure can fail.
ConfigureLine(n, c) ==
    CASE n.state \in {"RUNNING", "ARMED"} -> {Answer(n, "invalid_state")}
      [] n.state \notin {"RUNNING", "ARMED"} /\ c.role = "ROLE_NONE" -> {Answer(n, "invalid_config")}
      [] OTHER -> {Continues([n EXCEPT !.run_id = c.run_id, !.role = c.role], "configure")}

ArmLine(n) ==
    {IF n.state = "CONFIGURED" THEN Answer([n EXCEPT !.state = "ARMED"], "ok")
     ELSE Answer(n, "invalid_state")}

\* Mutant: generator_start does not look for an old task.
Mut_StartAnyway(n) ==
    LET failed  == Answer([n EXCEPT !.state = "ERROR"], "generator_start")
        sends   == Answer([n EXCEPT !.state = "RUNNING", !.generator = "sending", !.gen_run = n.run_id], "ok")
        listens == Answer([n EXCEPT !.state = "RUNNING"], "ok")
    IN  CASE n.state # "ARMED" -> {Answer(n, "invalid_state")}
          [] n.state = "ARMED" /\ n.role = "ROLE_GENERATOR" -> {failed, sends}
          [] OTHER -> {listens}

\* generator_start: refused while an old task lives; xTaskCreate may fail.
StartLine(n) ==
    LET failed  == Answer([n EXCEPT !.state = "ERROR"], "generator_start")
        sends   == Answer([n EXCEPT !.state = "RUNNING", !.generator = "sending", !.gen_run = n.run_id], "ok")
        listens == Answer([n EXCEPT !.state = "RUNNING"], "ok")
    IN  CASE n.state # "ARMED" -> {Answer(n, "invalid_state")}
          [] n.state = "ARMED" /\ n.generator # "none" -> {failed}
          [] n.state = "ARMED" /\ n.generator = "none" /\ n.role = "ROLE_GENERATOR" -> {failed, sends}
          [] OTHER -> {listens}

StopLine(n) ==
    {Continues([n EXCEPT !.state = IF @ \in {"RUNNING", "ARMED"} THEN "FINISHED" ELSE @], "stop")}

ResultLine(n) ==
    {IF n.state = "FINISHED" THEN Continues(n, "result") ELSE Answer(n, "invalid_state")}

\* A run_id of 0, or none at all, passes.
Mismatch(n, c) == c.run_id # 0 /\ c.run_id # n.run_id

\* dispatch, up to the point where a command waits for other tasks.
Dispatched(n, c) ==
    CASE c.cmd \in {"info", "status"} -> {Answer(n, "ok")}
      [] c.cmd = "bad_request" -> {Answer(n, "bad_request")}
      [] c.cmd = "configure" -> ConfigureLine(n, c)
      [] c.cmd \in {"arm", "start", "stop", "result"} /\ Mismatch(n, c) -> {Answer(n, "run_id_mismatch")}
      [] c.cmd = "arm" /\ ~Mismatch(n, c) -> ArmLine(n)
      [] c.cmd = "start" /\ ~Mismatch(n, c) -> StartLine(n)
      [] c.cmd = "stop" /\ ~Mismatch(n, c) -> StopLine(n)
      [] c.cmd = "result" /\ ~Mismatch(n, c) -> ResultLine(n)

\* Mutant: a drain is taken for done although the generator still runs.
Mut_DrainUnawares(n) ==
    CASE n.busy = "configure" ->
            {Answer([n EXCEPT !.state = "CONFIGURED"], "ok"),
             Answer([n EXCEPT !.state = "ERROR"], "radio_config")}
      [] n.busy \in {"stop", "result"} -> {Answer(n, "ok"), Answer(n, "drain_timeout")}
      [] OTHER -> {}

\* The end of a command that waited: radio_configure succeeds or fails; a
\* drain times out, or the generator is gone and the fences are passed.
Completed(n) ==
    CASE n.busy = "configure" ->
            {Answer([n EXCEPT !.state = "CONFIGURED"], "ok"),
             Answer([n EXCEPT !.state = "ERROR"], "radio_config")}
      [] n.busy \in {"stop", "result"} /\ n.generator # "none" -> {Answer(n, "drain_timeout")}
      [] n.busy \in {"stop", "result"} /\ n.generator = "none" ->
            {Answer(n, "ok"), Answer(n, "drain_timeout")}
      [] OTHER -> {}

\* The generator task, when its time is up or its run over, writes FINISHED
\* over whatever state it finds: CONFIGURED and ARMED if the node has been
\* configured meanwhile, ERROR if that came between its test and its write.
\* An ERROR it sees it leaves.  Then it ends, in whatever state by then.
GeneratorSteps(n) ==
    CASE n.generator = "sending" ->
            {[n EXCEPT !.generator = "ending", !.state = "FINISHED"]}
            \cup (IF n.state = "ERROR" THEN {[n EXCEPT !.generator = "ending"]} ELSE {})
      [] n.generator = "ending" -> {[n EXCEPT !.generator = "none"]}
      [] OTHER -> {}
=============================================================================
