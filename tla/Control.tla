------------------------------ MODULE Control ------------------------------
(***************************************************************************)
(* control.c: one line at a time is read from the serial console, executed *)
(* to the end and answered.  The handlers that wait (configure, stop,      *)
(* result) continue in the steps of Radio, Receiver and Generator.         *)
(***************************************************************************)
EXTENDS Generator

\* control_run before its loop.
ControlBoot ==
    /\ ControlTurn /\ ctl_pc = "boot"
    /\ g_state' = IF g_state = "BOOT" THEN "IDLE" ELSE g_state
    /\ ctl_pc' = "fgets"
    /\ UNCHANGED <<g_config, metrics, measured, radioVars, queueVars,
                   cmd, stage, acquired, reply, genVars, excuse>>

\* fgets delivers the line c.  The client need not have waited for the
\* previous answer (the host gives up after COMMAND_TIMEOUT while the node
\* may still be draining): its line may be read at once.
Fgets(c) ==
    /\ ControlTurn /\ ctl_pc = "fgets"
    /\ cmd' = c

Continue(pc) == ctl_pc' = pc /\ reply' = "none"

Unaffected == UNCHANGED <<radioVars, queueVars, stage, acquired>>

\* info and status answer and change nothing; so do malformed requests.
DispatchReadOnly(c) ==
    /\ Fgets(c)
    /\ c.cmd \in {"status", "bad_request"}
    /\ Reply(IF c.cmd = "status" THEN "ok" ELSE "bad_request")
    /\ UNCHANGED <<shared, metrics, measured, genVars, excuse>> /\ Unaffected

ConfigureRefused(c) ==
    /\ Fgets(c) /\ c.cmd = "configure"
    /\ \/ g_state \in {"RUNNING", "ARMED"} /\ Reply("invalid_state")
       \/ g_state \notin {"RUNNING", "ARMED"} /\ c.role = "ROLE_NONE" /\ Reply("invalid_config")
    /\ UNCHANGED <<shared, metrics, measured, genVars, excuse>> /\ Unaffected

\* parse_config: the receiver can run while g_config = cfg is being copied
\* and then sees the new run_id beside the old role.
ConfigureParse(c) ==
    /\ Fgets(c) /\ c.cmd = "configure"
    /\ g_state \notin {"RUNNING", "ARMED"} /\ c.role # "ROLE_NONE"
    /\ g_config' = [g_config EXCEPT !.run_id = c.run_id]
    /\ Continue("parse")
    /\ UNCHANGED <<g_state, metrics, measured, genVars, excuse>> /\ Unaffected

ConfigureCopied ==
    /\ ControlTurn /\ ctl_pc = "parse"
    /\ g_config' = [g_config EXCEPT !.role = cmd.role, !.tx_window = cmd.tx_window]
    /\ ctl_pc' = "idle" /\ stage' = 0
    /\ UNCHANGED <<g_state, metrics, measured, radioVars, queueVars,
                   cmd, acquired, reply, genVars, excuse>>

ConfigureReset ==
    /\ ControlTurn /\ ctl_pc = "cfg_reset"
    /\ metrics_reset
    /\ ctl_pc' = "cfg_done"
    /\ UNCHANGED <<shared, radioVars, queueVars, cmd, stage, acquired, reply, genVars>>

ConfigureDone ==
    /\ ControlTurn /\ ctl_pc = "cfg_done"
    /\ g_state' = "CONFIGURED"
    /\ Reply("ok")
    /\ UNCHANGED <<g_config, metrics, measured, radioVars, queueVars,
                   cmd, stage, acquired, genVars, excuse>>

\* A run_id of 0, or none at all, passes.
RunMatches(c) == c.run_id = 0 \/ c.run_id = g_config.run_id

DispatchMismatch(c) ==
    /\ Fgets(c) /\ c.cmd \in {"arm", "start", "stop", "result"}
    /\ ~RunMatches(c)
    /\ Reply("run_id_mismatch")
    /\ UNCHANGED <<shared, metrics, measured, genVars, excuse>> /\ Unaffected

DispatchArm(c) ==
    /\ Fgets(c) /\ c.cmd = "arm" /\ RunMatches(c)
    /\ \/ g_state # "CONFIGURED" /\ Reply("invalid_state") /\ UNCHANGED <<g_state, metrics, measured, excuse>>
       \/ g_state = "CONFIGURED" /\ metrics_reset /\ g_state' = "ARMED" /\ Reply("ok")
    /\ UNCHANGED <<g_config, genVars>> /\ Unaffected

IsGenerator == g_config.role = "ROLE_GENERATOR"

\* generator_start: refused while an old task lives; xTaskCreate may fail.
GeneratorStartFails ==
    /\ handle \/ IsGenerator
    /\ g_state' = "ERROR" /\ Reply("generator_start")
    /\ UNCHANGED genVars

GeneratorStarts ==
    /\ ~handle
    /\ g_state' = "RUNNING" /\ Reply("ok")
    /\ IF IsGenerator
       THEN gen_pc' = "loop" /\ handle' = TRUE /\ gen_left' = MaxIterations /\ gen_run' = g_config.run_id
       ELSE UNCHANGED genVars

DispatchStart(c) ==
    /\ Fgets(c) /\ c.cmd = "start" /\ RunMatches(c)
    /\ \/ g_state # "ARMED" /\ Reply("invalid_state") /\ UNCHANGED <<g_state, genVars>>
       \/ g_state = "ARMED" /\ (GeneratorStartFails \/ GeneratorStarts)
    /\ UNCHANGED <<g_config, metrics, measured, excuse>> /\ Unaffected

DispatchStop(c) ==
    /\ Fgets(c) /\ c.cmd = "stop" /\ RunMatches(c)
    /\ g_state' = IF g_state \in {"RUNNING", "ARMED"} THEN "FINISHED" ELSE g_state
    /\ Continue("wait_gen")
    /\ UNCHANGED <<g_config, metrics, measured, genVars, excuse>> /\ Unaffected

DispatchResult(c) ==
    /\ Fgets(c) /\ c.cmd = "result" /\ RunMatches(c)
    /\ \/ g_state # "FINISHED" /\ Reply("invalid_state")
       \/ g_state = "FINISHED" /\ Continue("wait_gen")
    /\ UNCHANGED <<shared, metrics, measured, genVars, excuse>> /\ Unaffected

\* metrics_json and the answer to result.
SendResult ==
    /\ ControlTurn /\ ctl_pc = "report"
    /\ Reply("ok")
    /\ UNCHANGED <<shared, metrics, measured, radioVars, queueVars,
                   cmd, stage, acquired, genVars, excuse>>

dispatch(c) ==
    \/ DispatchReadOnly(c) \/ ConfigureRefused(c) \/ ConfigureParse(c) \/ DispatchMismatch(c)
    \/ DispatchArm(c) \/ DispatchStart(c) \/ DispatchStop(c) \/ DispatchResult(c)

\* What the control task does by itself, without a line from the client.
ControlWork ==
    \/ ControlBoot \/ ConfigureCopied \/ ConfigureReset \/ ConfigureDone \/ SendResult
    \/ radio_wait_idle \/ radio_configure \/ receiver_flush \/ generator_wait_stopped

control_run == ControlWork \/ \E c \in HostCommands : dispatch(c)
=============================================================================
