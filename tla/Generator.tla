------------------------------ MODULE Generator -----------------------------
(***************************************************************************)
(* generator.c: the lowest-priority task.  Every other task can run        *)
(* between any two of its steps, which is why reading g_state, sending and *)
(* accounting are separate steps here.                                     *)
(***************************************************************************)
EXTENDS Receiver

\* while (g_state == STATE_RUNNING && now < end_us); time may be up at any
\* test.
GenLoop ==
    /\ GeneratorTurn /\ gen_pc = "loop"
    /\ \/ /\ g_state = "RUNNING" /\ gen_left > 0
          /\ gen_left' = gen_left - 1
          /\ gen_pc' = "wait"
       \/ gen_pc' = "end" /\ UNCHANGED gen_left
    /\ UNCHANGED <<shared, metrics, measured, radioVars, queueVars, ctlVars, handle, gen_run, excuse>>

\* wait_deadline returns and send_one begins, whatever g_state is by now.
GenRequest ==
    /\ GeneratorTurn /\ gen_pc = "wait"
    /\ Count("tx_requested")
    /\ gen_pc' = "acquire"
    /\ UNCHANGED <<shared, measured, radioVars, queueVars, ctlVars, handle, gen_left, gen_run, excuse>>

GenAcquire ==
    /\ GeneratorTurn /\ gen_pc = "acquire"
    /\ xSemaphoreTake
    /\ gen_pc' = "send"
    /\ UNCHANGED <<shared, metrics, measured, current_tx_window, inflight, queueVars, ctlVars,
                   handle, gen_left, gen_run, excuse>>

\* Mutant: the generator waits for its slot without a timeout.
Mut_GenWaitsForEver == gen_pc = "acquire" /\ FALSE /\ UNCHANGED vars

GenSlotTimeout ==
    /\ GeneratorTurn /\ gen_pc = "acquire" /\ tx_ready = 0
    /\ Count("tx_slot_timeout")
    /\ gen_pc' = "loop"
    /\ UNCHANGED <<shared, measured, radioVars, queueVars, ctlVars, handle, gen_left, gen_run, excuse>>

\* Mutant: a frame the driver refuses keeps its slot.
Mut_RefusedKeepsSlot ==
    /\ GeneratorTurn /\ gen_pc = "send"
    /\ \/ inflight' = inflight + 1 /\ gen_pc' = "submitted" /\ UNCHANGED metrics
       \/ Count("send_api_failure") /\ gen_pc' = "loop" /\ UNCHANGED inflight
    /\ UNCHANGED <<shared, measured, tx_ready, current_tx_window, queueVars, ctlVars,
                   handle, gen_left, gen_run, excuse>>

\* bench_encode and esp_now_send; a refused frame returns its slot.
GenSend ==
    /\ GeneratorTurn /\ gen_pc = "send"
    /\ \/ inflight' = inflight + 1 /\ gen_pc' = "submitted" /\ UNCHANGED <<tx_ready, metrics>>
       \/ xSemaphoreGive /\ Count("send_api_failure") /\ gen_pc' = "loop" /\ UNCHANGED inflight
    /\ UNCHANGED <<shared, measured, current_tx_window, queueVars, ctlVars,
                   handle, gen_left, gen_run, excuse>>

\* metrics_tx_submitted: the send callback may already have been counted.
GenSubmitted ==
    /\ GeneratorTurn /\ gen_pc = "submitted"
    /\ Count("tx_submitted")
    /\ measured' = measured \cup {gen_run}
    /\ gen_pc' = "loop"
    /\ UNCHANGED <<shared, radioVars, queueVars, ctlVars, handle, gen_left, gen_run, excuse>>

\* if (g_state != STATE_ERROR) g_state = STATE_FINISHED: test and write are
\* two steps.
GenEndTest ==
    /\ GeneratorTurn /\ gen_pc = "end"
    /\ gen_pc' = IF g_state # "ERROR" THEN "finish" ELSE "exit"
    /\ UNCHANGED <<shared, metrics, measured, radioVars, queueVars, ctlVars, handle, gen_left, gen_run, excuse>>

GenFinish ==
    /\ GeneratorTurn /\ gen_pc = "finish"
    /\ g_state' = "FINISHED"
    /\ gen_pc' = "exit"
    /\ UNCHANGED <<g_config, metrics, measured, radioVars, queueVars, ctlVars, handle, gen_left, gen_run, excuse>>

GenExit ==
    /\ GeneratorTurn /\ gen_pc = "exit"
    /\ handle' = FALSE
    /\ gen_pc' = "none"
    /\ UNCHANGED <<shared, metrics, measured, radioVars, queueVars, ctlVars, gen_left, gen_run, excuse>>

generator_task ==
    \/ GenLoop \/ GenRequest \/ GenAcquire \/ GenSlotTimeout \/ GenSend
    \/ GenSubmitted \/ GenEndTest \/ GenFinish \/ GenExit
-----------------------------------------------------------------------------
(* generator_wait_stopped, in the control task: its polling delay of 1 ms  *)
(* is a sleep only when it is at least one tick.  At the default of 100 Hz *)
(* it is none, and the generator cannot run before the 2 s are over.       *)

\* Mutant: stop does not wait for the generator task.
Mut_NoWait ==
    /\ ControlTurn /\ ctl_pc = "wait_gen"
    /\ ctl_pc' = "flush" /\ stage' = 1
    /\ excuse' = excuse \ {"late_frame"}
    /\ UNCHANGED <<shared, metrics, measured, radioVars, queueVars,
                   cmd, acquired, reply, genVars>>

WaitStopped ==
    /\ ControlTurn /\ ctl_pc = "wait_gen" /\ ~handle
    /\ ctl_pc' = "flush" /\ stage' = 1
    /\ excuse' = excuse \ {"late_frame"}
    /\ UNCHANGED <<shared, metrics, measured, radioVars, queueVars,
                   cmd, acquired, reply, genVars>>

\* At any tick rate the wait gives up after 2 s.
WaitStoppedTimeout ==
    /\ ControlTurn /\ ctl_pc = "wait_gen" /\ handle
    /\ Reply("drain_timeout")
    /\ excuse' = excuse \cup {"abandoned"}
    /\ UNCHANGED <<shared, metrics, measured, radioVars, queueVars,
                   cmd, stage, acquired, genVars>>

generator_wait_stopped == WaitStopped \/ WaitStoppedTimeout
=============================================================================
