------------------------------ MODULE Receiver ------------------------------
(***************************************************************************)
(* receiver.c: the event queue, the task that empties it and the barrier   *)
(* with which the control task waits for it.                               *)
(***************************************************************************)
EXTENDS Radio

\* Mutant: frames are not compared with the configured run.
Mut_AnyRun(f) == f.type # "JUNK" /\ g_state \in {"ARMED", "RUNNING", "FINISHED"}

\* A frame counts for the configured run and only from ARMED to FINISHED.
Measurable(f) ==
    /\ f.run_id = g_config.run_id
    /\ g_state \in {"ARMED", "RUNNING", "FINISHED"}

WantsEcho(f) == g_config.role = "ROLE_ECHO_RESPONDER" /\ f.type = "PACKET_PING"

\* Events that only count: send completions, drops and barriers.
ReceiveNote(e) ==
    /\ e.type # "EV_RX"
    /\ CASE e.type = "EV_TX_OK"   -> Count("send_cb_success")
         [] e.type = "EV_TX_FAIL" -> Count("send_cb_failure")
         [] OTHER                 -> UNCHANGED metrics
    /\ notified' = IF e.type = "EV_BARRIER" THEN notified + 1 ELSE notified
    /\ UNCHANGED <<measured, rx_pc>>

\* A frame that does not decode or is stale.
ReceiveIgnored(e) ==
    /\ e.type = "EV_RX"
    /\ e.frame = NoFrame \/ ~Measurable(e.frame)
    /\ UNCHANGED <<metrics, measured, rx_pc, notified>>

\* The totals after one more packet of the run.
metrics_rx == [metrics EXCEPT !["rx_packets"] = @ + 1]

\* A packet of the run, and for a ping to an echo responder the request to
\* answer it.
ReceiveFrame(e) ==
    /\ e.type = "EV_RX" /\ e.frame # NoFrame /\ Measurable(e.frame)
    /\ measured' = measured \cup {e.frame.run_id}
    /\ \/ /\ WantsEcho(e.frame)
          /\ metrics' = [metrics_rx EXCEPT !["tx_requested"] = @ + 1]
          /\ rx_pc' = "acquire"
       \/ ~WantsEcho(e.frame) /\ metrics' = metrics_rx /\ UNCHANGED rx_pc
    /\ UNCHANGED notified

Receive ==
    /\ rx_pc = "receive" /\ queue # <<>>
    /\ queue' = Tail(queue)
    /\ LET e == Head(queue) IN ReceiveNote(e) \/ ReceiveIgnored(e) \/ ReceiveFrame(e)
    /\ UNCHANGED <<shared, radioVars, ctlVars, genVars, excuse>>

\* Mutant: radio_send_acquired and its caller both return a refused slot.
Mut_EchoDoubleGive ==
    /\ rx_pc = "acquire" /\ tx_ready > 0
    /\ \/ xSemaphoreTake /\ inflight' = inflight + 1 /\ Count("tx_submitted")
       \/ xSemaphoreGive /\ Count("send_api_failure") /\ UNCHANGED inflight
    /\ rx_pc' = "receive"
    /\ UNCHANGED <<shared, measured, current_tx_window, queue, notified, ctlVars, genVars, excuse>>

\* The echo gets its slot and the driver accepts it, or refuses and the slot
\* returns; or no slot comes free within 100 ms.
EchoSend ==
    /\ rx_pc = "acquire" /\ tx_ready > 0
    /\ \/ xSemaphoreTake /\ inflight' = inflight + 1 /\ Count("tx_submitted")
       \/ Count("send_api_failure") /\ UNCHANGED <<tx_ready, inflight>>
    /\ rx_pc' = "receive"
    /\ UNCHANGED <<shared, measured, current_tx_window, queue, notified, ctlVars, genVars, excuse>>

EchoTimeout ==
    /\ rx_pc = "acquire" /\ tx_ready = 0
    /\ Count("tx_slot_timeout")
    /\ rx_pc' = "receive"
    /\ UNCHANGED <<shared, measured, radioVars, queue, notified, ctlVars, genVars, excuse>>

receiver_task == Receive \/ EchoSend \/ EchoTimeout
-----------------------------------------------------------------------------
(* receiver_flush, in the control task: post a barrier, wait for the       *)
(* notification it causes.                                                 *)

FlushPost ==
    /\ ControlTurn /\ ctl_pc = "flush"
    /\ xQueueSend(Ev("EV_BARRIER"))
    /\ ctl_pc' = "notify"
    /\ UNCHANGED <<shared, metrics, measured, radioVars, rx_pc, notified,
                   cmd, stage, acquired, reply, genVars, excuse>>

FlushFull ==
    /\ ControlTurn /\ ctl_pc = "flush" /\ Len(queue) = QueueLength
    /\ Reply("drain_timeout")
    /\ UNCHANGED <<shared, metrics, measured, radioVars, queueVars,
                   cmd, stage, acquired, genVars, excuse>>

\* Mutant: no radio_wait_idle after the second flush.
Mut_SingleFence ==
    /\ ControlTurn /\ ctl_pc = "notify" /\ notified > 0
    /\ notified' = 0
    /\ \/ stage = 1 /\ ctl_pc' = "idle" /\ stage' = 2 /\ UNCHANGED reply
       \/ stage = 3 /\ cmd.cmd = "result" /\ ctl_pc' = "report" /\ UNCHANGED <<stage, reply>>
       \/ stage = 3 /\ cmd.cmd # "result" /\ Reply("ok") /\ UNCHANGED stage
    /\ UNCHANGED <<shared, metrics, measured, radioVars, queue, rx_pc,
                   cmd, acquired, genVars, excuse>>

\* ulTaskNotifyTake(pdTRUE) clears the whole count.
FlushNotified ==
    /\ ControlTurn /\ ctl_pc = "notify" /\ notified > 0
    /\ notified' = 0
    /\ \/ stage < 5 /\ ctl_pc' = "idle" /\ stage' = stage + 1 /\ UNCHANGED reply
       \/ stage = 5 /\ cmd.cmd = "result" /\ ctl_pc' = "report" /\ UNCHANGED <<stage, reply>>
       \/ stage = 5 /\ cmd.cmd # "result" /\ Reply("ok") /\ UNCHANGED stage
    /\ UNCHANGED <<shared, metrics, measured, radioVars, queue, rx_pc,
                   cmd, acquired, genVars, excuse>>

FlushTimeout ==
    /\ ControlTurn /\ ctl_pc = "notify" /\ notified = 0
    /\ Reply("drain_timeout")
    /\ UNCHANGED <<shared, metrics, measured, radioVars, queueVars,
                   cmd, stage, acquired, genVars, excuse>>

receiver_flush == FlushPost \/ FlushFull \/ FlushNotified \/ FlushTimeout
=============================================================================
