------------------------------- MODULE Radio -------------------------------
(***************************************************************************)
(* radio.c: the window of send slots.  A slot is taken from tx_ready       *)
(* before esp_now_send and comes back with the send callback, or at once   *)
(* when the driver refuses the frame.  radio_wait_idle collects all slots  *)
(* to prove that nothing is in flight; radio_configure uses the same idea  *)
(* to exchange the window.                                                 *)
(***************************************************************************)
EXTENDS Harness

\* The control task answers a command and returns to fgets.
Reply(code) == ctl_pc' = "fgets" /\ reply' = code

\* receiver_post_tx and then the slot, in the driver's task.
tx_callback(type) ==
    /\ inflight > 0
    /\ inflight' = inflight - 1
    /\ \/ xQueueSend(Ev(type)) /\ UNCHANGED metrics
       \/ Len(queue) = QueueLength /\ Count("queue_drops") /\ UNCHANGED queue
    /\ xSemaphoreGive
    /\ UNCHANGED <<shared, measured, current_tx_window, rx_pc, notified, ctlVars, genVars, excuse>>

\* The second radio_wait_idle of a drain has collected all slots, or more.
PastSecondFence ==
    \/ ctl_pc = "idle" /\ stage = 4 /\ acquired >= current_tx_window
    \/ ctl_pc = "idle_done" /\ stage = 4
    \/ ctl_pc \in {"flush", "notify"} /\ stage = 5
    \/ ctl_pc = "report"

AirOpen == metrics["rx_packets"] + Len(queue) < MaxRx /\ metrics["queue_drops"] < MaxDrops

\* A frame within the size limit is queued, or counted as a queue drop; one
\* beyond it becomes EV_DROP, or nothing when the queue is full.
rx_callback(f) ==
    /\ AirOpen
    /\ \/ f # TooLong /\ xQueueSend([type |-> "EV_RX", frame |-> f]) /\ UNCHANGED metrics
       \/ f # TooLong /\ Len(queue) = QueueLength /\ Count("queue_drops") /\ UNCHANGED queue
       \/ f = TooLong /\ xQueueSend(Ev("EV_DROP")) /\ UNCHANGED metrics
    /\ excuse' = IF PastSecondFence THEN excuse \cup {"late_frame"} ELSE excuse
    /\ UNCHANGED <<shared, measured, radioVars, rx_pc, notified, ctlVars, genVars>>
-----------------------------------------------------------------------------
(* radio_wait_idle, in the control task.                                   *)

IdleTake ==
    /\ ControlTurn /\ ctl_pc = "idle" /\ acquired < current_tx_window
    /\ xSemaphoreTake
    /\ acquired' = acquired + 1
    /\ UNCHANGED <<shared, metrics, measured, current_tx_window, inflight, queueVars,
                   ctl_pc, cmd, stage, reply, genVars, excuse>>

IdleTimeout ==
    /\ ControlTurn /\ ctl_pc = "idle" /\ acquired < current_tx_window
    /\ tx_ready = 0
    /\ ctl_pc' = "idle_undo"
    /\ UNCHANGED <<shared, metrics, measured, radioVars, queueVars,
                   cmd, stage, acquired, reply, genVars, excuse>>

\* Mutant: the fence is content with the first slot.
Mut_IdleOneSlot ==
    /\ ControlTurn /\ ctl_pc = "idle" /\ acquired > 0
    /\ ctl_pc' = "idle_done"
    /\ UNCHANGED <<shared, metrics, measured, radioVars, queueVars,
                   cmd, stage, acquired, reply, genVars, excuse>>

IdleAll ==
    /\ ControlTurn /\ ctl_pc = "idle" /\ acquired >= current_tx_window
    /\ ctl_pc' = "idle_done"
    /\ UNCHANGED <<shared, metrics, measured, radioVars, queueVars,
                   cmd, stage, acquired, reply, genVars, excuse>>

IdleGiveBack ==
    /\ ControlTurn /\ ctl_pc \in {"idle_undo", "idle_done"} /\ acquired > 0
    /\ xSemaphoreGive
    /\ acquired' = acquired - 1
    /\ UNCHANGED <<shared, metrics, measured, current_tx_window, inflight, queueVars,
                   ctl_pc, cmd, stage, reply, genVars, excuse>>

\* Mutant: the fence is tried again after each timeout.
Mut_IdleRetries ==
    /\ ControlTurn /\ ctl_pc = "idle_undo" /\ acquired = 0
    /\ ctl_pc' = "idle"
    /\ UNCHANGED <<shared, metrics, measured, radioVars, queueVars,
                   cmd, stage, acquired, reply, genVars, excuse>>

\* ESP_ERR_TIMEOUT: configure ends in ERROR, a drain leaves g_state alone.
IdleFailed ==
    /\ ControlTurn /\ ctl_pc = "idle_undo" /\ acquired = 0
    /\ \/ stage = 0 /\ g_state' = "ERROR" /\ Reply("radio_config")
       \/ stage > 0 /\ UNCHANGED g_state /\ Reply("drain_timeout")
    /\ UNCHANGED <<g_config, metrics, measured, radioVars, queueVars,
                   cmd, stage, acquired, genVars, excuse>>

IdleOk ==
    /\ ControlTurn /\ ctl_pc = "idle_done" /\ acquired = 0
    /\ \/ stage = 0 /\ ctl_pc' = "cfg_take" /\ UNCHANGED stage
       \/ stage > 0 /\ ctl_pc' = "flush" /\ stage' = stage + 1
    /\ UNCHANGED <<shared, metrics, measured, radioVars, queueVars,
                   cmd, acquired, reply, genVars, excuse>>

radio_wait_idle == IdleTake \/ IdleTimeout \/ IdleAll \/ IdleGiveBack \/ IdleFailed \/ IdleOk
-----------------------------------------------------------------------------
(* The rest of radio_configure.                                            *)

CfgTake ==
    /\ ControlTurn /\ ctl_pc = "cfg_take" /\ acquired < current_tx_window
    /\ xSemaphoreTake
    /\ acquired' = acquired + 1
    /\ UNCHANGED <<shared, metrics, measured, current_tx_window, inflight, queueVars,
                   ctl_pc, cmd, stage, reply, genVars, excuse>>

\* A take without timeout fails: ESP_ERR_INVALID_STATE, and the slots taken
\* so far are not given back.
CfgTakeFailed ==
    /\ ControlTurn /\ ctl_pc = "cfg_take" /\ acquired < current_tx_window
    /\ tx_ready = 0
    /\ acquired' = 0
    /\ g_state' = "ERROR"
    /\ Reply("radio_config")
    /\ UNCHANGED <<g_config, metrics, measured, radioVars, queueVars, cmd, stage, genVars, excuse>>

\* Mutant: the new window is given although the old one was not taken.
Mut_SwapWithoutTake ==
    /\ ControlTurn /\ ctl_pc = "cfg_take" /\ acquired = 0
    /\ current_tx_window' = g_config.tx_window
    /\ acquired' = g_config.tx_window
    /\ ctl_pc' = "cfg_give"
    /\ UNCHANGED <<shared, metrics, measured, tx_ready, inflight, queueVars,
                   cmd, stage, reply, genVars, excuse>>

CfgSwap ==
    /\ ControlTurn /\ ctl_pc = "cfg_take" /\ acquired >= current_tx_window
    /\ current_tx_window' = g_config.tx_window
    /\ acquired' = g_config.tx_window
    /\ ctl_pc' = "cfg_give"
    /\ UNCHANGED <<shared, metrics, measured, tx_ready, inflight, queueVars,
                   cmd, stage, reply, genVars, excuse>>

CfgGive ==
    /\ ControlTurn /\ ctl_pc = "cfg_give" /\ acquired > 0
    /\ xSemaphoreGive
    /\ acquired' = acquired - 1
    /\ UNCHANGED <<shared, metrics, measured, current_tx_window, inflight, queueVars,
                   ctl_pc, cmd, stage, reply, genVars, excuse>>

\* Country, band, channel, power, peer and rate: any of the calls may fail.
CfgPeer ==
    /\ ControlTurn /\ ctl_pc = "cfg_give" /\ acquired = 0
    /\ \/ ctl_pc' = "cfg_reset" /\ UNCHANGED <<g_state, reply>>
       \/ g_state' = "ERROR" /\ Reply("radio_config")
    /\ UNCHANGED <<g_config, metrics, measured, radioVars, queueVars,
                   cmd, stage, acquired, genVars, excuse>>

radio_configure == CfgTake \/ CfgTakeFailed \/ CfgSwap \/ CfgGive \/ CfgPeer
=============================================================================
