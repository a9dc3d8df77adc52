------------------------------ MODULE Harness ------------------------------
(***************************************************************************)
(* The memory of one ESP32-C5 node and the scheduler that shares its only  *)
(* core.  Four tasks run the firmware:                                     *)
(*                                                                         *)
(*   Wi-Fi driver   priority 23   tx_callback, rx_callback   (Radio)       *)
(*   bench_rx       priority 12   receiver_task              (Receiver)    *)
(*   control        priority 11   control_run                (Control)     *)
(*   bench_gen      priority 10   generator_task             (Generator)   *)
(*                                                                         *)
(* A task takes a step only while no task of higher priority is ready, and *)
(* a blocked task gives way to lower ones until the resource it waits for  *)
(* is there or its wait times out.  Driver callbacks preempt everything.   *)
(***************************************************************************)
EXTENDS Integers, Sequences

CONSTANTS
    RunIds,              \* run ids in use, all positive (0 stands for "no run_id")
    HostCommands,        \* the command lines a client may write to the serial port
    AirFrames,           \* the frames a peer may send to this node
    SendStatuses,        \* the outcomes a send callback may report
    MaxWindow,           \* HARNESS_MAX_TX_WINDOW
    QueueLength,         \* RECEIVER_QUEUE_LENGTH
    configTICK_RATE_HZ,  \* FreeRTOS tick rate of the build
    MaxIterations,       \* bound: packets one generator task may schedule
    MaxRx,               \* bound: frames of a run, received or queued with the other events
    MaxDrops             \* bound: queue overflows of a run before the air falls silent

States == {"BOOT", "IDLE", "CONFIGURED", "ARMED", "RUNNING", "FINISHED", "ERROR"}

\* ROLE_PING_INITIATOR behaves as ROLE_GENERATOR everywhere in the firmware.
Roles == {"ROLE_NONE", "ROLE_GENERATOR", "ROLE_SINK", "ROLE_ECHO_RESPONDER"}

Config == [run_id : RunIds \cup {0}, role : Roles, tx_window : 1..MaxWindow]

\* A command line after cJSON_Parse.  role and tx_window matter to configure
\* only; role "ROLE_NONE" is a body that parse_config refuses.
Command == [cmd : {"status", "bad_request", "configure", "arm", "start", "stop", "result"},
            run_id : RunIds \cup {0}, role : Roles, tx_window : 1..MaxWindow]

NoCommand == [cmd |-> "none", run_id |-> 0, role |-> "ROLE_NONE", tx_window |-> 1]

\* A frame on the air.  PACKET_ECHO is handled like PACKET_STREAM by the
\* receiver.  NoFrame is one that bench_decode refuses; it also fills the
\* events that carry no frame.  TooLong is one that rx_callback refuses.
NoFrame == [type |-> "JUNK", run_id |-> 0]
TooLong == [type |-> "TOO_LONG", run_id |-> 0]
Frame == [type : {"PACKET_STREAM", "PACKET_PING"}, run_id : RunIds] \cup {NoFrame}

Event == [type : {"EV_RX", "EV_TX_OK", "EV_TX_FAIL", "EV_DROP", "EV_BARRIER"},
          frame : Frame]

\* The fields of metric_totals_t that count what happened to a send, and the
\* two that count receptions.
Counters == {"tx_requested", "tx_submitted", "send_cb_success", "send_cb_failure",
             "send_api_failure", "tx_slot_timeout", "rx_packets", "queue_drops"}

ASSUME HarnessAssumption ==
    /\ RunIds \subseteq Nat \ {0}
    /\ MaxWindow \in Nat \ {0}
    /\ QueueLength \in Nat \ {0}
    /\ configTICK_RATE_HZ \in Nat \ {0}
    /\ MaxIterations \in Nat
    /\ HostCommands \subseteq Command
    /\ AirFrames \subseteq Frame \cup {TooLong}
    /\ SendStatuses \subseteq {"EV_TX_OK", "EV_TX_FAIL"}

VARIABLES
    g_state,            \* volatile harness_state_t g_state
    g_config,           \* harness_config_t g_config
    metrics,            \* g_metrics.totals
    tx_ready,           \* count of the semaphore of free send slots
    current_tx_window,  \* how many slots there should be
    inflight,           \* frames the driver accepted, send callback to come
    queue,              \* the receiver's event queue
    rx_pc,              \* receiver_task: "receive" or, for an echo, "acquire"
    notified,           \* task notification value of the control task
    ctl_pc,             \* where the control task is
    cmd,                \* the command it executes
    stage,              \* caller of the fence: 0 configure, 1..5 drain step
    acquired,           \* slots the control task has in hand
    reply,              \* outcome of the last command, "none" while it runs
    gen_pc,             \* where the generator task is
    handle,             \* handle # NULL
    gen_left,           \* iterations the generator has left within the bound
    \* History, read by properties only:
    gen_run,            \* run the generator task was created for
    measured,           \* runs whose frames entered the metrics since the last reset
    excuse              \* why the next report may not balance, see Excuses

shared    == <<g_state, g_config>>
radioVars == <<tx_ready, current_tx_window, inflight>>
queueVars == <<queue, rx_pc, notified>>
ctlVars   == <<ctl_pc, cmd, stage, acquired, reply>>
genVars   == <<gen_pc, handle, gen_left, gen_run>>

vars == <<shared, metrics, measured, radioVars, queueVars, ctlVars, genVars, excuse>>
-----------------------------------------------------------------------------
\* FreeRTOS rounds a delay down to whole ticks; a delay of zero ticks is a
\* yield, which lower priorities do not profit from.
pdMS_TO_TICKS(ms) == (ms * configTICK_RATE_HZ) \div 1000

ReceiverReady ==
    \/ rx_pc = "receive" /\ queue # <<>>
    \/ rx_pc = "acquire" /\ tx_ready > 0

ControlBlocked ==
    \/ ctl_pc = "fgets"
    \/ ctl_pc = "wait_gen" /\ handle /\ pdMS_TO_TICKS(1) > 0
    \/ ctl_pc = "flush"    /\ Len(queue) = QueueLength
    \/ ctl_pc = "notify"   /\ notified = 0
    \/ ctl_pc = "idle"     /\ tx_ready = 0 /\ acquired < current_tx_window

ControlTurn   == ~ReceiverReady
GeneratorTurn == ~ReceiverReady /\ ControlBlocked
-----------------------------------------------------------------------------
\* __atomic_fetch_add on one counter, and memset of all of them.
Count(c) == metrics' = [metrics EXCEPT ![c] = @ + 1]
ZeroMetrics == [c \in Counters |-> 0]

\* Events of one type in the queue.
Queued(types) == {i \in 1..Len(queue) : queue[i].type \in types}

\* Some frame of before is still to be sent, called back or counted.
SendUnderWay ==
    \/ inflight > 0 \/ rx_pc = "acquire" \/ handle
    \/ Queued({"EV_TX_OK", "EV_TX_FAIL"}) # {}

\* What can make a report differ from what its run did: a frame on its way
\* when the metrics were reset, one received after the last fence of the
\* drain, or a generator that a drain gave up on and that is still there.
Excuses == {"carried_over", "late_frame", "abandoned"}

metrics_reset ==
    /\ metrics' = ZeroMetrics
    /\ measured' = {}
    /\ excuse' = (IF SendUnderWay THEN {"carried_over"} ELSE {})
                 \cup (IF handle THEN excuse \cap {"abandoned"} ELSE {})

\* A counting semaphore refuses a give at its maximum.
xSemaphoreTake == tx_ready > 0 /\ tx_ready' = tx_ready - 1
xSemaphoreGive == tx_ready' = IF tx_ready < MaxWindow THEN tx_ready + 1 ELSE tx_ready

\* Mutant: the queue takes an event more than it has room for.
Mut_QueueOverrun(e) == Len(queue) <= QueueLength /\ queue' = Append(queue, e)

xQueueSend(e) ==
    /\ Len(queue) < QueueLength
    /\ queue' = Append(queue, e)

Ev(type) == [type |-> type, frame |-> NoFrame]
=============================================================================
