----------------------------- MODULE NodeProofs -----------------------------
(***************************************************************************)
(* Proofs about Node, for any window, any queue length, any tick rate and  *)
(* any behaviour of the client and the air: the types of the node's memory *)
(* and the bound on frames in flight.  The window bound is not inductive   *)
(* by itself: a slot that is free, in the control task's hand or between   *)
(* acquire and send in the generator can become a frame in flight, so the  *)
(* invariant counts all of them (SlotsBounded).  With TasksOK, which says  *)
(* when a task exists and holds slots, no slot is lost either on a node    *)
(* that never echoes (NoSlotIsLost).                                       *)
(***************************************************************************)
EXTENDS Node, TLAPS

\* One counter goes up, the others stay: the counters remain naturals.
LEMMA CountType ==
    ASSUME metrics \in [Counters -> Nat], NEW c \in Counters, Count(c)
    PROVE  metrics' \in [Counters -> Nat]
BY DEF Count

\* The counters that single steps count up.
LEMMA CounterNames ==
    {"tx_requested", "tx_submitted", "send_api_failure", "tx_slot_timeout"} \subseteq Counters
BY DEF Counters

\* A reset leaves zeros.
LEMMA ZeroType == ZeroMetrics \in [Counters -> Nat]
BY DEF ZeroMetrics

\* xQueueSend keeps the queue within its length.
LEMMA SendType ==
    ASSUME queue \in Seq(Event), QueueLength \in Nat, NEW e \in Event, xQueueSend(e)
    PROVE  queue' \in Seq(Event) /\ Len(queue') <= QueueLength
BY DEF xQueueSend

\* What xQueueReceive returns is an event, and the rest a shorter queue.
LEMMA ReceiveType ==
    ASSUME queue \in Seq(Event), Len(queue) <= QueueLength, QueueLength \in Nat, queue # <<>>
    PROVE  Head(queue) \in Event /\ Tail(queue) \in Seq(Event) /\ Len(Tail(queue)) <= QueueLength
OBVIOUS

\* Events without a frame are events.
LEMMA NoteType ==
    ASSUME NEW type \in {"EV_TX_OK", "EV_TX_FAIL", "EV_DROP", "EV_BARRIER"}
    PROVE  Ev(type) \in Event
BY DEF Ev, Event, Frame

\* The driver's callbacks keep the types.
LEMMA DriverTypes ==
    ASSUME TypeOK, StageOK, WifiDriver
    PROVE  TypeOK' /\ StageOK'
<1> USE HarnessAssumption DEF TypeOK, StageOK, shared, radioVars, queueVars, ctlVars, genVars,
                               CtlPcs, GenPcs, Replies, States, Excuses
<1>1. ASSUME NEW type \in SendStatuses, tx_callback(type)
      PROVE  TypeOK' /\ StageOK'
  <2>1. Ev(type) \in Event /\ "queue_drops" \in Counters
    BY NoteType DEF Counters
  <2>2. queue' \in Seq(Event) /\ Len(queue') <= QueueLength
    BY <1>1, <2>1, SendType DEF tx_callback
  <2>3. metrics' \in [Counters -> Nat]
    BY <1>1, <2>1, CountType DEF tx_callback
  <2>4. tx_ready' \in Nat /\ inflight' \in Nat
    BY <1>1 DEF tx_callback, xSemaphoreGive
  <2> QED
    BY <1>1, <2>2, <2>3, <2>4 DEF tx_callback
<1>2. ASSUME NEW f \in AirFrames, rx_callback(f)
      PROVE  TypeOK' /\ StageOK'
  <2>1. Ev("EV_DROP") \in Event /\ "queue_drops" \in Counters
    BY NoteType DEF Counters
  <2>2. f # TooLong => [type |-> "EV_RX", frame |-> f] \in Event
    BY DEF Event
  <2>3. queue' \in Seq(Event) /\ Len(queue') <= QueueLength
    BY <1>2, <2>1, <2>2, SendType DEF rx_callback
  <2>4. metrics' \in [Counters -> Nat]
    BY <1>2, <2>1, CountType DEF rx_callback
  <2> QED
    BY <1>2, <2>3, <2>4 DEF rx_callback
<1> QED
  BY <1>1, <1>2 DEF WifiDriver

\* So does the receiver task.
LEMMA ReceiverTypes ==
    ASSUME TypeOK, StageOK, receiver_task
    PROVE  TypeOK' /\ StageOK'
<1> USE HarnessAssumption DEF TypeOK, StageOK, shared, radioVars, queueVars, ctlVars, genVars,
                               CtlPcs, GenPcs, Replies, States, Excuses
<1>1. CASE Receive
  <2> DEFINE e == Head(queue)
  <2>1. e \in Event /\ queue' \in Seq(Event) /\ Len(queue') <= QueueLength
    BY <1>1, ReceiveType DEF Receive
  <2>2. e.frame \in Frame /\ e.frame.run_id \in RunIds \cup {0}
    BY <2>1 DEF Event, Frame, NoFrame
  <2>3. {"send_cb_success", "send_cb_failure", "rx_packets", "tx_requested"} \subseteq Counters
    BY DEF Counters
  <2> HIDE DEF e
  <2>4. CASE ReceiveNote(e)
    <3>1. metrics' \in [Counters -> Nat]
      BY <2>3, <2>4, CountType DEF ReceiveNote
    <3>2. notified' \in Nat /\ UNCHANGED <<measured, rx_pc>>
      BY <2>4 DEF ReceiveNote
    <3> QED
      BY <1>1, <2>1, <3>1, <3>2 DEF Receive
  <2>5. CASE ReceiveIgnored(e)
    BY <1>1, <2>1, <2>5 DEF Receive, ReceiveIgnored
  <2>6. CASE ReceiveFrame(e)
    <3>1. metrics' \in [Counters -> Nat]
      <4>1. metrics_rx \in [Counters -> Nat]
        BY <2>3 DEF metrics_rx
      <4>2. [metrics_rx EXCEPT !["tx_requested"] = @ + 1] \in [Counters -> Nat]
        BY <2>3, <4>1
      <4> QED
        BY <2>6, <4>1, <4>2 DEF ReceiveFrame
    <3>2. measured' \subseteq RunIds \cup {0} /\ rx_pc' \in {"receive", "acquire"} /\ notified' \in Nat
      BY <2>2, <2>6 DEF ReceiveFrame
    <3> QED
      BY <1>1, <2>1, <3>1, <3>2 DEF Receive
  <2> QED
    BY <1>1, <2>4, <2>5, <2>6 DEF Receive, e
<1>2. CASE EchoSend
  <2>1. metrics' \in [Counters -> Nat]
    BY <1>2, CounterNames, CountType DEF EchoSend
  <2>2. tx_ready' \in Nat /\ inflight' \in Nat
    BY <1>2 DEF EchoSend, xSemaphoreTake
  <2> QED
    BY <1>2, <2>1, <2>2 DEF EchoSend
<1>3. CASE EchoTimeout
  <2>1. metrics' \in [Counters -> Nat]
    BY <1>3, CounterNames, CountType DEF EchoTimeout
  <2> QED
    BY <1>3, <2>1 DEF EchoTimeout
<1> QED
  BY <1>1, <1>2, <1>3 DEF receiver_task

\* The generator task.
LEMMA GeneratorTypes ==
    ASSUME TypeOK, StageOK, generator_task
    PROVE  TypeOK' /\ StageOK'
<1> USE HarnessAssumption DEF TypeOK, StageOK, shared, radioVars, queueVars, ctlVars, genVars,
                               CtlPcs, GenPcs, Replies, States, Excuses
<1>1. CASE GenLoop
  BY <1>1 DEF GenLoop
<1>2. CASE GenRequest
  <2>1. metrics' \in [Counters -> Nat]
    BY <1>2, CounterNames, CountType DEF GenRequest
  <2> QED
    BY <1>2, <2>1 DEF GenRequest
<1>3. CASE GenAcquire
  BY <1>3 DEF GenAcquire, xSemaphoreTake
<1>4. CASE GenSlotTimeout
  <2>1. metrics' \in [Counters -> Nat]
    BY <1>4, CounterNames, CountType DEF GenSlotTimeout
  <2> QED
    BY <1>4, <2>1 DEF GenSlotTimeout
<1>5. CASE GenSend
  <2>1. metrics' \in [Counters -> Nat]
    BY <1>5, CounterNames, CountType DEF GenSend
  <2>2. tx_ready' \in Nat /\ inflight' \in Nat
    BY <1>5 DEF GenSend, xSemaphoreGive
  <2> QED
    BY <1>5, <2>1, <2>2 DEF GenSend
<1>6. CASE GenSubmitted
  <2>1. metrics' \in [Counters -> Nat]
    BY <1>6, CounterNames, CountType DEF GenSubmitted
  <2> QED
    BY <1>6, <2>1 DEF GenSubmitted
<1>7. CASE GenEndTest
  BY <1>7 DEF GenEndTest
<1>8. CASE GenFinish
  BY <1>8 DEF GenFinish
<1>9. CASE GenExit
  <2>1. handle' \in BOOLEAN
    BY <1>9 DEF GenExit
  <2> QED
    BY <1>9, <2>1 DEF GenExit
<1> QED
  BY <1>1, <1>2, <1>3, <1>4, <1>5, <1>6, <1>7, <1>8, <1>9 DEF generator_task

\* The control task in radio_wait_idle, radio_configure, receiver_flush and
\* generator_wait_stopped.
LEMMA WaitTypes ==
    ASSUME TypeOK, StageOK, radio_wait_idle \/ radio_configure \/ receiver_flush \/ generator_wait_stopped
    PROVE  TypeOK' /\ StageOK'
<1> USE HarnessAssumption DEF TypeOK, StageOK, shared, radioVars, queueVars, ctlVars, genVars,
                               CtlPcs, GenPcs, Replies, States, Excuses
<1>1. CASE IdleTake
  BY <1>1 DEF IdleTake, xSemaphoreTake
<1>2. CASE IdleTimeout
  BY <1>2 DEF IdleTimeout
<1>3. CASE IdleAll
  BY <1>3 DEF IdleAll
<1>4. CASE IdleGiveBack
  BY <1>4 DEF IdleGiveBack, xSemaphoreGive
<1>5. CASE IdleFailed
  BY <1>5 DEF IdleFailed, Reply
<1>6. CASE IdleOk
  BY <1>6 DEF IdleOk
<1>7. CASE CfgTake
  BY <1>7 DEF CfgTake, xSemaphoreTake
<1>8. CASE CfgTakeFailed
  BY <1>8 DEF CfgTakeFailed, Reply
<1>9. CASE CfgSwap
  BY <1>9 DEF CfgSwap, Config
<1>10. CASE CfgGive
  BY <1>10 DEF CfgGive, xSemaphoreGive
<1>11. CASE CfgPeer
  BY <1>11 DEF CfgPeer, Reply
<1>12. CASE FlushPost
  <2>1. queue' \in Seq(Event) /\ Len(queue') <= QueueLength
    BY <1>12, NoteType, SendType DEF FlushPost
  <2> QED
    BY <1>12, <2>1 DEF FlushPost
<1>13. CASE FlushFull
  BY <1>13 DEF FlushFull, Reply
<1>14. CASE FlushNotified
  BY <1>14 DEF FlushNotified, Reply
<1>15. CASE FlushTimeout
  BY <1>15 DEF FlushTimeout, Reply
<1>16. CASE WaitStopped
  BY <1>16 DEF WaitStopped
<1>17. CASE WaitStoppedTimeout
  BY <1>17 DEF WaitStoppedTimeout, Reply
<1> QED
  BY <1>1, <1>2, <1>3, <1>4, <1>5, <1>6, <1>7, <1>8, <1>9, <1>10, <1>11, <1>12, <1>13, <1>14, <1>15, <1>16, <1>17 DEF radio_wait_idle, radio_configure, receiver_flush, generator_wait_stopped

\* The control task executing a command.
LEMMA CommandTypes ==
    ASSUME TypeOK, StageOK, \E c \in HostCommands : dispatch(c)
    PROVE  TypeOK' /\ StageOK'
<1> USE HarnessAssumption DEF TypeOK, StageOK, shared, radioVars, queueVars, ctlVars, genVars,
                               CtlPcs, GenPcs, Replies, States, Excuses
<1>1. ASSUME NEW c \in HostCommands, DispatchReadOnly(c) PROVE TypeOK' /\ StageOK'
  BY <1>1 DEF DispatchReadOnly, Fgets, Unaffected, Command, Reply
<1>2. ASSUME NEW c \in HostCommands, ConfigureRefused(c) PROVE TypeOK' /\ StageOK'
  BY <1>2 DEF ConfigureRefused, Fgets, Unaffected, Command, Reply
<1>3. ASSUME NEW c \in HostCommands, ConfigureParse(c) PROVE TypeOK' /\ StageOK'
  <2>1. g_config' \in Config
    BY <1>3 DEF ConfigureParse, Command, Config
  <2>2. ctl_pc' = "parse" /\ reply' \in Replies
    BY <1>3 DEF ConfigureParse, Continue
  <2> QED
    BY <1>3, <2>1, <2>2 DEF ConfigureParse, Fgets, Unaffected
<1>4. ASSUME NEW c \in HostCommands, DispatchMismatch(c) PROVE TypeOK' /\ StageOK'
  BY <1>4 DEF DispatchMismatch, Fgets, Unaffected, Command, Reply
<1>5. ASSUME NEW c \in HostCommands, DispatchArm(c) PROVE TypeOK' /\ StageOK'
  <2>1. metrics' \in [Counters -> Nat] /\ measured' \subseteq RunIds \cup {0} /\ excuse' \subseteq Excuses
    BY <1>5, ZeroType DEF DispatchArm, metrics_reset
  <2> QED
    BY <1>5, <2>1 DEF DispatchArm, Fgets, Reply, Unaffected, Command
<1>6. ASSUME NEW c \in HostCommands, DispatchStart(c) PROVE TypeOK' /\ StageOK'
  <2>1. /\ gen_pc' \in GenPcs /\ handle' \in BOOLEAN
        /\ gen_left' \in Nat /\ gen_run' \in RunIds \cup {0}
    BY <1>6 DEF DispatchStart, GeneratorStarts, GeneratorStartFails, Config
  <2>2. g_state' \in States /\ reply' \in Replies /\ ctl_pc' = "fgets"
    BY <1>6 DEF DispatchStart, GeneratorStarts, GeneratorStartFails, Reply
  <2> QED
    BY <1>6, <2>1, <2>2 DEF DispatchStart, Fgets, Unaffected, Command
<1>7. ASSUME NEW c \in HostCommands, DispatchStop(c) PROVE TypeOK' /\ StageOK'
  BY <1>7 DEF DispatchStop, Fgets, Unaffected, Command, Continue
<1>8. ASSUME NEW c \in HostCommands, DispatchResult(c) PROVE TypeOK' /\ StageOK'
  BY <1>8 DEF DispatchResult, Fgets, Unaffected, Command, Continue, Reply
<1> QED
  BY <1>1, <1>2, <1>3, <1>4, <1>5, <1>6, <1>7, <1>8 DEF dispatch

\* The rest of the control task.
LEMMA ControlTypes ==
    ASSUME TypeOK, StageOK, control_run
    PROVE  TypeOK' /\ StageOK'
<1> USE HarnessAssumption DEF TypeOK, StageOK, shared, radioVars, queueVars, ctlVars, genVars,
                               CtlPcs, GenPcs, Replies, States, Excuses
<1>1. CASE ControlBoot
  BY <1>1 DEF ControlBoot
<1>2. CASE ConfigureCopied
  <2>1. cmd.role \in Roles /\ cmd.tx_window \in 1..MaxWindow
    BY DEF Command, NoCommand, Roles
  <2>2. g_config' \in Config
    BY <1>2, <2>1 DEF ConfigureCopied, Config
  <2> QED
    BY <1>2, <2>2 DEF ConfigureCopied
<1>3. CASE ConfigureReset
  BY <1>3, ZeroType DEF ConfigureReset, metrics_reset
<1>4. CASE ConfigureDone
  BY <1>4 DEF ConfigureDone, Reply
<1>5. CASE SendResult
  BY <1>5 DEF SendResult, Reply
<1>6. CASE radio_wait_idle \/ radio_configure \/ receiver_flush \/ generator_wait_stopped
  BY <1>6, WaitTypes
<1>7. CASE \E c \in HostCommands : dispatch(c)
  BY <1>7, CommandTypes
<1> QED
  BY <1>1, <1>2, <1>3, <1>4, <1>5, <1>6, <1>7 DEF control_run, ControlWork


\* All tasks together: a step of the node keeps the types.
LEMMA TypesStep ==
    ASSUME TypeOK, StageOK, [Next]_vars
    PROVE  TypeOK' /\ StageOK'
<1>1. CASE UNCHANGED vars
  BY <1>1 DEF vars, shared, radioVars, queueVars, ctlVars, genVars, TypeOK, StageOK
<1> QED
  BY <1>1, DriverTypes, ReceiverTypes, GeneratorTypes, ControlTypes DEF Next
-----------------------------------------------------------------------------
\* A step neither invents a slot nor exchanges the window while one of the
\* old slots is out.
LEMMA SlotsStep ==
    ASSUME TypeOK, SlotsBounded, Next
    PROVE  SlotsBounded'
<1> USE HarnessAssumption DEF TypeOK, SlotsBounded, Slots
<1>1. ASSUME NEW type \in SendStatuses, tx_callback(type) PROVE SlotsBounded'
  BY <1>1 DEF tx_callback, xSemaphoreGive, ctlVars, genVars
<1>2. ASSUME NEW f \in AirFrames, rx_callback(f) PROVE SlotsBounded'
  BY <1>2 DEF rx_callback, radioVars, ctlVars, genVars
<1>3. CASE Receive
  BY <1>3 DEF Receive, radioVars, ctlVars, genVars
<1>4. CASE EchoSend
  BY <1>4 DEF EchoSend, xSemaphoreTake, ctlVars, genVars
<1>5. CASE EchoTimeout
  BY <1>5 DEF EchoTimeout, radioVars, ctlVars, genVars
<1>6. CASE IdleTake
  BY <1>6 DEF IdleTake, xSemaphoreTake, genVars
<1>7. CASE IdleTimeout
  BY <1>7 DEF IdleTimeout, radioVars, genVars
<1>8. CASE IdleAll
  BY <1>8 DEF IdleAll, radioVars, genVars
<1>9. CASE IdleGiveBack
  BY <1>9 DEF IdleGiveBack, xSemaphoreGive, genVars
<1>10. CASE IdleFailed
  BY <1>10 DEF IdleFailed, radioVars, genVars
<1>11. CASE IdleOk
  BY <1>11 DEF IdleOk, radioVars, genVars
<1>12. CASE CfgTake
  BY <1>12 DEF CfgTake, xSemaphoreTake, genVars
<1>13. CASE CfgTakeFailed
  BY <1>13 DEF CfgTakeFailed, radioVars, genVars
<1>14. CASE CfgSwap
  BY <1>14, g_config.tx_window \in 1..MaxWindow DEF CfgSwap, shared, genVars, Config
<1>15. CASE CfgGive
  BY <1>15 DEF CfgGive, xSemaphoreGive, genVars
<1>16. CASE CfgPeer
  BY <1>16 DEF CfgPeer, radioVars, genVars
<1>17. CASE receiver_flush \/ generator_wait_stopped
  BY <1>17 DEF receiver_flush, FlushPost, FlushFull, FlushNotified, FlushTimeout,
              generator_wait_stopped, WaitStopped, WaitStoppedTimeout, radioVars, genVars
<1>18. CASE ControlBoot \/ ConfigureCopied \/ ConfigureReset \/ ConfigureDone \/ SendResult
  BY <1>18 DEF ControlBoot, ConfigureCopied, ConfigureReset, ConfigureDone, SendResult,
              radioVars, genVars
<1>19. ASSUME NEW c \in HostCommands, dispatch(c) PROVE SlotsBounded'
  BY <1>19 DEF dispatch, DispatchReadOnly, ConfigureRefused, ConfigureParse, DispatchMismatch,
              DispatchArm, DispatchStart, DispatchStop, DispatchResult, GeneratorStarts,
              GeneratorStartFails, Unaffected, radioVars, genVars
<1>20. CASE GenAcquire
  BY <1>20 DEF GenAcquire, xSemaphoreTake, ctlVars
<1>21. CASE GenSend
  BY <1>21 DEF GenSend, xSemaphoreGive, ctlVars
<1>22. CASE GenLoop \/ GenRequest \/ GenSlotTimeout \/ GenSubmitted \/ GenEndTest \/ GenFinish \/ GenExit
  BY <1>22 DEF GenLoop, GenRequest, GenSlotTimeout, GenSubmitted, GenEndTest, GenFinish, GenExit,
              radioVars, ctlVars
<1> QED
  BY <1>1, <1>2, <1>3, <1>4, <1>5, <1>6, <1>7, <1>8, <1>9, <1>10, <1>11, <1>12, <1>13, <1>14, <1>15, <1>16, <1>17, <1>18, <1>19, <1>20, <1>21, <1>22
  DEF Next, WifiDriver, receiver_task, control_run, ControlWork, radio_wait_idle,
      radio_configure, generator_task

\* The inductive invariant of the node.
THEOREM NodeInvariant == Spec => []IInv
<1>1. Init => IInv
  <2> SUFFICES ASSUME Init PROVE IInv
    OBVIOUS
  <2>1. handle \in BOOLEAN
    BY DEF Init
  <2>2. g_config \in Config /\ metrics \in [Counters -> Nat] /\ cmd \in Command \cup {NoCommand}
    BY HarnessAssumption, ZeroType DEF Init, Config, Roles
  <2>3. queue \in Seq(Event) /\ Len(queue) <= QueueLength
    BY HarnessAssumption DEF Init
  <2>4. TypeOK
    BY HarnessAssumption, <2>1, <2>2, <2>3
    DEF Init, TypeOK, CtlPcs, GenPcs, Replies, States, Excuses
  <2>5. StageOK /\ SlotsBounded
    BY DEF Init, StageOK, SlotsBounded, Slots
  <2> QED
    BY <2>4, <2>5 DEF IInv
<1>2. IInv /\ [Next]_vars => IInv'
  <2> SUFFICES ASSUME IInv, [Next]_vars PROVE IInv'
    OBVIOUS
  <2>1. TypeOK' /\ StageOK'
    BY TypesStep DEF IInv
  <2>2. SlotsBounded'
    <3>1. CASE Next
      BY <3>1, SlotsStep DEF IInv
    <3>2. CASE UNCHANGED vars
      BY <3>2 DEF IInv, SlotsBounded, Slots, vars, radioVars, ctlVars, genVars
    <3> QED
      BY <3>1, <3>2
  <2> QED
    BY <2>1, <2>2 DEF IInv
<1> QED
  BY <1>1, <1>2, PTL DEF Spec

\* The node's memory keeps its types.
THEOREM TypesCorrect == Spec => []TypeOK
<1>1. IInv => TypeOK
  BY DEF IInv
<1> QED
  BY NodeInvariant, <1>1, PTL

\* Frames in flight never exceed the window in force.
THEOREM WindowIsRespected == Spec => []WindowRespected
<1>1. IInv => WindowRespected
  BY HarnessAssumption DEF IInv, TypeOK, SlotsBounded, Slots, WindowRespected
<1> QED
  BY NodeInvariant, <1>1, PTL

\* radio_wait_idle is a fence: with all slots in hand nothing is in flight
\* and the generator is not about to send.
THEOREM IdleIsAFence == Spec => []IdleFence
<1>1. IInv => IdleFence
  BY HarnessAssumption DEF IInv, TypeOK, SlotsBounded, Slots, IdleFence
<1> QED
  BY NodeInvariant, <1>1, PTL
-----------------------------------------------------------------------------
(* Facts about the control task and the generator that the results below   *)
(* share.                                                                  *)

\* The control task is in drain_measurement_events, past the wait for the
\* generator.
Draining ==
    \/ ctl_pc \in {"flush", "notify", "report"}
    \/ ctl_pc \in {"idle", "idle_undo", "idle_done"} /\ stage > 0

\* The handle tells whether the task exists; slots are in the control task's
\* hand only within the loops of radio.c; a drain has no generator.
TasksOK ==
    /\ handle <=> gen_pc # "none"
    /\ acquired > 0 => ctl_pc \in {"idle", "idle_undo", "idle_done", "cfg_take", "cfg_give"}
    /\ Draining => ~handle

\* A step of any task keeps them.
LEMMA TasksStep ==
    ASSUME TypeOK, StageOK, TasksOK, Next
    PROVE  TasksOK'
<1> USE HarnessAssumption DEF TasksOK, Draining, TypeOK, StageOK, ctlVars, genVars
<1>1. ASSUME NEW type \in SendStatuses, tx_callback(type) PROVE TasksOK'
  BY <1>1 DEF tx_callback
<1>2. ASSUME NEW f \in AirFrames, rx_callback(f) PROVE TasksOK'
  BY <1>2 DEF rx_callback
<1>3. CASE receiver_task
  BY <1>3 DEF receiver_task, Receive, EchoSend, EchoTimeout
<1>4. CASE radio_wait_idle
  BY <1>4 DEF radio_wait_idle, IdleTake, IdleTimeout, IdleAll, IdleGiveBack, IdleFailed, IdleOk, Reply
<1>5. CASE radio_configure
  BY <1>5 DEF radio_configure, CfgTake, CfgTakeFailed, CfgSwap, CfgGive, CfgPeer, Reply
<1>6. CASE receiver_flush
  BY <1>6 DEF receiver_flush, FlushPost, FlushFull, FlushNotified, FlushTimeout, Reply
<1>7. CASE generator_wait_stopped
  BY <1>7 DEF generator_wait_stopped, WaitStopped, WaitStoppedTimeout, Reply
<1>8. CASE ControlBoot \/ ConfigureCopied \/ ConfigureReset \/ ConfigureDone \/ SendResult
  BY <1>8 DEF ControlBoot, ConfigureCopied, ConfigureReset, ConfigureDone, SendResult, Reply
<1>9. ASSUME NEW c \in HostCommands, DispatchStart(c) PROVE TasksOK'
  BY <1>9 DEF DispatchStart, Fgets, GeneratorStarts, GeneratorStartFails, Reply, Unaffected
<1>10. ASSUME NEW c \in HostCommands, dispatch(c), ~DispatchStart(c) PROVE TasksOK'
  BY <1>10 DEF dispatch, DispatchReadOnly, ConfigureRefused, ConfigureParse, DispatchMismatch,
              DispatchArm, DispatchStop, DispatchResult, Fgets, Reply, Continue, Unaffected
<1>11. CASE generator_task
  BY <1>11 DEF generator_task, GenLoop, GenRequest, GenAcquire, GenSlotTimeout, GenSend,
              GenSubmitted, GenEndTest, GenFinish, GenExit
<1> QED
  BY <1>1, <1>2, <1>3, <1>4, <1>5, <1>6, <1>7, <1>8, <1>9, <1>10, <1>11
  DEF Next, WifiDriver, control_run, ControlWork

\* They hold in every state.
LEMMA TasksInvariant == Spec => []TasksOK
<1>1. Init => TasksOK
  BY DEF Init, TasksOK, Draining
<1>2. IInv /\ TasksOK /\ [Next]_vars => TasksOK'
  <2> SUFFICES ASSUME IInv, TasksOK, [Next]_vars PROVE TasksOK'
    OBVIOUS
  <2>1. CASE Next
    BY <2>1, TasksStep DEF IInv
  <2>2. CASE UNCHANGED vars
    BY <2>2 DEF vars, ctlVars, genVars, TasksOK, Draining
  <2> QED
    BY <2>1, <2>2
<1> QED
  BY NodeInvariant, <1>1, <1>2, PTL DEF Spec
-----------------------------------------------------------------------------
(* No slot is lost either, on a node that is never an echo responder.      *)

\* Nobody makes this node an echo responder.
NoEchoResponder ==
    \A c \in HostCommands : c.cmd = "configure" => c.role # "ROLE_ECHO_RESPONDER"

\* The receiver then takes no slot.
NeverEchoes ==
    /\ g_config.role # "ROLE_ECHO_RESPONDER"
    /\ ctl_pc = "parse" => cmd.role # "ROLE_ECHO_RESPONDER"
    /\ rx_pc = "receive"

\* From the moment radio_wait_idle has all slots until radio_configure has
\* them again nothing is out: the control task does not block in between, so
\* the generator cannot run.
SlotsHome == ctl_pc \in {"idle_done", "cfg_take"} => inflight = 0 /\ gen_pc # "send"

\* The role comes with a configure line and from nowhere else.
LEMMA NeverEchoesStep ==
    ASSUME NoEchoResponder, TypeOK, NeverEchoes, Next
    PROVE  NeverEchoes'
<1> USE DEF NeverEchoes, shared, queueVars, ctlVars
<1>1. ASSUME NEW type \in SendStatuses, tx_callback(type) PROVE NeverEchoes'
  BY <1>1 DEF tx_callback
<1>2. ASSUME NEW f \in AirFrames, rx_callback(f) PROVE NeverEchoes'
  BY <1>2 DEF rx_callback
<1>3. CASE receiver_task
  BY <1>3 DEF receiver_task, Receive, EchoSend, EchoTimeout, ReceiveNote, ReceiveIgnored,
              ReceiveFrame, WantsEcho
<1>4. CASE radio_wait_idle \/ radio_configure \/ receiver_flush \/ generator_wait_stopped
  BY <1>4 DEF radio_wait_idle, IdleTake, IdleTimeout, IdleAll, IdleGiveBack, IdleFailed, IdleOk,
              radio_configure, CfgTake, CfgTakeFailed, CfgSwap, CfgGive, CfgPeer,
              receiver_flush, FlushPost, FlushFull, FlushNotified, FlushTimeout,
              generator_wait_stopped, WaitStopped, WaitStoppedTimeout, Reply
<1>5. CASE ControlBoot \/ ConfigureReset \/ ConfigureDone \/ SendResult
  BY <1>5 DEF ControlBoot, ConfigureReset, ConfigureDone, SendResult, Reply
<1>6. CASE ConfigureCopied
  BY <1>6 DEF ConfigureCopied, TypeOK, Config
<1>7. ASSUME NEW c \in HostCommands, ConfigureParse(c) PROVE NeverEchoes'
  BY <1>7 DEF ConfigureParse, NoEchoResponder, Fgets, Continue, Unaffected, TypeOK, Config
<1>8. ASSUME NEW c \in HostCommands, dispatch(c), ~ConfigureParse(c) PROVE NeverEchoes'
  BY <1>8 DEF dispatch, DispatchReadOnly, ConfigureRefused, DispatchMismatch, DispatchArm,
              DispatchStart, DispatchStop, DispatchResult, GeneratorStarts, GeneratorStartFails,
              Reply, Continue, Unaffected
<1>9. CASE generator_task
  BY <1>9 DEF generator_task, GenLoop, GenRequest, GenAcquire, GenSlotTimeout, GenSend,
              GenSubmitted, GenEndTest, GenFinish, GenExit
<1> QED
  BY <1>1, <1>2, <1>3, <1>4, <1>5, <1>6, <1>7, <1>8, <1>9
  DEF Next, WifiDriver, control_run, ControlWork

\* Slots stay at home while the control task goes from one loop to the next.
LEMMA SlotsHomeStep ==
    ASSUME IInv, NeverEchoes, SlotsHome, Next
    PROVE  SlotsHome'
<1> USE HarnessAssumption DEF SlotsHome, IInv, TypeOK, radioVars, ctlVars, genVars
<1>1. ASSUME NEW type \in SendStatuses, tx_callback(type) PROVE SlotsHome'
  BY <1>1 DEF tx_callback
<1>2. ASSUME NEW f \in AirFrames, rx_callback(f) PROVE SlotsHome'
  BY <1>2 DEF rx_callback
<1>3. CASE receiver_task
  BY <1>3 DEF receiver_task, Receive, EchoSend, EchoTimeout, NeverEchoes
<1>4. CASE IdleAll
  <2>1. inflight = 0 /\ gen_pc # "send"
    BY <1>4 DEF IdleAll, SlotsBounded, Slots
  <2> QED
    BY <1>4, <2>1 DEF IdleAll
<1>5. CASE radio_wait_idle /\ ~IdleAll
  BY <1>5 DEF radio_wait_idle, IdleTake, IdleTimeout, IdleGiveBack, IdleFailed, IdleOk, Reply
<1>6. CASE radio_configure
  BY <1>6 DEF radio_configure, CfgTake, CfgTakeFailed, CfgSwap, CfgGive, CfgPeer, Reply
<1>7. CASE receiver_flush \/ generator_wait_stopped
  BY <1>7 DEF receiver_flush, FlushPost, FlushFull, FlushNotified, FlushTimeout,
              generator_wait_stopped, WaitStopped, WaitStoppedTimeout, Reply
<1>8. CASE ControlBoot \/ ConfigureCopied \/ ConfigureReset \/ ConfigureDone \/ SendResult
  BY <1>8 DEF ControlBoot, ConfigureCopied, ConfigureReset, ConfigureDone, SendResult, Reply
<1>9. ASSUME NEW c \in HostCommands, dispatch(c) PROVE SlotsHome'
  BY <1>9 DEF dispatch, DispatchReadOnly, ConfigureRefused, ConfigureParse, DispatchMismatch,
              DispatchArm, DispatchStart, DispatchStop, DispatchResult, GeneratorStarts,
              GeneratorStartFails, Reply, Continue, Unaffected
<1>10. CASE generator_task
  <2>1. ctl_pc \notin {"idle_done", "cfg_take"}
    BY <1>10 DEF generator_task, GenLoop, GenRequest, GenAcquire, GenSlotTimeout, GenSend,
                 GenSubmitted, GenEndTest, GenFinish, GenExit, GeneratorTurn, ControlBlocked
  <2> QED
    BY <1>10, <2>1 DEF generator_task, GenLoop, GenRequest, GenAcquire, GenSlotTimeout, GenSend,
                 GenSubmitted, GenEndTest, GenFinish, GenExit
<1> QED
  BY <1>1, <1>2, <1>3, <1>4, <1>5, <1>6, <1>7, <1>8, <1>9, <1>10
  DEF Next, WifiDriver, control_run, ControlWork

\* Every take has its give, on the error paths too: the one that would forget
\* its slots, CfgTakeFailed, finds all of them.
LEMMA NoLeakStep ==
    ASSUME IInv, TasksOK, NeverEchoes, SlotsHome, NoSlotLeak, Next
    PROVE  NoSlotLeak'
<1> USE HarnessAssumption DEF NoSlotLeak, Slots, IInv, TypeOK, radioVars, ctlVars, genVars
<1>1. ASSUME NEW type \in SendStatuses, tx_callback(type) PROVE NoSlotLeak'
  BY <1>1 DEF tx_callback, xSemaphoreGive
<1>2. ASSUME NEW f \in AirFrames, rx_callback(f) PROVE NoSlotLeak'
  BY <1>2 DEF rx_callback
<1>3. CASE receiver_task
  BY <1>3 DEF receiver_task, Receive, EchoSend, EchoTimeout, NeverEchoes
<1>4. CASE IdleTake \/ CfgTake
  BY <1>4 DEF IdleTake, CfgTake, xSemaphoreTake
<1>5. CASE IdleGiveBack \/ CfgGive
  <2>1. /\ acquired > 0 /\ acquired' = acquired - 1 /\ xSemaphoreGive
        /\ UNCHANGED <<current_tx_window, inflight, gen_pc>>
    BY <1>5 DEF IdleGiveBack, CfgGive
  <2>2. tx_ready' = tx_ready + 1
    BY <2>1 DEF xSemaphoreGive
  <2> QED
    BY <2>1, <2>2
<1>6. CASE IdleTimeout \/ IdleAll \/ IdleFailed \/ IdleOk \/ CfgPeer
  BY <1>6 DEF IdleTimeout, IdleAll, IdleFailed, IdleOk, CfgPeer
<1>7. CASE CfgTakeFailed
  BY <1>7 DEF CfgTakeFailed, SlotsHome
<1>8. CASE CfgSwap
  BY <1>8, g_config.tx_window \in 1..MaxWindow DEF CfgSwap, SlotsHome, SlotsBounded, Config
<1>9. CASE receiver_flush \/ generator_wait_stopped
  BY <1>9 DEF receiver_flush, FlushPost, FlushFull, FlushNotified, FlushTimeout,
              generator_wait_stopped, WaitStopped, WaitStoppedTimeout
<1>10. CASE ControlBoot \/ ConfigureCopied \/ ConfigureReset \/ ConfigureDone \/ SendResult
  BY <1>10 DEF ControlBoot, ConfigureCopied, ConfigureReset, ConfigureDone, SendResult
<1>11. ASSUME NEW c \in HostCommands, dispatch(c) PROVE NoSlotLeak'
  <2>1. UNCHANGED <<tx_ready, current_tx_window, inflight, acquired>>
    BY <1>11 DEF dispatch, DispatchReadOnly, ConfigureRefused, ConfigureParse, DispatchMismatch,
                 DispatchArm, DispatchStart, DispatchStop, DispatchResult, Unaffected
  <2>2. UNCHANGED gen_pc \/ (~handle /\ gen_pc' = "loop")
    BY <1>11 DEF dispatch, DispatchReadOnly, ConfigureRefused, ConfigureParse, DispatchMismatch,
                 DispatchArm, DispatchStart, DispatchStop, DispatchResult, GeneratorStarts,
                 GeneratorStartFails
  <2>3. ~handle => gen_pc = "none"
    BY DEF TasksOK
  <2> QED
    BY <2>1, <2>2, <2>3
<1>12. CASE GenAcquire
  BY <1>12 DEF GenAcquire, xSemaphoreTake
<1>13. CASE GenSend
  BY <1>13 DEF GenSend, xSemaphoreGive
<1>14. CASE GenLoop \/ GenRequest \/ GenSlotTimeout \/ GenSubmitted \/ GenEndTest \/ GenFinish \/ GenExit
  BY <1>14 DEF GenLoop, GenRequest, GenSlotTimeout, GenSubmitted, GenEndTest, GenFinish, GenExit
<1> QED
  BY <1>1, <1>2, <1>3, <1>4, <1>5, <1>6, <1>7, <1>8, <1>9, <1>10, <1>11, <1>12, <1>13, <1>14
  DEF Next, WifiDriver, control_run, ControlWork, radio_wait_idle, radio_configure, generator_task

\* A generator or sink keeps every slot of its window, at any tick rate and
\* whatever fails: radio_configure's take without timeout, which would lose
\* slots, never fails there.  (With an echo responder it does: slot_leak.)
THEOREM NoSlotIsLost ==
    ASSUME NoEchoResponder
    PROVE  Spec => []NoSlotLeak
<1>1. Init => NeverEchoes /\ SlotsHome /\ NoSlotLeak
  BY DEF Init, NeverEchoes, SlotsHome, NoSlotLeak, Slots
<1>2. IInv /\ TasksOK /\ NeverEchoes /\ SlotsHome /\ NoSlotLeak /\ [Next]_vars
      => (NeverEchoes /\ SlotsHome /\ NoSlotLeak)'
  <2> SUFFICES ASSUME IInv, TasksOK, NeverEchoes, SlotsHome, NoSlotLeak, [Next]_vars
               PROVE  (NeverEchoes /\ SlotsHome /\ NoSlotLeak)'
    OBVIOUS
  <2>1. CASE Next
    BY <2>1, NeverEchoesStep, SlotsHomeStep, NoLeakStep DEF IInv
  <2>2. CASE UNCHANGED vars
    BY <2>2 DEF vars, shared, radioVars, queueVars, ctlVars, genVars,
                NeverEchoes, SlotsHome, NoSlotLeak, Slots
  <2> QED
    BY <2>1, <2>2
<1> QED
  BY NodeInvariant, TasksInvariant, <1>1, <1>2, PTL DEF Spec
=============================================================================
