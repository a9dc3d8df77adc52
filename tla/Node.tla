-------------------------------- MODULE Node --------------------------------
(***************************************************************************)
(* One node: the four tasks on one core, a client on the serial port and   *)
(* the air.  The properties are about what the measurement promises while  *)
(* tasks preempt each other, callbacks are late and waits time out.        *)
(***************************************************************************)
EXTENDS Control

\* app_main has created the queue, the semaphore with one slot and the tasks.
Init ==
    /\ g_state = "BOOT"
    /\ g_config = [run_id |-> 0, role |-> "ROLE_NONE", tx_window |-> 1]
    /\ metrics = ZeroMetrics /\ measured = {}
    /\ tx_ready = 1 /\ current_tx_window = 1 /\ inflight = 0
    /\ queue = <<>> /\ rx_pc = "receive" /\ notified = 0
    /\ ctl_pc = "boot" /\ cmd = NoCommand /\ stage = 0 /\ acquired = 0
    /\ reply = "none"
    /\ gen_pc = "none" /\ handle = FALSE /\ gen_left = 0 /\ gen_run = 0
    /\ excuse = {}

WifiDriver ==
    \/ \E type \in SendStatuses : tx_callback(type)
    \/ \E f \in AirFrames : rx_callback(f)

Next == WifiDriver \/ receiver_task \/ control_run \/ generator_task

Spec == Init /\ [][Next]_vars

(***************************************************************************)
(* Each firmware task makes progress when the scheduler lets it.  The      *)
(* receiver is always let; the others only if it falls idle again and      *)
(* again, which a peer that floods the node could prevent and no code      *)
(* here rules out: it is an assumption about the load.  The generator also *)
(* needs the control task blocked again and again, which it is while it    *)
(* waits for a line: SF says that the client leaves pauses in which the    *)
(* generator gets its steps done.  Nothing is assumed of send callbacks.   *)
(***************************************************************************)
ReceiverKeepsUp == []<>(~ReceiverReady)

FairSpec ==
    /\ Spec
    /\ ReceiverKeepsUp
    /\ WF_vars(receiver_task)
    /\ SF_vars(ControlWork)
    /\ SF_vars(generator_task)
-----------------------------------------------------------------------------
CtlPcs == {"boot", "fgets", "parse", "idle", "idle_undo", "idle_done", "cfg_take", "cfg_give",
           "cfg_reset", "cfg_done", "wait_gen", "flush", "notify", "report"}
GenPcs == {"none", "loop", "wait", "acquire", "send", "submitted", "end", "finish", "exit"}
Replies == {"none", "ok", "bad_request", "invalid_state", "invalid_config", "radio_config",
            "run_id_mismatch", "generator_start", "drain_timeout"}

\* Types of the node's memory.
TypeOK ==
    /\ g_state \in States
    /\ g_config \in Config
    /\ metrics \in [Counters -> Nat]
    /\ measured \subseteq RunIds \cup {0}
    /\ tx_ready \in Nat /\ current_tx_window \in 1..MaxWindow /\ inflight \in Nat
    /\ queue \in Seq(Event) /\ Len(queue) <= QueueLength
    /\ rx_pc \in {"receive", "acquire"} /\ notified \in Nat
    /\ ctl_pc \in CtlPcs /\ cmd \in Command \cup {NoCommand}
    /\ stage \in 0..5 /\ acquired \in Nat
    /\ reply \in Replies
    /\ gen_pc \in GenPcs /\ handle \in BOOLEAN
    /\ gen_left \in Nat /\ gen_run \in RunIds \cup {0}
    /\ excuse \subseteq Excuses

\* receiver_flush is called at the odd steps of a drain, radio_wait_idle at
\* the even ones and from configure.
StageOK ==
    /\ ctl_pc \in {"idle", "idle_undo", "idle_done"} => stage \in {0, 2, 4}
    /\ ctl_pc \in {"flush", "notify"} => stage \in {1, 3, 5}

\* Slots known to somebody: free, in flight, in the control task's hand or
\* between acquire and send in the generator.
Slots == tx_ready + inflight + acquired + (IF gen_pc = "send" THEN 1 ELSE 0)

\* No slot is invented: counted over all hands there are never more of them
\* than the window in force (radio.c, every take and give of tx_ready).
SlotsBounded == Slots <= current_tx_window

\* The inductive invariant: it implies WindowRespected and IdleFence.
IInv == TypeOK /\ StageOK /\ SlotsBounded

\* Frames accepted by the driver and not yet called back never exceed the
\* configured window, also while radio_configure exchanges the window and
\* the other tasks keep sending (radio.c radio_configure, radio_acquire_tx).
WindowRespected == inflight <= current_tx_window

\* When radio_wait_idle has collected all slots, no callback is outstanding
\* and no task stands between its slot and esp_now_send.
IdleFence ==
    (ctl_pc = "idle" /\ acquired >= current_tx_window) => (inflight = 0 /\ gen_pc # "send")

\* No slot gets lost either, so the window a client configured stays usable
\* (radio.c: every slot taken comes back, on the error paths too).
NoSlotLeak == Slots = current_tx_window

Completed == metrics["send_cb_success"] + metrics["send_cb_failure"]

\* Every request was submitted, refused or timed out, and every submitted
\* frame has its completion, or that completion is a visible queue drop.
BooksBalance ==
    /\ inflight = 0
    /\ metrics["tx_requested"] = metrics["tx_submitted"] + metrics["send_api_failure"]
                                  + metrics["tx_slot_timeout"]
    /\ Completed <= metrics["tx_submitted"]
    /\ metrics["tx_submitted"] <= Completed + metrics["queue_drops"]

\* What a result reports adds up once the double fence of
\* drain_measurement_events is passed (control.c), whatever was in the queue,
\* in the air or in the generator's hands when the drain began, and although
\* the barrier of a flush that timed out may satisfy a later flush.
FencedResult == (ctl_pc = "report" /\ excuse \subseteq {"abandoned"}) => BooksBalance

\* A result counts no more completions than submissions: callbacks of frames
\* sent before metrics_reset belong to no run that starts after it.
OwnCompletions ==
    (ctl_pc = "report" /\ "late_frame" \notin excuse) => Completed <= metrics["tx_submitted"]

\* A result holds frames of its own run only, the receiver's and the
\* generator's (control.c dispatch, receiver.c receiver_task), unless a drain
\* gave up on a generator and a client went on all the same.
OwnRunReported ==
    (ctl_pc = "report" /\ "abandoned" \notin excuse) => measured \subseteq {g_config.run_id}

\* The same without the exception, as the README puts it: stale frames never
\* enter current-run measurements.
NoStaleFrames == ctl_pc = "report" => measured \subseteq {g_config.run_id}

\* The generator's last write to g_state (generator.c) ends its own run: it
\* never finishes a run that was configured or armed after it, nor hides an
\* ERROR, unless a drain gave up on it before.
GeneratorEndsOwnRun ==
    [][gen_pc = "finish" /\ gen_pc' = "exit" /\ "abandoned" \notin excuse
         => g_state \in {"RUNNING", "FINISHED"}]_vars

\* State transitions are explicit, as the README draws them: only a node
\* that was RUNNING becomes FINISHED by itself, without a command.
OnlyRunsFinish ==
    [][(g_state' = "FINISHED" /\ g_state # "FINISHED" /\ ctl_pc' = ctl_pc) => g_state = "RUNNING"]_vars

\* Every command is answered, whatever the driver does with its callbacks
\* and however the tasks' waits interlock.
CommandAnswered == ctl_pc # "fgets" ~> ctl_pc = "fgets"

\* A generator whose run is over ends: it is not left waiting for a slot.
GeneratorEnds == (handle /\ g_state = "FINISHED") ~> ~handle
-----------------------------------------------------------------------------
\* The node as a client sees it.  g_config is replaced member by member
\* while ctl_pc is "parse"; the client cannot tell.
Protocol ==
    INSTANCE NodeProtocol WITH
        Lines <- HostCommands,
        node <- [state      |-> g_state,
                 run_id     |-> g_config.run_id,
                 role       |-> IF ctl_pc = "parse" THEN cmd.role ELSE g_config.role,
                 generator  |-> CASE ~handle -> "none"
                                  [] handle /\ gen_pc = "exit" -> "ending"
                                  [] OTHER -> "sending",
                 gen_run    |-> gen_run,
                 busy       |-> CASE ctl_pc = "boot" -> "boot"
                                  [] ctl_pc = "fgets" -> "none"
                                  [] OTHER -> cmd.cmd,
                 reply      |-> reply]

\* Whatever the tasks do in between, the node answers commands and changes
\* state as the control protocol says: each transition belongs to a command
\* accepted in that state or to the end of a generator, which can only be
\* alive where a run was started and no drain has succeeded since, and a
\* command whose drain succeeded has left no generator behind (control.c
\* dispatch, generator.c generator_task).
KeepsProtocol == Protocol!Spec
=============================================================================
