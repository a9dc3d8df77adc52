----------------------------- MODULE RadioSetup -----------------------------
(***************************************************************************)
(* From power-up to a configured radio: app_main, radio_init and           *)
(* radio_configure as the chains of calls they are, each of which may      *)
(* fail and leave the ones before it done.  A node whose radio_init failed *)
(* is in ERROR, where it takes commands all the same.                      *)
(***************************************************************************)
EXTENDS Naturals, Sequences

CONSTANTS
    Configs,      \* configurations a client may ask for, by number
    Encrypted,    \* those with encryption
    MaxBoots      \* bound: times the node starts

ASSUME SetupAssumption ==
    Configs \subseteq Nat \ {0} /\ Encrypted \subseteq Configs /\ MaxBoots \in Nat \ {0}

VARIABLES
    g_state, g_config,
    pc,           \* "receiver_start", "radio_init", "control", "fgets", "configure", "panic"
    at,           \* the call radio_init or radio_configure is at
    queue,        \* the receiver's queue exists
    tx_ready,     \* the semaphore exists
    callbacks,    \* callbacks the driver calls
    applied,      \* for each setting of the radio, the configuration it is from
    peers,        \* peers the driver knows, by their configuration
    boots

vars == <<g_state, g_config, pc, at, queue, tx_ready, callbacks, applied, peers, boots>>
radio == <<queue, tx_ready, callbacks, applied, peers>>

\* Mutant: the callback is registered before the semaphore it gives exists.
Mut_CallbackFirst ==
    <<"netif", "event_loop", "wifi_init", "storage", "mode", "wifi_start", "ps", "now_init",
      "send_cb", "tx_ready", "recv_cb">>

\* The calls of radio_init.  The first two may find their work done before.
InitCalls ==
    <<"netif", "event_loop", "wifi_init", "storage", "mode", "wifi_start", "ps", "now_init",
      "tx_ready", "send_cb", "recv_cb">>

\* The calls of radio_configure behind radio_wait_idle and the new window.
Settings == <<"country", "band", "channel", "power", "ps", "pmk", "peer", "rate">>

Init ==
    /\ g_state = "BOOT" /\ g_config = 0 /\ pc = "receiver_start" /\ at = 1
    /\ queue = FALSE /\ tx_ready = FALSE /\ callbacks = {}
    /\ applied = [i \in DOMAIN Settings |-> 0] /\ peers = {}
    /\ boots = 1
-----------------------------------------------------------------------------
(* app_main                                                                *)

receiver_start ==
    /\ pc = "receiver_start"
    /\ queue' = TRUE /\ pc' = "radio_init"
    /\ UNCHANGED <<g_state, g_config, at, tx_ready, callbacks, applied, peers, boots>>

InitCall ==
    /\ pc = "radio_init" /\ at <= Len(InitCalls)
    /\ at' = at + 1
    /\ tx_ready' = (tx_ready \/ InitCalls[at] = "tx_ready")
    /\ callbacks' = callbacks \cup ({InitCalls[at]} \cap {"send_cb", "recv_cb"})
    /\ UNCHANGED <<g_state, g_config, pc, queue, applied, peers, boots>>

\* The static semaphore cannot fail.
InitFails ==
    /\ pc = "radio_init" /\ at <= Len(InitCalls) /\ InitCalls[at] # "tx_ready"
    /\ g_state' = "ERROR" /\ pc' = "control"
    /\ UNCHANGED <<g_config, at, radio, boots>>

InitDone ==
    /\ pc = "radio_init" /\ at > Len(InitCalls)
    /\ pc' = "control"
    /\ UNCHANGED <<g_state, g_config, at, radio, boots>>

control_run ==
    /\ pc = "control" /\ pc' = "fgets"
    /\ g_state' = IF g_state = "BOOT" THEN "IDLE" ELSE g_state
    /\ UNCHANGED <<g_config, at, radio, boots>>
-----------------------------------------------------------------------------
(* Commands.                                                               *)

\* radio_wait_idle takes tx_ready, which must exist: FreeRTOS asserts that.
Configure(c) ==
    /\ pc = "fgets" /\ g_state \notin {"RUNNING", "ARMED"}
    /\ g_config' = c /\ at' = 1
    /\ \/ ~tx_ready /\ pc' = "panic" /\ UNCHANGED peers
       \/ tx_ready /\ pc' = "configure" /\ peers' = {}
    /\ UNCHANGED <<g_state, queue, tx_ready, callbacks, applied, boots>>

\* The slots did not come back: nothing is touched.
ConfigureBusy(c) ==
    /\ pc = "fgets" /\ g_state \notin {"RUNNING", "ARMED"} /\ tx_ready
    /\ g_config' = c /\ g_state' = "ERROR"
    /\ UNCHANGED <<pc, at, radio, boots>>

\* esp_now_set_pmk is for encrypted configurations only.
Skipped == at <= Len(Settings) /\ Settings[at] = "pmk" /\ g_config \notin Encrypted

SettingApplied ==
    /\ pc = "configure" /\ at <= Len(Settings)
    /\ at' = at + 1
    /\ applied' = IF Skipped THEN applied ELSE [applied EXCEPT ![at] = g_config]
    /\ peers' = IF Settings[at] = "peer" THEN peers \cup {g_config} ELSE peers
    /\ UNCHANGED <<g_state, g_config, pc, queue, tx_ready, callbacks, boots>>

\* Mutant: an error of a setting is not looked at.
Mut_ErrorIgnored ==
    /\ pc = "configure" /\ at <= Len(Settings) /\ ~Skipped
    /\ at' = at + 1
    /\ UNCHANGED <<g_state, g_config, pc, radio, boots>>

SettingFails ==
    /\ pc = "configure" /\ at <= Len(Settings) /\ ~Skipped
    /\ g_state' = "ERROR" /\ pc' = "fgets"
    /\ UNCHANGED <<g_config, at, radio, boots>>

Configured ==
    /\ pc = "configure" /\ at > Len(Settings)
    /\ g_state' = "CONFIGURED" /\ pc' = "fgets"
    /\ UNCHANGED <<g_config, at, radio, boots>>

Arm ==
    /\ pc = "fgets" /\ g_state = "CONFIGURED" /\ g_state' = "ARMED"
    /\ UNCHANGED <<g_config, pc, at, radio, boots>>

Start ==
    /\ pc = "fgets" /\ g_state = "ARMED" /\ g_state' = "RUNNING"
    /\ UNCHANGED <<g_config, pc, at, radio, boots>>

\* stop drains in every state, and a drain waits for the slots.
Stop ==
    /\ pc = "fgets"
    /\ g_state' = IF g_state \in {"RUNNING", "ARMED"} THEN "FINISHED" ELSE g_state
    /\ pc' = IF tx_ready THEN "fgets" ELSE "panic"
    /\ UNCHANGED <<g_config, at, radio, boots>>

\* CONFIG_ESP_SYSTEM_PANIC_PRINT_REBOOT, or the power fails.
Reboot ==
    /\ boots < MaxBoots /\ boots' = boots + 1
    /\ g_state' = "BOOT" /\ g_config' = 0 /\ pc' = "receiver_start" /\ at' = 1
    /\ queue' = FALSE /\ tx_ready' = FALSE /\ callbacks' = {}
    /\ applied' = [i \in DOMAIN Settings |-> 0] /\ peers' = {}

Next ==
    \/ receiver_start \/ InitCall \/ InitFails \/ InitDone \/ control_run
    \/ \E c \in Configs : Configure(c) \/ ConfigureBusy(c)
    \/ SettingApplied \/ SettingFails \/ Configured \/ Arm \/ Start \/ Stop \/ Reboot

Spec == Init /\ [][Next]_vars
-----------------------------------------------------------------------------
\* A callback of the driver finds the queue and the semaphore it uses, at any
\* point of the initialisation and after any failure of it (app_main.c,
\* radio.c radio_init).
CallbacksSafe == callbacks # {} => queue /\ tx_ready

\* In a state that measures, the whole radio is set as the configuration in
\* force says, with its peer and no other, although configurations may have
\* failed half-way before (radio.c radio_configure, control.c configure).
RadioAsConfigured ==
    pc = "fgets" /\ g_state \in {"CONFIGURED", "ARMED", "RUNNING", "FINISHED"} =>
        /\ peers = {g_config}
        /\ \A i \in DOMAIN Settings :
              applied[i] = g_config \/ (Settings[i] = "pmk" /\ g_config \notin Encrypted)

\* A node that calls itself idle has everything its commands need; one that
\* measures has a queue and a semaphore.
IdleMeansInitialised ==
    /\ pc = "fgets" /\ g_state = "IDLE" => queue /\ tx_ready /\ callbacks = {"send_cb", "recv_cb"}
    /\ g_state \in {"CONFIGURED", "ARMED", "RUNNING", "FINISHED"} => queue /\ tx_ready

\* configure is answered in IDLE, CONFIGURED, FINISHED and ERROR: no command
\* makes the node panic.
ConfigureAnswered == pc # "panic"
=============================================================================
