-------------------------- MODULE RadioSetupProofs --------------------------
(***************************************************************************)
(* The three invariants of RadioSetup, for every set of configurations and *)
(* any number of starts.  SetupInv says how far each chain of calls is.    *)
(***************************************************************************)
EXTENDS RadioSetup, TLAPS

Measuring == {"CONFIGURED", "ARMED", "RUNNING", "FINISHED"}

\* Types of the node's state; at counts calls.
SetupTypeOK ==
    /\ g_state \in {"BOOT", "IDLE", "ERROR"} \cup Measuring
    /\ pc \in {"receiver_start", "radio_init", "control", "fgets", "configure", "panic"}
    /\ at \in Nat \ {0} /\ g_config \in Nat /\ boots \in Nat
    /\ queue \in BOOLEAN /\ tx_ready \in BOOLEAN
    /\ callbacks \subseteq {"send_cb", "recv_cb"}
    /\ applied \in [1..8 -> Nat] /\ peers \subseteq Nat

\* How far the start has come, and what a state of the node promises.
Started ==
    /\ pc # "receiver_start" => queue
    /\ pc \in {"receiver_start", "radio_init"} => g_state = "BOOT"
    /\ pc = "receiver_start" => at = 1 /\ ~tx_ready /\ callbacks = {}
    /\ pc = "radio_init" =>
        /\ at \in 1..12
        /\ tx_ready <=> at > 9
        /\ "send_cb" \in callbacks <=> at > 10
        /\ "recv_cb" \in callbacks <=> at > 11
    /\ pc = "control" =>
        /\ g_state \in {"BOOT", "ERROR"}
        /\ g_state = "BOOT" => tx_ready /\ callbacks = {"send_cb", "recv_cb"}
    /\ pc = "fgets" => g_state # "BOOT"
    /\ pc = "configure" => g_state \notin {"BOOT", "ARMED", "RUNNING"} /\ tx_ready
    /\ callbacks # {} => tx_ready
    /\ g_state = "IDLE" => queue /\ tx_ready /\ callbacks = {"send_cb", "recv_cb"}
    /\ g_state \in Measuring => queue /\ tx_ready

\* Setting i is as the configuration in force wants it.
SetAs(i) == applied[i] = g_config \/ (i = 6 /\ g_config \notin Encrypted)

\* How far radio_configure has come.
Configuring ==
    pc = "configure" =>
        /\ at \in 1..9
        /\ \A i \in 1..8 : i < at => SetAs(i)
        /\ peers = IF at > 7 THEN {g_config} ELSE {}

SetupInv == SetupTypeOK /\ Started /\ Configuring /\ RadioAsConfigured
-----------------------------------------------------------------------------
\* The sixth call of radio_configure is the one that may be skipped.
LEMMA SettingNames ==
    /\ Len(Settings) = 8 /\ DOMAIN Settings = 1..8
    /\ \A i \in 1..8 : (Settings[i] = "pmk" <=> i = 6) /\ (Settings[i] = "peer" <=> i = 7)
  BY DEF Settings

\* The last three calls of radio_init make the semaphore and the callbacks.
LEMMA InitNames ==
    /\ Len(InitCalls) = 11
    /\ \A i \in 1..11 :
        /\ InitCalls[i] = "tx_ready" <=> i = 9
        /\ InitCalls[i] = "send_cb" <=> i = 10
        /\ InitCalls[i] = "recv_cb" <=> i = 11
  BY DEF InitCalls

\* Power-up satisfies the invariant.
LEMMA SetupInit == Init => SetupInv
<1> SUFFICES ASSUME Init PROVE SetupInv
  OBVIOUS
<1>1. applied \in [1..8 -> Nat]
  BY SettingNames DEF Init
<1>2. SetupTypeOK
  <2>1. queue \in BOOLEAN /\ tx_ready \in BOOLEAN
    BY Zenon DEF Init
  <2>2. g_state \in {"BOOT", "IDLE", "ERROR"} \cup Measuring
    BY DEF Init
  <2>3. callbacks = {} /\ peers = {}
    BY DEF Init
  <2> QED
    BY <1>1, <2>1, <2>2, <2>3 DEF Init, SetupTypeOK
<1>3. Started
  BY DEF Init, Started, Measuring
<1> QED
  BY <1>2, <1>3 DEF Init, SetupInv, Configuring, RadioAsConfigured

\* Every call, failure and command keeps it.
LEMMA SetupStep == SetupInv /\ [Next]_vars => SetupInv'
<1> SUFFICES ASSUME SetupInv, [Next]_vars PROVE SetupInv'
  OBVIOUS
<1> USE SetupAssumption DEF SetupInv, SetupTypeOK, Started, Configuring, SetAs, Measuring, radio
<1>1. CASE receiver_start
  BY <1>1 DEF receiver_start, RadioAsConfigured
<1>2. CASE InitCall
  <2>1. at \in 1..11 /\ at' = at + 1
    BY <1>2, InitNames DEF InitCall
  <2>2. callbacks' \subseteq {"send_cb", "recv_cb"}
    BY <1>2 DEF InitCall
  <2>3. /\ tx_ready' <=> (tx_ready \/ at = 9)
        /\ "send_cb" \in callbacks' <=> ("send_cb" \in callbacks \/ at = 10)
        /\ "recv_cb" \in callbacks' <=> ("recv_cb" \in callbacks \/ at = 11)
    <3>1. /\ tx_ready' <=> (tx_ready \/ InitCalls[at] = "tx_ready")
          /\ "send_cb" \in callbacks' <=> ("send_cb" \in callbacks \/ InitCalls[at] = "send_cb")
          /\ "recv_cb" \in callbacks' <=> ("recv_cb" \in callbacks \/ InitCalls[at] = "recv_cb")
      BY <1>2, Zenon DEF InitCall
    <3> QED
      BY <3>1, <2>1, InitNames
  <2>4. /\ tx_ready' <=> at' > 9
        /\ "send_cb" \in callbacks' <=> at' > 10
        /\ "recv_cb" \in callbacks' <=> at' > 11
    BY <1>2, <2>1, <2>3, SMTT(60) DEF InitCall
  <2>5. callbacks' # {} => tx_ready'
    <3>1. callbacks' # {} => "send_cb" \in callbacks' \/ "recv_cb" \in callbacks'
      BY <2>2
    <3> QED
      BY <3>1, <2>1, <2>4
  <2> QED
    BY <1>2, <2>1, <2>2, <2>4, <2>5, SMTT(60) DEF InitCall, RadioAsConfigured
<1>3. CASE InitFails
  BY <1>3 DEF InitFails, RadioAsConfigured
<1>4. CASE InitDone
  <2>1. at = 12
    BY <1>4, InitNames DEF InitDone
  <2>2. callbacks = {"send_cb", "recv_cb"}
    <3>1. "send_cb" \in callbacks /\ "recv_cb" \in callbacks
      BY <1>4, <2>1 DEF InitDone
    <3> QED
      BY <3>1
  <2> QED
    BY <1>4, <2>1, <2>2 DEF InitDone, RadioAsConfigured
<1>5. CASE control_run
  BY <1>5 DEF control_run, RadioAsConfigured
<1>6. ASSUME NEW c \in Configs, Configure(c) PROVE SetupInv'
  <2>1. c \in Nat
    BY <1>6
  <2>2. CASE ~tx_ready
    <3>1. pc' = "panic" /\ UNCHANGED peers
      BY <1>6, <2>2 DEF Configure
    <3>2. SetupTypeOK'
      BY <1>6, <2>1, <3>1 DEF Configure
    <3>3. Started'
      BY <1>6, <3>1 DEF Configure
    <3> QED
      BY <3>1, <3>2, <3>3 DEF RadioAsConfigured
  <2>3. CASE tx_ready
    BY <1>6, <2>1, <2>3 DEF Configure, RadioAsConfigured
  <2> QED
    BY <2>2, <2>3
<1>7. ASSUME NEW c \in Configs, ConfigureBusy(c) PROVE SetupInv'
  BY <1>7 DEF ConfigureBusy, RadioAsConfigured
<1>8. CASE SettingApplied
  <2>1. at \in 1..8 /\ at' = at + 1 /\ pc = "configure" /\ pc' = "configure"
    BY <1>8, SettingNames DEF SettingApplied
  <2>2. applied' \in [1..8 -> Nat] /\ peers' \subseteq Nat
    BY <1>8, <2>1 DEF SettingApplied
  <2>3. \A i \in 1..8 : i < at' => SetAs(i)'
    BY <1>8, <2>1, SettingNames DEF SettingApplied, Skipped
  <2>4. peers' = IF at' > 7 THEN {g_config} ELSE {}
    <3>1. peers' = IF at = 7 THEN peers \cup {g_config} ELSE peers
      BY <1>8, <2>1, SettingNames DEF SettingApplied
    <3>2. peers = IF at > 7 THEN {g_config} ELSE {}
      BY <2>1
    <3> QED
      BY <2>1, <3>1, <3>2
  <2> QED
    <3>1. SetupTypeOK'
      BY <1>8, <2>1, <2>2, SMTT(60) DEF SettingApplied
    <3>2. Started'
      BY <1>8, <2>1 DEF SettingApplied
    <3>3. Configuring'
      <4>1. at' \in 1..9
        BY <2>1
      <4>2. peers' = IF at' > 7 THEN {g_config'} ELSE {}
        BY <1>8, <2>4, Zenon DEF SettingApplied
      <4> QED
        BY <4>1, <4>2, <2>3
    <3> QED
      BY <2>1, <3>1, <3>2, <3>3 DEF RadioAsConfigured
<1>9. CASE SettingFails
  BY <1>9 DEF SettingFails, RadioAsConfigured
<1>10. CASE Configured
  <2>1. at = 9 /\ pc = "configure"
    BY <1>10, SettingNames DEF Configured
  <2>2. RadioAsConfigured'
    BY <1>10, <2>1, SettingNames DEF Configured, RadioAsConfigured
  <2> QED
    BY <1>10, <2>1, <2>2 DEF Configured
<1>11. CASE Arm
  BY <1>11 DEF Arm, RadioAsConfigured
<1>12. CASE Start
  BY <1>12 DEF Start, RadioAsConfigured
<1>13. CASE Stop
  BY <1>13 DEF Stop, RadioAsConfigured
<1>14. CASE Reboot
  <2>1. applied' \in [1..8 -> Nat]
    BY <1>14, SettingNames DEF Reboot
  <2>2. SetupTypeOK'
    <3>1. queue' \in BOOLEAN /\ tx_ready' \in BOOLEAN
      BY <1>14, Zenon DEF Reboot
    <3> QED
      BY <1>14, <2>1, <3>1 DEF Reboot
  <2>3. Started'
    BY <1>14 DEF Reboot
  <2> QED
    BY <1>14, <2>2, <2>3 DEF Reboot, RadioAsConfigured
<1>15. CASE UNCHANGED vars
  BY <1>15 DEF vars, RadioAsConfigured
<1> QED
  BY <1>1, <1>2, <1>3, <1>4, <1>5, <1>6, <1>7, <1>8, <1>9, <1>10, <1>11, <1>12, <1>13, <1>14,
     <1>15 DEF Next

\* SetupInv holds in every state.
LEMMA SetupHolds == Spec => []SetupInv
  BY SetupInit, SetupStep, PTL DEF Spec
-----------------------------------------------------------------------------
\* No callback of the driver finds the queue or the semaphore missing, at any
\* point of the initialisation and after any failure of it.
THEOREM CallbacksAreSafe == Spec => []CallbacksSafe
<1>1. SetupInv => CallbacksSafe
  BY DEF SetupInv, SetupTypeOK, Started, CallbacksSafe
<1> QED
  BY SetupHolds, <1>1, PTL

\* Whatever configurations failed half-way before, a node that measures has
\* every setting and the only peer from the configuration in force.
THEOREM RadioIsAsConfigured == Spec => []RadioAsConfigured
<1>1. SetupInv => RadioAsConfigured
  BY DEF SetupInv
<1> QED
  BY SetupHolds, <1>1, PTL

\* IDLE promises an initialised radio.
THEOREM IdleIsInitialised == Spec => []IdleMeansInitialised
<1>1. SetupInv => IdleMeansInitialised
  BY DEF SetupInv, SetupTypeOK, Started, IdleMeansInitialised, Measuring
<1> QED
  BY SetupHolds, <1>1, PTL
=============================================================================
