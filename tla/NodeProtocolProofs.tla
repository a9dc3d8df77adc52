------------------------- MODULE NodeProtocolProofs -------------------------
(***************************************************************************)
(* Proofs about what a client of the node relies on, in two parts.         *)
(*                                                                         *)
(* What a result reports adds up (FencedResult), for any window, queue     *)
(* length and tick rate.  Two facts carry it.  The books: requests and     *)
(* completions are conserved from one metrics_reset to the next, counted   *)
(* over the counters, the driver, the queue and the tasks in the middle of *)
(* a send.  The fence: when the second radio_wait_idle of a drain takes    *)
(* its last slot, the receiver, of higher priority, has emptied the queue  *)
(* and waits for nothing, and from then on only barriers are queued, or a  *)
(* late frame that the report is excused for.                              *)
(*                                                                         *)
(* At any tick rate the node implements the control protocol NodeProtocol. *)
(* A result holds frames of its own run only, and the generator ends no    *)
(* run but its own, unless a drain timed out with the generator alive and  *)
(* the client went on: the one fact both rest on is that a generator no    *)
(* drain has given up on sees its run RUNNING, or FINISHED by a stop that  *)
(* is still waiting for it.                                                *)
(***************************************************************************)
EXTENDS NodeProofs, FiniteSetTheorems

TxTypes == {"EV_TX_OK", "EV_TX_FAIL"}

\* The places of send completions in a queue, and their number.
TxPlaces(q) == {i \in 1..Len(q) : q[i].type \in TxTypes}
TxIn(q) == Cardinality(TxPlaces(q))

One(condition) == IF condition THEN 1 ELSE 0

\* A queue holds finitely many of them.
LEMMA TxFinite ==
    ASSUME NEW q \in Seq(Event)
    PROVE  IsFiniteSet(TxPlaces(q)) /\ TxIn(q) \in Nat
<1>1. IsFiniteSet(1..Len(q))
  BY FS_Interval
<1>2. TxPlaces(q) \in SUBSET (1..Len(q))
  BY DEF TxPlaces
<1>3. IsFiniteSet(TxPlaces(q))
  BY <1>1, <1>2, FS_Subset
<1> QED
  BY <1>3, FS_CardinalityType DEF TxIn

\* An event posted adds itself.
LEMMA TxAppend ==
    ASSUME NEW q \in Seq(Event), NEW e \in Event
    PROVE  TxIn(Append(q, e)) = TxIn(q) + One(e.type \in TxTypes)
<1> DEFINE n == Len(q) + 1
<1>1. Len(q) \in Nat /\ Len(Append(q, e)) = n /\ Append(q, e)[n] = e
  OBVIOUS
<1>2. \A i \in 1..Len(q) : Append(q, e)[i] = q[i]
  OBVIOUS
<1>3. n \notin TxPlaces(q)
  BY <1>1 DEF TxPlaces
<1>4. TxPlaces(Append(q, e)) = IF e.type \in TxTypes THEN TxPlaces(q) \cup {n} ELSE TxPlaces(q)
  <2>1. 1..n = (1..Len(q)) \cup {n}
    BY <1>1
  <2> QED
    BY <1>1, <1>2, <2>1 DEF TxPlaces
<1>5. IsFiniteSet(TxPlaces(q)) /\ TxIn(q) \in Nat
  BY TxFinite
<1>6. Cardinality(TxPlaces(q) \cup {n}) = TxIn(q) + 1
  BY <1>3, <1>5, FS_AddElement DEF TxIn
<1> HIDE DEF n
<1> QED
  BY <1>4, <1>5, <1>6 DEF TxIn, One

\* An event received takes itself away; the others move up one place.
LEMMA TxTail ==
    ASSUME NEW q \in Seq(Event), q # <<>>
    PROVE  TxIn(q) = TxIn(Tail(q)) + One(Head(q).type \in TxTypes)
<1> DEFINE T == TxPlaces(Tail(q))
           R == TxPlaces(q) \ {1}
           f == [i \in T |-> i + 1]
<1>1. Tail(q) \in Seq(Event) /\ Len(q) \in Nat \ {0} /\ Len(Tail(q)) = Len(q) - 1 /\ Head(q) = q[1]
  OBVIOUS
<1>2. \A i \in 1..Len(Tail(q)) : Tail(q)[i] = q[i + 1]
  BY <1>1
<1>3. f \in Bijection(T, R)
  <2>1. \A i \in T : i \in Nat /\ i + 1 \in R
    BY <1>1, <1>2 DEF TxPlaces
  <2>2. f \in [T -> R]
    BY <2>1
  <2>3. \A i, j \in T : f[i] = f[j] => i = j
    BY <2>1
  <2>4. \A k \in R : \E i \in T : f[i] = k
    <3>1. ASSUME NEW k \in R PROVE k - 1 \in T /\ f[k - 1] = k
      BY <1>1, <1>2 DEF TxPlaces
    <3> QED
      BY <3>1
  <2> QED
    BY <2>2, <2>3, <2>4 DEF Bijection, Injection, Surjection, IsInjective
<1>4. IsFiniteSet(T) /\ IsFiniteSet(TxPlaces(q)) /\ TxIn(q) \in Nat /\ TxIn(Tail(q)) \in Nat
  BY <1>1, TxFinite
<1>5. Cardinality(R) = Cardinality(T)
  BY <1>3, <1>4, FS_Bijection DEF ExistsBijection
<1>6. Cardinality(R) = IF 1 \in TxPlaces(q) THEN TxIn(q) - 1 ELSE TxIn(q)
  BY <1>4, FS_RemoveElement DEF TxIn
<1>7. 1 \in TxPlaces(q) <=> Head(q).type \in TxTypes
  BY <1>1 DEF TxPlaces
<1> QED
  BY <1>4, <1>5, <1>6, <1>7 DEF TxIn, One
-----------------------------------------------------------------------------
(* The books.                                                              *)

\* Requests in the hands of a task that has not settled them yet.
Pending == One(rx_pc = "acquire") + One(gen_pc \in {"acquire", "send", "submitted"})

RequestsKept ==
    metrics["tx_requested"] = metrics["tx_submitted"] + metrics["send_api_failure"]
                               + metrics["tx_slot_timeout"] + Pending

\* Frames the driver has accepted, counted as submitted or not yet; and those
\* whose fate is in the counters, the driver or the queue.
Issued == metrics["tx_submitted"] + One(gen_pc = "submitted")
Known == Completed + inflight + TxIn(queue)

CompletionsKept == Known <= Issued /\ Issued <= Known + metrics["queue_drops"]

\* Unless a frame was under way at the last reset.
BooksKept == "carried_over" \notin excuse => RequestsKept /\ CompletionsKept

\* A step that moves none of the items leaves the books as they were.
LEMMA BooksUntouched ==
    ASSUME BooksKept, UNCHANGED <<metrics, inflight, queue, rx_pc, gen_pc>>,
           "carried_over" \in excuse => "carried_over" \in excuse'
    PROVE  BooksKept'
BY DEF BooksKept, RequestsKept, CompletionsKept, Pending, Issued, Known, Completed, One

\* The items are numbers.
LEMMA BookTypes ==
    ASSUME TypeOK
    PROVE  /\ metrics["tx_requested"] \in Nat /\ metrics["tx_submitted"] \in Nat
           /\ metrics["send_cb_success"] \in Nat /\ metrics["send_cb_failure"] \in Nat
           /\ metrics["send_api_failure"] \in Nat /\ metrics["tx_slot_timeout"] \in Nat
           /\ metrics["queue_drops"] \in Nat
           /\ inflight \in Nat /\ TxIn(queue) \in Nat
BY TxFinite DEF TypeOK, Counters

\* Counting c up changes no other counter of the books.
LEMMA CountOne ==
    ASSUME TypeOK, NEW c \in Counters, Count(c)
    PROVE  /\ metrics'["tx_requested"] = metrics["tx_requested"] + One(c = "tx_requested")
           /\ metrics'["tx_submitted"] = metrics["tx_submitted"] + One(c = "tx_submitted")
           /\ metrics'["send_cb_success"] = metrics["send_cb_success"] + One(c = "send_cb_success")
           /\ metrics'["send_cb_failure"] = metrics["send_cb_failure"] + One(c = "send_cb_failure")
           /\ metrics'["send_api_failure"] = metrics["send_api_failure"] + One(c = "send_api_failure")
           /\ metrics'["tx_slot_timeout"] = metrics["tx_slot_timeout"] + One(c = "tx_slot_timeout")
           /\ metrics'["queue_drops"] = metrics["queue_drops"] + One(c = "queue_drops")
BY DEF TypeOK, Count, Counters, One

\* The driver's callbacks move a frame in flight to the queue or count its
\* loss; frames received are not in the books.
LEMMA BooksDriver ==
    ASSUME TypeOK, BooksKept, WifiDriver
    PROVE  BooksKept'
<1> USE BookTypes DEF BooksKept, RequestsKept, CompletionsKept, Pending, Issued, Known, Completed, One
<1>1. queue \in Seq(Event)
  BY DEF TypeOK
<1>2. "queue_drops" \in Counters
  BY DEF Counters
<1>3. ASSUME NEW type \in SendStatuses, tx_callback(type) PROVE BooksKept'
  <2>1. type \in TxTypes /\ Ev(type) \in Event /\ Ev(type).type = type
    BY HarnessAssumption, NoteType DEF TxTypes, Ev
  <2>2. inflight > 0 /\ inflight' = inflight - 1 /\ UNCHANGED <<rx_pc, gen_pc, excuse>>
    BY <1>3 DEF tx_callback, genVars
  <2>3. CASE xQueueSend(Ev(type)) /\ UNCHANGED metrics
    <3>1. TxIn(queue') = TxIn(queue) + 1
      BY <1>1, <2>1, <2>3, TxAppend DEF xQueueSend
    <3> QED
      BY <2>2, <2>3, <3>1
  <2>4. CASE Count("queue_drops") /\ UNCHANGED queue
    BY <1>2, <2>2, <2>4, CountOne
  <2> QED
    BY <1>3, <2>3, <2>4 DEF tx_callback
<1>4. ASSUME NEW f \in AirFrames, rx_callback(f) PROVE BooksKept'
  <2>1. UNCHANGED <<rx_pc, gen_pc, inflight>> /\ ("carried_over" \in excuse => "carried_over" \in excuse')
    BY <1>4 DEF rx_callback, genVars, radioVars
  <2>2. ASSUME NEW e \in Event, xQueueSend(e), e.type \notin TxTypes, UNCHANGED metrics
        PROVE  BooksKept'
    <3>1. TxIn(queue') = TxIn(queue)
      BY <1>1, <2>2, TxAppend DEF xQueueSend
    <3> QED
      BY <2>1, <2>2, <3>1
  <2>3. CASE Count("queue_drops") /\ UNCHANGED queue
    BY <1>2, <2>1, <2>3, CountOne
  <2>4. CASE f # TooLong /\ xQueueSend([type |-> "EV_RX", frame |-> f]) /\ UNCHANGED metrics
    <3>1. [type |-> "EV_RX", frame |-> f] \in Event
      BY <2>4, HarnessAssumption DEF Event
    <3> QED
      BY <2>2, <2>4, <3>1 DEF TxTypes
  <2>5. CASE xQueueSend(Ev("EV_DROP")) /\ UNCHANGED metrics
    BY <2>2, <2>5, NoteType DEF TxTypes, Ev
  <2> QED
    BY <1>4, <2>3, <2>4, <2>5 DEF rx_callback
<1> QED
  BY <1>3, <1>4 DEF WifiDriver

\* The receiver moves completions from the queue to the counters and settles
\* the echoes it requests.
LEMMA BooksReceiver ==
    ASSUME TypeOK, BooksKept, receiver_task
    PROVE  BooksKept'
<1> USE BookTypes DEF BooksKept, RequestsKept, CompletionsKept, Pending, Issued, Known, Completed, One
<1>1. CASE Receive
  <2> DEFINE e == Head(queue)
  <2>1. /\ e \in Event /\ queue # <<>> /\ queue' = Tail(queue)
        /\ queue \in Seq(Event) /\ queue' \in Seq(Event)
    BY <1>1, HarnessAssumption, ReceiveType DEF Receive, TypeOK
  <2>2. TxIn(queue) = TxIn(queue') + One(e.type \in TxTypes)
    BY <2>1, TxTail
  <2>3. rx_pc = "receive" /\ UNCHANGED <<inflight, gen_pc, excuse>>
    BY <1>1 DEF Receive, radioVars, genVars
  <2>4. TxIn(queue') \in Nat
    BY <2>1, TxFinite
  <2>5. ReceiveNote(e) \/ ReceiveIgnored(e) \/ ReceiveFrame(e)
    BY <1>1 DEF Receive
  <2> HIDE DEF e
  <2>6. CASE ReceiveNote(e)
    <3>1. rx_pc' = rx_pc /\ e.type # "EV_RX"
      BY <2>6 DEF ReceiveNote
    <3>2. CASE e.type = "EV_TX_OK"
      <4>1. Count("send_cb_success") /\ "send_cb_success" \in Counters
        BY <2>6, <3>2 DEF ReceiveNote, Counters
      <4> QED
        BY <2>2, <2>3, <2>4, <3>1, <3>2, <4>1, CountOne DEF TxTypes
    <3>3. CASE e.type = "EV_TX_FAIL"
      <4>1. Count("send_cb_failure") /\ "send_cb_failure" \in Counters
        BY <2>6, <3>3 DEF ReceiveNote, Counters
      <4> QED
        BY <2>2, <2>3, <2>4, <3>1, <3>3, <4>1, CountOne DEF TxTypes
    <3>4. CASE e.type \notin TxTypes
      <4>1. UNCHANGED metrics
        BY <2>6, <3>4 DEF ReceiveNote, TxTypes
      <4> QED
        BY <2>2, <2>3, <2>4, <3>1, <3>4, <4>1
    <3> QED
      BY <3>2, <3>3, <3>4 DEF TxTypes
  <2>7. CASE ReceiveIgnored(e)
    BY <2>2, <2>3, <2>4, <2>7 DEF ReceiveIgnored, TxTypes
  <2>8. CASE ReceiveFrame(e)
    <3>1. e.type \notin TxTypes
      BY <2>8 DEF ReceiveFrame, TxTypes
    <3>2. /\ metrics'["tx_requested"] = metrics["tx_requested"] + One(rx_pc' = "acquire")
          /\ metrics'["tx_submitted"] = metrics["tx_submitted"]
          /\ metrics'["send_cb_success"] = metrics["send_cb_success"]
          /\ metrics'["send_cb_failure"] = metrics["send_cb_failure"]
          /\ metrics'["send_api_failure"] = metrics["send_api_failure"]
          /\ metrics'["tx_slot_timeout"] = metrics["tx_slot_timeout"]
          /\ metrics'["queue_drops"] = metrics["queue_drops"]
      BY <2>3, <2>8 DEF ReceiveFrame, metrics_rx, TypeOK, Counters
    <3> QED
      BY <2>2, <2>3, <2>4, <3>1, <3>2
  <2> QED
    BY <2>5, <2>6, <2>7, <2>8
<1>2. CASE EchoSend
  <2>1. /\ rx_pc = "acquire" /\ rx_pc' = "receive" /\ UNCHANGED <<queue, gen_pc, excuse>>
        /\ \/ inflight' = inflight + 1 /\ Count("tx_submitted")
           \/ Count("send_api_failure") /\ UNCHANGED inflight
    BY <1>2 DEF EchoSend, genVars
  <2>2. CASE inflight' = inflight + 1 /\ Count("tx_submitted")
    BY <2>1, <2>2, CounterNames, CountOne
  <2>3. CASE Count("send_api_failure") /\ UNCHANGED inflight
    BY <2>1, <2>3, CounterNames, CountOne
  <2> QED
    BY <2>1, <2>2, <2>3
<1>3. CASE EchoTimeout
  <2>1. /\ rx_pc = "acquire" /\ rx_pc' = "receive" /\ UNCHANGED <<queue, inflight, gen_pc, excuse>>
        /\ Count("tx_slot_timeout")
    BY <1>3 DEF EchoTimeout, radioVars, genVars
  <2>2. /\ metrics'["tx_slot_timeout"] = metrics["tx_slot_timeout"] + 1
        /\ metrics'["tx_requested"] = metrics["tx_requested"]
        /\ metrics'["tx_submitted"] = metrics["tx_submitted"]
        /\ metrics'["send_cb_success"] = metrics["send_cb_success"]
        /\ metrics'["send_cb_failure"] = metrics["send_cb_failure"]
        /\ metrics'["send_api_failure"] = metrics["send_api_failure"]
        /\ metrics'["queue_drops"] = metrics["queue_drops"]
    BY <2>1, CounterNames, CountOne
  <2> QED
    BY <2>1, <2>2
<1> QED
  BY <1>1, <1>2, <1>3 DEF receiver_task

\* The generator settles each request it counts, and counts as submitted what
\* the driver accepted.
LEMMA BooksGenerator ==
    ASSUME TypeOK, BooksKept, generator_task
    PROVE  BooksKept'
<1> USE BookTypes DEF BooksKept, RequestsKept, CompletionsKept, Pending, Issued, Known, Completed, One
<1>1. UNCHANGED <<queue, rx_pc, excuse>>
  BY DEF generator_task, GenLoop, GenRequest, GenAcquire, GenSlotTimeout, GenSend,
         GenSubmitted, GenEndTest, GenFinish, GenExit, queueVars
<1>2. CASE GenLoop \/ GenAcquire \/ GenEndTest \/ GenFinish \/ GenExit
  <2>1. /\ UNCHANGED <<metrics, inflight>>
        /\ \/ gen_pc = "acquire" /\ gen_pc' = "send"
           \/ {gen_pc, gen_pc'} \cap {"acquire", "send", "submitted"} = {}
    BY <1>2 DEF GenLoop, GenAcquire, GenEndTest, GenFinish, GenExit, radioVars
  <2> QED
    BY <1>1, <2>1
<1>3. CASE GenRequest
  <2>1. gen_pc = "wait" /\ gen_pc' = "acquire" /\ Count("tx_requested") /\ UNCHANGED inflight
    BY <1>3 DEF GenRequest, radioVars
  <2> QED
    BY <1>1, <2>1, CounterNames, CountOne
<1>4. CASE GenSlotTimeout
  <2>1. gen_pc = "acquire" /\ gen_pc' = "loop" /\ Count("tx_slot_timeout") /\ UNCHANGED inflight
    BY <1>4 DEF GenSlotTimeout, radioVars
  <2>2. /\ metrics'["tx_slot_timeout"] = metrics["tx_slot_timeout"] + 1
        /\ metrics'["tx_requested"] = metrics["tx_requested"]
        /\ metrics'["tx_submitted"] = metrics["tx_submitted"]
        /\ metrics'["send_cb_success"] = metrics["send_cb_success"]
        /\ metrics'["send_cb_failure"] = metrics["send_cb_failure"]
        /\ metrics'["send_api_failure"] = metrics["send_api_failure"]
        /\ metrics'["queue_drops"] = metrics["queue_drops"]
    BY <2>1, CounterNames, CountOne
  <2> QED
    BY <1>1, <2>1, <2>2
<1>5. CASE GenSend
  <2>1. CASE gen_pc = "send" /\ inflight' = inflight + 1 /\ gen_pc' = "submitted" /\ UNCHANGED metrics
    BY <1>1, <2>1
  <2>2. CASE gen_pc = "send" /\ Count("send_api_failure") /\ gen_pc' = "loop" /\ UNCHANGED inflight
    BY <1>1, <2>2, CounterNames, CountOne
  <2> QED
    BY <1>5, <2>1, <2>2 DEF GenSend
<1>6. CASE GenSubmitted
  <2>1. gen_pc = "submitted" /\ gen_pc' = "loop" /\ Count("tx_submitted") /\ UNCHANGED inflight
    BY <1>6 DEF GenSubmitted, radioVars
  <2> QED
    BY <1>1, <2>1, CounterNames, CountOne
<1> QED
  BY <1>2, <1>3, <1>4, <1>5, <1>6 DEF generator_task

\* A reset with no frame under way opens empty books; any other is excused.
LEMMA BooksReset ==
    ASSUME TypeOK, TasksOK, metrics_reset, UNCHANGED <<inflight, queue, rx_pc, gen_pc>>
    PROVE  BooksKept'
<1> SUFFICES ASSUME ~SendUnderWay PROVE BooksKept'
  BY DEF metrics_reset, BooksKept
<1>1. inflight = 0 /\ rx_pc # "acquire" /\ gen_pc = "none"
  BY DEF SendUnderWay, TypeOK, TasksOK
<1>2. TxIn(queue) = 0
  BY FS_EmptySet DEF SendUnderWay, Queued, TxIn, TxPlaces, TxTypes
<1>3. \A c \in Counters : metrics'[c] = 0
  BY DEF metrics_reset, ZeroMetrics
<1> QED
  BY <1>1, <1>2, <1>3
  DEF BooksKept, RequestsKept, CompletionsKept, Pending, Issued, Known, Completed, One, Counters

\* Nothing else the control task does concerns the books.
LEMMA BooksControl ==
    ASSUME TypeOK, TasksOK, BooksKept, control_run
    PROVE  BooksKept'
<1> USE DEF radioVars, queueVars, genVars
<1>1. CASE radio_wait_idle
  <2>1. UNCHANGED <<metrics, inflight, queue, rx_pc, gen_pc, excuse>>
    BY <1>1 DEF radio_wait_idle, IdleTake, IdleTimeout, IdleAll, IdleGiveBack, IdleFailed, IdleOk
  <2> QED
    BY <2>1, BooksUntouched
<1>2. CASE radio_configure
  <2>1. UNCHANGED <<metrics, inflight, queue, rx_pc, gen_pc, excuse>>
    BY <1>2 DEF radio_configure, CfgTake, CfgTakeFailed, CfgSwap, CfgGive, CfgPeer
  <2> QED
    BY <2>1, BooksUntouched
<1>3. CASE FlushPost
  <2>1. UNCHANGED <<metrics, inflight, rx_pc, gen_pc, excuse>>
    BY <1>3 DEF FlushPost
  <2>2. /\ Ev("EV_BARRIER") \in Event /\ Ev("EV_BARRIER").type \notin TxTypes
        /\ queue \in Seq(Event) /\ queue' = Append(queue, Ev("EV_BARRIER"))
    BY <1>3, NoteType DEF FlushPost, xQueueSend, TypeOK, Ev, TxTypes
  <2>3. TxIn(queue) \in Nat /\ TxIn(queue') = TxIn(queue)
    BY <2>2, TxFinite, TxAppend DEF One
  <2> QED
    BY <2>1, <2>3 DEF BooksKept, RequestsKept, CompletionsKept, Pending, Issued, Known, Completed, One
<1>4. CASE FlushFull \/ FlushNotified \/ FlushTimeout \/ generator_wait_stopped
  <2>1. UNCHANGED <<metrics, inflight, queue, rx_pc, gen_pc>>
    BY <1>4 DEF FlushFull, FlushNotified, FlushTimeout, generator_wait_stopped, WaitStopped, WaitStoppedTimeout
  <2>2. "carried_over" \in excuse => "carried_over" \in excuse'
    BY <1>4 DEF FlushFull, FlushNotified, FlushTimeout, generator_wait_stopped, WaitStopped, WaitStoppedTimeout
  <2> QED
    BY <2>1, <2>2, BooksUntouched
<1>5. CASE ControlBoot \/ ConfigureCopied \/ ConfigureDone \/ SendResult
  <2>1. UNCHANGED <<metrics, inflight, queue, rx_pc, gen_pc, excuse>>
    BY <1>5 DEF ControlBoot, ConfigureCopied, ConfigureDone, SendResult
  <2> QED
    BY <2>1, BooksUntouched
<1>6. CASE ConfigureReset
  BY <1>6, BooksReset DEF ConfigureReset
<1>7. ASSUME NEW c \in HostCommands, DispatchArm(c) PROVE BooksKept'
  <2>1. UNCHANGED <<inflight, queue, rx_pc, gen_pc>> /\ (metrics_reset \/ UNCHANGED <<metrics, excuse>>)
    BY <1>7 DEF DispatchArm, Unaffected
  <2> QED
    BY <2>1, BooksReset, BooksUntouched
<1>8. ASSUME NEW c \in HostCommands, DispatchStart(c) PROVE BooksKept'
  <2>1. UNCHANGED <<metrics, inflight, queue, rx_pc, excuse>>
    BY <1>8 DEF DispatchStart, Unaffected
  <2>2. UNCHANGED gen_pc \/ (~handle /\ gen_pc' = "loop")
    BY <1>8 DEF DispatchStart, GeneratorStarts, GeneratorStartFails
  <2>3. ~handle => gen_pc = "none"
    BY DEF TasksOK
  <2> QED
    BY <2>1, <2>2, <2>3, BookTypes
    DEF BooksKept, RequestsKept, CompletionsKept, Pending, Issued, Known, Completed, One
<1>9. ASSUME NEW c \in HostCommands, dispatch(c), ~DispatchArm(c), ~DispatchStart(c) PROVE BooksKept'
  <2>1. UNCHANGED <<metrics, inflight, queue, rx_pc, gen_pc, excuse>>
    BY <1>9 DEF dispatch, DispatchReadOnly, ConfigureRefused, ConfigureParse, DispatchMismatch,
                DispatchStop, DispatchResult, Unaffected
  <2> QED
    BY <2>1, BooksUntouched
<1> QED
  BY <1>1, <1>2, <1>3, <1>4, <1>5, <1>6, <1>7, <1>8, <1>9 DEF control_run, ControlWork, receiver_flush

\* The books are kept.
LEMMA BooksInvariant == Spec => []BooksKept
<1>1. Init => BooksKept
  <2> SUFFICES ASSUME Init PROVE BooksKept
    OBVIOUS
  <2>1. TxIn(queue) = 0
    BY FS_EmptySet DEF Init, TxIn, TxPlaces
  <2> QED
    BY <2>1 DEF Init, ZeroMetrics, Counters, BooksKept, RequestsKept, CompletionsKept, Pending,
                Issued, Known, Completed, One
<1>2. IInv /\ TasksOK /\ BooksKept /\ [Next]_vars => BooksKept'
  <2> SUFFICES ASSUME IInv, TasksOK, BooksKept, [Next]_vars PROVE BooksKept'
    OBVIOUS
  <2>1. CASE UNCHANGED vars
    BY <2>1, BooksUntouched DEF vars, radioVars, queueVars, genVars
  <2> QED
    BY <2>1, BooksDriver, BooksReceiver, BooksGenerator, BooksControl DEF Next, IInv
<1> QED
  BY NodeInvariant, TasksInvariant, <1>1, <1>2, PTL DEF Spec
-----------------------------------------------------------------------------
(* The fence.                                                              *)

OnlyBarriers == \A i \in 1..Len(queue) : queue[i].type = "EV_BARRIER"

\* Past the second radio_wait_idle nothing of the run is left to be counted,
\* unless a frame arrived since.
FenceClosed ==
    PastSecondFence /\ "late_frame" \notin excuse =>
        rx_pc = "receive" /\ inflight = 0 /\ OnlyBarriers

\* The last slot the control task takes closes the fence: it runs only while
\* the receiver has nothing to do, and it holds all slots.
LEMMA FenceCloses ==
    ASSUME IInv, SlotsBounded', FenceClosed, radio_wait_idle
    PROVE  FenceClosed'
<1> USE HarnessAssumption DEF IInv, TypeOK, FenceClosed, OnlyBarriers, PastSecondFence, radioVars, queueVars
<1>1. CASE IdleTake
  <2>1. rx_pc = "receive" /\ queue = <<>>
    BY <1>1 DEF IdleTake, xSemaphoreTake, ControlTurn, ReceiverReady
  <2>2. acquired' >= current_tx_window' => inflight' = 0
    BY <1>1 DEF IdleTake, xSemaphoreTake, SlotsBounded, Slots, genVars
  <2> QED
    BY <1>1, <2>1, <2>2 DEF IdleTake
<1>2. CASE IdleTimeout \/ IdleAll \/ IdleGiveBack
  BY <1>2 DEF IdleTimeout, IdleAll, IdleGiveBack
<1>3. CASE IdleFailed
  BY <1>3 DEF IdleFailed, Reply
<1>4. CASE IdleOk
  BY <1>4 DEF IdleOk
<1> QED
  BY <1>1, <1>2, <1>3, <1>4 DEF radio_wait_idle

\* Nothing opens it again before the report: no frame is in flight, no
\* generator lives, the receiver finds barriers only.
LEMMA FenceStaysClosed ==
    ASSUME IInv, TasksOK, FenceClosed, Next, ~radio_wait_idle
    PROVE  FenceClosed'
<1> USE HarnessAssumption DEF FenceClosed, OnlyBarriers, PastSecondFence, radioVars, ctlVars, queueVars
<1>1. ASSUME NEW type \in SendStatuses, tx_callback(type) PROVE FenceClosed'
  BY <1>1 DEF tx_callback
<1>2. ASSUME NEW f \in AirFrames, rx_callback(f) PROVE FenceClosed'
  BY <1>2 DEF rx_callback
<1>3. CASE Receive
  <2> SUFFICES ASSUME PastSecondFence, "late_frame" \notin excuse PROVE FenceClosed'
    BY <1>3 DEF Receive
  <2>1. queue \in Seq(Event) /\ queue # <<>> /\ rx_pc = "receive" /\ inflight = 0 /\ OnlyBarriers
    BY <1>3 DEF Receive, IInv, TypeOK
  <2>2. Head(queue).type = "EV_BARRIER"
    BY <2>1
  <2>3. UNCHANGED rx_pc
    BY <1>3, <2>2 DEF Receive, ReceiveNote, ReceiveIgnored, ReceiveFrame
  <2>4. OnlyBarriers'
    BY <1>3, <2>1 DEF Receive
  <2> QED
    BY <1>3, <2>1, <2>3, <2>4 DEF Receive
<1>4. CASE EchoSend \/ EchoTimeout
  BY <1>4 DEF EchoSend, EchoTimeout
<1>5. CASE radio_configure
  BY <1>5 DEF radio_configure, CfgTake, CfgTakeFailed, CfgSwap, CfgGive, CfgPeer, Reply
<1>6. CASE FlushPost
  <2>1. queue \in Seq(Event) /\ queue' = Append(queue, Ev("EV_BARRIER"))
    BY <1>6 DEF FlushPost, xQueueSend, IInv, TypeOK
  <2>2. Ev("EV_BARRIER") \in Event /\ Ev("EV_BARRIER").type = "EV_BARRIER"
    BY NoteType DEF Ev
  <2>3. OnlyBarriers => OnlyBarriers'
    BY <2>1, <2>2
  <2> QED
    BY <1>6, <2>3 DEF FlushPost
<1>7. CASE FlushNotified
  <2>1. acquired = 0 /\ current_tx_window > 0 /\ stage \in {1, 3, 5}
    BY <1>7 DEF FlushNotified, TasksOK, IInv, TypeOK, StageOK
  <2>2. ~(acquired >= current_tx_window)
    BY <2>1 DEF IInv, TypeOK
  <2>3. UNCHANGED <<acquired, current_tx_window, inflight, rx_pc, queue, excuse>>
    BY <1>7 DEF FlushNotified
  <2>4. ctl_pc' \in {"idle", "fgets"} \/ (stage = 5 /\ ctl_pc = "notify" /\ ctl_pc' = "report")
    BY <1>7 DEF FlushNotified, Reply
  <2> QED
    BY <2>2, <2>3, <2>4
<1>8. CASE FlushFull \/ FlushTimeout \/ generator_wait_stopped
  BY <1>8 DEF FlushFull, FlushTimeout, generator_wait_stopped, WaitStopped, WaitStoppedTimeout, Reply
<1>9. CASE ControlBoot \/ ConfigureCopied \/ ConfigureReset \/ ConfigureDone \/ SendResult
  BY <1>9 DEF ControlBoot, ConfigureCopied, ConfigureReset, ConfigureDone, SendResult, Reply
<1>10. ASSUME NEW c \in HostCommands, dispatch(c) PROVE FenceClosed'
  <2>1. ctl_pc' \in {"fgets", "parse", "wait_gen"}
    BY <1>10 DEF dispatch, DispatchReadOnly, ConfigureRefused, ConfigureParse, DispatchMismatch,
              DispatchArm, DispatchStart, DispatchStop, DispatchResult, GeneratorStarts,
              GeneratorStartFails, Reply, Continue
  <2> QED
    BY <2>1
<1>11. CASE generator_task
  <2>1. UNCHANGED <<ctl_pc, stage, acquired, current_tx_window, rx_pc, queue, excuse>>
    BY <1>11 DEF generator_task, GenLoop, GenRequest, GenAcquire, GenSlotTimeout, GenSend,
                 GenSubmitted, GenEndTest, GenFinish, GenExit
  <2>2. gen_pc # "none"
    BY <1>11 DEF generator_task, GenLoop, GenRequest, GenAcquire, GenSlotTimeout, GenSend,
                 GenSubmitted, GenEndTest, GenFinish, GenExit
  <2>3. PastSecondFence => gen_pc = "none"
    BY DEF TasksOK, Draining
  <2> QED
    BY <2>1, <2>2, <2>3
<1> QED
  BY <1>1, <1>2, <1>3, <1>4, <1>5, <1>6, <1>7, <1>8, <1>9, <1>10, <1>11
  DEF Next, WifiDriver, receiver_task, control_run, ControlWork, receiver_flush, generator_task

\* The fence holds.
LEMMA FenceInvariant == Spec => []FenceClosed
<1>1. Init => FenceClosed
  BY DEF Init, FenceClosed, PastSecondFence
<1>2. IInv /\ TasksOK /\ FenceClosed /\ [Next]_vars /\ IInv' => FenceClosed'
  <2> SUFFICES ASSUME IInv, IInv', TasksOK, FenceClosed, [Next]_vars PROVE FenceClosed'
    OBVIOUS
  <2>1. CASE UNCHANGED vars
    BY <2>1 DEF vars, radioVars, queueVars, ctlVars, FenceClosed, PastSecondFence, OnlyBarriers
  <2>2. CASE radio_wait_idle
    BY <2>2, FenceCloses DEF IInv
  <2>3. CASE Next /\ ~radio_wait_idle
    BY <2>3, FenceStaysClosed
  <2> QED
    BY <2>1, <2>2, <2>3
<1> QED
  BY NodeInvariant, TasksInvariant, <1>1, <1>2, PTL DEF Spec

\* A report without an excuse adds up, for any window, queue length, tick
\* rate and traffic: nothing is in flight, each request has one outcome, and
\* completions fall short of submissions by visible queue drops at most.
THEOREM ReportsAddUp == Spec => []FencedResult
<1>1. IInv /\ TasksOK /\ BooksKept /\ FenceClosed => FencedResult
  <2> SUFFICES ASSUME TypeOK, TasksOK, BooksKept, FenceClosed, ctl_pc = "report", excuse \subseteq {"abandoned"}
               PROVE  BooksBalance
    BY DEF IInv, FencedResult
  <2>1. rx_pc = "receive" /\ inflight = 0 /\ OnlyBarriers
    BY DEF FenceClosed, PastSecondFence
  <2>2. gen_pc = "none"
    BY DEF TasksOK, Draining
  <2>3. TxPlaces(queue) = {}
    BY <2>1 DEF TxPlaces, OnlyBarriers, TxTypes
  <2>4. TxIn(queue) = 0
    BY <2>3, FS_EmptySet DEF TxIn
  <2>5. Pending = 0 /\ Issued = metrics["tx_submitted"] /\ Known = Completed
    BY <2>1, <2>2, <2>4, BookTypes DEF Pending, Issued, Known, Completed, One
  <2> QED
    BY <2>1, <2>5, BookTypes
    DEF BooksKept, RequestsKept, CompletionsKept, BooksBalance, Completed
<1> QED
  BY NodeInvariant, TasksInvariant, BooksInvariant, FenceInvariant, <1>1, PTL
-----------------------------------------------------------------------------
(* The run a result is of.                                                 *)

\* The generator has not yet decided to end.
Busy == {"loop", "wait", "acquire", "send", "submitted", "end", "finish"}

Configuring ==
    \/ ctl_pc \in {"parse", "cfg_take", "cfg_give", "cfg_reset", "cfg_done"}
    \/ ctl_pc \in {"idle", "idle_undo", "idle_done"} /\ stage = 0

Waiting == Draining \/ ctl_pc = "wait_gen"

\* The step the control task is in belongs to the command it executes, and
\* nothing starts or arms a run meanwhile.
CommandOK ==
    /\ Configuring => cmd.cmd = "configure" /\ g_state \notin {"RUNNING", "ARMED"}
    /\ Waiting => cmd.cmd \in {"stop", "result"}
    /\ ctl_pc = "report" => cmd.cmd = "result"
    /\ Waiting /\ cmd.cmd = "result" => g_state = "FINISHED"

\* A drain has given up on a generator that is still there, or was when the
\* metrics were last reset.
Abandoned == "abandoned" \in excuse

\* A generator that may still send or finish does so in its own run, which
\* nobody replaces before it is done or given up.
GeneratorOK ==
    /\ gen_pc \in Busy /\ ~Abandoned =>
          g_state = "RUNNING" \/ (g_state = "FINISHED" /\ ctl_pc = "wait_gen")
    /\ gen_pc \in Busy /\ ~Abandoned => gen_run = g_config.run_id
    /\ gen_pc = "exit" => g_state # "RUNNING"

\* From the reset of a configure on, the metrics hold the configured run only.
MeasuredOK ==
    ~Abandoned /\ (\/ g_state \in {"CONFIGURED", "ARMED", "RUNNING", "FINISHED"} /\ ~Configuring
                   \/ ctl_pc = "cfg_done")
    => measured \subseteq {g_config.run_id}

ProtocolInv == CommandOK /\ GeneratorOK /\ MeasuredOK

\* Each step of the node keeps the first part,
LEMMA CommandStep ==
    ASSUME TypeOK, StageOK, TasksOK, CommandOK, Next
    PROVE  CommandOK'
<1> USE DEF CommandOK, Configuring, Waiting, Draining, TypeOK, StageOK, shared, ctlVars
<1>1. CASE WifiDriver
  BY <1>1 DEF WifiDriver, tx_callback, rx_callback
<1>2. CASE receiver_task
  BY <1>2 DEF receiver_task, Receive, EchoSend, EchoTimeout
<1>3. CASE radio_wait_idle
  BY <1>3 DEF radio_wait_idle, IdleTake, IdleTimeout, IdleAll, IdleGiveBack, IdleFailed, IdleOk, Reply
<1>4. CASE radio_configure
  BY <1>4 DEF radio_configure, CfgTake, CfgTakeFailed, CfgSwap, CfgGive, CfgPeer, Reply
<1>5. CASE receiver_flush
  BY <1>5 DEF receiver_flush, FlushPost, FlushFull, FlushNotified, FlushTimeout, Reply
<1>6. CASE generator_wait_stopped
  BY <1>6 DEF generator_wait_stopped, WaitStopped, WaitStoppedTimeout, Reply
<1>7. CASE ControlBoot \/ ConfigureCopied \/ ConfigureReset \/ ConfigureDone \/ SendResult
  BY <1>7 DEF ControlBoot, ConfigureCopied, ConfigureReset, ConfigureDone, SendResult, Reply
<1>8. ASSUME NEW c \in HostCommands, dispatch(c) PROVE CommandOK'
  BY <1>8 DEF dispatch, DispatchReadOnly, ConfigureRefused, ConfigureParse, DispatchMismatch,
              DispatchArm, DispatchStart, DispatchStop, DispatchResult, GeneratorStarts,
              GeneratorStartFails, Fgets, Reply, Continue, Unaffected
<1>9. CASE generator_task
  BY <1>9 DEF generator_task, GenLoop, GenRequest, GenAcquire, GenSlotTimeout, GenSend,
              GenSubmitted, GenEndTest, GenFinish, GenExit
<1> QED
  BY <1>1, <1>2, <1>3, <1>4, <1>5, <1>6, <1>7, <1>8, <1>9 DEF Next, control_run, ControlWork

\* the second,
LEMMA GeneratorStep ==
    ASSUME TypeOK, TasksOK, CommandOK, GeneratorOK, Next
    PROVE  GeneratorOK'
<1> USE DEF GeneratorOK, Busy, Abandoned, shared, ctlVars, genVars
<1>1. CASE WifiDriver
  BY <1>1 DEF WifiDriver, tx_callback, rx_callback
<1>2. CASE receiver_task
  BY <1>2 DEF receiver_task, Receive, EchoSend, EchoTimeout
<1>3. CASE radio_wait_idle
  BY <1>3 DEF radio_wait_idle, IdleTake, IdleTimeout, IdleAll, IdleGiveBack, IdleFailed, IdleOk, Reply,
              CommandOK, Configuring
<1>4. CASE radio_configure
  BY <1>4 DEF radio_configure, CfgTake, CfgTakeFailed, CfgSwap, CfgGive, CfgPeer, Reply,
              CommandOK, Configuring
<1>5. CASE receiver_flush
  BY <1>5 DEF receiver_flush, FlushPost, FlushFull, FlushNotified, FlushTimeout, Reply
<1>6. CASE generator_wait_stopped
  <2>1. CASE WaitStopped
    <3>1. gen_pc = "none" /\ UNCHANGED gen_pc
      BY <2>1 DEF WaitStopped, TasksOK
    <3> QED
      BY <3>1
  <2>2. CASE WaitStoppedTimeout
    BY <2>2 DEF WaitStoppedTimeout
  <2> QED
    BY <1>6, <2>1, <2>2 DEF generator_wait_stopped
<1>7. CASE ControlBoot \/ ConfigureReset \/ ConfigureDone \/ SendResult
  BY <1>7 DEF ControlBoot, ConfigureReset, ConfigureDone, SendResult, Reply, CommandOK, Configuring,
              metrics_reset, TasksOK
<1>8. CASE ConfigureCopied
  BY <1>8 DEF ConfigureCopied, CommandOK, Configuring
<1>9. ASSUME NEW c \in HostCommands, DispatchStart(c) PROVE GeneratorOK'
  <2>1. ctl_pc = "fgets" /\ UNCHANGED <<g_config, excuse>>
    BY <1>9 DEF DispatchStart, Fgets
  <2>2. CASE g_state # "ARMED" /\ UNCHANGED <<g_state, genVars>>
    BY <2>1, <2>2
  <2>3. CASE g_state = "ARMED" /\ GeneratorStartFails
    BY <2>1, <2>3 DEF GeneratorStartFails
  <2>4. CASE g_state = "ARMED" /\ GeneratorStarts
    <3>1. gen_pc = "none"
      BY <2>4 DEF GeneratorStarts, TasksOK
    <3> QED
      BY <2>1, <2>4, <3>1 DEF GeneratorStarts
  <2> QED
    BY <1>9, <2>2, <2>3, <2>4 DEF DispatchStart
<1>10. ASSUME NEW c \in HostCommands, dispatch(c), ~DispatchStart(c) PROVE GeneratorOK'
  BY <1>10 DEF dispatch, DispatchReadOnly, ConfigureRefused, ConfigureParse, DispatchMismatch,
              DispatchArm, DispatchStop, DispatchResult, Fgets, Reply, Continue, Unaffected,
              metrics_reset, TasksOK
<1>11. CASE generator_task
  BY <1>11 DEF generator_task, GenLoop, GenRequest, GenAcquire, GenSlotTimeout, GenSend,
              GenSubmitted, GenEndTest, GenFinish, GenExit
<1> QED
  BY <1>1, <1>2, <1>3, <1>4, <1>5, <1>6, <1>7, <1>8, <1>9, <1>10, <1>11
  DEF Next, control_run, ControlWork

\* and the third.
LEMMA MeasuredStep ==
    ASSUME TypeOK, CommandOK, GeneratorOK, MeasuredOK, Next
    PROVE  MeasuredOK'
<1> USE DEF MeasuredOK, Abandoned, Configuring, shared, ctlVars
<1>1. CASE WifiDriver
  BY <1>1 DEF WifiDriver, tx_callback, rx_callback
<1>2. CASE Receive
  <2>1. measured' \subseteq measured \cup {g_config.run_id}
    BY <1>2 DEF Receive, ReceiveNote, ReceiveIgnored, ReceiveFrame, Measurable
  <2> QED
    BY <1>2, <2>1 DEF Receive
<1>3. CASE EchoSend \/ EchoTimeout
  BY <1>3 DEF EchoSend, EchoTimeout
<1>4. CASE radio_wait_idle
  BY <1>4 DEF radio_wait_idle, IdleTake, IdleTimeout, IdleAll, IdleGiveBack, IdleFailed, IdleOk, Reply, TypeOK
<1>5. CASE radio_configure
  BY <1>5 DEF radio_configure, CfgTake, CfgTakeFailed, CfgSwap, CfgGive, CfgPeer, Reply
<1>6. CASE receiver_flush
  BY <1>6 DEF receiver_flush, FlushPost, FlushFull, FlushNotified, FlushTimeout, Reply, TypeOK
<1>7. CASE generator_wait_stopped
  BY <1>7 DEF generator_wait_stopped, WaitStopped, WaitStoppedTimeout, Reply
<1>8. CASE ControlBoot \/ ConfigureCopied \/ ConfigureDone \/ SendResult
  BY <1>8 DEF ControlBoot, ConfigureCopied, ConfigureDone, SendResult, Reply
<1>9. CASE ConfigureReset
  BY <1>9 DEF ConfigureReset, metrics_reset
<1>10. ASSUME NEW c \in HostCommands, dispatch(c) PROVE MeasuredOK'
  BY <1>10 DEF dispatch, DispatchReadOnly, ConfigureRefused, ConfigureParse, DispatchMismatch,
              DispatchArm, DispatchStart, DispatchStop, DispatchResult, GeneratorStarts,
              GeneratorStartFails, metrics_reset, Fgets, Reply, Continue, Unaffected
<1>11. CASE GenSubmitted
  <2>1. ~Abandoned => gen_run = g_config.run_id
    BY <1>11 DEF GenSubmitted, GeneratorOK, Busy
  <2> QED
    BY <1>11, <2>1 DEF GenSubmitted
<1>12. CASE GenFinish
  <2>1. ~Abandoned => g_state \in {"RUNNING", "FINISHED"}
    BY <1>12 DEF GenFinish, GeneratorOK, Busy
  <2> QED
    BY <1>12, <2>1 DEF GenFinish
<1>13. CASE generator_task /\ ~GenSubmitted /\ ~GenFinish
  BY <1>13 DEF generator_task, GenLoop, GenRequest, GenAcquire, GenSlotTimeout, GenSend,
               GenEndTest, GenExit
<1> QED
  BY <1>1, <1>2, <1>3, <1>4, <1>5, <1>6, <1>7, <1>8, <1>9, <1>10, <1>11, <1>12, <1>13
  DEF Next, receiver_task, control_run, ControlWork

\* All three hold in every state.
LEMMA ProtocolInvariant == Spec => []ProtocolInv
<1>1. Init => ProtocolInv
  BY DEF Init, ProtocolInv, CommandOK, GeneratorOK, MeasuredOK, Configuring, Waiting, Draining, Busy
<1>2. IInv /\ TasksOK /\ ProtocolInv /\ [Next]_vars => ProtocolInv'
  <2> SUFFICES ASSUME IInv, TasksOK, ProtocolInv, [Next]_vars PROVE ProtocolInv'
    OBVIOUS
  <2>1. CASE Next
    BY <2>1, CommandStep, GeneratorStep, MeasuredStep DEF IInv, ProtocolInv
  <2>2. CASE UNCHANGED vars
    BY <2>2 DEF vars, shared, ctlVars, genVars, ProtocolInv, CommandOK, GeneratorOK, MeasuredOK,
                Abandoned, Configuring, Waiting, Draining
  <2> QED
    BY <2>1, <2>2
<1> QED
  BY NodeInvariant, TasksInvariant, <1>1, <1>2, PTL DEF Spec

\* A result holds frames of its own run only, for any window, queue length,
\* tick rate and traffic: no frame of a run before it, received or sent, is
\* counted after the reset, unless a drain has given up on the generator.
THEOREM ResultsAreOwn == Spec => []OwnRunReported
<1>1. ProtocolInv => OwnRunReported
  BY DEF ProtocolInv, CommandOK, MeasuredOK, OwnRunReported, Abandoned, Configuring, Waiting, Draining
<1> QED
  BY ProtocolInvariant, <1>1, PTL

\* The last write to g_state of a generator no drain has given up on ends
\* its own run, at any tick rate.
THEOREM GeneratorEndsItsOwnRun == Spec => GeneratorEndsOwnRun
<1>1. ProtocolInv => (gen_pc = "finish" /\ gen_pc' = "exit" /\ "abandoned" \notin excuse
                      => g_state \in {"RUNNING", "FINISHED"})
  BY DEF ProtocolInv, GeneratorOK, Abandoned, Busy
<1> QED
  BY ProtocolInvariant, <1>1, PTL DEF GeneratorEndsOwnRun
-----------------------------------------------------------------------------
(* The node implements the control protocol.                               *)

\* What the client sees of the node: the refinement mapping of Protocol.
Client(state, run_id, role, generator, run, busy, code) ==
    [state |-> state, run_id |-> run_id, role |-> role, generator |-> generator, gen_run |-> run,
     busy |-> busy, reply |-> code]

ClientRole == IF ctl_pc = "parse" THEN cmd.role ELSE g_config.role

ClientBusy ==
    CASE ctl_pc = "boot" -> "boot"
      [] ctl_pc = "fgets" -> "none"
      [] OTHER -> cmd.cmd

ClientGenerator ==
    CASE ~handle -> "none"
      [] handle /\ gen_pc = "exit" -> "ending"
      [] OTHER -> "sending"

ClientNode == Client(g_state, g_config.run_id, ClientRole, ClientGenerator, gen_run, ClientBusy, reply)

\* Its members; below, what the operators of the protocol make of it.
LEMMA ClientMembers ==
    ASSUME NEW s, NEW i, NEW r, NEW g, NEW t, NEW b, NEW a, NEW n, n = Client(s, i, r, g, t, b, a)
    PROVE  n.state = s /\ n.run_id = i /\ n.role = r /\ n.generator = g /\ n.gen_run = t /\ n.busy = b /\ n.reply = a
BY DEF Client

\* The record with another state.
LEMMA ClientState ==
    ASSUME NEW s, NEW i, NEW r, NEW g, NEW t, NEW b, NEW a, NEW x
    PROVE  [Client(s, i, r, g, t, b, a) EXCEPT !.state = x] = Client(x, i, r, g, t, b, a)
BY DEF Client

\* The record with the generator started or gone.
LEMMA ClientGenerating ==
    ASSUME NEW s, NEW i, NEW r, NEW g, NEW t, NEW b, NEW a, NEW x
    PROVE  [Client(s, i, r, g, t, b, a) EXCEPT !.generator = x] = Client(s, i, r, x, t, b, a)
BY DEF Client

\* An answer.
LEMMA ClientAnswer ==
    ASSUME NEW s, NEW i, NEW r, NEW g, NEW t, NEW b, NEW a, NEW code
    PROVE  Protocol!Answer(Client(s, i, r, g, t, b, a), code) = Client(s, i, r, g, t, "none", code)
<1> DEFINE m == Protocol!Answer(Client(s, i, r, g, t, b, a), code)
<1>1. m = [Client(s, i, r, g, t, b, a) EXCEPT !.busy = "none", !.reply = code]
  BY DEF Protocol!Answer
<1> HIDE DEF m
<1> QED
  BY <1>1 DEF m, Client

\* A command that goes on.
LEMMA ClientContinues ==
    ASSUME NEW s, NEW i, NEW r, NEW g, NEW t, NEW b, NEW a, NEW command
    PROVE  Protocol!Continues(Client(s, i, r, g, t, b, a), command) = Client(s, i, r, g, t, command, "none")
<1> DEFINE m == Protocol!Continues(Client(s, i, r, g, t, b, a), command)
<1>1. m = [Client(s, i, r, g, t, b, a) EXCEPT !.busy = command, !.reply = "none"]
  BY DEF Protocol!Continues
<1> HIDE DEF m
<1> QED
  BY <1>1 DEF m, Client

\* The end of the boot.
LEMMA ClientUp ==
    ASSUME NEW s, NEW i, NEW r, NEW g, NEW t, NEW b, NEW a, NEW m,
           m = Protocol!Up(Client(s, i, r, g, t, b, a))
    PROVE  m = Client(IF s = "BOOT" THEN "IDLE" ELSE s, i, r, g, t, "none", a)
BY DEF Protocol!Up, Client

\* A step that touches none of the members is invisible: so are the driver's,
\* the receiver's and most of the generator's.
LEMMA OthersUnseen ==
    ASSUME TasksOK,
           \/ WifiDriver \/ receiver_task
           \/ generator_task /\ ~GenEndTest /\ ~GenFinish /\ ~GenExit
    PROVE  UNCHANGED ClientNode
<1>1. UNCHANGED <<g_state, g_config, handle, gen_run, reply, ctl_pc, cmd>>
  BY DEF shared, ctlVars, genVars, WifiDriver, tx_callback, rx_callback,
         receiver_task, Receive, EchoSend, EchoTimeout,
         generator_task, GenLoop, GenRequest, GenAcquire, GenSlotTimeout, GenSend,
         GenSubmitted
<1>2. gen_pc' = gen_pc \/ (gen_pc # "exit" /\ gen_pc' # "exit")
  BY DEF genVars, WifiDriver, tx_callback, rx_callback,
         receiver_task, Receive, EchoSend, EchoTimeout,
         generator_task, GenLoop, GenRequest, GenAcquire, GenSlotTimeout, GenSend,
         GenSubmitted
<1>3. UNCHANGED ClientGenerator
  BY <1>1, <1>2 DEF ClientGenerator
<1> QED
  BY <1>1, <1>3 DEF ClientNode, ClientRole, ClientBusy

\* The generator's end of its run, and its own end, are seen.
LEMMA GeneratorSeen ==
    ASSUME TypeOK, TasksOK, GenEndTest \/ GenFinish \/ GenExit
    PROVE  ClientNode' \in Protocol!GeneratorSteps(ClientNode) \/ UNCHANGED ClientNode
<1> USE DEF shared, ctlVars, genVars, TasksOK
<1>1. UNCHANGED <<g_config, ClientRole, ClientBusy, reply, gen_run>>
  BY DEF GenEndTest, GenFinish, GenExit, ClientRole, ClientBusy
<1>2. ClientNode.state = g_state /\ ClientNode.generator = ClientGenerator
  BY ClientMembers DEF ClientNode
<1>3. handle = TRUE
  BY DEF GenEndTest, GenFinish, GenExit, TypeOK
<1>4. CASE GenEndTest /\ g_state # "ERROR"
  <2>1. UNCHANGED <<ClientGenerator, g_state>>
    BY <1>4 DEF GenEndTest, ClientGenerator
  <2> QED
    BY <1>1, <2>1 DEF ClientNode
<1>5. CASE GenEndTest /\ g_state = "ERROR"
  <2>1. ClientGenerator = "sending" /\ ClientGenerator' = "ending" /\ UNCHANGED g_state
    BY <1>3, <1>5 DEF GenEndTest, ClientGenerator
  <2>2. ClientNode' = Client(g_state, g_config.run_id, ClientRole, "ending", gen_run, ClientBusy, reply)
    BY <1>1, <2>1 DEF ClientNode
  <2>3. @ = [ClientNode EXCEPT !.generator = "ending"]
    BY ClientGenerating DEF ClientNode
  <2> QED
    BY <1>2, <1>5, <2>1, <2>2, <2>3 DEF Protocol!GeneratorSteps
<1>6. CASE GenFinish
  <2>1. ClientGenerator = "sending" /\ ClientGenerator' = "ending" /\ g_state' = "FINISHED"
    BY <1>3, <1>6 DEF GenFinish, ClientGenerator
  <2>2. ClientNode' = Client("FINISHED", g_config.run_id, ClientRole, "ending", gen_run, ClientBusy, reply)
    BY <1>1, <2>1 DEF ClientNode
  <2> DEFINE n == ClientNode
             m == [n EXCEPT !.generator = "ending", !.state = "FINISHED"]
  <2>n. n = Client(g_state, g_config.run_id, ClientRole, ClientGenerator, gen_run, ClientBusy, reply)
    BY DEF ClientNode
  <2>m. m = [n EXCEPT !.generator = "ending", !.state = "FINISHED"]
    OBVIOUS
  <2> HIDE DEF n, m
  <2>3. m = Client("FINISHED", g_config.run_id, ClientRole, "ending", gen_run, ClientBusy, reply)
    BY <2>n, <2>m DEF Client
  <2> QED
    BY <1>2, <2>1, <2>2, <2>3 DEF n, m, Protocol!GeneratorSteps
<1>7. CASE GenExit
  <2>1. ClientGenerator = "ending" /\ ClientGenerator' = "none" /\ UNCHANGED g_state
    BY <1>3, <1>7 DEF GenExit, ClientGenerator
  <2>2. ClientNode' = Client(g_state, g_config.run_id, ClientRole, "none", gen_run, ClientBusy, reply)
    BY <1>1, <2>1 DEF ClientNode
  <2>3. @ = [ClientNode EXCEPT !.generator = "none"]
    BY ClientGenerating DEF ClientNode
  <2> QED
    BY <1>2, <2>1, <2>2, <2>3 DEF Protocol!GeneratorSteps
<1> QED
  BY <1>4, <1>5, <1>6, <1>7

\* control_run before its loop.
LEMMA BootSeen ==
    ASSUME ControlBoot
    PROVE  ClientNode.busy = "boot" /\ ClientNode' = Protocol!Up(ClientNode)
<1>1. ClientBusy = "boot" /\ ClientBusy' = "none" /\ UNCHANGED <<g_config, handle, gen_pc, gen_run, reply, ClientRole>>
  BY DEF ControlBoot, ClientBusy, ClientRole, genVars
<1>2. g_state' = IF g_state = "BOOT" THEN "IDLE" ELSE g_state
  BY DEF ControlBoot
<1>3. ClientNode.busy = "boot"
  BY <1>1, ClientMembers DEF ClientNode
<1>4. UNCHANGED ClientGenerator
  BY <1>1 DEF ClientGenerator
<1> QED
  BY <1>1, <1>2, <1>3, <1>4, ClientUp DEF ClientNode

\* The end of a configure, good or bad.
LEMMA ConfigureEnds ==
    ASSUME cmd.cmd = "configure", ctl_pc \notin {"boot", "fgets", "parse"},
           NEW code, Reply(code), UNCHANGED <<g_config, cmd, handle, gen_pc, gen_run>>,
           \/ g_state' = "CONFIGURED" /\ code = "ok"
           \/ g_state' = "ERROR" /\ code = "radio_config"
    PROVE  ClientNode' \in Protocol!Completed(ClientNode)
<1>1. ClientNode' = Client(g_state', g_config.run_id, ClientRole, ClientGenerator, gen_run, "none", code)
  BY DEF Reply, ClientNode, ClientGenerator, ClientRole, ClientBusy
<1>2. @ = Protocol!Answer([ClientNode EXCEPT !.state = g_state'], code)
  <2>1. [ClientNode EXCEPT !.state = g_state']
        = Client(g_state', g_config.run_id, ClientRole, ClientGenerator, gen_run, ClientBusy, reply)
    BY ClientState DEF ClientNode
  <2> QED
    BY <2>1, ClientAnswer
<1>3. ClientBusy = "configure"
  BY DEF ClientBusy
<1>4. ClientNode.busy = "configure"
  BY <1>3, ClientMembers DEF ClientNode
<1> QED
  BY <1>1, <1>2, <1>4 DEF Protocol!Completed

\* The end of a drain: it times out, or the generator is gone.
LEMMA DrainEnds ==
    ASSUME TypeOK, cmd.cmd \in {"stop", "result"}, ctl_pc \notin {"boot", "fgets", "parse"},
           NEW code, Reply(code), UNCHANGED <<g_state, g_config, cmd, handle, gen_pc, gen_run>>,
           code = "drain_timeout" \/ (code = "ok" /\ ~handle)
    PROVE  ClientNode' \in Protocol!Completed(ClientNode)
<1>1. ClientNode' = Client(g_state, g_config.run_id, ClientRole, ClientGenerator, gen_run, "none", code)
  BY DEF Reply, ClientNode, ClientGenerator, ClientRole, ClientBusy
<1>2. @ = Protocol!Answer(ClientNode, code)
  BY ClientAnswer DEF ClientNode
<1>3. ClientBusy = cmd.cmd
  BY DEF ClientBusy
<1>4. ClientNode.busy = cmd.cmd /\ ClientNode.generator = ClientGenerator
  BY <1>3, ClientMembers DEF ClientNode
<1>5. handle \in BOOLEAN
  BY DEF TypeOK
<1>6. CASE handle
  <2>1. ClientGenerator # "none"
    BY <1>6 DEF ClientGenerator
  <2> QED
    BY <1>1, <1>2, <1>4, <1>6, <2>1 DEF Protocol!Completed
<1>7. CASE ~handle
  <2>1. ClientGenerator = "none"
    BY <1>7 DEF ClientGenerator
  <2> QED
    BY <1>1, <1>2, <1>4, <1>7, <2>1 DEF Protocol!Completed
<1> QED
  BY <1>6, <1>7

\* What the control task does in between is not seen; the end of it is.
LEMMA WorkSeen ==
    ASSUME IInv, TasksOK, CommandOK, ControlWork, ~ControlBoot
    PROVE  ClientNode' \in Protocol!Completed(ClientNode) \/ UNCHANGED ClientNode
<1> USE DEF IInv, CommandOK, Configuring, Waiting, Draining, genVars, shared
<1>1. TypeOK /\ UNCHANGED <<handle, gen_pc, gen_run>>
  BY DEF ControlWork, ControlBoot, ConfigureCopied, ConfigureReset, ConfigureDone, SendResult,
         radio_wait_idle, IdleTake, IdleTimeout, IdleAll, IdleGiveBack, IdleFailed, IdleOk,
         radio_configure, CfgTake, CfgTakeFailed, CfgSwap, CfgGive, CfgPeer,
         receiver_flush, FlushPost, FlushFull, FlushNotified, FlushTimeout,
         generator_wait_stopped, WaitStopped, WaitStoppedTimeout
<1>2. ASSUME UNCHANGED <<g_state, g_config, cmd, reply>>,
             {ctl_pc, ctl_pc'} \cap {"boot", "fgets", "parse"} = {}
      PROVE  UNCHANGED ClientNode
  <2>1. UNCHANGED <<ClientRole, ClientBusy, ClientGenerator>>
    BY <1>1, <1>2 DEF ClientRole, ClientBusy, ClientGenerator
  <2> QED
    BY <1>1, <1>2, <2>1 DEF ClientNode
<1>3. CASE IdleTake \/ IdleTimeout \/ IdleAll \/ IdleGiveBack \/ IdleOk
  BY <1>2, <1>3 DEF IdleTake, IdleTimeout, IdleAll, IdleGiveBack, IdleOk
<1>4. CASE CfgTake \/ CfgSwap \/ CfgGive \/ ConfigureReset \/ FlushPost \/ WaitStopped
  BY <1>2, <1>4 DEF CfgTake, CfgSwap, CfgGive, ConfigureReset, FlushPost, WaitStopped
<1>5. CASE ConfigureCopied
  <2>1. UNCHANGED <<g_state, reply, ClientRole, ClientBusy>> /\ g_config'.run_id = g_config.run_id
    BY <1>5 DEF ConfigureCopied, ClientRole, ClientBusy, TypeOK, Config
  <2>2. UNCHANGED ClientGenerator
    BY <1>1 DEF ClientGenerator
  <2> QED
    BY <1>1, <2>1, <2>2 DEF ClientNode
<1>6. CASE IdleFailed
  <2>1. CASE stage = 0
    <3>1. cmd.cmd = "configure"
      BY <1>6, <2>1 DEF IdleFailed
    <3> QED
      BY <1>1, <1>6, <2>1, <3>1, ConfigureEnds DEF IdleFailed
  <2>2. CASE stage > 0
    <3>1. cmd.cmd \in {"stop", "result"}
      BY <1>6, <2>2 DEF IdleFailed
    <3> QED
      BY <1>1, <1>6, <2>2, <3>1, DrainEnds DEF IdleFailed
  <2> QED
    BY <1>6, <2>1, <2>2 DEF IdleFailed
<1>7. CASE CfgTakeFailed
  BY <1>1, <1>7, ConfigureEnds DEF CfgTakeFailed
<1>8. CASE CfgPeer
  <2>1. CASE ctl_pc' = "cfg_reset" /\ UNCHANGED <<g_state, reply>>
    BY <1>2, <1>8, <2>1 DEF CfgPeer
  <2>2. CASE g_state' = "ERROR" /\ Reply("radio_config")
    BY <1>1, <1>8, <2>2, ConfigureEnds DEF CfgPeer
  <2> QED
    BY <1>8, <2>1, <2>2 DEF CfgPeer
<1>9. CASE ConfigureDone
  BY <1>1, <1>9, ConfigureEnds DEF ConfigureDone
<1>10. CASE FlushFull \/ FlushTimeout \/ WaitStoppedTimeout
  BY <1>1, <1>10, DrainEnds DEF FlushFull, FlushTimeout, WaitStoppedTimeout
<1>11. CASE FlushNotified
  <2>1. ~handle /\ cmd.cmd \in {"stop", "result"}
    BY <1>11 DEF FlushNotified, TasksOK
  <2>2. CASE ctl_pc' \in {"idle", "report"} /\ UNCHANGED reply
    BY <1>2, <1>11, <2>2 DEF FlushNotified
  <2>3. CASE Reply("ok")
    BY <1>1, <1>11, <2>1, <2>3, DrainEnds DEF FlushNotified
  <2> QED
    BY <1>11, <2>2, <2>3 DEF FlushNotified
<1>12. CASE SendResult
  <2>1. ~handle /\ cmd.cmd = "result"
    BY <1>12 DEF SendResult, TasksOK
  <2> QED
    BY <1>1, <1>12, <2>1, DrainEnds DEF SendResult
<1> QED
  BY <1>3, <1>4, <1>5, <1>6, <1>7, <1>8, <1>9, <1>10, <1>11, <1>12
  DEF ControlWork, radio_wait_idle, radio_configure, receiver_flush, generator_wait_stopped

\* A line is executed as the protocol says, in every state of the node.
LEMMA LineSeen ==
    ASSUME IInv, TasksOK, NEW c \in HostCommands, dispatch(c)
    PROVE  ClientNode.busy = "none" /\ ClientNode' \in Protocol!Dispatched(ClientNode, c)
<1> DEFINE n == ClientNode
<1>0. TypeOK /\ c \in Command /\ c.cmd \in {"status", "bad_request", "configure", "arm", "start", "stop", "result"}
  BY HarnessAssumption DEF IInv, Command
<1>1. ctl_pc = "fgets" /\ cmd' = c
  BY DEF dispatch, DispatchReadOnly, ConfigureRefused, ConfigureParse, DispatchMismatch,
         DispatchArm, DispatchStart, DispatchStop, DispatchResult, Fgets
<1>2. n = Client(g_state, g_config.run_id, g_config.role, ClientGenerator, gen_run, "none", reply)
  BY <1>1 DEF ClientNode, ClientGenerator, ClientRole, ClientBusy
<1>3. /\ n.state = g_state /\ n.run_id = g_config.run_id /\ n.role = g_config.role
      /\ n.generator = ClientGenerator /\ n.busy = "none"
  BY <1>2, ClientMembers
<1>4. Protocol!Mismatch(n, c) <=> ~RunMatches(c)
  BY <1>3 DEF Protocol!Mismatch, RunMatches
<1> HIDE DEF n
\* A command answered at once that leaves state and configuration alone.
<1>5. ASSUME NEW code, Reply(code), UNCHANGED <<g_state, g_config, handle, gen_pc, gen_run>>
      PROVE  ClientNode' = Protocol!Answer(n, code)
  <2>1. ClientNode' = Client(g_state, g_config.run_id, g_config.role, ClientGenerator, gen_run, "none", code)
    BY <1>5 DEF Reply, ClientNode, ClientGenerator, ClientRole, ClientBusy
  <2> QED
    BY <1>2, <2>1, ClientAnswer
<1>6. CASE DispatchReadOnly(c)
  <2>1. ClientNode' = Protocol!Answer(n, IF c.cmd = "status" THEN "ok" ELSE "bad_request")
    BY <1>5, <1>6 DEF DispatchReadOnly, shared, genVars
  <2> QED
    BY <1>6, <1>3, <2>1 DEF n, DispatchReadOnly, Protocol!Dispatched
<1>7. CASE ConfigureRefused(c)
  <2>1. CASE g_state \in {"RUNNING", "ARMED"} /\ Reply("invalid_state")
    <3>1. ClientNode' = Protocol!Answer(n, "invalid_state")
      BY <1>5, <1>7, <2>1 DEF ConfigureRefused, shared, genVars
    <3> QED
      BY <1>3, <1>7, <2>1, <3>1 DEF n, ConfigureRefused, Protocol!Dispatched, Protocol!ConfigureLine
  <2>2. CASE g_state \notin {"RUNNING", "ARMED"} /\ c.role = "ROLE_NONE" /\ Reply("invalid_config")
    <3>1. ClientNode' = Protocol!Answer(n, "invalid_config")
      BY <1>5, <1>7, <2>2 DEF ConfigureRefused, shared, genVars
    <3> QED
      BY <1>3, <1>7, <2>2, <3>1 DEF n, ConfigureRefused, Protocol!Dispatched, Protocol!ConfigureLine
  <2> QED
    BY <1>7, <2>1, <2>2 DEF ConfigureRefused
<1>8. CASE ConfigureParse(c)
  <2> DEFINE m == [n EXCEPT !.run_id = c.run_id, !.role = c.role]
  <2>1. m = Client(g_state, c.run_id, c.role, ClientGenerator, gen_run, "none", reply)
    <3>1. m = [Client(g_state, g_config.run_id, g_config.role, ClientGenerator, gen_run, "none", reply)
               EXCEPT !.run_id = c.run_id, !.role = c.role]
      BY <1>2
    <3> HIDE DEF m
    <3> QED
      BY <3>1 DEF Client
  <2>2. ClientNode' = Client(g_state, c.run_id, c.role, ClientGenerator, gen_run, "configure", "none")
    <3>1. /\ g_config'.run_id = c.run_id /\ ctl_pc' = "parse" /\ reply' = "none"
          /\ c.cmd = "configure" /\ UNCHANGED <<g_state, handle, gen_pc, gen_run>>
      BY <1>0, <1>8 DEF ConfigureParse, Continue, TypeOK, Config, genVars
    <3>2. ClientRole' = c.role /\ ClientBusy' = "configure" /\ UNCHANGED ClientGenerator
      BY <1>1, <3>1 DEF ClientRole, ClientBusy, ClientGenerator
    <3> QED
      BY <3>1, <3>2 DEF ClientNode
  <2>3. ClientNode' = Protocol!Continues(m, "configure")
    BY <2>1, <2>2, ClientContinues
  <2> HIDE DEF m
  <2> QED
    BY <1>3, <1>8, <2>3 DEF m, n, ConfigureParse, Protocol!Dispatched, Protocol!ConfigureLine
<1>9. CASE DispatchMismatch(c)
  <2>1. ClientNode' = Protocol!Answer(n, "run_id_mismatch")
    BY <1>5, <1>9 DEF DispatchMismatch, shared, genVars
  <2> QED
    BY <1>3, <1>4, <1>9, <2>1 DEF n, DispatchMismatch, Protocol!Dispatched
\* One answered at once that changes the state.
<1>10. ASSUME NEW x, NEW code, Reply(code), g_state' = x, UNCHANGED <<g_config, handle, gen_pc, gen_run>>
       PROVE  ClientNode' = Protocol!Answer([n EXCEPT !.state = x], code)
  <2>1. ClientNode' = Client(x, g_config.run_id, g_config.role, ClientGenerator, gen_run, "none", code)
    BY <1>10 DEF Reply, ClientNode, ClientGenerator, ClientRole, ClientBusy
  <2>2. [n EXCEPT !.state = x] = Client(x, g_config.run_id, g_config.role, ClientGenerator, gen_run, "none", reply)
    BY <1>2, ClientState
  <2> QED
    BY <2>1, <2>2, ClientAnswer
<1>11. CASE DispatchArm(c)
  <2>1. CASE g_state # "CONFIGURED" /\ Reply("invalid_state") /\ UNCHANGED g_state
    <3>1. ClientNode' = Protocol!Answer(n, "invalid_state")
      BY <1>5, <1>11, <2>1 DEF DispatchArm, genVars
    <3> QED
      BY <1>3, <1>4, <1>11, <2>1, <3>1 DEF n, DispatchArm, Protocol!Dispatched, Protocol!ArmLine
  <2>2. CASE g_state = "CONFIGURED" /\ g_state' = "ARMED" /\ Reply("ok")
    <3>1. ClientNode' = Protocol!Answer([n EXCEPT !.state = "ARMED"], "ok")
      BY <1>10, <1>11, <2>2 DEF DispatchArm, genVars
    <3> QED
      BY <1>3, <1>4, <1>11, <2>2, <3>1 DEF n, DispatchArm, Protocol!Dispatched, Protocol!ArmLine
  <2> QED
    BY <1>11, <2>1, <2>2 DEF DispatchArm
<1>12. CASE DispatchStart(c)
  <2>0. c.cmd = "start" /\ ~Protocol!Mismatch(n, c) /\ UNCHANGED g_config /\ handle \in BOOLEAN
    BY <1>0, <1>4, <1>12 DEF DispatchStart, TypeOK
  <2>1. Protocol!Dispatched(n, c) = Protocol!StartLine(n)
    BY <2>0 DEF Protocol!Dispatched
  <2>2. CASE g_state # "ARMED" /\ Reply("invalid_state") /\ UNCHANGED <<g_state, genVars>>
    <3>1. ClientNode' = Protocol!Answer(n, "invalid_state")
      BY <1>5, <2>0, <2>2 DEF genVars
    <3> QED
      BY <1>3, <2>1, <2>2, <3>1 DEF n, Protocol!StartLine
  <2>3. CASE g_state = "ARMED" /\ GeneratorStartFails
    <3>1. ClientNode' = Protocol!Answer([n EXCEPT !.state = "ERROR"], "generator_start")
      BY <1>10, <2>0, <2>3 DEF GeneratorStartFails, genVars
    <3>2. handle \/ g_config.role = "ROLE_GENERATOR"
      BY <2>3 DEF GeneratorStartFails, IsGenerator
    <3>3. CASE handle
      <4>1. ClientGenerator # "none"
        BY <3>3 DEF ClientGenerator
      <4> QED
        BY <1>3, <2>1, <2>3, <3>1, <4>1 DEF n, Protocol!StartLine
    <3>4. CASE ~handle /\ g_config.role = "ROLE_GENERATOR"
      <4>1. ClientGenerator = "none"
        BY <3>4 DEF ClientGenerator
      <4> QED
        BY <1>3, <2>1, <2>3, <3>1, <3>4, <4>1 DEF n, Protocol!StartLine
    <3> QED
      BY <3>2, <3>3, <3>4
  <2>4. CASE g_state = "ARMED" /\ GeneratorStarts
    <3>1. ~handle /\ g_state' = "RUNNING" /\ Reply("ok") /\ ClientGenerator = "none"
      BY <2>4 DEF GeneratorStarts, ClientGenerator
    <3>2. CASE g_config.role = "ROLE_GENERATOR"
      <4> DEFINE m == [n EXCEPT !.state = "RUNNING", !.generator = "sending", !.gen_run = n.run_id]
      <4>1. m = Client("RUNNING", g_config.run_id, g_config.role, "sending", g_config.run_id, "none", reply)
        <5>1. m = [Client(g_state, g_config.run_id, g_config.role, ClientGenerator, gen_run, "none", reply)
                   EXCEPT !.state = "RUNNING", !.generator = "sending", !.gen_run = g_config.run_id]
          BY <1>2, <1>3
        <5> HIDE DEF m
        <5> QED
          BY <5>1 DEF Client
      <4>2. ClientGenerator' = "sending" /\ gen_run' = g_config.run_id
        BY <2>4, <3>2 DEF GeneratorStarts, IsGenerator, ClientGenerator
      <4>3. ClientNode' = Client("RUNNING", g_config.run_id, g_config.role, "sending", g_config.run_id, "none", "ok")
        BY <2>0, <3>1, <4>2 DEF Reply, ClientNode, ClientRole, ClientBusy
      <4>4. ClientNode' = Protocol!Answer(m, "ok")
        <5> HIDE DEF m
        <5> QED
          BY <4>1, <4>3, ClientAnswer
      <4> QED
        BY <1>3, <2>1, <2>4, <3>1, <3>2, <4>4 DEF n, Protocol!StartLine
    <3>3. CASE g_config.role # "ROLE_GENERATOR"
      <4>1. ClientNode' = Protocol!Answer([n EXCEPT !.state = "RUNNING"], "ok")
        BY <1>10, <2>0, <2>4, <3>1, <3>3 DEF GeneratorStarts, IsGenerator, genVars
      <4> QED
        BY <1>3, <2>1, <2>4, <3>1, <3>3, <4>1 DEF n, Protocol!StartLine
    <3> QED
      BY <3>2, <3>3
  <2> QED
    BY <1>12, <2>2, <2>3, <2>4 DEF DispatchStart
<1>13. CASE DispatchStop(c)
  <2>0. /\ c.cmd = "stop" /\ ~Protocol!Mismatch(n, c) /\ UNCHANGED <<g_config, handle, gen_pc, gen_run>>
        /\ ctl_pc' = "wait_gen" /\ reply' = "none"
        /\ g_state' = IF g_state \in {"RUNNING", "ARMED"} THEN "FINISHED" ELSE g_state
    BY <1>4, <1>13 DEF DispatchStop, Continue, genVars
  <2>1. ClientNode' = Client(g_state', g_config.run_id, g_config.role, ClientGenerator, gen_run, "stop", "none")
    BY <1>1, <2>0 DEF ClientNode, ClientGenerator, ClientRole, ClientBusy
  <2>2. [n EXCEPT !.state = g_state'] = Client(g_state', g_config.run_id, g_config.role, ClientGenerator, gen_run, "none", reply)
    BY <1>2, ClientState
  <2>3. ClientNode' = Protocol!Continues([n EXCEPT !.state = g_state'], "stop")
    BY <2>1, <2>2, ClientContinues
  <2> QED
    BY <1>3, <2>0, <2>3 DEF n, Protocol!Dispatched, Protocol!StopLine
<1>14. CASE DispatchResult(c)
  <2>0. c.cmd = "result" /\ ~Protocol!Mismatch(n, c) /\ UNCHANGED <<g_state, g_config, handle, gen_pc, gen_run>>
    BY <1>4, <1>14 DEF DispatchResult, shared, genVars
  <2>1. CASE g_state # "FINISHED" /\ Reply("invalid_state")
    <3>1. ClientNode' = Protocol!Answer(n, "invalid_state")
      BY <1>5, <2>0, <2>1
    <3> QED
      BY <1>3, <2>0, <2>1, <3>1 DEF n, Protocol!Dispatched, Protocol!ResultLine
  <2>2. CASE g_state = "FINISHED" /\ Continue("wait_gen")
    <3>1. ClientNode' = Client(g_state, g_config.run_id, g_config.role, ClientGenerator, gen_run, "result", "none")
      BY <1>1, <2>0, <2>2 DEF Continue, ClientNode, ClientGenerator, ClientRole, ClientBusy
    <3>2. ClientNode' = Protocol!Continues(n, "result")
      BY <1>2, <3>1, ClientContinues
    <3> QED
      BY <1>3, <2>0, <2>2, <3>2 DEF n, Protocol!Dispatched, Protocol!ResultLine
  <2> QED
    BY <1>14, <2>1, <2>2 DEF DispatchResult
<1> QED
  BY <1>3, <1>6, <1>7, <1>8, <1>9, <1>11, <1>12, <1>13, <1>14 DEF n, dispatch

\* The node implements its control protocol: each step of any task, callbacks
\* and timeouts included, is a step of the protocol or invisible to the
\* client, at any tick rate.
THEOREM NodeKeepsProtocol == Spec => KeepsProtocol
<1> USE DEF ClientNode, Client, ClientRole, ClientGenerator, ClientBusy
<1>1. Init => Protocol!Init
  <2> SUFFICES ASSUME Init PROVE Protocol!Init
    OBVIOUS
  <2>1. ClientRole = "ROLE_NONE" /\ ClientBusy = "boot" /\ g_config.run_id = 0 /\ reply = "none"
    BY DEF Init
  <2>2. g_state = "BOOT" /\ ClientGenerator = "none" /\ gen_run = 0
    BY DEF Init
  <2> HIDE DEF ClientRole, ClientGenerator, ClientBusy
  <2>3. ClientNode = Protocol!NewNode("BOOT")
    BY <2>1, <2>2 DEF Protocol!NewNode
  <2> QED
    BY <2>3 DEF Protocol!Init, Protocol!BootedNodes, ClientRole, ClientGenerator, ClientBusy
<1>2. IInv /\ TasksOK /\ ProtocolInv /\ [Next]_vars => [Protocol!Next]_ClientNode
  <2> HIDE DEF ClientNode
  <2> SUFFICES ASSUME IInv, TasksOK, ProtocolInv, [Next]_vars PROVE Protocol!Next \/ UNCHANGED ClientNode
    OBVIOUS
  <2>1. CASE UNCHANGED vars
    BY <2>1 DEF vars, shared, ctlVars, genVars, ClientNode
  <2>2. CASE WifiDriver \/ receiver_task \/ (generator_task /\ ~GenEndTest /\ ~GenFinish /\ ~GenExit)
    BY <2>2, OthersUnseen
  <2>3. CASE GenEndTest \/ GenFinish \/ GenExit
    BY <2>3, GeneratorSeen DEF IInv, ProtocolInv, ClientNode, Protocol!Next, Protocol!Generate
  <2>4. CASE ControlBoot
    BY <2>4, BootSeen DEF ClientNode, Protocol!Next, Protocol!Boot
  <2>5. CASE ControlWork /\ ~ControlBoot
    BY <2>5, WorkSeen DEF ProtocolInv, ClientNode, Protocol!Next, Protocol!Complete
  <2>6. ASSUME NEW c \in HostCommands, dispatch(c) PROVE Protocol!Next
    BY <2>6, LineSeen DEF ClientNode, Protocol!Next, Protocol!Read
  <2> QED
    BY <2>1, <2>2, <2>3, <2>4, <2>5, <2>6 DEF Next, control_run, generator_task
<1> QED
  BY NodeInvariant, TasksInvariant, ProtocolInvariant, <1>1, <1>2, PTL
  DEF Spec, KeepsProtocol, Protocol!Spec
=============================================================================
