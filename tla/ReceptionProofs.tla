-------------------------- MODULE ReceptionProofs ---------------------------
(***************************************************************************)
(* Proofs about what a receiver reads and counts.  SequenceObserve and     *)
(* Link, for every window and every range of sequence numbers: what the    *)
(* bitmap and gaps mean, that the firmware implements the host's exact     *)
(* tracker but for repeats too old for the window, and what the loss is    *)
(* the host computes from both ends.  Wire, for bytes of any number of values  *)
(* and headers of any fields that fit: what one end encodes is what the    *)
(* other end and the host decode.                                          *)
(***************************************************************************)
EXTENDS Link, Wire, FiniteSetTheorems, TLAPS

\* A set of sequence numbers is finite, and a new number adds one.
LEMMA NumbersFinite ==
    ASSUME NEW S, S \subseteq 0..MaxSeq
    PROVE  IsFiniteSet(S) /\ Cardinality(S) \in Nat
<1>1. IsFiniteSet(0..MaxSeq)
  BY ObserveAssumption, FS_Interval
<1>2. IsFiniteSet(S)
  BY <1>1, FS_Subset
<1> QED
  BY <1>2, FS_CardinalityType

\* Adding one number to a finite set of them.
LEMMA AddNumber ==
    ASSUME NEW S, S \subseteq 0..MaxSeq, NEW s \in 0..MaxSeq
    PROVE  Cardinality(S \cup {s}) = IF s \in S THEN Cardinality(S) ELSE Cardinality(S) + 1
<1>1. IsFiniteSet(S)
  BY NumbersFinite
<1> QED
  BY <1>1, FS_AddElement

\* Numbers up to h without one of them are at most h many.
LEMMA RoomLeft ==
    ASSUME NEW S, NEW h \in 0..MaxSeq, NEW s \in 0..h, S \subseteq (0..h) \ {s}
    PROVE  Cardinality(S) <= h
<1>1. S \cup {s} \subseteq 0..h /\ S \subseteq 0..MaxSeq /\ s \in 0..MaxSeq /\ s \notin S
  BY ObserveAssumption
<1>2. Cardinality(S \cup {s}) = Cardinality(S) + 1
  BY <1>1, AddNumber
<1>3. IsFiniteSet(0..h) /\ Cardinality(0..h) = h + 1
  BY FS_Interval
<1>4. Cardinality(S \cup {s}) <= Cardinality(0..h)
  BY <1>1, <1>3, FS_Subset
<1>5. Cardinality(S) \in Nat
  BY <1>1, NumbersFinite
<1> QED
  BY <1>2, <1>3, <1>4, <1>5

\* The invariant holds before the first packet.
LEMMA InitInv == Init => Inv
<1> SUFFICES ASSUME Init PROVE Inv
  OBVIOUS
<1>1. Cardinality({}) = 0
  BY FS_EmptySet
<1>2. TypeOK
  <2>1. init \in BOOLEAN
    BY DEF Init
  <2>2. highest \in 0..MaxSeq
    BY ObserveAssumption DEF Init
  <2> QED
    BY <2>1, <2>2 DEF Init, TypeOK
<1>3. Arrivals
  BY DEF Init, Arrivals
<1>4. BitmapExact
  BY DEF Init, BitmapExact
<1>5. GapsExact
  BY DEF Init, GapsExact
<1>6. DuplicatesReal
  BY <1>1 DEF Init, DuplicatesReal
<1> QED
  BY <1>2, <1>3, <1>4, <1>5, <1>6 DEF Inv

\* Every packet leaves the invariant intact.
LEMMA StepInv ==
    ASSUME Inv, NEW s \in 0..MaxSeq, sequence_observe(s)
    PROVE  Inv'
<1> USE ObserveAssumption
<1>0. /\ TypeOK /\ Arrivals /\ BitmapExact /\ GapsExact /\ DuplicatesReal
      /\ rx' = rx + 1 /\ seen' = seen \cup {s}
  BY DEF Inv, sequence_observe
<1>1. /\ Cardinality(seen) \in Nat /\ Cardinality(counted) \in Nat
      /\ Cardinality(seen \cup {s}) = IF s \in seen THEN Cardinality(seen) ELSE Cardinality(seen) + 1
      /\ Cardinality(counted \cup {s}) =
            IF s \in counted THEN Cardinality(counted) ELSE Cardinality(counted) + 1
  BY <1>0, NumbersFinite, AddNumber DEF TypeOK
<1>2. CASE First(s)
  <2>1. seen = {} /\ counted = {}
    BY <1>0, <1>2 DEF First, Arrivals
  <2>2. Cardinality({s}) = 1 /\ Cardinality({}) = 0
    BY FS_Singleton, FS_EmptySet
  <2>3. TypeOK'
    BY <1>0, <1>2 DEF First, TypeOK
  <2>4. Arrivals'
    BY <1>0, <1>2, <2>1 DEF First, Arrivals, TypeOK
  <2>5. BitmapExact'
    <3>1. highest' = s /\ seen' = {s} /\ bitmap' = {0} /\ init'
      BY <1>0, <1>2, <2>1 DEF First
    <3>2. ASSUME NEW d \in 0..(Window - 1) PROVE s - d \in {s} <=> d = 0
      OBVIOUS
    <3> QED
      BY <3>1, <3>2 DEF BitmapExact
  <2>6. GapsExact'
    BY <1>2, <2>1, <2>2 DEF First, GapsExact
  <2>7. DuplicatesReal'
    BY <1>0, <1>2, <2>1, <2>2 DEF First, DuplicatesReal, TypeOK
  <2> QED
    BY <2>3, <2>4, <2>5, <2>6, <2>7 DEF Inv
<1>3. CASE Ahead(s)
  <2>1. s \notin seen /\ s \notin counted /\ init = TRUE /\ init' = TRUE /\ s > highest
    BY <1>0, <1>3 DEF Ahead, Arrivals, TypeOK
  <2>2. TypeOK'
    BY <1>0, <1>3 DEF Ahead, TypeOK, ShiftLeft
  <2>3. Arrivals'
    BY <1>0, <1>3, <2>1 DEF Ahead, Arrivals, TypeOK
  <2>4. BitmapExact'
    <3>1. ASSUME NEW d \in 0..(Window - 1)
          PROVE  d \in bitmap' <=> s - d \in seen \cup {s}
      <4>1. CASE d = 0
        BY <1>3, <4>1 DEF Ahead
      <4>2. CASE d > 0 /\ d < s - highest
        BY <1>0, <1>3, <2>1, <4>2 DEF Ahead, ShiftLeft, Arrivals, BitmapExact, TypeOK
      <4>3. CASE d > 0 /\ d >= s - highest
        <5>1. d \in bitmap' <=> d - (s - highest) \in bitmap
          BY <1>3, <4>3 DEF Ahead, ShiftLeft
        <5>2. d - (s - highest) \in 0..(Window - 1) /\ highest - (d - (s - highest)) = s - d
          BY <1>0, <2>1, <4>3 DEF TypeOK
        <5>3. d - (s - highest) \in bitmap <=> s - d \in seen
          BY <1>0, <2>1, <5>2 DEF BitmapExact
        <5> QED
          BY <4>3, <5>1, <5>3
      <4> QED
        BY <1>0, <4>1, <4>2, <4>3 DEF TypeOK
    <3>2. bitmap' \subseteq 0..(Window - 1) /\ highest' = s
      BY <1>3, <2>2 DEF TypeOK, Ahead
    <3> QED
      BY <1>0, <2>1, <3>1, <3>2 DEF BitmapExact
  <2>5. GapsExact'
    BY <1>0, <1>1, <1>3, <2>1 DEF Ahead, GapsExact, TypeOK
  <2>6. DuplicatesReal'
    BY <1>0, <1>1, <1>3 DEF Ahead, DuplicatesReal, TypeOK
  <2> QED
    BY <2>2, <2>3, <2>4, <2>5, <2>6 DEF Inv
<1>4. CASE Beyond(s)
  <2>1. /\ init = TRUE /\ init' = init /\ highest' = highest /\ bitmap' = bitmap /\ gaps' = gaps
        /\ counted' = counted /\ s <= highest /\ highest - s >= Window
    BY <1>4 DEF Beyond
  <2>2. TypeOK'
    BY <1>0, <1>4 DEF Beyond, TypeOK
  <2>3. Arrivals'
    BY <1>0, <2>1 DEF Arrivals, TypeOK
  <2>4. BitmapExact'
    <3>1. ASSUME NEW d \in 0..(Window - 1) PROVE highest - d # s
      BY <1>0, <2>1 DEF TypeOK
    <3> QED
      BY <1>0, <2>1, <3>1 DEF BitmapExact
  <2>5. GapsExact'
    BY <1>0, <2>1 DEF GapsExact
  <2>6. DuplicatesReal'
    BY <1>0, <1>1, <1>4 DEF Beyond, DuplicatesReal, TypeOK
  <2> QED
    BY <2>2, <2>3, <2>4, <2>5, <2>6 DEF Inv
<1>5. CASE Duplicate(s)
  <2>1. /\ init = TRUE /\ init' = init /\ highest' = highest /\ bitmap' = bitmap /\ gaps' = gaps
        /\ counted' = counted /\ s <= highest /\ highest - s \in bitmap /\ duplicate' = duplicate + 1
    BY <1>5 DEF Duplicate
  <2>2. s \in seen
    <3>1. highest - (highest - s) = s
      BY <1>0 DEF TypeOK
    <3> QED
      BY <1>0, <2>1, <3>1 DEF BitmapExact
  <2>3. seen' = seen
    BY <1>0, <2>2
  <2>4. TypeOK'
    BY <1>0, <1>5 DEF Duplicate, TypeOK
  <2>5. Arrivals' /\ BitmapExact' /\ GapsExact'
    BY <1>0, <2>1, <2>3 DEF Arrivals, BitmapExact, GapsExact
  <2>6. DuplicatesReal'
    BY <1>0, <1>1, <2>1, <2>3 DEF DuplicatesReal, TypeOK
  <2> QED
    BY <2>4, <2>5, <2>6 DEF Inv
<1>6. CASE Late(s)
  <2>1. /\ init = TRUE /\ init' = TRUE /\ highest' = highest /\ bitmap' = bitmap \cup {highest - s}
        /\ s <= highest /\ highest - s < Window /\ highest - s \notin bitmap
        /\ counted' = counted \cup {s} /\ duplicate' = duplicate
        /\ gaps' = IF gaps > 0 THEN gaps - 1 ELSE gaps
    BY <1>6 DEF Late
  <2>2. highest - s \in 0..(Window - 1) /\ highest - (highest - s) = s
    BY <1>0, <2>1 DEF TypeOK
  <2>3. s \notin seen /\ s \notin counted
    BY <1>0, <2>1, <2>2 DEF BitmapExact, Arrivals
  <2>4. TypeOK'
    BY <1>0, <1>6, <2>2 DEF Late, TypeOK
  <2>5. Arrivals'
    BY <1>0, <2>1 DEF Arrivals, TypeOK
  <2>6. BitmapExact'
    <3>1. ASSUME NEW d \in 0..(Window - 1) PROVE highest - d = s <=> d = highest - s
      BY <1>0 DEF TypeOK
    <3> QED
      BY <1>0, <2>1, <2>2, <3>1 DEF BitmapExact
  <2>7. GapsExact'
    <3>1. counted \subseteq (0..highest) \ {s} /\ s \in 0..highest
      BY <1>0, <2>1, <2>3 DEF Arrivals, TypeOK
    <3>2. Cardinality(counted) <= highest
      BY <1>0, <3>1, RoomLeft DEF TypeOK
    <3>3. gaps + Cardinality(counted) = highest + 1
      BY <1>0, <2>1 DEF GapsExact
    <3>4. gaps' = gaps - 1
      BY <1>0, <1>1, <2>1, <3>2, <3>3 DEF TypeOK
    <3> QED
      BY <1>0, <1>1, <2>1, <2>3, <3>3, <3>4 DEF GapsExact, TypeOK
  <2>8. DuplicatesReal'
    BY <1>0, <1>1, <2>1, <2>3 DEF DuplicatesReal, TypeOK
  <2> QED
    BY <2>4, <2>5, <2>6, <2>7, <2>8 DEF Inv
<1> QED
  BY <1>2, <1>3, <1>4, <1>5, <1>6 DEF sequence_observe

\* The inductive invariant holds in every state the receiver reaches,
\* whatever the window and however packets are lost, repeated or reordered.
THEOREM InvHolds == Spec => []Inv
<1>1. Inv /\ [Next]_seqVars => Inv'
  <2> SUFFICES ASSUME Inv, [Next]_seqVars PROVE Inv'
    OBVIOUS
  <2>1. CASE Next
    BY <2>1, StepInv DEF Next
  <2>2. CASE UNCHANGED seqVars
    BY <2>2 DEF seqVars, streamVars, Inv, TypeOK, Arrivals, BitmapExact, GapsExact, DuplicatesReal
  <2> QED
    BY <2>1, <2>2
<1> QED
  BY InitInv, <1>1, PTL DEF Spec

\* The bitmap is exact: within the window a packet is called a repeat if and
\* only if it is one.
THEOREM BitmapIsExact == Spec => []BitmapExact
<1>1. Inv => BitmapExact
  BY DEF Inv
<1> QED
  BY InvHolds, <1>1, PTL

\* gaps counts the numbers that did not arrive in time, for any window.
THEOREM GapsAreExact == Spec => []GapsExact
<1>1. Inv => GapsExact
  BY DEF Inv
<1> QED
  BY InvHolds, <1>1, PTL

\* The counters of a stream stay in their types, and gaps never goes below 0.
THEOREM CountersTyped == Spec => []TypeOK
<1>1. Inv => TypeOK
  BY DEF Inv
<1> QED
  BY InvHolds, <1>1, PTL

\* The host's count of unique packets is never too small.
THEOREM DuplicatesAreReal == Spec => []DuplicatesReal
<1>1. Inv => DuplicatesReal
  BY DEF Inv
<1> QED
  BY InvHolds, <1>1, PTL

\* The reported loss is never less than the real one.
THEOREM LossIsNotUnderstated == Spec => []LossNotUnderstated
<1>1. Inv => LossNotUnderstated
  <2> SUFFICES ASSUME Inv, init PROVE gaps + Cardinality(seen) >= highest + 1
    BY DEF LossNotUnderstated
  <2>1. /\ counted \subseteq seen /\ seen \subseteq 0..MaxSeq /\ gaps \in Nat /\ highest \in Nat
        /\ gaps + Cardinality(counted) = highest + 1
    BY ObserveAssumption DEF Inv, TypeOK, Arrivals, GapsExact
  <2>2. /\ IsFiniteSet(seen) /\ Cardinality(seen) \in Nat
        /\ IsFiniteSet(counted) /\ Cardinality(counted) \in Nat
    BY <2>1, NumbersFinite
  <2>3. Cardinality(counted) <= Cardinality(seen)
    BY <2>1, <2>2, FS_Subset
  <2> QED
    BY <2>1, <2>2, <2>3
<1> QED
  BY InvHolds, <1>1, PTL
-----------------------------------------------------------------------------
(* The link: what the host makes of the two ends.                          *)

\* Each packet received is a new one, a repeat that was recognised or one
\* that was too old; and only what was sent arrives.
LinkInv ==
    /\ Inv
    /\ sent \in Nat /\ old_repeats \in Nat
    /\ seen \subseteq 0..(sent - 1)
    /\ rx = duplicate + Cardinality(seen) + old_repeats

\* A delivery puts its packet into one of the three classes.
LEMMA DeliverStep ==
    ASSUME LinkInv, NEW s \in 0..MaxSeq, Deliver(s)
    PROVE  LinkInv'
<1> USE ObserveAssumption
<1>0. /\ TypeOK /\ Arrivals /\ BitmapExact /\ sent \in Nat /\ old_repeats \in Nat
      /\ rx = duplicate + Cardinality(seen) + old_repeats
      /\ rx' = rx + 1 /\ seen' = seen \cup {s} /\ sent' = sent
      /\ old_repeats' = IF s \in seen /\ highest - s >= Window THEN old_repeats + 1 ELSE old_repeats
  BY DEF LinkInv, Inv, Deliver, sequence_observe
<1>1. /\ Cardinality(seen) \in Nat
      /\ Cardinality(seen') = IF s \in seen THEN Cardinality(seen) ELSE Cardinality(seen) + 1
  BY <1>0, NumbersFinite, AddNumber DEF TypeOK
<1>2. Inv'
  BY StepInv DEF LinkInv, Deliver
<1>3. seen' \subseteq 0..(sent' - 1)
  BY <1>0 DEF LinkInv, Deliver
<1>4. rx' = duplicate' + Cardinality(seen') + old_repeats'
  <2>1. CASE First(s) \/ Ahead(s)
    <3>1. s \notin seen /\ duplicate' = duplicate
      BY <1>0, <2>1 DEF First, Ahead, Arrivals, TypeOK
    <3> QED
      BY <1>0, <1>1, <3>1 DEF TypeOK
  <2>2. CASE Beyond(s)
    <3>1. highest - s >= Window /\ duplicate' = duplicate
      BY <2>2 DEF Beyond
    <3> QED
      BY <1>0, <1>1, <3>1 DEF TypeOK
  <2>3. CASE Duplicate(s)
    <3>1. s \in seen /\ ~(highest - s >= Window) /\ duplicate' = duplicate + 1
      <4>1. highest - (highest - s) = s
        BY <1>0 DEF TypeOK
      <4> QED
        BY <1>0, <2>3, <4>1 DEF Duplicate, BitmapExact, TypeOK
    <3> QED
      BY <1>0, <1>1, <3>1 DEF TypeOK
  <2>4. CASE Late(s)
    <3>1. s \notin seen /\ duplicate' = duplicate
      <4>1. highest - s \in 0..(Window - 1) /\ highest - (highest - s) = s
        BY <1>0, <2>4 DEF Late, TypeOK
      <4> QED
        BY <1>0, <2>4, <4>1 DEF Late, BitmapExact
    <3> QED
      BY <1>0, <1>1, <3>1 DEF TypeOK
  <2> QED
    BY <2>1, <2>2, <2>3, <2>4 DEF Deliver, sequence_observe
<1> QED
  BY <1>0, <1>2, <1>3, <1>4 DEF LinkInv

\* The classes cover everything received, however the air behaves.
LEMMA LinkInvHolds == LinkSpec => []LinkInv
<1>1. LinkInit => LinkInv
  <2> SUFFICES ASSUME LinkInit PROVE LinkInv
    OBVIOUS
  <2>1. Inv /\ Cardinality(seen) = 0
    BY InitInv, FS_EmptySet DEF LinkInit, Init
  <2> QED
    BY <2>1 DEF LinkInit, Init, LinkInv
<1>2. LinkInv /\ [LinkNext]_linkVars => LinkInv'
  <2> SUFFICES ASSUME LinkInv, [LinkNext]_linkVars PROVE LinkInv'
    OBVIOUS
  <2>1. UNCHANGED seqVars => Inv' /\ UNCHANGED <<rx, duplicate, seen>>
    BY DEF LinkInv, seqVars, streamVars, Inv, TypeOK, Arrivals, BitmapExact, GapsExact, DuplicatesReal
  <2>2. CASE Submit
    <3>1. sent' = sent + 1 /\ sent \in Nat /\ UNCHANGED <<seqVars, old_repeats>>
      BY <2>2 DEF Submit, LinkInv
    <3>2. seen' \subseteq 0..(sent' - 1)
      <4>1. sent' - 1 = sent /\ seen' = seen /\ seen \subseteq 0..(sent - 1)
        BY <2>1, <3>1 DEF LinkInv
      <4>2. 0..(sent - 1) \subseteq 0..sent
        BY <3>1
      <4> QED
        BY <4>1, <4>2
    <3> QED
      BY <2>1, <3>1, <3>2 DEF LinkInv
  <2>3. CASE UNCHANGED linkVars
    BY <2>1, <2>3 DEF linkVars, LinkInv
  <2> QED
    BY <2>2, <2>3, DeliverStep DEF LinkNext
<1> QED
  BY <1>1, <1>2, PTL DEF LinkSpec

\* The loss the host reports is the real one less the repeats too old to be
\* recognised, for every window, any loss, repetition and reordering.
THEOREM LossIsAccounted == LinkSpec => []LossAccounted
<1>1. LinkInv => LossAccounted
  <2> SUFFICES ASSUME LinkInv PROVE LossAccounted
    OBVIOUS
  <2>1. Cardinality(seen) \in Nat /\ duplicate \in Nat
    BY NumbersFinite DEF LinkInv, Inv, TypeOK
  <2>2. unique_rx_packets = Cardinality(seen) + old_repeats
    BY <2>1 DEF LinkInv, unique_rx_packets, saturating_sub
  <2> QED
    BY <2>2 DEF LossAccounted, forward_packet_loss
<1> QED
  BY LinkInvHolds, <1>1, PTL

\* Without such repeats it is exactly the number of frames that never
\* arrived, the ones after the last arrival included.
THEOREM LossIsExact == LinkSpec => [](old_repeats = 0 => LossExact)
<1>1. LinkInv => (old_repeats = 0 => LossExact)
  <2> SUFFICES ASSUME LinkInv, old_repeats = 0 PROVE LossExact
    OBVIOUS
  <2>1. Cardinality(seen) \in Nat /\ duplicate \in Nat /\ sent \in Nat /\ seen \subseteq 0..(sent - 1)
    BY NumbersFinite DEF LinkInv, Inv, TypeOK
  <2>2. Cardinality(seen) <= sent
    <3>1. IsFiniteSet(0..(sent - 1)) /\ Cardinality(0..(sent - 1)) = sent
      <4> DEFINE last == sent - 1
      <4>1. last \in Int /\ sent = last + 1 /\ (0 > last => last = -1)
        BY <2>1
      <4> HIDE DEF last
      <4>2. IsFiniteSet(0..last) /\ Cardinality(0..last) = last + 1
        BY <4>1, FS_Interval
      <4> QED
        BY <4>1, <4>2 DEF last
    <3> QED
      BY <2>1, <3>1, FS_Subset
  <2> QED
    BY <2>1, <2>2 DEF LinkInv, LossExact, forward_packet_loss, unique_rx_packets, saturating_sub
<1> QED
  BY LinkInvHolds, <1>1, PTL
-----------------------------------------------------------------------------
(* The host's tracker.                                                     *)

\* Every packet is a step of the tracker: one the bitmap tells apart is what
\* it is called, a new one too old for it is late, and a repeat too old for it
\* is a repeat under the mapping.
LEMMA TrackerStep ==
    ASSUME LinkInv, NEW s \in 0..MaxSeq, Deliver(s)
    PROVE  Tracker!observe(s)
<1> USE ObserveAssumption
<1>0. /\ TypeOK /\ Arrivals /\ BitmapExact /\ old_repeats \in Nat
      /\ rx < MaxPackets /\ rx' = rx + 1 /\ seen' = seen \cup {s}
      /\ old_repeats' = IF s \in seen /\ highest - s >= Window THEN old_repeats + 1 ELSE old_repeats
  BY DEF LinkInv, Inv, Deliver, sequence_observe
<1>1. CASE First(s)
  <2>1. s \notin seen
    BY <1>0, <1>1 DEF First, Arrivals
  <2>2. Tracker!New(s)
    BY <1>0, <1>1, <2>1 DEF First, Tracker!New
  <2> QED
    BY <1>0, <2>2 DEF Tracker!observe
<1>2. CASE Ahead(s)
  <2>1. s \notin seen /\ ~(s < highest)
    BY <1>0, <1>2 DEF Ahead, Arrivals, TypeOK
  <2>2. Tracker!New(s)
    BY <1>0, <1>2, <2>1 DEF Ahead, Tracker!New
  <2> QED
    BY <1>0, <2>2 DEF Tracker!observe
<1>3. CASE Beyond(s)
  <2>1. /\ highest - s >= Window /\ s < highest /\ ~(s > highest) /\ init = TRUE /\ init' = TRUE
        /\ highest' = highest /\ duplicate' = duplicate /\ out_of_order' = out_of_order + 1
        /\ duplicate \in Nat /\ out_of_order \in Nat
    BY <1>0, <1>3 DEF Beyond, TypeOK
  <2>2. CASE s \in seen
    <3>1. Tracker!Repeat(s)
      BY <1>0, <2>1, <2>2 DEF Tracker!Repeat
    <3> QED
      BY <1>0, <3>1 DEF Tracker!observe
  <2>3. CASE s \notin seen
    <3>1. Tracker!New(s)
      BY <1>0, <2>1, <2>3 DEF Tracker!New
    <3> QED
      BY <1>0, <3>1 DEF Tracker!observe
  <2> QED
    BY <2>2, <2>3
<1>4. CASE Duplicate(s)
  <2>1. highest - (highest - s) = s
    BY <1>0 DEF TypeOK
  <2>2. s \in seen /\ ~(highest - s >= Window)
    BY <1>0, <1>4, <2>1 DEF Duplicate, BitmapExact, TypeOK
  <2>3. Tracker!Repeat(s)
    BY <1>0, <1>4, <2>2 DEF Duplicate, Tracker!Repeat, TypeOK
  <2> QED
    BY <1>0, <2>3 DEF Tracker!observe
<1>5. CASE Late(s)
  <2>1. highest - s \in 0..(Window - 1) /\ highest - (highest - s) = s
    BY <1>0, <1>5 DEF Late, TypeOK
  <2>2. s \notin seen /\ highest \in seen
    BY <1>0, <1>5, <2>1 DEF Late, BitmapExact, Arrivals
  <2>3. s < highest /\ ~(s > highest) /\ old_repeats' = old_repeats
    BY <1>0, <1>5, <2>2 DEF Late, TypeOK
  <2>4. init /\ init' = TRUE
    BY <1>0, <1>5 DEF Late, TypeOK
  <2>5. Tracker!New(s)
    BY <1>0, <1>5, <2>2, <2>3, <2>4 DEF Late, Tracker!New, TypeOK
  <2> QED
    BY <1>0, <2>5 DEF Tracker!observe
<1> QED
  BY <1>1, <1>2, <1>3, <1>4, <1>5 DEF Deliver, sequence_observe

\* For every window, also one far narrower than the range of numbers, the
\* firmware's classification implements the exact one: the same duplicates and
\* the same reorderings, packet by packet, up to the repeats that are too old
\* (metrics.c sequence_observe, protocol.rs SequenceTracker).
THEOREM FirmwareImplementsTracker == LinkSpec => ImplementsTracker
<1>1. LinkInit => Tracker!Init
  BY DEF LinkInit, Init, Tracker!Init
<1>2. LinkInv /\ [LinkNext]_linkVars => [Tracker!Next]_Tracker!trackerVars
  <2> SUFFICES ASSUME LinkInv, [LinkNext]_linkVars PROVE [Tracker!Next]_Tracker!trackerVars
    OBVIOUS
  <2>1. ASSUME NEW s \in 0..MaxSeq, Deliver(s) PROVE Tracker!Next
    BY <2>1, TrackerStep DEF Tracker!Next
  <2>2. CASE Submit \/ UNCHANGED linkVars
    BY <2>2 DEF Submit, linkVars, seqVars, streamVars, Tracker!trackerVars
  <2> QED
    BY <2>1, <2>2 DEF LinkNext
<1> QED
  BY LinkInvHolds, <1>1, <1>2, PTL DEF LinkSpec, ImplementsTracker, Tracker!Spec

\* For every window the firmware misses what the tracker misses and the packets
\* that came too late for the window, no others (metrics.c gaps, protocol.rs
\* estimated_missing).
THEOREM FirmwareCountsTheSameLoss == LinkSpec => []MissingAccounted
<1>1. Inv => MissingAccounted
  <2> SUFFICES ASSUME Inv PROVE MissingAccounted
    OBVIOUS
  <2> USE ObserveAssumption
  <2>0. TypeOK /\ Arrivals /\ GapsExact
    BY DEF Inv
  <2>1. /\ IsFiniteSet(seen) /\ Cardinality(seen) \in Nat /\ Cardinality(counted) \in Nat
        /\ counted \subseteq seen /\ gaps \in Nat /\ highest \in Nat
    <3>1. seen \subseteq 0..MaxSeq /\ counted \subseteq 0..MaxSeq
      BY <2>0 DEF TypeOK
    <3>2. counted \subseteq seen
      BY <2>0 DEF Arrivals
    <3>3. gaps \in Nat /\ highest \in Nat
      BY <2>0 DEF TypeOK
    <3>4. IsFiniteSet(seen) /\ Cardinality(seen) \in Nat
      BY <3>1, NumbersFinite
    <3>5. Cardinality(counted) \in Nat
      BY <3>1, NumbersFinite
    <3> QED
      BY <3>2, <3>3, <3>4, <3>5
  <2>2. Cardinality(seen \ counted) = Cardinality(seen) - Cardinality(counted)
    <3>1. seen \cap counted = counted
      BY <2>1
    <3>2. Cardinality(seen \ counted) = Cardinality(seen) - Cardinality(seen \cap counted)
      BY <2>1, FS_Difference
    <3> QED
      BY <3>1, <3>2
  <2>3. CASE ~init
    <3>1. gaps = 0 /\ seen = {}
      BY <2>0, <2>3 DEF Arrivals
    <3>2. seen \ counted = {} /\ Cardinality({}) = 0
      BY <3>1, FS_EmptySet
    <3> QED
      BY <2>3, <3>1, <3>2 DEF MissingAccounted, Tracker!estimated_missing
  <2>4. CASE init
    <3>1. gaps + Cardinality(counted) = highest + 1
      BY <2>0, <2>4 DEF GapsExact
    <3>2. Cardinality(seen) <= highest + 1
      <4>1. seen \subseteq 0..highest
        BY <2>0, <2>1 DEF Arrivals, TypeOK
      <4>2. IsFiniteSet(0..highest) /\ Cardinality(0..highest) = highest + 1
        <5>1. highest \in Int /\ 0 \in Int /\ ~(0 > highest) /\ highest - 0 + 1 = highest + 1
          BY <2>1
        <5>2. /\ IsFiniteSet(0..highest)
              /\ Cardinality(0..highest) = IF 0 > highest THEN 0 ELSE highest - 0 + 1
          BY <5>1, FS_Interval, Zenon
        <5> QED
          BY <5>1, <5>2
      <4> QED
        BY <4>1, <4>2, FS_Subset
    <3>3. Tracker!Cardinality(seen) = Cardinality(seen)
      BY Zenon DEF Cardinality, Tracker!Cardinality
    <3>4. ~(Cardinality(seen) > highest + 1)
      BY <2>1, <3>2
    <3>5. Tracker!estimated_missing = highest + 1 - Cardinality(seen)
      BY <2>4, <3>3, <3>4, Zenon DEF Tracker!estimated_missing
    <3> QED
      BY <2>1, <2>2, <3>1, <3>5 DEF MissingAccounted
  <2> QED
    BY <2>3, <2>4
<1>2. LinkInv => Inv
  BY DEF LinkInv
<1> QED
  BY LinkInvHolds, <1>1, <1>2, PTL
-----------------------------------------------------------------------------
(* Digits.                                                                 *)

\* A number is its quotient times the divisor plus its remainder.
LEMMA Split == ASSUME NEW a \in Nat, NEW n \in Nat \ {0}
               PROVE  /\ a \div n \in Nat /\ a % n \in 0..(n - 1)
                      /\ a = n * (a \div n) + (a % n)
  OBVIOUS

\* A larger factor makes a product at least one divisor larger.
LEMMA Spread == ASSUME NEW n \in Nat \ {0}, NEW p \in Nat, NEW q \in Nat, p < q
                PROVE  n * p + n <= n * q
<1>1. q - p - 1 \in Nat
  OBVIOUS
<1>2. n * (q - p - 1) >= 0
  BY <1>1
<1> QED
  BY <1>2

\* Quotient and remainder are the only numbers that do.
LEMMA SplitOnce == ASSUME NEW n \in Nat \ {0}, NEW q \in Nat, NEW r \in 0..(n - 1)
                   PROVE  (n * q + r) \div n = q /\ (n * q + r) % n = r
<1> DEFINE a == n * q + r
           p == a \div n
           t == a % n
<1>1. a \in Nat
  OBVIOUS
<1>2. p \in Nat /\ t \in 0..(n - 1) /\ a = n * p + t
  BY <1>1, Split
<1> HIDE DEF p, t
<1>3. ~(p < q)
  BY <1>2, Spread
<1>4. ~(q < p)
  BY <1>2, Spread
<1>5. p = q
  BY <1>2, <1>3, <1>4
<1>6. t = r
  BY <1>2, <1>5
<1> QED
  BY <1>5, <1>6 DEF p, t

\* Two divisions are one, and their remainders the digits of its remainder.
LEMMA Radix ==
    ASSUME NEW v \in Nat, NEW a \in Nat \ {0}, NEW b \in Nat \ {0}
    PROVE  /\ v \div (a * b) = (v \div a) \div b
           /\ v % (a * b) = ((v \div a) % b) * a + (v % a)
<1> DEFINE q == v \div a
           r == v % a
           p == q \div b
           t == q % b
           x == a * t + r
<1>1. q \in Nat /\ r \in 0..(a - 1) /\ v = a * q + r
  BY Split
<1>2. p \in Nat /\ t \in 0..(b - 1) /\ q = b * p + t
  BY <1>1, Split
<1> HIDE DEF q, r, p, t
<1>3. v = a * (b * p + t) + r
  BY <1>1, <1>2
<1>4. a * (b * p + t) = (a * b) * p + a * t
  BY <1>2
<1>5. t < b /\ t \in Nat /\ r < a /\ r \in Nat
  BY <1>1, <1>2
<1>6. a * t + a <= a * b
  BY <1>5, Spread
<1>7. a * b \in Nat /\ a * t \in Nat /\ a * b # 0
  BY <1>5, <1>6
<1>8. x \in 0..(a * b - 1)
  BY <1>5, <1>6, <1>7
<1>9. v = (a * b) * p + x
  BY <1>2, <1>3, <1>4, <1>5, <1>7
<1>10. a * b \in Nat \ {0}
  BY <1>7
<1>11. x = t * a + r
  BY <1>5
<1> HIDE DEF x
<1>12. v \div (a * b) = p /\ v % (a * b) = x
  BY <1>2, <1>8, <1>9, <1>10, SplitOnce
<1> QED
  BY <1>11, <1>12 DEF q, r, p, t

\* What is less than a product leaves a quotient less than the other factor.
LEMMA Leading ==
    ASSUME NEW a \in Nat \ {0}, NEW b \in Nat \ {0}, NEW v \in 0..(a * b - 1)
    PROVE  v \div a \in 0..(b - 1)
<1> DEFINE q == v \div a
           r == v % a
<1>1. v \in Nat
  OBVIOUS
<1>2. q \in Nat /\ r \in 0..(a - 1) /\ v = a * q + r
  BY <1>1, Split
<1> HIDE DEF q, r
<1>3. a * b \in Nat /\ v < a * b
  <2>1. a * b \in Nat
    OBVIOUS
  <2> QED
    BY <2>1
<1>4. ~(b < q)
  BY <1>2, <1>3, Spread
<1>5. q # b
  BY <1>2, <1>3
<1>6. q \in 0..(b - 1)
  BY <1>2, <1>4, <1>5
<1> QED
  BY <1>6 DEF q

\* A remainder that is already reduced.
LEMMA Reduced == ASSUME NEW n \in Nat \ {0}, NEW v \in 0..(n - 1)
                 PROVE  v % n = v
<1>1. (n * 0 + v) % n = v
  BY SplitOnce
<1>2. n * 0 + v = v
  OBVIOUS
<1> QED
  BY <1>1, <1>2

\* The assumptions of Wire, as the arithmetic needs them.
LEMMA Bases == /\ Base \in Nat \ {0} /\ Base2 \in Nat \ {0} /\ Base4 \in Nat \ {0}
               /\ 16 <= Base2 /\ MaxPacket \in Nat /\ MaxPacket < Base2
<1>1. /\ Base \in Nat \ {0} /\ 16 <= Base2 /\ MaxPacket \in Nat /\ MaxPacket < Base2
  BY WireAssumption
<1>2. Base2 \in Nat
  BY <1>1 DEF Base2
<1>3. Base2 \in Nat \ {0}
  BY <1>1, <1>2
<1>4. Base4 \in Nat \ {0}
  <2> HIDE DEF Base2
  <2>1. Base2 * Base2 \in Nat /\ Base2 * Base2 # 0
    BY <1>3
  <2> QED
    BY <2>1 DEF Base4
<1> QED
  BY <1>1, <1>3, <1>4

\* Two digits.
LEMMA Digits2 == ASSUME NEW v \in Nat
                 PROVE  ((v \div Base) % Base) * Base + (v % Base) = v % Base2
  BY Bases, Radix DEF Base2

\* The digits of a number that fits them make up the number: two of them.
LEMMA Word16 == ASSUME NEW v \in 0..(Base2 - 1)
                PROVE  ((v \div Base) % Base) * Base + (v % Base) = v
<1>1. v \in Nat /\ v % Base2 = v
  BY Bases, Reduced
<1> QED
  BY <1>1, Digits2

\* Four digits.
LEMMA Word32 ==
    ASSUME NEW v \in 0..(Base4 - 1)
    PROVE  (((v \div (Base2 * Base)) % Base) * Base + ((v \div Base2) % Base)) * Base2
           + (((v \div Base) % Base) * Base + (v % Base)) = v
<1> DEFINE u == v \div Base2
<1>1. v \in Nat
  BY Bases
<1>2. u \in 0..(Base2 - 1)
  BY Bases, Leading DEF Base4
<1>3. v \div (Base2 * Base) = u \div Base
  BY <1>1, Bases, Radix
<1>4. ((u \div Base) % Base) * Base + (u % Base) = u
  BY <1>2, Word16
<1>5. ((v \div Base) % Base) * Base + (v % Base) = v % Base2
  BY <1>1, Digits2
<1>6. v = Base2 * u + (v % Base2) /\ v % Base2 \in Nat /\ u \in Nat
  BY <1>1, Bases, Split
<1> HIDE DEF u
<1>7. u * Base2 + (v % Base2) = v
  BY <1>6, Bases
<1>8. v \div Base2 = u
  BY DEF u
<1> QED
  BY <1>3, <1>4, <1>5, <1>7, <1>8

\* Two words of four digits.
LEMMA Word64 ==
    ASSUME NEW v \in 0..(Base4 * Base4 - 1)
    PROVE  /\ v \div Base4 \in 0..(Base4 - 1) /\ v % Base4 \in 0..(Base4 - 1)
           /\ (v \div Base4) * Base4 + (v % Base4) = v
<1>1. v \in Nat /\ v \div Base4 \in 0..(Base4 - 1)
  <2>1. Base4 \in Nat \ {0} /\ Base4 * Base4 - 1 \in Int
    BY Bases
  <2>2. v \in Nat
    BY <2>1
  <2>3. v \div Base4 \in 0..(Base4 - 1)
    BY <2>1, Leading
  <2> QED
    BY <2>2, <2>3
<1>2. v % Base4 \in 0..(Base4 - 1) /\ v = Base4 * (v \div Base4) + (v % Base4) /\ v \div Base4 \in Nat
  BY <1>1, Bases, Split
<1> DEFINE u == v \div Base4
           w == v % Base4
<1>3. u \in Nat /\ w \in Nat /\ v = Base4 * u + w
  BY <1>2, Bases
<1> HIDE DEF u, w
<1>4. u * Base4 + w = v
  BY <1>3, Bases
<1> QED
  BY <1>1, <1>2, <1>4 DEF u, w
-----------------------------------------------------------------------------
(* What is sent.                                                           *)

\* What Headers may hold.
Header == [type : 0..Base - 1, flags : 0..Base2 - 1, run_id : 0..Base4 - 1, stream_id : 0..15,
           packet_len : HeaderSize..MaxPacket, seq : 0..Base4 - 1,
           timestamp_us : 0..Base4 * Base4 - 1]

\* A frame that holds a header's fields, with ty for its type.
Carries(f, h, ty) ==
    /\ f \in Seq(Nat) /\ Len(f) = h.packet_len
    /\ f[1] = 1 /\ f[2] = 2 /\ f[3] = 3 /\ f[4] = 4 /\ f[5] = Version /\ f[6] = ty
    /\ get16(f, 6) = h.flags /\ get32(f, 8) = h.run_id /\ get16(f, 12) = h.stream_id
    /\ get16(f, 14) = h.packet_len /\ get32(f, 16) = h.seq /\ get64(f, 20) = h.timestamp_us

\* The bytes of a word are natural numbers.
LEMMA Bytes ==
    ASSUME NEW v \in Nat
    PROVE  /\ v % Base \in Nat /\ (v \div Base) % Base \in Nat
           /\ (v \div Base2) % Base \in Nat /\ (v \div (Base2 * Base)) % Base \in Nat
<1>1. \A n \in Nat : n % Base \in Nat
  BY Bases, Split
<1>2. v \div Base \in Nat /\ v \div Base2 \in Nat
  BY Bases, Split
<1>3. v \div (Base2 * Base) = (v \div Base2) \div Base
  BY Bases, Radix
<1>4. (v \div Base2) \div Base \in Nat
  BY <1>2, Bases, Split
<1> QED
  BY <1>1, <1>2, <1>3, <1>4

\* The bytes that put16, put32 and put64 write make up the number again.
LEMMA Put16 ==
    ASSUME NEW v \in 0..(Base2 - 1)
    PROVE  /\ put16(v)[1] \in Nat /\ put16(v)[2] \in Nat
           /\ put16(v)[1] * Base + put16(v)[2] = v
<1>1. v \in Nat
  BY Bases
<1> QED
  BY <1>1, Bytes, Word16 DEF put16

\* The same of put32.
LEMMA Put32 ==
    ASSUME NEW v \in 0..(Base4 - 1)
    PROVE  /\ \A i \in 1..4 : put32(v)[i] \in Nat
           /\ (put32(v)[1] * Base + put32(v)[2]) * Base2 + (put32(v)[3] * Base + put32(v)[4]) = v
<1>1. v \in Nat
  BY Bases
<1>2. /\ put32(v)[1] = (v \div (Base2 * Base)) % Base
      /\ put32(v)[2] = (v \div Base2) % Base
      /\ put32(v)[3] = (v \div Base) % Base
      /\ put32(v)[4] = v % Base
  BY DEF put32
<1>3. \A i \in 1..4 : put32(v)[i] \in Nat
  <2>1. \A i \in 1..4 : i \in {1, 2, 3, 4}
    OBVIOUS
  <2> QED
    BY <1>1, <1>2, <2>1, Bytes
<1>4. (put32(v)[1] * Base + put32(v)[2]) * Base2 + (put32(v)[3] * Base + put32(v)[4]) = v
  BY <1>2, Word32
<1> QED
  BY <1>3, <1>4

\* The same of put64.
LEMMA Put64 ==
    ASSUME NEW v \in 0..(Base4 * Base4 - 1)
    PROVE  /\ \A i \in 1..8 : put64(v)[i] \in Nat
           /\ ((put64(v)[1] * Base + put64(v)[2]) * Base2 + (put64(v)[3] * Base + put64(v)[4])) * Base4
              + ((put64(v)[5] * Base + put64(v)[6]) * Base2 + (put64(v)[7] * Base + put64(v)[8])) = v
<1> DEFINE u == v \div Base4
           w == v % Base4
<1>1. u \in 0..(Base4 - 1) /\ w \in 0..(Base4 - 1) /\ u * Base4 + w = v
  BY Word64
<1>2. /\ \A i \in 1..4 : put64(v)[i] = put32(u)[i]
      /\ \A i \in 5..8 : put64(v)[i] = put32(w)[i - 4]
  BY DEF put64
<1> HIDE DEF u, w
<1>3. /\ \A i \in 1..4 : put32(u)[i] \in Nat /\ put32(w)[i] \in Nat
      /\ (put32(u)[1] * Base + put32(u)[2]) * Base2 + (put32(u)[3] * Base + put32(u)[4]) = u
      /\ (put32(w)[1] * Base + put32(w)[2]) * Base2 + (put32(w)[3] * Base + put32(w)[4]) = w
  BY <1>1, Put32
<1>4. \A i \in 1..8 : put64(v)[i] \in Nat
  <2> SUFFICES ASSUME NEW i \in 1..8 PROVE put64(v)[i] \in Nat
    OBVIOUS
  <2>1. i \in 1..4 \/ (i \in 5..8 /\ i - 4 \in 1..4)
    OBVIOUS
  <2> QED
    BY <1>2, <1>3, <2>1
<1>5. /\ put64(v)[1] = put32(u)[1] /\ put64(v)[2] = put32(u)[2]
      /\ put64(v)[3] = put32(u)[3] /\ put64(v)[4] = put32(u)[4]
      /\ put64(v)[5] = put32(w)[1] /\ put64(v)[6] = put32(w)[2]
      /\ put64(v)[7] = put32(w)[3] /\ put64(v)[8] = put32(w)[4]
  <2>1. 5 - 4 = 1 /\ 6 - 4 = 2 /\ 7 - 4 = 3 /\ 8 - 4 = 4
    OBVIOUS
  <2>2. /\ 1 \in 1..4 /\ 2 \in 1..4 /\ 3 \in 1..4 /\ 4 \in 1..4
        /\ 5 \in 5..8 /\ 6 \in 5..8 /\ 7 \in 5..8 /\ 8 \in 5..8
    OBVIOUS
  <2> QED
    BY <1>2, <2>1, <2>2
<1> QED
  BY <1>1, <1>3, <1>4, <1>5

\* The bytes of a packet, up to its length.
LEMMA PacketBytes ==
    ASSUME NEW h \in Headers
    PROVE  /\ h \in Header /\ Packet(h) \in Seq(Nat) /\ Len(Packet(h)) = h.packet_len
           /\ \A i \in 1..4 : Packet(h)[i] = Magic[i]
           /\ Packet(h)[5] = Version /\ Packet(h)[6] = h.type
           /\ \A i \in 1..2 : /\ Packet(h)[6 + i] = put16(h.flags)[i]
                              /\ Packet(h)[12 + i] = put16(h.stream_id)[i]
                              /\ Packet(h)[14 + i] = put16(h.packet_len)[i]
           /\ \A i \in 1..4 : /\ Packet(h)[8 + i] = put32(h.run_id)[i]
                              /\ Packet(h)[16 + i] = put32(h.seq)[i]
           /\ \A i \in 1..8 : Packet(h)[20 + i] = put64(h.timestamp_us)[i]
<1> DEFINE d == [i \in 1..MaxPacket |-> Padding]
           e == bench_encode(d, h)
           n == h.packet_len
           At(i) == CASE i \in 1..4   -> Magic[i]
                      [] i = 5        -> Version
                      [] i = 6        -> h.type
                      [] i \in 7..8   -> put16(h.flags)[i - 6]
                      [] i \in 9..12  -> put32(h.run_id)[i - 8]
                      [] i \in 13..14 -> put16(h.stream_id)[i - 12]
                      [] i \in 15..16 -> put16(h.packet_len)[i - 14]
                      [] i \in 17..20 -> put32(h.seq)[i - 16]
                      [] i \in 21..28 -> put64(h.timestamp_us)[i - 20]
                      [] OTHER        -> d[i]
<1>1. h \in Header
  BY WireAssumption DEF Header
<1>2. MaxPacket \in Nat /\ n \in 28..MaxPacket /\ n \in Nat
  BY <1>1, Bases DEF Header, HeaderSize
<1>3. d \in Seq(Nat) /\ Len(d) = MaxPacket /\ \A i \in 1..MaxPacket : d[i] \in Nat
  <2>1. Padding \in Nat
    BY WireAssumption DEF Padding
  <2> QED
    BY <1>2, <2>1
<1> HIDE DEF d
<1>4. e = [i \in 1..MaxPacket |-> At(i)]
  BY <1>2, <1>3 DEF bench_encode, HeaderSize
<1>5. /\ h.type \in Nat /\ h.flags \in 0..(Base2 - 1) /\ h.run_id \in 0..(Base4 - 1)
      /\ h.stream_id \in 0..(Base2 - 1) /\ n \in 0..(Base2 - 1) /\ h.seq \in 0..(Base4 - 1)
      /\ h.timestamp_us \in 0..(Base4 * Base4 - 1)
  BY <1>1, <1>2, Bases DEF Header
<1>6. \A i \in 1..MaxPacket : At(i) \in Nat
  <2> SUFFICES ASSUME NEW i \in 1..MaxPacket PROVE At(i) \in Nat
    OBVIOUS
  <2>1. CASE i \in 1..6
    BY <1>5, <2>1 DEF Magic, Version
  <2>2. CASE i \in 7..8 \/ i \in 13..14 \/ i \in 15..16
    <3>1. \A v \in 0..(Base2 - 1), j \in 1..2 : put16(v)[j] \in Nat
      <4>1. \A j \in 1..2 : j = 1 \/ j = 2
        OBVIOUS
      <4> QED
        BY <4>1, Put16
    <3> QED
      BY <1>5, <2>2, <3>1
  <2>3. CASE i \in 9..12 \/ i \in 17..20
    <3>1. \A v \in 0..(Base4 - 1), j \in 1..4 : put32(v)[j] \in Nat
      BY Put32
    <3> QED
      BY <1>5, <2>3, <3>1
  <2>4. CASE i \in 21..28
    <3>1. \A v \in 0..(Base4 * Base4 - 1), j \in 1..8 : put64(v)[j] \in Nat
      BY Put64
    <3> QED
      BY <1>5, <2>4, <3>1
  <2>5. CASE i \in 29..MaxPacket
    <3>1. At(i) = d[i]
      BY <1>2, <2>5
    <3> QED
      BY <1>3, <3>1
  <2> QED
    BY <1>2, <2>1, <2>2, <2>3, <2>4, <2>5
<1>7. e \in Seq(Nat) /\ Len(e) = MaxPacket
  <2> HIDE DEF At, e
  <2> QED
    BY <1>2, <1>4, <1>6
<1>8. /\ Packet(h) = SubSeq(e, 1, n)
      /\ Packet(h) \in Seq(Nat) /\ Len(Packet(h)) = n
      /\ \A i \in 1..n : Packet(h)[i] = e[i]
  <2>1. Packet(h) = SubSeq(e, 1, n)
    BY DEF Packet, d
  <2> HIDE DEF e, At
  <2> QED
    BY <1>2, <1>7, <2>1
<1>9. \A i \in 1..28 : Packet(h)[i] = At(i)
  <2> HIDE DEF e, At
  <2> QED
    BY <1>2, <1>4, <1>8
<1>10. \A i \in 1..4 : Packet(h)[i] = Magic[i]
  BY <1>9
<1>11. Packet(h)[5] = Version /\ Packet(h)[6] = h.type
  BY <1>9
<1>12. \A i \in 1..2 : /\ Packet(h)[6 + i] = put16(h.flags)[i]
                       /\ Packet(h)[12 + i] = put16(h.stream_id)[i]
                       /\ Packet(h)[14 + i] = put16(h.packet_len)[i]
  <2> SUFFICES ASSUME NEW i \in 1..2
               PROVE  /\ Packet(h)[6 + i] = put16(h.flags)[i]
                      /\ Packet(h)[12 + i] = put16(h.stream_id)[i]
                      /\ Packet(h)[14 + i] = put16(h.packet_len)[i]
    OBVIOUS
  <2>1. (6 + i) - 6 = i /\ (12 + i) - 12 = i /\ (14 + i) - 14 = i
    OBVIOUS
  <2> QED
    BY <1>9, <2>1
<1>13. \A i \in 1..4 : /\ Packet(h)[8 + i] = put32(h.run_id)[i]
                       /\ Packet(h)[16 + i] = put32(h.seq)[i]
  <2> SUFFICES ASSUME NEW i \in 1..4
               PROVE  Packet(h)[8 + i] = put32(h.run_id)[i] /\ Packet(h)[16 + i] = put32(h.seq)[i]
    OBVIOUS
  <2>1. (8 + i) - 8 = i /\ (16 + i) - 16 = i
    OBVIOUS
  <2> QED
    BY <1>9, <2>1
<1>14. \A i \in 1..8 : Packet(h)[20 + i] = put64(h.timestamp_us)[i]
  <2> SUFFICES ASSUME NEW i \in 1..8 PROVE Packet(h)[20 + i] = put64(h.timestamp_us)[i]
    OBVIOUS
  <2>1. (20 + i) - 20 = i
    OBVIOUS
  <2> QED
    BY <1>9, <2>1
<1> QED
  BY <1>1, <1>8, <1>10, <1>11, <1>12, <1>13, <1>14

\* A packet carries its header, and so does its echo, as an echo.
LEMMA PacketCarries ==
    ASSUME NEW h \in Headers
    PROVE  Carries(Packet(h), h, h.type)
<1> DEFINE f == Packet(h)
<1>1. h \in Header
  BY PacketBytes
<1>2. /\ h.flags \in 0..(Base2 - 1) /\ h.run_id \in 0..(Base4 - 1)
      /\ h.stream_id \in 0..(Base2 - 1) /\ h.packet_len \in 0..(Base2 - 1)
      /\ h.seq \in 0..(Base4 - 1) /\ h.timestamp_us \in 0..(Base4 * Base4 - 1)
  BY <1>1, Bases DEF Header, HeaderSize
<1>3. /\ f[1] = Magic[1] /\ f[2] = Magic[2] /\ f[3] = Magic[3] /\ f[4] = Magic[4]
      /\ f[5] = Version /\ f[6] = h.type
      /\ f[7] = put16(h.flags)[1] /\ f[8] = put16(h.flags)[2]
      /\ f[13] = put16(h.stream_id)[1] /\ f[14] = put16(h.stream_id)[2]
      /\ f[15] = put16(h.packet_len)[1] /\ f[16] = put16(h.packet_len)[2]
  <2>1. 1 \in 1..2 /\ 2 \in 1..2 /\ 1 \in 1..4 /\ 2 \in 1..4 /\ 3 \in 1..4 /\ 4 \in 1..4
    OBVIOUS
  <2>2. 6 + 1 = 7 /\ 6 + 2 = 8 /\ 12 + 1 = 13 /\ 12 + 2 = 14 /\ 14 + 1 = 15 /\ 14 + 2 = 16
    OBVIOUS
  <2>3. \A i \in 1..2 : /\ f[6 + i] = put16(h.flags)[i]
                        /\ f[12 + i] = put16(h.stream_id)[i]
                        /\ f[14 + i] = put16(h.packet_len)[i]
    BY PacketBytes
  <2>4. /\ \A i \in 1..4 : f[i] = Magic[i]
        /\ f[5] = Version /\ f[6] = h.type
    BY PacketBytes
  <2> HIDE DEF f
  <2> QED
    BY <2>1, <2>2, <2>3, <2>4
<1>4. /\ f[9] = put32(h.run_id)[1] /\ f[10] = put32(h.run_id)[2]
      /\ f[11] = put32(h.run_id)[3] /\ f[12] = put32(h.run_id)[4]
      /\ f[17] = put32(h.seq)[1] /\ f[18] = put32(h.seq)[2]
      /\ f[19] = put32(h.seq)[3] /\ f[20] = put32(h.seq)[4]
  <2>1. 1 \in 1..4 /\ 2 \in 1..4 /\ 3 \in 1..4 /\ 4 \in 1..4
    OBVIOUS
  <2>2. /\ 8 + 1 = 9 /\ 8 + 2 = 10 /\ 8 + 3 = 11 /\ 8 + 4 = 12
        /\ 16 + 1 = 17 /\ 16 + 2 = 18 /\ 16 + 3 = 19 /\ 16 + 4 = 20
    OBVIOUS
  <2>3. \A i \in 1..4 : f[8 + i] = put32(h.run_id)[i] /\ f[16 + i] = put32(h.seq)[i]
    BY PacketBytes
  <2> HIDE DEF f
  <2> QED
    BY <2>1, <2>2, <2>3
<1>5. /\ f[21] = put64(h.timestamp_us)[1] /\ f[22] = put64(h.timestamp_us)[2]
      /\ f[23] = put64(h.timestamp_us)[3] /\ f[24] = put64(h.timestamp_us)[4]
      /\ f[25] = put64(h.timestamp_us)[5] /\ f[26] = put64(h.timestamp_us)[6]
      /\ f[27] = put64(h.timestamp_us)[7] /\ f[28] = put64(h.timestamp_us)[8]
  <2>1. /\ 1 \in 1..8 /\ 2 \in 1..8 /\ 3 \in 1..8 /\ 4 \in 1..8
        /\ 5 \in 1..8 /\ 6 \in 1..8 /\ 7 \in 1..8 /\ 8 \in 1..8
    OBVIOUS
  <2>2. /\ 20 + 1 = 21 /\ 20 + 2 = 22 /\ 20 + 3 = 23 /\ 20 + 4 = 24
        /\ 20 + 5 = 25 /\ 20 + 6 = 26 /\ 20 + 7 = 27 /\ 20 + 8 = 28
    OBVIOUS
  <2>3. \A i \in 1..8 : f[20 + i] = put64(h.timestamp_us)[i]
    BY PacketBytes
  <2> HIDE DEF f
  <2> QED
    BY <2>1, <2>2, <2>3
<1>6. f \in Seq(Nat) /\ Len(f) = h.packet_len
  BY PacketBytes
<1> HIDE DEF f
<1>7. /\ get16(f, 6) = f[7] * Base + f[8] /\ get16(f, 12) = f[13] * Base + f[14]
      /\ get16(f, 14) = f[15] * Base + f[16]
  BY DEF get16
<1>8. /\ get32(f, 8) = (f[9] * Base + f[10]) * Base2 + (f[11] * Base + f[12])
      /\ get32(f, 16) = (f[17] * Base + f[18]) * Base2 + (f[19] * Base + f[20])
  BY DEF get16, get32
<1>9. get64(f, 20) = ((f[21] * Base + f[22]) * Base2 + (f[23] * Base + f[24])) * Base4
                     + ((f[25] * Base + f[26]) * Base2 + (f[27] * Base + f[28]))
  BY DEF get16, get32, get64
<1>10. get16(f, 6) = h.flags /\ get16(f, 12) = h.stream_id /\ get16(f, 14) = h.packet_len
  BY <1>2, <1>3, <1>7, Put16
<1>11. get32(f, 8) = h.run_id /\ get32(f, 16) = h.seq
  BY <1>2, <1>4, <1>8, Put32
<1>12. get64(f, 20) = h.timestamp_us
  BY <1>2, <1>5, <1>9, Put64
<1>13. f[1] = 1 /\ f[2] = 2 /\ f[3] = 3 /\ f[4] = 4
  BY <1>3 DEF Magic
<1>14. Carries(f, h, h.type)
  BY <1>3, <1>6, <1>10, <1>11, <1>12, <1>13 DEF Carries
<1> QED
  BY <1>14 DEF f

\* The responder changes the type, and nothing else that is read.
LEMMA EchoCarries ==
    ASSUME NEW h \in Header, NEW f, NEW ty \in Nat, Carries(f, h, h.type)
    PROVE  Carries([f EXCEPT ![6] = ty], h, ty)
<1> DEFINE g == [f EXCEPT ![6] = ty]
<1>1. f \in Seq(Nat) /\ Len(f) = h.packet_len /\ h.packet_len \in Nat /\ h.packet_len >= 28
  BY Bases DEF Carries, Header, HeaderSize
<1>2. /\ g \in Seq(Nat) /\ Len(g) = Len(f) /\ g[6] = ty
      /\ \A i \in 1..28 : i # 6 => g[i] = f[i]
  BY <1>1
<1> HIDE DEF g
<1>3. /\ g[1] = f[1] /\ g[2] = f[2] /\ g[3] = f[3] /\ g[4] = f[4] /\ g[5] = f[5]
      /\ g[7] = f[7] /\ g[8] = f[8] /\ g[9] = f[9] /\ g[10] = f[10] /\ g[11] = f[11]
      /\ g[12] = f[12] /\ g[13] = f[13] /\ g[14] = f[14] /\ g[15] = f[15] /\ g[16] = f[16]
      /\ g[17] = f[17] /\ g[18] = f[18] /\ g[19] = f[19] /\ g[20] = f[20] /\ g[21] = f[21]
      /\ g[22] = f[22] /\ g[23] = f[23] /\ g[24] = f[24] /\ g[25] = f[25] /\ g[26] = f[26]
      /\ g[27] = f[27] /\ g[28] = f[28]
  BY <1>2
<1>4. /\ get16(g, 6) = get16(f, 6) /\ get16(g, 12) = get16(f, 12)
      /\ get16(g, 14) = get16(f, 14)
  BY <1>3 DEF get16
<1>5. get32(g, 8) = get32(f, 8) /\ get32(g, 16) = get32(f, 16)
  BY <1>3 DEF get16, get32
<1>6. get64(g, 20) = get64(f, 20)
  BY <1>3 DEF get16, get32, get64
<1>7. Carries(g, h, ty)
  BY <1>1, <1>2, <1>3, <1>4, <1>5, <1>6 DEF Carries
<1> QED
  BY <1>7 DEF g

\* A part of a frame is a sequence of its bytes.
LEMMA Part ==
    ASSUME NEW f \in Seq(Nat), NEW a \in Nat, NEW n \in Nat, a + n <= Len(f)
    PROVE  /\ SubSeq(f, a + 1, a + n) \in Seq(Nat) /\ Len(SubSeq(f, a + 1, a + n)) = n
           /\ \A i \in 1..n : SubSeq(f, a + 1, a + n)[i] = f[a + i]
<1> DEFINE c == a + n
<1>0. c \in Nat /\ c - (a + 1) + 1 = n /\ a <= c /\ c <= Len(f)
  OBVIOUS
<1> HIDE DEF c
<1>1. /\ SubSeq(f, a + 1, c) \in Seq(Nat) /\ Len(SubSeq(f, a + 1, c)) = n
  BY <1>0
<1>2. \A i \in 1..n : SubSeq(f, a + 1, c)[i] = f[a + i]
  <2> SUFFICES ASSUME NEW i \in 1..n PROVE SubSeq(f, a + 1, c)[i] = f[a + i]
    OBVIOUS
  <2>1. SubSeq(f, a + 1, c)[i] = f[a + 1 + i - 1] /\ a + 1 + i - 1 = a + i
    BY <1>0
  <2> QED
    BY <2>1
<1> QED
  BY <1>1, <1>2 DEF c

\* bench_decode reads back what a frame carries.
LEMMA Decoded ==
    ASSUME NEW h \in Header, NEW f, NEW ty \in Nat, Carries(f, h, ty)
    PROVE  bench_decode(f) = [h EXCEPT !.type = ty]
<1>1. f \in Seq(Nat) /\ Len(f) = h.packet_len /\ h.packet_len \in Nat /\ h.packet_len >= 28
  BY Bases DEF Carries, Header, HeaderSize
<1>2. SubSeq(f, 1, 4) = Magic
  <2>1. f[1] = 1 /\ f[2] = 2 /\ f[3] = 3 /\ f[4] = 4
    BY DEF Carries
  <2>2. \A i \in 1..4 : f[i] = i
    <3>1. \A i \in 1..4 : i = 1 \/ i = 2 \/ i = 3 \/ i = 4
      OBVIOUS
    <3> QED
      BY <2>1, <3>1
  <2>3. /\ SubSeq(f, 1, 4) \in Seq(Nat) /\ Len(SubSeq(f, 1, 4)) = 4
        /\ \A i \in 1..4 : SubSeq(f, 1, 4)[i] = f[i]
    <3>1. 0 \in Nat /\ 4 \in Nat /\ 0 + 4 = 4 /\ 0 + 1 = 1 /\ 0 + 4 <= Len(f)
      BY <1>1
    <3>2. \A i \in 1..4 : 0 + i = i
      OBVIOUS
    <3>3. /\ SubSeq(f, 0 + 1, 0 + 4) \in Seq(Nat) /\ Len(SubSeq(f, 0 + 1, 0 + 4)) = 4
          /\ \A i \in 1..4 : SubSeq(f, 0 + 1, 0 + 4)[i] = f[0 + i]
      BY <1>1, <3>1, Part, Zenon
    <3> QED
      BY <3>1, <3>2, <3>3, Zenon
  <2>4. Magic \in Seq(Nat) /\ Len(Magic) = 4 /\ \A i \in 1..4 : Magic[i] = i
    BY DEF Magic
  <2> DEFINE g == SubSeq(f, 1, 4)
  <2> HIDE DEF g
  <2>5. ASSUME NEW q \in Seq(Nat), Len(q) = 4 PROVE q = [i \in 1..4 |-> q[i]]
    BY <2>5
  <2>6. g = [i \in 1..4 |-> g[i]] /\ Magic = [i \in 1..4 |-> Magic[i]]
    BY <2>3, <2>4, <2>5 DEF g
  <2>7. \A i \in 1..4 : g[i] = Magic[i]
    BY <2>2, <2>3, <2>4 DEF g
  <2>8. g = Magic
    BY <2>6, <2>7, Zenon
  <2> QED
    BY <2>8 DEF g
<1>3. f[5] = Version /\ f[6] = ty
  BY DEF Carries
<1> DEFINE r == [type |-> f[6], flags |-> get16(f, 6), run_id |-> get32(f, 8),
                 stream_id |-> get16(f, 12), packet_len |-> get16(f, 14),
                 seq |-> get32(f, 16), timestamp_us |-> get64(f, 20)]
<1>4. r = [h EXCEPT !.type = ty]
  <2>1. r = [type |-> ty, flags |-> h.flags, run_id |-> h.run_id, stream_id |-> h.stream_id,
             packet_len |-> h.packet_len, seq |-> h.seq, timestamp_us |-> h.timestamp_us]
    BY DEF Carries
  <2>2. [h EXCEPT !.type = ty] =
          [type |-> ty, flags |-> h.flags, run_id |-> h.run_id, stream_id |-> h.stream_id,
           packet_len |-> h.packet_len, seq |-> h.seq, timestamp_us |-> h.timestamp_us]
    BY DEF Header
  <2> QED
    BY <2>1, <2>2
<1>5. r.packet_len = Len(f) /\ r.stream_id < 16
  <2>1. get16(f, 14) = h.packet_len /\ get16(f, 12) = h.stream_id
    BY DEF Carries
  <2>2. h.stream_id < 16
    BY DEF Header
  <2> QED
    BY <1>1, <2>1, <2>2
<1>6. bench_decode(f) = r
  BY <1>1, <1>2, <1>3, <1>5 DEF bench_decode, HeaderSize
<1> QED
  BY <1>4, <1>6
-----------------------------------------------------------------------------
(* The host's words.                                                       *)

\* One more byte, on the words read so far.
Horner(b, g) == [i \in 0..Len(b) |-> IF i = 0 THEN 0 ELSE g[i - 1] * Base + b[i]]

\* from_be_bytes takes the last value of a function that it defines by
\* recursion; such a function is there as soon as one is named.
LEMMA HornerExists ==
    ASSUME NEW b, NEW u, u = Horner(b, u)
    PROVE  \E g : g = Horner(b, g) /\ from_be_bytes(b) = g[Len(b)]
<1> DEFINE g == CHOOSE x : x = Horner(b, x)
<1>1. g = Horner(b, g)
  OBVIOUS
<1>2. from_be_bytes(b) = g[Len(b)]
  BY DEF from_be_bytes, Horner
<1> QED
  BY <1>1, <1>2

\* One more byte, or one more word, gives a number.
LEMMA Longer == ASSUME NEW w \in Nat, NEW x \in Nat
                PROVE  w * Base + x \in Nat /\ w * Base2 + x \in Nat
<1>1. Base \in Nat /\ Base2 \in Nat
  BY Bases
<1> QED
  BY <1>1

\* Two bytes more, and four, are a shift by a word and the word.
LEMMA Shift2 == ASSUME NEW w \in Nat, NEW x \in Nat, NEW y \in Nat
                PROVE  (w * Base + x) * Base + y = w * Base2 + (x * Base + y)
<1>1. Base \in Nat
  BY Bases
<1> QED
  BY <1>1 DEF Base2

\* Four bytes more.
LEMMA Shift4 ==
    ASSUME NEW w \in Nat, NEW x \in Nat, NEW y \in Nat, NEW z \in Nat, NEW t \in Nat
    PROVE  (((w * Base + x) * Base + y) * Base + z) * Base + t
             = w * Base4 + ((x * Base + y) * Base2 + (z * Base + t))
<1> DEFINE k == x * Base + y
           l == z * Base + t
           m == w * Base2 + k
<1>1. Base \in Nat /\ Base2 \in Nat /\ Base4 \in Nat
  BY Bases
<1>2. k \in Nat /\ l \in Nat
  BY <1>1
<1>3. (w * Base + x) * Base + y = m
  BY Shift2
<1>4. w * Base2 \in Nat
  BY <1>1
<1>5. m \in Nat
  BY <1>2, <1>4
<1> HIDE DEF m
<1>6. (m * Base + z) * Base + t = m * Base2 + l
  BY <1>5, Shift2
<1> HIDE DEF k, l
<1>7. m * Base2 = w * Base4 + k * Base2
  <2> HIDE DEF Base2
  <2>1. (w * Base2 + k) * Base2 = w * (Base2 * Base2) + k * Base2
    BY <1>1, <1>2
  <2> QED
    BY <2>1 DEF m, Base4
<1>8. m * Base2 + l = w * Base4 + (k * Base2 + l)
  <2>1. w * Base4 \in Nat /\ k * Base2 \in Nat
    BY <1>1, <1>2
  <2> QED
    BY <1>2, <1>7, <2>1
<1> QED
  BY <1>3, <1>6, <1>8 DEF k, l

\* The bytes of a sequence.
LEMMA Elements == ASSUME NEW b \in Seq(Nat) PROVE \A i \in 1..Len(b) : b[i] \in Nat
  OBVIOUS

\* from_be_bytes of two, four and eight bytes is what get16, get32 and get64
\* read from the same bytes.
LEMMA TwoBytes ==
    ASSUME NEW b \in Seq(Nat), Len(b) = 2
    PROVE  from_be_bytes(b) = b[1] * Base + b[2]
<1> DEFINE u == [i \in 0..2 |-> IF i = 0 THEN 0 ELSE IF i = 1 THEN b[1] ELSE b[1] * Base + b[2]]
<1>1. Base \in Nat /\ b[1] \in Nat /\ b[2] \in Nat
  BY Bases, Elements
<1>2. u = Horner(b, u)
  <2>1. \A i \in 0..2 : i = 0 \/ i = 1 \/ i = 2
    OBVIOUS
  <2>2. \A i \in 1..2 : u[i] = u[i - 1] * Base + b[i]
    BY <1>1, <2>1
  <2> QED
    BY <2>2 DEF Horner
<1>3. PICK g : g = Horner(b, g) /\ from_be_bytes(b) = g[2]
  BY <1>2, HornerExists
<1>4. \A i \in 0..2 : g[i] = IF i = 0 THEN 0 ELSE g[i - 1] * Base + b[i]
  BY <1>3 DEF Horner
<1>5. g[0] = 0 /\ g[1] = g[0] * Base + b[1] /\ g[2] = g[1] * Base + b[2]
  BY <1>4
<1>6. g[1] = b[1]
  BY <1>1, <1>5
<1> QED
  BY <1>3, <1>5, <1>6

\* Four bytes.
LEMMA FourBytes ==
    ASSUME NEW b \in Seq(Nat), Len(b) = 4
    PROVE  from_be_bytes(b) = (b[1] * Base + b[2]) * Base2 + (b[3] * Base + b[4])
<1> DEFINE k == b[1] * Base + b[2]
           l == k * Base + b[3]
           m == l * Base + b[4]
           u == [i \in 0..4 |-> IF i = 0 THEN 0 ELSE IF i = 1 THEN b[1]
                                ELSE IF i = 2 THEN k ELSE IF i = 3 THEN l ELSE m]
<1>1. Base \in Nat /\ b[1] \in Nat /\ b[2] \in Nat /\ b[3] \in Nat /\ b[4] \in Nat
  <2> HIDE DEF k, l, m, u
  <2>1. \A i \in 1..4 : b[i] \in Nat
    BY Elements
  <2>2. 1 \in 1..4 /\ 2 \in 1..4 /\ 3 \in 1..4 /\ 4 \in 1..4
    OBVIOUS
  <2> QED
    BY <2>1, <2>2, Bases
<1>2. k \in Nat
  BY <1>1
<1>3. m = k * Base2 + (b[3] * Base + b[4])
  BY <1>1, <1>2, Shift2
<1>4. 0 * Base + b[1] = b[1]
  BY <1>1
<1>5. k = b[1] * Base + b[2] /\ l = k * Base + b[3] /\ m = l * Base + b[4]
  OBVIOUS
<1> HIDE DEF k, l, m
<1>6. u = Horner(b, u)
  <2>1. u[0] = 0 /\ u[1] = b[1] /\ u[2] = k /\ u[3] = l /\ u[4] = m
    OBVIOUS
  <2> HIDE DEF u
  <2>2. \A i \in 0..4 : i = 0 \/ i = 1 \/ i = 2 \/ i = 3 \/ i = 4
    OBVIOUS
  <2>3. \A i \in 0..4 : u[i] = IF i = 0 THEN 0 ELSE u[i - 1] * Base + b[i]
    <3> SUFFICES ASSUME NEW i \in 0..4 PROVE u[i] = IF i = 0 THEN 0 ELSE u[i - 1] * Base + b[i]
      OBVIOUS
    <3>1. CASE i = 0
      BY <2>1, <3>1
    <3>2. CASE i = 1
      BY <1>4, <2>1, <3>2
    <3>3. CASE i \in 2..4
      BY <1>5, <2>1, <2>2, <3>3
    <3> QED
      BY <3>1, <3>2, <3>3
  <2> QED
    BY <2>3 DEF Horner, u
<1>7. PICK g : g = Horner(b, g) /\ from_be_bytes(b) = g[4]
  BY <1>6, HornerExists
<1>8. \A i \in 0..4 : g[i] = IF i = 0 THEN 0 ELSE g[i - 1] * Base + b[i]
  BY <1>7 DEF Horner
<1>9. /\ g[0] = 0 /\ g[1] = g[0] * Base + b[1] /\ g[2] = g[1] * Base + b[2]
      /\ g[3] = g[2] * Base + b[3] /\ g[4] = g[3] * Base + b[4]
  BY <1>8
<1>10. g[4] = m
  BY <1>4, <1>5, <1>9
<1> QED
  BY <1>3, <1>5, <1>7, <1>10

\* Eight bytes.
LEMMA EightBytes ==
    ASSUME NEW b \in Seq(Nat), Len(b) = 8
    PROVE  from_be_bytes(b) = ((b[1] * Base + b[2]) * Base2 + (b[3] * Base + b[4])) * Base4
                              + ((b[5] * Base + b[6]) * Base2 + (b[7] * Base + b[8]))
<1> DEFINE k == b[1] * Base + b[2]
           l == k * Base + b[3]
           m == l * Base + b[4]
           n == m * Base + b[5]
           o == n * Base + b[6]
           p == o * Base + b[7]
           q == p * Base + b[8]
           u == [i \in 0..8 |->
                   IF i = 0 THEN 0 ELSE IF i = 1 THEN b[1] ELSE IF i = 2 THEN k ELSE IF i = 3 THEN l
                   ELSE IF i = 4 THEN m ELSE IF i = 5 THEN n ELSE IF i = 6 THEN o
                   ELSE IF i = 7 THEN p ELSE q]
<1>1. /\ Base \in Nat /\ b[1] \in Nat /\ b[2] \in Nat /\ b[3] \in Nat /\ b[4] \in Nat
      /\ b[5] \in Nat /\ b[6] \in Nat /\ b[7] \in Nat /\ b[8] \in Nat
  <2> HIDE DEF k, l, m, n, o, p, q, u
  <2>1. \A i \in 1..8 : b[i] \in Nat
    BY Elements
  <2>2. /\ 1 \in 1..8 /\ 2 \in 1..8 /\ 3 \in 1..8 /\ 4 \in 1..8
        /\ 5 \in 1..8 /\ 6 \in 1..8 /\ 7 \in 1..8 /\ 8 \in 1..8
    OBVIOUS
  <2> QED
    BY <2>1, <2>2, Bases
<1> HIDE DEF n, o, p, q, u
<1>2. k \in Nat /\ b[3] * Base + b[4] \in Nat
  BY <1>1, Longer, Zenon
<1> HIDE DEF k
<1>3. m = k * Base2 + (b[3] * Base + b[4])
  <2>1. \A x \in Nat, y \in Nat : (k * Base + x) * Base + y = k * Base2 + (x * Base + y)
    BY <1>2, Shift2, Zenon
  <2> QED
    BY <1>1, <2>1, Zenon
<1>4. m \in Nat
  BY <1>2, <1>3, Longer, Zenon
<1>5. 0 * Base + b[1] = b[1]
  BY <1>1
<1>6. /\ k = b[1] * Base + b[2] /\ l = k * Base + b[3] /\ m = l * Base + b[4]
      /\ n = m * Base + b[5] /\ o = n * Base + b[6] /\ p = o * Base + b[7] /\ q = p * Base + b[8]
  BY DEF k, l, m, n, o, p, q
<1> HIDE DEF k, l, m, n, o, p, q
<1>7. q = m * Base4 + ((b[5] * Base + b[6]) * Base2 + (b[7] * Base + b[8]))
  <2>1. (((m * Base + b[5]) * Base + b[6]) * Base + b[7]) * Base + b[8]
          = m * Base4 + ((b[5] * Base + b[6]) * Base2 + (b[7] * Base + b[8]))
    <3>1. \A x \in Nat, y \in Nat, z \in Nat, t \in Nat :
            (((m * Base + x) * Base + y) * Base + z) * Base + t
              = m * Base4 + ((x * Base + y) * Base2 + (z * Base + t))
      BY <1>4, Shift4, Zenon
    <3>2. b[5] \in Nat /\ b[6] \in Nat
      BY <1>1
    <3>3. b[7] \in Nat /\ b[8] \in Nat
      BY <1>1
    <3>4. \A z \in Nat, t \in Nat :
            (((m * Base + b[5]) * Base + b[6]) * Base + z) * Base + t
              = m * Base4 + ((b[5] * Base + b[6]) * Base2 + (z * Base + t))
      BY <3>1, <3>2, Zenon
    <3> QED
      BY <3>3, <3>4, Zenon
  <2> QED
    BY <1>6, <2>1
<1>8. u = Horner(b, u)
  <2>1. /\ u[0] = 0 /\ u[1] = b[1] /\ u[2] = k /\ u[3] = l /\ u[4] = m
        /\ u[5] = n /\ u[6] = o /\ u[7] = p /\ u[8] = q
    BY DEF u
  <2> HIDE DEF u
  <2>2. \A i \in 2..8 : i \in {2, 3, 4, 5, 6, 7, 8}
    OBVIOUS
  <2>3. \A i \in 0..8 : u[i] = IF i = 0 THEN 0 ELSE u[i - 1] * Base + b[i]
    <3> SUFFICES ASSUME NEW i \in 0..8 PROVE u[i] = IF i = 0 THEN 0 ELSE u[i - 1] * Base + b[i]
      OBVIOUS
    <3>1. CASE i = 0
      BY <2>1, <3>1
    <3>2. CASE i = 1
      BY <1>5, <2>1, <3>2
    <3>3. CASE i \in 2..8
      <4>1. /\ u[2] = u[1] * Base + b[2] /\ u[3] = u[2] * Base + b[3]
            /\ u[4] = u[3] * Base + b[4] /\ u[5] = u[4] * Base + b[5]
            /\ u[6] = u[5] * Base + b[6] /\ u[7] = u[6] * Base + b[7]
            /\ u[8] = u[7] * Base + b[8]
        BY <1>6, <2>1, Zenon
      <4>2. /\ 2 - 1 = 1 /\ 3 - 1 = 2 /\ 4 - 1 = 3 /\ 5 - 1 = 4
            /\ 6 - 1 = 5 /\ 7 - 1 = 6 /\ 8 - 1 = 7
        OBVIOUS
      <4>3. i \in {2, 3, 4, 5, 6, 7, 8} /\ i # 0
        BY <2>2, <3>3
      <4>4. u[i] = u[i - 1] * Base + b[i]
        BY <4>1, <4>2, <4>3, Zenon
      <4> QED
        BY <4>3, <4>4, Zenon
    <3> QED
      BY <3>1, <3>2, <3>3
  <2> QED
    BY <2>3 DEF Horner, u
<1>9. PICK g : g = Horner(b, g) /\ from_be_bytes(b) = g[8]
  BY <1>8, HornerExists
<1>10. \A i \in 0..8 : g[i] = IF i = 0 THEN 0 ELSE g[i - 1] * Base + b[i]
  BY <1>9 DEF Horner
<1>11. /\ g[0] = 0 /\ g[1] = g[0] * Base + b[1] /\ g[2] = g[1] * Base + b[2]
       /\ g[3] = g[2] * Base + b[3] /\ g[4] = g[3] * Base + b[4]
       /\ g[5] = g[4] * Base + b[5] /\ g[6] = g[5] * Base + b[6]
       /\ g[7] = g[6] * Base + b[7] /\ g[8] = g[7] * Base + b[8]
  BY <1>10
<1>12. g[8] = q
  BY <1>5, <1>6, <1>11
<1> QED
  BY <1>3, <1>6, <1>7, <1>9, <1>12

\* Each field of a frame that has a header is the same for both decoders.
LEMMA Fields ==
    ASSUME NEW f \in Seq(Nat), Len(f) >= 28
    PROVE  /\ from_be_bytes(SubSeq(f, 6 + 1, 8)) = get16(f, 6)
           /\ from_be_bytes(SubSeq(f, 8 + 1, 12)) = get32(f, 8)
           /\ from_be_bytes(SubSeq(f, 12 + 1, 14)) = get16(f, 12)
           /\ from_be_bytes(SubSeq(f, 14 + 1, 16)) = get16(f, 14)
           /\ from_be_bytes(SubSeq(f, 16 + 1, 20)) = get32(f, 16)
           /\ from_be_bytes(SubSeq(f, 20 + 1, 28)) = get64(f, 20)
<1>0. Len(f) \in Nat
  OBVIOUS
<1>1. ASSUME NEW a \in Nat, a + 2 <= 28
      PROVE  from_be_bytes(SubSeq(f, a + 1, a + 2)) = get16(f, a)
  <2> DEFINE b == SubSeq(f, a + 1, a + 2)
  <2>1. 2 \in Nat /\ a + 2 <= Len(f)
    BY <1>0, <1>1
  <2>2. b \in Seq(Nat) /\ Len(b) = 2 /\ \A i \in 1..2 : b[i] = f[a + i]
    BY <2>1, Part, Zenon
  <2> HIDE DEF b
  <2>3. b[1] = f[a + 1] /\ b[2] = f[a + 2]
    BY <2>2
  <2>4. from_be_bytes(b) = b[1] * Base + b[2]
    BY <2>2, TwoBytes
  <2> QED
    BY <2>3, <2>4 DEF b, get16
<1>2. ASSUME NEW a \in Nat, a + 4 <= 28
      PROVE  from_be_bytes(SubSeq(f, a + 1, a + 4)) = get32(f, a)
  <2> DEFINE b == SubSeq(f, a + 1, a + 4)
  <2>1. 4 \in Nat /\ a + 4 <= Len(f)
    BY <1>0, <1>2
  <2>2. b \in Seq(Nat) /\ Len(b) = 4 /\ \A i \in 1..4 : b[i] = f[a + i]
    BY <2>1, Part, Zenon
  <2> HIDE DEF b
  <2>3. b[1] = f[a + 1] /\ b[2] = f[a + 2] /\ b[3] = f[a + 3] /\ b[4] = f[a + 4]
    <3>1. 1 \in 1..4 /\ 2 \in 1..4 /\ 3 \in 1..4 /\ 4 \in 1..4
      OBVIOUS
    <3> QED
      BY <2>2, <3>1
  <2>4. from_be_bytes(b) = (b[1] * Base + b[2]) * Base2 + (b[3] * Base + b[4])
    BY <2>2, FourBytes
  <2>5. get32(f, a) = (f[a + 1] * Base + f[a + 2]) * Base2 + (f[a + 3] * Base + f[a + 4])
    <3>1. a + 2 + 1 = a + 3 /\ a + 2 + 2 = a + 4
      OBVIOUS
    <3> QED
      BY <3>1 DEF get16, get32
  <2> QED
    BY <2>3, <2>4, <2>5 DEF b
<1>3. from_be_bytes(SubSeq(f, 20 + 1, 28)) = get64(f, 20)
  <2> DEFINE b == SubSeq(f, 20 + 1, 28)
  <2>1. 20 \in Nat /\ 8 \in Nat /\ 20 + 8 = 28 /\ 20 + 8 <= Len(f)
    BY <1>0
  <2>2. /\ SubSeq(f, 20 + 1, 20 + 8) \in Seq(Nat) /\ Len(SubSeq(f, 20 + 1, 20 + 8)) = 8
        /\ \A i \in 1..8 : SubSeq(f, 20 + 1, 20 + 8)[i] = f[20 + i]
    BY <2>1, Part, Zenon
  <2>3. b \in Seq(Nat) /\ Len(b) = 8 /\ \A i \in 1..8 : b[i] = f[20 + i]
    BY <2>1, <2>2, Zenon
  <2> HIDE DEF b
  <2>4. /\ b[1] = f[21] /\ b[2] = f[22] /\ b[3] = f[23] /\ b[4] = f[24]
        /\ b[5] = f[25] /\ b[6] = f[26] /\ b[7] = f[27] /\ b[8] = f[28]
    <3>1. /\ 20 + 1 = 21 /\ 20 + 2 = 22 /\ 20 + 3 = 23 /\ 20 + 4 = 24
          /\ 20 + 5 = 25 /\ 20 + 6 = 26 /\ 20 + 7 = 27 /\ 20 + 8 = 28
      OBVIOUS
    <3>2. /\ 1 \in 1..8 /\ 2 \in 1..8 /\ 3 \in 1..8 /\ 4 \in 1..8
          /\ 5 \in 1..8 /\ 6 \in 1..8 /\ 7 \in 1..8 /\ 8 \in 1..8
      OBVIOUS
    <3> QED
      BY <2>3, <3>1, <3>2
  <2>5. from_be_bytes(b) = ((b[1] * Base + b[2]) * Base2 + (b[3] * Base + b[4])) * Base4
                           + ((b[5] * Base + b[6]) * Base2 + (b[7] * Base + b[8]))
    BY <2>3, EightBytes
  <2>6. get64(f, 20) = ((f[21] * Base + f[22]) * Base2 + (f[23] * Base + f[24])) * Base4
                       + ((f[25] * Base + f[26]) * Base2 + (f[27] * Base + f[28]))
    BY DEF get16, get32, get64
  <2> QED
    BY <2>4, <2>5, <2>6 DEF b
<1>4. from_be_bytes(SubSeq(f, 6 + 1, 8)) = get16(f, 6)
  <2>1. 6 \in Nat /\ 6 + 2 = 8 /\ 8 <= 28
    OBVIOUS
  <2> QED
    BY <1>1, <2>1, Zenon
<1>5. from_be_bytes(SubSeq(f, 12 + 1, 14)) = get16(f, 12)
  <2>1. 12 \in Nat /\ 12 + 2 = 14 /\ 14 <= 28
    OBVIOUS
  <2> QED
    BY <1>1, <2>1, Zenon
<1>6. from_be_bytes(SubSeq(f, 14 + 1, 16)) = get16(f, 14)
  <2>1. 14 \in Nat /\ 14 + 2 = 16 /\ 16 <= 28
    OBVIOUS
  <2> QED
    BY <1>1, <2>1, Zenon
<1>7. from_be_bytes(SubSeq(f, 8 + 1, 12)) = get32(f, 8)
  <2>1. 8 \in Nat /\ 8 + 4 = 12 /\ 12 <= 28
    OBVIOUS
  <2> QED
    BY <1>2, <2>1, Zenon
<1>8. from_be_bytes(SubSeq(f, 16 + 1, 20)) = get32(f, 16)
  <2>1. 16 \in Nat /\ 16 + 4 = 20 /\ 20 <= 28
    OBVIOUS
  <2> QED
    BY <1>2, <2>1, Zenon
<1> QED
  BY <1>3, <1>4, <1>5, <1>6, <1>7, <1>8

\* The two decoders, on any bytes.
LEMMA Agree ==
    ASSUME NEW f \in Seq(Nat)
    PROVE  /\ bench_decode(f) = IF HostDecode(f) # None /\ HostDecode(f).stream_id >= 16
                                THEN None ELSE HostDecode(f)
           /\ bench_decode(f) # None => HostDecode(f) = bench_decode(f)
<1> DEFINE Refused == Len(f) < HeaderSize \/ SubSeq(f, 1, 4) # Magic \/ f[5] # Version
           r == [type |-> f[6], flags |-> get16(f, 6), run_id |-> get32(f, 8),
                 stream_id |-> get16(f, 12), packet_len |-> get16(f, 14),
                 seq |-> get32(f, 16), timestamp_us |-> get64(f, 20)]
<1>1. CASE Refused
  <2>1. bench_decode(f) = None /\ HostDecode(f) = None
    BY <1>1 DEF bench_decode, HostDecode
  <2> QED
    BY <2>1
<1>2. CASE ~Refused
  <2>1. Len(f) >= 28
    BY <1>2 DEF HeaderSize
  <2>2. HostDecode(f) = IF get16(f, 14) # Len(f) THEN None ELSE r
    BY <1>2, <2>1, Fields DEF HostDecode
  <2>3. bench_decode(f) = IF get16(f, 14) = Len(f) /\ get16(f, 12) < 16 THEN r ELSE None
    BY <1>2 DEF bench_decode
  <2>4. get16(f, 12) \in Nat
    <3>1. f[13] \in Nat /\ f[14] \in Nat /\ Base \in Nat
      BY <2>1, Elements, Bases
    <3>2. get16(f, 12) = f[13] * Base + f[14]
      BY DEF get16
    <3>3. f[13] * Base + f[14] \in Nat
      BY <3>1, Longer, Zenon
    <3> QED
      BY <3>2, <3>3
  <2>5. r # None /\ r.stream_id = get16(f, 12)
    BY DEF None
  <2> HIDE DEF r
  <2> QED
    BY <2>2, <2>3, <2>4, <2>5
<1> QED
  BY <1>1, <1>2
-----------------------------------------------------------------------------
(* The frame in the air.                                                   *)

\* An undamaged frame is the packet of its header, or its echo.
WireInv ==
    /\ frame \in Seq(Nat) /\ damage \in Nat
    /\ hop \in {"idle", "sent", "echoed"}
    /\ damage = 0 /\ hop # "idle" => header \in Headers
    /\ damage = 0 /\ hop = "sent" => frame = Packet(header)
    /\ damage = 0 /\ hop = "echoed" => frame = [Packet(header) EXCEPT ![6] = ECHO]

\* The invariant holds at first.
LEMMA WireStart == WireInit => WireInv
  BY DEF WireInit, WireInv

\* Every step keeps it.
LEMMA WireStep == WireInv /\ [WireNext]_wireVars => WireInv'
<1> SUFFICES ASSUME WireInv, [WireNext]_wireVars PROVE WireInv'
  OBVIOUS
<1>1. ASSUME NEW h \in Headers, send_one(h) PROVE WireInv'
  <2>1. Packet(h) \in Seq(Nat)
    BY PacketBytes
  <2> QED
    BY <1>1, <2>1 DEF send_one, WireInv
<1>2. CASE Foreign
  <2>1. damage' \in Nat /\ damage' # 0 /\ hop' = hop
    BY <1>2 DEF Foreign, WireInv
  <2>2. frame' \in Seq(Nat)
    <3>1. ASSUME NEW i \in DOMAIN frame, NEW b \in 0..(Base - 1), frame' = [frame EXCEPT ![i] = b]
          PROVE  frame' \in Seq(Nat)
      <4>1. b \in Nat /\ frame \in Seq(Nat)
        BY Bases DEF WireInv
      <4> QED
        BY <3>1, <4>1
    <3>2. ASSUME NEW n \in {0, 5, HeaderSize - 1, HeaderSize, Len(frame) - 1},
                 n < Len(frame), frame' = SubSeq(frame, 1, n)
          PROVE  frame' \in Seq(Nat)
      <4>1. frame \in Seq(Nat) /\ Len(frame) \in Nat
        BY DEF WireInv
      <4>2. n \in Int /\ n <= Len(frame)
        BY <3>2, <4>1 DEF HeaderSize
      <4>3. \A i \in 1..n : frame[i] \in Nat
        BY <4>1, <4>2
      <4> QED
        BY <3>2, <4>1, <4>2, <4>3
    <3>3. ASSUME frame' = Append(frame, Padding) PROVE frame' \in Seq(Nat)
      <4>1. Padding \in Nat /\ frame \in Seq(Nat)
        BY WireAssumption DEF WireInv, Padding
      <4> QED
        BY <3>3, <4>1
    <3> QED
      BY <1>2, <3>1, <3>2, <3>3 DEF Foreign
  <2> QED
    BY <2>1, <2>2 DEF WireInv
<1>3. CASE Echo
  <2>1. frame' \in Seq(Nat)
    <3>1. frame \in Seq(Nat) /\ ECHO \in Nat
      BY DEF WireInv, ECHO
    <3>2. 6 \in DOMAIN frame
      <4>1. ~(Len(frame) < 28)
        BY <1>3 DEF Echo, bench_decode, HeaderSize
      <4> QED
        BY <3>1, <4>1
    <3>3. frame' = [frame EXCEPT ![6] = ECHO]
      BY <1>3 DEF Echo
    <3> HIDE DEF ECHO
    <3> QED
      BY <3>1, <3>2, <3>3
  <2> QED
    BY <1>3, <2>1 DEF Echo, WireInv
<1>4. CASE Forget
  BY <1>4 DEF Forget, WireInv
<1>5. CASE UNCHANGED wireVars
  BY <1>5 DEF wireVars, WireInv
<1> QED
  BY <1>1, <1>2, <1>3, <1>4, <1>5 DEF WireNext

\* It holds always.
LEMMA WireInvariant == WireSpec => []WireInv
  BY WireStart, WireStep, PTL DEF WireSpec

\* protocol.c and protocol.rs: for bytes of any number of values, of a frame
\* of any length, both decoders give back the header that bench_encode wrote,
\* and bench_decode gives it back from the echo too.
THEOREM HeaderComesBack == WireSpec => []HeaderSurvives
<1>1. WireInv => HeaderSurvives
  <2> SUFFICES ASSUME WireInv, damage = 0
               PROVE  /\ hop = "sent" => bench_decode(frame) = header /\ HostDecode(frame) = header
                      /\ hop = "echoed" => bench_decode(frame) = [header EXCEPT !.type = ECHO]
    BY DEF HeaderSurvives
  <2>1. ASSUME hop # "idle"
        PROVE  header \in Headers /\ header \in Header /\ Carries(Packet(header), header, header.type)
    <3>1. header \in Headers
      BY <2>1 DEF WireInv
    <3> QED
      BY <3>1, PacketBytes, PacketCarries
  <2>2. CASE hop = "sent"
    <3>1. frame = Packet(header) /\ header \in Header /\ Carries(frame, header, header.type)
      BY <2>1, <2>2 DEF WireInv
    <3>2. header.type \in Nat /\ [header EXCEPT !.type = header.type] = header
      BY <3>1, Bases DEF Header
    <3>3. bench_decode(frame) = header
      BY <3>1, <3>2, Decoded
    <3>4. header # None
      BY <3>1 DEF Header, None
    <3>5. frame \in Seq(Nat)
      BY DEF WireInv
    <3> QED
      BY <2>2, <3>3, <3>4, <3>5, Agree
  <2>3. CASE hop = "echoed"
    <3>1. /\ frame = [Packet(header) EXCEPT ![6] = ECHO] /\ header \in Header
          /\ Carries(Packet(header), header, header.type)
      BY <2>1, <2>3 DEF WireInv
    <3>2. ECHO \in Nat
      BY DEF ECHO
    <3>3. Carries(frame, header, ECHO)
      BY <3>1, <3>2, EchoCarries
    <3> QED
      BY <2>3, <3>1, <3>2, <3>3, Decoded
  <2> QED
    BY <2>2, <2>3
<1> QED
  BY <1>1, WireInvariant, PTL

\* protocol.c and protocol.rs: whatever arrives, the node's decoder and the
\* host's read the same, but for a stream that the node has no counters for.
THEOREM SameReading == WireSpec => []DecodersAgree
<1>1. WireInv => DecodersAgree
  BY Agree DEF WireInv, DecodersAgree
<1> QED
  BY <1>1, WireInvariant, PTL
=============================================================================
