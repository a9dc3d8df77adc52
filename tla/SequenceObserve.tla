--------------------------- MODULE SequenceObserve ---------------------------
(***************************************************************************)
(* metrics.c sequence_observe: how the receiver classifies the packets of  *)
(* one stream with a bitmap of the last Window sequence numbers, bit d     *)
(* standing for highest - d.  The air may lose, repeat and reorder packets *)
(* without limit, so any number may come next.                             *)
(***************************************************************************)
EXTENDS Integers, FiniteSets

CONSTANTS
    Window,      \* bits of the bitmap, 64 in the code
    MaxSeq,      \* largest sequence number, 2^32 - 1 in the code
    MaxPackets   \* bound: packets observed

ASSUME ObserveAssumption == Window \in Nat \ {0} /\ MaxSeq \in Nat /\ MaxPackets \in Nat

VARIABLES
    init, highest, bitmap, gaps,    \* stream_metric_t
    rx, duplicate, out_of_order,
    seen,        \* history: every number that arrived
    counted      \* history: those that arrived before they fell out of the window

streamVars == <<init, highest, bitmap, gaps, rx, duplicate, out_of_order>>
seqVars == <<streamVars, seen, counted>>

Init ==
    /\ init = FALSE /\ highest = 0 /\ bitmap = {} /\ gaps = 0
    /\ rx = 0 /\ duplicate = 0 /\ out_of_order = 0
    /\ seen = {} /\ counted = {}

\* Mutant: the shift is one short.
Mut_ShiftShort(bits, distance) == {b \in 0..(Window - 1) : b - distance + 1 \in bits}

\* bitmap << distance, in Window bits.
ShiftLeft(bits, distance) == {b \in 0..(Window - 1) : b - distance \in bits}

First(s) ==
    /\ ~init
    /\ init' = TRUE /\ highest' = s /\ bitmap' = {0} /\ gaps' = s
    /\ counted' = counted \cup {s}
    /\ UNCHANGED <<duplicate, out_of_order>>

\* Mutant: the packet that arrived counts as missing too.
Mut_AheadGap(s) ==
    /\ init /\ s > highest
    /\ gaps' = gaps + (s - highest)
    /\ bitmap' = ShiftLeft(bitmap, s - highest) \cup {0}
    /\ highest' = s
    /\ counted' = counted \cup {s}
    /\ UNCHANGED <<init, duplicate, out_of_order>>

Ahead(s) ==
    /\ init /\ s > highest
    /\ gaps' = gaps + (s - highest - 1)
    /\ bitmap' = ShiftLeft(bitmap, s - highest) \cup {0}
    /\ highest' = s
    /\ counted' = counted \cup {s}
    /\ UNCHANGED <<init, duplicate, out_of_order>>

\* Mutant: a packet older than the bitmap also fills a gap.
Mut_BeyondFills(s) ==
    /\ init /\ s <= highest /\ highest - s >= Window
    /\ out_of_order' = out_of_order + 1
    /\ gaps' = IF gaps > 0 THEN gaps - 1 ELSE gaps
    /\ UNCHANGED <<init, highest, bitmap, duplicate, counted>>

\* Too old for the bitmap: counted as out of order, new or not.
Beyond(s) ==
    /\ init /\ s <= highest /\ highest - s >= Window
    /\ out_of_order' = out_of_order + 1
    /\ UNCHANGED <<init, highest, bitmap, gaps, duplicate, counted>>

Duplicate(s) ==
    /\ init /\ s <= highest /\ highest - s < Window /\ highest - s \in bitmap
    /\ duplicate' = duplicate + 1
    /\ UNCHANGED <<init, highest, bitmap, gaps, out_of_order, counted>>

\* Mutant: a late packet is counted and its bit not set.
Mut_LateUnmarked(s) ==
    /\ init /\ s <= highest /\ highest - s < Window /\ highest - s \notin bitmap
    /\ out_of_order' = out_of_order + 1
    /\ gaps' = IF gaps > 0 THEN gaps - 1 ELSE gaps
    /\ counted' = counted \cup {s}
    /\ UNCHANGED <<init, highest, bitmap, duplicate>>

Late(s) ==
    /\ init /\ s <= highest /\ highest - s < Window /\ highest - s \notin bitmap
    /\ bitmap' = bitmap \cup {highest - s}
    /\ out_of_order' = out_of_order + 1
    /\ gaps' = IF gaps > 0 THEN gaps - 1 ELSE gaps
    /\ counted' = counted \cup {s}
    /\ UNCHANGED <<init, highest, duplicate>>

sequence_observe(s) ==
    /\ rx < MaxPackets
    /\ rx' = rx + 1
    /\ seen' = seen \cup {s}
    /\ First(s) \/ Ahead(s) \/ Beyond(s) \/ Duplicate(s) \/ Late(s)

Next == \E s \in 0..MaxSeq : sequence_observe(s)

Spec == Init /\ [][Next]_seqVars
-----------------------------------------------------------------------------
\* Types of stream_metric_t and of the history.
TypeOK ==
    /\ init \in BOOLEAN /\ highest \in 0..MaxSeq
    /\ bitmap \subseteq 0..(Window - 1) /\ gaps \in Nat
    /\ rx \in Nat /\ duplicate \in Nat /\ out_of_order \in Nat
    /\ seen \subseteq 0..MaxSeq /\ counted \subseteq 0..MaxSeq

\* The bitmap knows exactly which numbers of the window have arrived, so no
\* repeat within the window is missed and no new packet is called a repeat
\* (sequence_observe, the shift and the bit test).
BitmapExact ==
    bitmap = {d \in 0..(Window - 1) : init /\ highest - d \in seen}

\* gaps is the number of sequence numbers up to the highest that never
\* arrived in time; the guard of gaps-- never hides an underflow.
GapsExact == init => gaps + Cardinality(counted) = highest + 1

\* The loss a receiver reports is never less than what is really missing.
LossNotUnderstated == init => gaps + Cardinality(seen) >= highest + 1

\* Repeats are counted at most once each: packets minus duplicates, which
\* the host takes for the unique packets, is never less than those.
DuplicatesReal == duplicate + Cardinality(seen) <= rx

\* Nothing arrived before init, nothing above highest, and whatever the
\* window still covers arrived in time.
Arrivals ==
    /\ ~init => seen = {} /\ highest = 0 /\ gaps = 0
    /\ init => highest \in seen
    /\ counted \subseteq seen
    /\ \A s \in seen : s <= highest /\ (highest - s < Window => s \in counted)

\* The inductive invariant: what the four properties rest on.
Inv == TypeOK /\ Arrivals /\ BitmapExact /\ GapsExact /\ DuplicatesReal
=============================================================================
