--------------------------- MODULE SequenceTracker ---------------------------
(***************************************************************************)
(* protocol.rs SequenceTracker: the classification of sequence numbers     *)
(* with an unbounded memory, which the host uses in its tests.  It is the  *)
(* abstract specification of the firmware's bitmap.                        *)
(***************************************************************************)
EXTENDS Integers, FiniteSets

CONSTANTS MaxSeq, MaxPackets

VARIABLES initialized, max_seq, seen, received, duplicate, out_of_order

trackerVars == <<initialized, max_seq, seen, received, duplicate, out_of_order>>

Init ==
    /\ initialized = FALSE /\ max_seq = 0 /\ seen = {}
    /\ received = 0 /\ duplicate = 0 /\ out_of_order = 0

Repeat(s) ==
    /\ s \in seen
    /\ duplicate' = duplicate + 1
    /\ UNCHANGED <<initialized, max_seq, seen, out_of_order>>

New(s) ==
    /\ s \notin seen
    /\ seen' = seen \cup {s}
    /\ out_of_order' = IF initialized /\ s < max_seq THEN out_of_order + 1 ELSE out_of_order
    /\ max_seq' = IF ~initialized \/ s > max_seq THEN s ELSE max_seq
    /\ initialized' = TRUE
    /\ UNCHANGED duplicate

observe(s) ==
    /\ received < MaxPackets
    /\ received' = received + 1
    /\ Repeat(s) \/ New(s)

\* saturating_sub of max_seq + 1 and the number of packets seen.
estimated_missing ==
    IF ~initialized \/ Cardinality(seen) > max_seq + 1 THEN 0
    ELSE max_seq + 1 - Cardinality(seen)

Next == \E s \in 0..MaxSeq : observe(s)

Spec == Init /\ [][Next]_trackerVars
=============================================================================
