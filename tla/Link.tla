-------------------------------- MODULE Link --------------------------------
(***************************************************************************)
(* One stream from the generator over the air to the receiver, and the     *)
(* loss the host computes from the two reports (output.rs save).  The air  *)
(* delivers what was sent, in any order, any number of times or never.     *)
(***************************************************************************)
EXTENDS SequenceObserve

VARIABLES
    sent,           \* frames submitted, numbered 0 to sent - 1
    old_repeats     \* history: repeats too old for the bitmap

linkVars == <<seqVars, sent, old_repeats>>

LinkInit == Init /\ sent = 0 /\ old_repeats = 0

Submit ==
    /\ sent <= MaxSeq /\ sent' = sent + 1
    /\ UNCHANGED <<seqVars, old_repeats>>

Deliver(s) ==
    /\ s < sent
    /\ sequence_observe(s)
    /\ old_repeats' = IF s \in seen /\ highest - s >= Window THEN old_repeats + 1 ELSE old_repeats
    /\ UNCHANGED sent

LinkNext == Submit \/ \E s \in 0..MaxSeq : Deliver(s)

LinkSpec == LinkInit /\ [][LinkNext]_linkVars

saturating_sub(a, b) == IF a > b THEN a - b ELSE 0

\* Mutant: duplicates count as received.
Mut_AllReceived == rx

unique_rx_packets == saturating_sub(rx, duplicate)
forward_packet_loss == saturating_sub(sent, unique_rx_packets)
-----------------------------------------------------------------------------
\* The loss the host reports is the number of frames that never arrived,
\* less the repeats that came too late to be recognised; so it is exact for
\* repeats within the window and never overstated, frames after the highest
\* that arrived included (output.rs loss, metrics.c sequence_observe).
LossAccounted == forward_packet_loss = saturating_sub(sent, Cardinality(seen) + old_repeats)

\* The host's exact tracker, in the firmware's counters: of the packets too old
\* for the bitmap the repeats are counted as out of order, not as duplicates.
Tracker == INSTANCE SequenceTracker
           WITH initialized <- init, max_seq <- highest, received <- rx,
                duplicate <- duplicate + old_repeats, out_of_order <- out_of_order - old_repeats

\* The firmware's bitmap implements the tracker of the host, packet by packet
\* and however narrow the window: every packet that is not an old repeat is
\* classified as by an unbounded memory, and an old repeat is what the mapping
\* says and nothing else (metrics.c sequence_observe, protocol.rs observe).
ImplementsTracker == Tracker!Spec

\* The firmware's missing packets are the tracker's and those that came when
\* they had fallen out of the window.
MissingAccounted == gaps = Tracker!estimated_missing + Cardinality(seen \ counted)

\* Packet loss is submitted frames minus unique received frames.
LossExact == forward_packet_loss = sent - Cardinality(seen)
=============================================================================
