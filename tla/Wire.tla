-------------------------------- MODULE Wire --------------------------------
(***************************************************************************)
(* The benchmark frame: protocol.c's bench_encode and bench_decode byte by *)
(* byte, the host's reference codec of protocol.rs, the one byte an echo   *)
(* responder changes, and frames of other senders that a node receives.    *)
(* The layout is the real one of 28 bytes; a byte has Base values instead  *)
(* of 256, which scales every width with it.                               *)
(***************************************************************************)
EXTENDS Integers, Sequences

CONSTANTS
    Base,          \* values of a byte
    MaxPacket,     \* HARNESS_MAX_PACKET_SIZE, scaled to what packet_len holds
    Headers,       \* headers the generator may send
    MaxDamage      \* bound: foreign changes to one frame

\* 16, 32 and 64 bits, in bytes of Base values.
Base2 == Base * Base
Base4 == Base2 * Base2
HeaderSize == 28

\* Fields fit their C types; parse_config admits no other streams and sizes.
ASSUME WireAssumption ==
    /\ Base \in Nat \ {0, 1} /\ MaxPacket \in Nat /\ MaxPacket < Base2 /\ 16 <= Base2
    /\ MaxDamage \in Nat
    /\ Headers \subseteq
         [type : 0..Base - 1, flags : 0..Base2 - 1, run_id : 0..Base4 - 1, stream_id : 0..15,
          packet_len : HeaderSize..MaxPacket, seq : 0..Base4 - 1,
          timestamp_us : 0..Base4 * Base4 - 1]

VARIABLES
    header,        \* what the sender meant
    frame,         \* the bytes in the air, byte n of the code at n + 1
    hop,           \* "idle", "sent", "echoed"
    damage         \* changes made to the frame on its way

wireVars == <<header, frame, hop, damage>>

Magic == <<1, 2, 3, 4>>
Version == 1
PING == 2
ECHO == 3
Padding == Base - 1
None == [none |-> TRUE]
-----------------------------------------------------------------------------
(* protocol.c                                                              *)

put16(v) == <<(v \div Base) % Base, v % Base>>
put32(v) == <<(v \div (Base2 * Base)) % Base, (v \div Base2) % Base, (v \div Base) % Base, v % Base>>
put64(v) == [i \in 1..8 |-> IF i <= 4 THEN put32(v \div Base4)[i] ELSE put32(v % Base4)[i - 4]]

\* get16 and get32 read from byte p on.
get16(s, p) == s[p + 1] * Base + s[p + 2]
get32(s, p) == get16(s, p) * Base2 + get16(s, p + 2)

\* Mutant: the low word of a timestamp read from its first byte.
Mut_LowWord(s, p) == get32(s, p) * Base4 + get32(s, p)

get64(s, p) == get32(s, p) * Base4 + get32(s, p + 4)

\* The header into the first bytes of d; <<>> where bench_encode returns false.
bench_encode(d, h) ==
    IF Len(d) < h.packet_len \/ h.packet_len < HeaderSize THEN <<>>
    ELSE [i \in 1..Len(d) |->
            CASE i \in 1..4   -> Magic[i]
              [] i = 5        -> Version
              [] i = 6        -> h.type
              [] i \in 7..8   -> put16(h.flags)[i - 6]
              [] i \in 9..12  -> put32(h.run_id)[i - 8]
              [] i \in 13..14 -> put16(h.stream_id)[i - 12]
              [] i \in 15..16 -> put16(h.packet_len)[i - 14]
              [] i \in 17..20 -> put32(h.seq)[i - 16]
              [] i \in 21..28 -> put64(h.timestamp_us)[i - 20]
              [] OTHER        -> d[i]]

\* Mutant: a frame longer than it says is taken.
Mut_LongerTaken(s) ==
    IF Len(s) < HeaderSize \/ SubSeq(s, 1, 4) # Magic \/ s[5] # Version THEN None
    ELSE LET h == [type |-> s[6], flags |-> get16(s, 6), run_id |-> get32(s, 8),
                   stream_id |-> get16(s, 12), packet_len |-> get16(s, 14),
                   seq |-> get32(s, 16), timestamp_us |-> get64(s, 20)]
         IN  IF h.packet_len <= Len(s) /\ h.stream_id < 16 THEN h ELSE None

bench_decode(s) ==
    IF Len(s) < HeaderSize \/ SubSeq(s, 1, 4) # Magic \/ s[5] # Version THEN None
    ELSE LET h == [type |-> s[6], flags |-> get16(s, 6), run_id |-> get32(s, 8),
                   stream_id |-> get16(s, 12), packet_len |-> get16(s, 14),
                   seq |-> get32(s, 16), timestamp_us |-> get64(s, 20)]
         IN  IF h.packet_len = Len(s) /\ h.stream_id < 16 THEN h ELSE None
-----------------------------------------------------------------------------
(* protocol.rs                                                             *)

from_be_bytes(b) ==
    LET upto[i \in 0..Len(b)] == IF i = 0 THEN 0 ELSE upto[i - 1] * Base + b[i]
    IN  upto[Len(b)]

HostDecode(b) ==
    LET field(from, to) == from_be_bytes(SubSeq(b, from + 1, to)) IN
    IF Len(b) < HeaderSize \/ SubSeq(b, 1, 4) # Magic \/ b[5] # Version
       \/ field(14, 16) # Len(b) THEN None
    ELSE [type |-> b[6], flags |-> field(6, 8), run_id |-> field(8, 12),
          stream_id |-> field(12, 14), packet_len |-> field(14, 16),
          seq |-> field(16, 20), timestamp_us |-> field(20, 28)]
-----------------------------------------------------------------------------
WireInit == header = None /\ frame = <<>> /\ hop = "idle" /\ damage = 0

\* send_one's packet, of which the first packet_len bytes are sent.
Packet(h) ==
    SubSeq(bench_encode([i \in 1..MaxPacket |-> Padding], h), 1, h.packet_len)

send_one(h) ==
    /\ hop = "idle"
    /\ header' = h /\ frame' = Packet(h) /\ hop' = "sent" /\ damage' = 0

\* Another sender's frame: a byte differs, bytes are missing or added.
Foreign ==
    /\ hop = "sent" /\ damage < MaxDamage /\ damage' = damage + 1
    /\ \/ \E i \in DOMAIN frame, b \in 0..Base - 1 : frame' = [frame EXCEPT ![i] = b]
       \/ \E n \in {0, 5, HeaderSize - 1, HeaderSize, Len(frame) - 1} :
            n < Len(frame) /\ frame' = SubSeq(frame, 1, n)
       \/ Len(frame) < MaxPacket /\ frame' = Append(frame, Padding)
    /\ UNCHANGED <<header, hop>>

\* rx_callback passes no frame longer than MaxPacket; the responder's task
\* decodes it and, for a ping, sends the same bytes back with the type changed.
Echo ==
    /\ hop = "sent"
    /\ bench_decode(frame) # None /\ bench_decode(frame).type = PING
    /\ frame' = [frame EXCEPT ![6] = ECHO] /\ hop' = "echoed"
    /\ UNCHANGED <<header, damage>>

Forget == hop # "idle" /\ header' = None /\ frame' = <<>> /\ hop' = "idle" /\ damage' = 0

WireNext == (\E h \in Headers : send_one(h)) \/ Foreign \/ Echo \/ Forget

WireSpec == WireInit /\ [][WireNext]_wireVars
-----------------------------------------------------------------------------
\* What the generator sent arrives: each decoder reads, from an undamaged
\* frame, exactly the header that was encoded (protocol.c, protocol.rs).  The
\* echo is a frame again, in which the initiator finds its own stream, number,
\* timestamp and length: what it takes the round trip from (receiver.c
\* changes one byte of what it received).
HeaderSurvives ==
    damage = 0 =>
        /\ hop = "sent" => bench_decode(frame) = header /\ HostDecode(frame) = header
        /\ hop = "echoed" => bench_decode(frame) = [header EXCEPT !.type = ECHO]

\* The node's decoder and the reference decoder of the host read the same from
\* every frame, foreign and cut ones included, except that the node refuses a
\* stream it has no counters for.
DecodersAgree ==
    LET host == HostDecode(frame) IN
    bench_decode(frame) = IF host # None /\ host.stream_id >= 16 THEN None ELSE host
=============================================================================
