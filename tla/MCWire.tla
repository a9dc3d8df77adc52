------------------------------- MODULE MCWire -------------------------------
(***************************************************************************)
(* Headers whose every multi-byte field has four different digits, or is   *)
(* at a limit of its width.                                                *)
(***************************************************************************)
EXTENDS Wire

\* Base 6: 16 bits hold 0..35, 32 bits 0..1295, 64 bits 0..1679615.
MCHeaders ==
    [type : {1, PING}, flags : {0}, run_id : {1, 310, 1295}, stream_id : {0, 8, 15},
     packet_len : {HeaderSize, 32, MaxPacket}, seq : {0, 311}, timestamp_us : {5, 401234, 1679615}]
=============================================================================
