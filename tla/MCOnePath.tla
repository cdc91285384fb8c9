----------------------------- MODULE MCOnePath -----------------------------
(***************************************************************************)
(* OnePath with bytes of one bit for packet numbers (2, 4 and 6 of them    *)
(* stand for 4, 16 and 64 numbers, and a packet number has 4096 values),   *)
(* and ACK frames with gaps of at most 2 and at most 2 blocks.             *)
(***************************************************************************)
EXTENDS OnePath

OneBitBytes == [len \in {2, 4, 6} |-> 2 ^ len]
=============================================================================
