---------------------- MODULE MCReceivedPacketHandler ----------------------
(***************************************************************************)
(* Instances of ReceivedPacketHandler for TLC.                             *)
(***************************************************************************)
EXTENDS ReceivedPacketHandler
=============================================================================
