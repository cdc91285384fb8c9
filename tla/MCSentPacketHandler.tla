------------------------ MODULE MCSentPacketHandler ------------------------
(***************************************************************************)
(* Instances of SentPacketHandler for TLC.                                 *)
(***************************************************************************)
EXTENDS SentPacketHandler

CONSTANTS stream, closePath     \* a STREAM frame and a CLOSE_PATH frame
=============================================================================
