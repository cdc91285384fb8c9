-------------------------- MODULE ReceivedPackets --------------------------
(***************************************************************************)
(* What a received packet history promises: a set of packet numbers, to    *)
(* which numbers are added and from which everything up to a limit is      *)
(* removed.  ReceivedPacketHistory implements it with a list of intervals; *)
(* ReceivedPacketHandler is built on it.                                   *)
(***************************************************************************)
EXTENDS Integers, FiniteSets, FiniteSetsExt

CONSTANT MaxPacketNumber      \* bound: largest packet number of a run

ASSUME MaxPacketNumberAssumption == MaxPacketNumber \in Nat

VARIABLE received

PacketNumbers == 1 .. MaxPacketNumber

\* The numbers at which a maximal interval of S starts: one per ACK range.
Starts(S) == {n \in S : n - 1 \notin S}

\* GetHighestAckRange().First, 0 when nothing is tracked.
HighestFirst(S) == IF S = {} THEN 0 ELSE Max(Starts(S))

Init == received = {}

Add(p) == received' = received \cup {p}

RemoveUpTo(p) == received' = received \ (1 .. p)

Next ==
    \/ \E p \in PacketNumbers : Add(p)
    \/ \E p \in 0 .. MaxPacketNumber : RemoveUpTo(p)

Spec == Init /\ [][Next]_received
=============================================================================
