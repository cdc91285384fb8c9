------------------------------ MODULE OnePath ------------------------------
(***************************************************************************)
(* The packets of one path from the sender to the ACK that the receiver    *)
(* puts on the wire: the numbering of packets over a network that loses,   *)
(* repeats and reorders (PacketNumbers), the ranges of received packets    *)
(* (ReceivedPacketHistory) and their encoding in ACK and CLOSE_PATH frames *)
(* (AckFrames).                                                            *)
(*                                                                         *)
(* When an ACK is sent, and the limit below which packets are not tracked, *)
(* are the subject of ReceivedPacketHandler: here a frame can be asked for *)
(* in every state, and a packet below the last deletion is tracked again.  *)
(***************************************************************************)
EXTENDS PacketNumbers, AckFrames, ReceivedPacketHistory

CONSTANTS
    PathID                    \* the path, not the initial one

VARIABLES
    closed                    \* the session has failed

pathVars == <<vars, ranges, closed>>

PathInit == Init /\ HistoryInit /\ closed = FALSE

-----------------------------------------------------------------------------

\* path.handlePacketImpl and receivedPacketHandler.ReceivedPacket: the number
\* is inferred, and the packet decrypted, before it is counted.
Arrive(m) ==
    /\ Inferred(m) = m.number
    /\ largestRcvdPacketNumber' = Max({largestRcvdPacketNumber, m.number})
    /\ \/ ReceivedPacket(m.number) /\ UNCHANGED closed
       \/ ReceivedPacketRejected(m.number) /\ closed' = TRUE
    /\ UNCHANGED <<next, nextToSkip, packets, lastSkipped>>

\* A STOP_WAITING frame in a packet that has arrived: its LeastUnacked is at
\* most the number of the packet (ParseStopWaitingFrame).
StopWaiting(leastUnacked) ==
    /\ DeleteUpTo(leastUnacked - 1)
    /\ UNCHANGED <<vars, closed>>

GetAckRanges ==
    [i \in DOMAIN ranges |->
        LET r == ranges[Len(ranges) + 1 - i]
        IN  [First |-> r.Start, Last |-> r.End]]

\* The frame of GetAckFrame, and of GetClosePathFrame, on path id;
\* largestObserved is the largest number received.
GetAckFrame(id) ==
    [PathID       |-> id,
     LargestAcked |-> largestRcvdPacketNumber,
     LowestAcked  |-> LowestRange(GetAckRanges).First,
     AckRanges    |-> IF Len(GetAckRanges) > 1 THEN GetAckRanges ELSE <<>>]

PathNext ==
    /\ ~closed
    /\ \/ \E leastUnacked \in 1 .. next, skip \in Skips :
              /\ next <= MaxPacketNumber
              /\ Cardinality(packets) < MaxInNetwork
              /\ Send(leastUnacked, skip)
              /\ UNCHANGED <<ranges, closed>>
       \/ \E m \in packets : Arrive(m)
       \/ \E m \in packets : Drop(m) /\ UNCHANGED <<ranges, closed>>
       \/ \E leastUnacked \in 1 .. largestRcvdPacketNumber :
              StopWaiting(leastUnacked)

PathSpec == PathInit /\ [][PathNext]_pathVars

-----------------------------------------------------------------------------

Packets == INSTANCE ReceivedPackets WITH received <- Covered(ranges)

\* There is one range for every maximal interval of the numbers covered, and
\* GetHighestAckRange is the last of those.
RangesAreMaximal ==
    /\ Len(ranges) = Cardinality(Packets!Starts(Covered(ranges)))
    /\ ranges # <<>> =>
           ranges[Len(ranges)].Start = Packets!HighestFirst(Covered(ranges))

\* The list of intervals implements a set of numbers, to which an arrival adds
\* and from which a STOP_WAITING frame removes everything up to a limit, with one
\* interval for each maximal run of numbers.
ImplementsSet == Packets!Spec /\ []RangesAreMaximal

\* What a parsed frame f acks is what the receiver has from f.LowestAcked on,
\* and everything when its blocks fit in the frame.
SameAcked(sent, f) ==
    /\ f # Error
    /\ f.PathID = sent.PathID
    /\ f.LargestAcked = sent.LargestAcked
    /\ {p \in 1 .. f.LargestAcked : AcksPacket(f, p)} =
           {p \in Covered(ranges) : p >= f.LowestAcked}
    /\ BlocksUpTo(sent, Len(sent.AckRanges)) < MaxBlocks => f = sent

\* An ACK or CLOSE_PATH frame reads back as what was written, however long the
\* gaps and however many the ranges, except that the lowest ranges are left
\* out when there are too many blocks.  Write fails only when the gap below the
\* highest range alone has too many blocks, and takes the space that MinLength
\* tells the packer.
FramesRoundTrip ==
    ranges # <<>> /\ ~closed =>
        \A id \in {InitialPathID, PathID} :
            LET f     == GetAckFrame(id)
                fails == HasMissingRanges(f) /\ BlocksFor(Gap(f, 2)) >= MaxBlocks
                ack   == WriteAck(f)
                close == WriteClosePath(f)
            IN  /\ (ack = Error) = fails
                /\ (close = Error) = fails
                /\ ~fails => /\ SameAcked(f, ParseAckFrame(ack))
                             /\ SameAcked(f, ParseClosePathFrame(close))
                             /\ BytesOfAck(ack) = MinLength(f)
                             /\ BytesOfClosePath(close) = ClosePathMinLength(f)
=============================================================================
