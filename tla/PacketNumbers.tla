--------------------------- MODULE PacketNumbers ---------------------------
(***************************************************************************)
(* The numbering of the packets of one path: packet_number_generator.go    *)
(* and the truncation of numbers on the wire (protocol/packet_number.go),  *)
(* from the packer that chooses the length of a number to the receiver     *)
(* that infers the number from its last bytes.  The network delivers       *)
(* packets in any order, more than once or not at all.                     *)
(*                                                                         *)
(* A number of len bytes has Epoch[len] values (256^len in the code) and a *)
(* PacketNumber, a uint64, has Wrap values: parameters, so that the        *)
(* boundaries are met on small numbers.                                    *)
(***************************************************************************)
EXTENDS Integers, FiniteSets

CONSTANTS
    Epoch,                    \* the number of values of 2, 4 and 6 bytes
    Wrap,                     \* the number of values of a PacketNumber
    averagePeriod,            \* SkipPacketAveragePeriodLength
    MaxPacketNumber,          \* bound: largest packet number of a run
    MaxInNetwork              \* bound: packets in the network at a time

ASSUME PacketNumbersAssumption ==
    /\ Epoch \in [{2, 4, 6} -> Nat \ {0}]
    /\ Epoch[2] <= Epoch[4] /\ Epoch[4] <= Epoch[6]
    /\ MaxPacketNumber < Epoch[6] \div 2
    /\ Wrap \in Nat
    /\ 4 * Epoch[6] <= Wrap
    /\ averagePeriod \in Nat \ {0}
    /\ MaxPacketNumber \in Nat
    /\ MaxInNetwork \in Nat

VARIABLES
    next, nextToSkip,         \* packetNumberGenerator
    largestRcvdPacketNumber,  \* at the receiver
    packets,                  \* the packets in the network
    lastSkipped               \* history variable: the last number skipped

vars == <<next, nextToSkip, largestRcvdPacketNumber, packets, lastSkipped>>

-----------------------------------------------------------------------------

delta(a, b) == IF a < b THEN b - a ELSE a - b

closestTo(target, a, b) == IF delta(target, a) < delta(target, b) THEN a ELSE b

\* InferPacketNumber; E is epochDelta.
InferPacketNumber(E, lastPacketNumber, wire) ==
    LET epoch == lastPacketNumber - (lastPacketNumber % E)
        prevEpochBegin == (epoch - E) % Wrap
        nextEpochBegin == (epoch + E) % Wrap
    IN  closestTo(lastPacketNumber + 1,
                  epoch + wire,
                  closestTo(lastPacketNumber + 1,
                            (prevEpochBegin + wire) % Wrap,
                            (nextEpochBegin + wire) % Wrap))

\* Mutant: the whole epoch is used.
LengthForWholeEpoch(packetNumber, leastUnacked) ==
    LET diff == (packetNumber - leastUnacked) % Wrap
    IN  CASE diff < Epoch[2] -> 2
          [] diff >= Epoch[2] /\ diff < Epoch[4] -> 4
          [] OTHER -> 6

\* The number of bytes for packetNumber: half of the epoch they stand for has
\* to cover the numbers since leastUnacked.
GetPacketNumberLengthForPublicHeader(packetNumber, leastUnacked) ==
    LET diff == (packetNumber - leastUnacked) % Wrap
    IN  CASE diff < Epoch[2] \div 2 -> 2
          [] diff >= Epoch[2] \div 2 /\ diff < Epoch[4] \div 2 -> 4
          [] OTHER -> 6

-----------------------------------------------------------------------------

Init ==
    /\ next = 1
    /\ nextToSkip = 0
    /\ largestRcvdPacketNumber = 0
    /\ packets = {}
    /\ lastSkipped = 0

\* The range of num * (averagePeriod - 1) / (MaxUint16 / 2).
Skips == 0 .. 2 * (averagePeriod - 1)

\* Pop, and generateNewSkip when the next number is to be skipped.
Pop(skip) ==
    IF next + 1 = nextToSkip
      THEN /\ lastSkipped' = next + 1
           /\ next' = next + 2
           /\ nextToSkip' = next' + 2 + skip
      ELSE /\ next' = next + 1
           /\ UNCHANGED <<nextToSkip, lastSkipped>>

\* getPublicHeader and writeAndSealPacket; leastUnacked is what the sent packet
\* handler knows at this time.
Send(leastUnacked, skip) ==
    LET len == GetPacketNumberLengthForPublicHeader(next, leastUnacked)
    IN  /\ packets' = packets \cup {[number |-> next, len |-> len,
                                     wire |-> next % Epoch[len],
                                     leastUnacked |-> leastUnacked]}
        /\ Pop(skip)
        /\ UNCHANGED largestRcvdPacketNumber

\* The number that the receiver, path.handlePacketImpl, computes for packet m.
Inferred(m) ==
    InferPacketNumber(Epoch[m.len], largestRcvdPacketNumber, m.wire)

\* The network drops packet m, or delivered it for the last time.
Drop(m) ==
    /\ packets' = packets \ {m}
    /\ UNCHANGED <<next, nextToSkip, largestRcvdPacketNumber, lastSkipped>>

-----------------------------------------------------------------------------

\* A packet is decoded to its own number whenever it arrives, early or late, as
\* long as everything below the leastUnacked it was sent with has been passed
\* by the receiver, and the receiver is not half an epoch ahead: the length
\* that the sender chooses is enough for the receiver's inference.
LengthSuffices ==
    \A m \in packets :
        /\ m.leastUnacked <= largestRcvdPacketNumber + 1
        /\ largestRcvdPacketNumber + 1 < m.number + Epoch[m.len] \div 2
        => Inferred(m) = m.number

\* "it randomly skips a packet number every averagePeriod packets (on average)"
\* (packet_number_generator.go): generateNewSkip leaves at most twice
\* averagePeriod numbers to the next one to skip.
SkipsOften == next - lastSkipped <= 2 * averagePeriod + 2
=============================================================================
