------------------------------ MODULE AckFrames ------------------------------
(***************************************************************************)
(* The ACK and CLOSE_PATH frames of internal/wire: what Write puts on the  *)
(* wire for a list of ranges, highest first, and what Parse makes of it.   *)
(* A frame on the wire is a record of its fields: the widths of the two    *)
(* kinds of numbers, the path ID if it is there, the largest number acked, *)
(* the length of the first block and the following blocks, each a gap of   *)
(* at most one byte and the length of the range after it.  A gap that does *)
(* not fit in a byte takes several blocks, all but the last of length 0.   *)
(* The number of blocks is a byte too, so ranges may be left out.          *)
(*                                                                         *)
(* The gap of a block is at most MaxGap, there are fewer than MaxBlocks    *)
(* blocks and a byte has ByteValues values: 255, 255 and 256 in the code,  *)
(* parameters here, so that long gaps and truncated frames are met with    *)
(* few packets.  The delay and the timestamps of an ACK frame only take    *)
(* their space.                                                            *)
(***************************************************************************)
EXTENDS Integers, Sequences, FiniteSetsExt, TLC

CONSTANTS MaxGap, MaxBlocks, ByteValues

InitialPathID == 0

Error == [error |-> TRUE]

\* The number of values of len bytes.
Values(len) == ByteValues ^ len

\* protocol.GetPacketNumberLength
GetPacketNumberLength(n) ==
    Min({len \in {1, 2, 4} : n < Values(len)} \cup {6})

HasMissingRanges(f) == f.AckRanges # <<>>

RangeLength(r) == r.Last - r.First + 1

\* Frames have their ranges in descending order.
LowestRange(rs) == rs[Len(rs)]

\* The width of the lengths of blocks: the longest range has to fit.
getMissingSequenceNumberDeltaLen(f) ==
    GetPacketNumberLength(
        IF HasMissingRanges(f)
          THEN Max({RangeLength(f.AckRanges[i]) : i \in DOMAIN f.AckRanges})
          ELSE f.LargestAcked - f.LowestAcked + 1)

\* The packets missing between ranges i - 1 and i.
Gap(f, i) == f.AckRanges[i - 1].First - f.AckRanges[i].Last - 1

\* The blocks that a gap takes.
BlocksFor(gap) ==
    gap \div MaxGap + (IF gap % MaxGap = 0 THEN 0 ELSE 1)

\* The blocks of ranges 2 .. n.
BlocksUpTo(f, n) == MapThenSumSet(LAMBDA i : BlocksFor(Gap(f, i)), 2 .. n)

\* One more than the number of blocks after the first: the loop stops at the
\* first range that brings the blocks to MaxBlocks.
numWritableNackRanges(f) ==
    IF HasMissingRanges(f)
      THEN 1 + Max({BlocksUpTo(f, n) : n \in
                        {k \in DOMAIN f.AckRanges : BlocksUpTo(f, k) < MaxBlocks}})
      ELSE 0

\* The blocks of one range: the full gaps first, what is left of the gap with
\* the length of the range last.
RangeBlocks(gap, length) ==
    [i \in 1 .. BlocksFor(gap) |->
        IF i = BlocksFor(gap)
          THEN [gap |-> 1 + ((gap - 1) % MaxGap), length |-> length]
          ELSE [gap |-> MaxGap, length |-> 0]]

\* The ranges that the loop of Write reaches: always the second one, and
\* another one while fewer than numWritableNackRanges blocks are written.
Reached(f) ==
    {i \in DOMAIN f.AckRanges :
        \/ i = 2
        \/ i > 2 /\ 1 + BlocksUpTo(f, i - 1) < numWritableNackRanges(f)}

\* The blocks that Write writes, lengths cut to their width.
Blocks(f) ==
    LET written[n \in Nat] ==
            IF n = 0 THEN <<>>
            ELSE written[n - 1] \o
                     RangeBlocks(Gap(f, n + 1),
                                 RangeLength(f.AckRanges[n + 1])
                                     % Values(getMissingSequenceNumberDeltaLen(f)))
    IN  written[Cardinality(Reached(f))]

\* The fields that the two frames have in common; Error where Write returns
\* an error: the frame contradicts itself, or another number of blocks was
\* written than announced.
WriteRanges(f) ==
    LET largestAckedLen == GetPacketNumberLength(f.LargestAcked)
        deltaLen        == getMissingSequenceNumberDeltaLen(f)
        first == IF HasMissingRanges(f) THEN f.AckRanges[1].First
                                        ELSE f.LowestAcked
        consistent ==
            HasMissingRanges(f) =>
                /\ f.LargestAcked = f.AckRanges[1].Last
                /\ f.LowestAcked = LowestRange(f.AckRanges).First
                /\ numWritableNackRanges(f) = 1 + Len(Blocks(f))
    IN  IF consistent
          THEN [missing |-> HasMissingRanges(f),
                largestAckedLen |-> largestAckedLen,
                deltaLen        |-> deltaLen,
                largestAcked    |-> f.LargestAcked % Values(largestAckedLen),
                firstLength |-> (f.LargestAcked - first + 1) % Values(deltaLen),
                blocks      |-> Blocks(f)]
          ELSE Error

WithPath(w, path) == IF w = Error THEN Error ELSE [path |-> path] @@ w

\* AckFrame.Write.  The path ID is left out on the initial path.
WriteAck(f) ==
    WithPath(WriteRanges(f),
             IF f.PathID = InitialPathID THEN <<>> ELSE <<f.PathID>>)

\* ClosePathFrame.Write
WriteClosePath(f) == WithPath(WriteRanges(f), <<f.PathID>>)

-----------------------------------------------------------------------------

\* Mutant: a range whose first block has length 0 starts anew at the next one.
ParseBlockAlone(s, block) ==
    LET behind == LowestRange(s.ranges).First - block.gap - 1
    IN  [ranges |-> Append(s.ranges, [First |-> behind - block.length + 1,
                                      Last  |-> behind]),
         complete    |-> block.length > 0,
         inLongBlock |-> block.length = 0]

\* What one block does in the loop of Parse.
ParseBlock(s, block) ==
    LET last   == LowestRange(s.ranges)
        behind == last.First - block.gap - 1
        n      == Len(s.ranges)
    IN  [ranges |->
            IF s.inLongBlock
              THEN [s.ranges EXCEPT ![n].First = @ - block.gap - block.length,
                                    ![n].Last  = @ - block.gap]
              ELSE Append(s.ranges, [First |-> behind - block.length + 1,
                                     Last  |-> behind]),
         complete    |-> block.length > 0 \/ (s.inLongBlock /\ s.complete),
         inLongBlock |-> block.length = 0]

validateAckRanges(f) ==
    HasMissingRanges(f) =>
        /\ Len(f.AckRanges) > 1
        /\ f.AckRanges[1].Last = f.LargestAcked
        /\ \A i \in DOMAIN f.AckRanges :
               f.AckRanges[i].First <= f.AckRanges[i].Last
        /\ \A i \in 2 .. Len(f.AckRanges) :
               /\ f.AckRanges[i - 1].First > f.AckRanges[i].First
               /\ f.AckRanges[i - 1].First > f.AckRanges[i].Last + 1

\* The ranges of the frame w, without the last one if it has no length.
ParsedRanges(w) ==
    LET first == [First |-> w.largestAcked - w.firstLength + 1,
                  Last  |-> w.largestAcked]
        parsed[n \in Nat] ==
            IF n = 0
              THEN [ranges |-> <<first>>, complete |-> FALSE, inLongBlock |-> FALSE]
              ELSE ParseBlock(parsed[n - 1], w.blocks[n])
        s == parsed[Len(w.blocks)]
    IN  IF s.complete THEN s.ranges ELSE SubSeq(s.ranges, 1, Len(s.ranges) - 1)

\* The frame read; Error where Parse returns an error.
ParseRanges(w, PathID) ==
    LET ranges == IF w.missing THEN ParsedRanges(w) ELSE <<>>
        f == [PathID       |-> PathID,
              LargestAcked |-> w.largestAcked,
              LowestAcked  |-> CASE w.missing -> LowestRange(ranges).First
                                 [] ~w.missing /\ w.largestAcked = 0 -> 0
                                 [] OTHER -> w.largestAcked + 1 - w.firstLength,
              AckRanges    |-> ranges]
    IN  IF \/ w.missing /\ w.blocks = <<>>
           \/ w.largestAcked > 0 /\ w.firstLength < 1
           \/ w.firstLength > w.largestAcked
           \/ ~validateAckRanges(f)
          THEN Error
          ELSE f

ParseAckFrame(w) ==
    ParseRanges(w, IF w.path = <<>> THEN InitialPathID ELSE w.path[1])

ParseClosePathFrame(w) == ParseRanges(w, w.path[1])

-----------------------------------------------------------------------------

\* The bytes of the fields in common, as Write writes them.
BytesOfRanges(w) ==
    Len(w.path) + w.largestAckedLen + w.deltaLen + (IF w.missing THEN 1 ELSE 0)
      + Len(w.blocks) * (1 + w.deltaLen)

\* An ACK frame also has a type byte, the delay and the number of timestamps.
BytesOfAck(w) == 1 + 2 + 1 + BytesOfRanges(w)

\* A CLOSE_PATH frame also has a type byte and the flags.
BytesOfClosePath(w) == 1 + 1 + BytesOfRanges(w)

\* The space for the ranges that MinLength reckons with.
MinLengthOfRanges(f) ==
    LET deltaLen == getMissingSequenceNumberDeltaLen(f)
    IN  GetPacketNumberLength(f.LargestAcked)
          + (IF HasMissingRanges(f)
               THEN (1 + deltaLen) * numWritableNackRanges(f)
               ELSE deltaLen)

\* AckFrame.MinLength
MinLength(f) ==
    1 + 2 + 1 + MinLengthOfRanges(f)
      + (IF f.PathID # InitialPathID THEN 1 ELSE 0)

\* ClosePathFrame.MinLength
ClosePathMinLength(f) == 1 + 1 + 1 + MinLengthOfRanges(f)

\* AcksPacket
AcksPacket(f, p) ==
    /\ f.LowestAcked <= p /\ p <= f.LargestAcked
    /\ HasMissingRanges(f) =>
           \E i \in DOMAIN f.AckRanges :
               f.AckRanges[i].First <= p /\ p <= f.AckRanges[i].Last
=============================================================================
