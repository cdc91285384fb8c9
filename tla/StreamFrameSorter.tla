------------------------- MODULE StreamFrameSorter -------------------------
(***************************************************************************)
(* stream_frame_sorter.go: the frames of one stream that wait for the      *)
(* reader, and the gaps between them.  The peer sends the bytes of one     *)
(* stream cut into frames in any way (a retransmission may be split at     *)
(* another place than the original), so any frame that holds the right     *)
(* bytes may be pushed at any time.  FIN comes with the last bytes of the   *)
(* stream, or alone in an empty frame when Close was called too late for   *)
(* that (maybePopNormalFrames); a split leaves it on the second part.      *)
(*                                                                         *)
(* A frame's Data is the number of its first byte and its length: after    *)
(* the cuts, byte Offset + i of the stream must still be byte i of Data.   *)
(***************************************************************************)
EXTENDS ByteStream

CONSTANTS
    MaxStreamFrameSorterGaps,
    MaxByteCount

ASSUME SorterAssumption ==
    /\ MaxStreamFrameSorterGaps \in Nat
    /\ MaxByteCount \in Nat
    /\ Length < MaxByteCount

VARIABLES
    queuedFrames,             \* frames by their Offset
    gaps,                     \* the list of intervals not received
    pushErr,                  \* Push failed: the session is being closed
    finRead,                  \* the reader took a frame with FIN
    finOnData                 \* the peer's choice: FIN on the last bytes

sorterVars == <<received, readPosition, delivered, queuedFrames, gaps, pushErr,
                finRead, finOnData>>

\* The frames of the peer.
Frames ==
    {f \in [Offset : 0 .. Length, data : 0 .. Length, len : 0 .. Length,
            FinBit : BOOLEAN] :
        /\ f.data = f.Offset
        /\ f.Offset + f.len <= Length
        /\ f.FinBit <=> f.Offset + f.len = Length /\ (finOnData <=> f.len > 0)
        /\ f.len = 0 => f.FinBit}

End(f) == f.Offset + f.len

-----------------------------------------------------------------------------

SorterInit ==
    /\ InitStream
    /\ queuedFrames = << >>
    /\ gaps = <<[Start |-> 0, End |-> MaxByteCount]>>
    /\ pushErr = FALSE
    /\ finRead = FALSE
    /\ finOnData \in BOOLEAN

\* Mutant: the data stays where it was.
CutFrontKeepsData(f, n) == [f EXCEPT !.Offset = @ + n, !.len = @ - n]

CutFront(f, n) ==
    [f EXCEPT !.Offset = @ + n, !.data = @ + n, !.len = @ - n]

CutBack(f, end) == [f EXCEPT !.len = end - f.Offset]

\* The part of f behind a queued frame of the same offset.
BehindSameOffset(f) ==
    IF f.Offset \in DOMAIN queuedFrames
      THEN CutFront(f, queuedFrames[f.Offset].len)
      ELSE f

\* The index of the first gap that does not end before f starts.
FirstGap(f) ==
    CHOOSE i \in DOMAIN gaps :
        /\ End(f) <= gaps[i].Start \/ f.Offset <= gaps[i].End
        /\ \A j \in 1 .. i - 1 :
               End(f) > gaps[j].Start /\ f.Offset > gaps[j].End

\* The index of the last gap, from g on, that f reaches into.
EndGap(f, g) ==
    CHOOSE i \in g .. Len(gaps) :
        /\ End(f) < gaps[i].End \/ End(f) <= gaps[i + 1].Start
        /\ \A j \in g .. i - 1 :
               End(f) >= gaps[j].End /\ End(f) > gaps[j + 1].Start

\* Both find one, because the last gap never ends.
Duplicate(f) ==
    \/ /\ f.Offset \in DOMAIN queuedFrames
       /\ f.len <= queuedFrames[f.Offset].len
    \/ LET cut == BehindSameOffset(f) IN End(cut) <= gaps[FirstGap(cut)].Start

\* Mutant: the gap's beginning is kept when the frame ends where the gap ends.
RemainderKeepsStart(g, e, start, end) ==
    IF end = gaps[e].End THEN <<[Start |-> gaps[g].Start, End |-> end]>>
    ELSE <<[Start |-> gaps[g].Start, End |-> start],
           [Start |-> end, End |-> gaps[e].End]>>

\* What is left of the gaps g to e around the bytes from start to end.
Remainder(g, e, start, end) ==
    (IF start = gaps[g].Start THEN << >>
                              ELSE <<[Start |-> gaps[g].Start, End |-> start]>>)
    \o (IF end = gaps[e].End THEN << >>
                             ELSE <<[Start |-> end, End |-> gaps[e].End]>>)

\* Mutant: the frame behind the last gap is deleted too.
DeletedOneMore(g, e) == {gaps[i].End : i \in g .. e}

\* The offsets of the frames deleted as covered by a frame over the gaps g to e.
Deleted(g, e) == {gaps[i].End : i \in g .. e - 1}

Enqueue(frames, f) ==
    [o \in DOMAIN frames \cup {f.Offset} |->
        IF o = f.Offset THEN f ELSE frames[o]]

PushFin(f) ==
    /\ f.len = 0
    /\ queuedFrames' = Enqueue(queuedFrames, f)
    /\ UNCHANGED <<streamVars, gaps, pushErr, finRead, finOnData>>

PushData(f) ==
    /\ f.len > 0
    /\ ~ Duplicate(f)
    /\ LET behind == BehindSameOffset(f)
           g == FirstGap(behind)
           cut == IF behind.Offset < gaps[g].Start
                    THEN CutFront(behind, gaps[g].Start - behind.Offset)
                    ELSE behind
           e == EndGap(cut, g)
           frame == IF End(cut) > gaps[e].End THEN CutBack(cut, gaps[e].End)
                                              ELSE cut
           covered == Deleted(g, e)
           kept == [o \in DOMAIN queuedFrames \ covered |-> queuedFrames[o]]
       IN  /\ gaps' = SubSeq(gaps, 1, g - 1)
                      \o Remainder(g, e, frame.Offset, End(frame))
                      \o SubSeq(gaps, e + 1, Len(gaps))
           /\ pushErr' = (Len(gaps') > MaxStreamFrameSorterGaps)
           /\ queuedFrames' = IF pushErr' THEN kept ELSE Enqueue(kept, frame)
    /\ Arrive(f.Offset, End(f))
    /\ UNCHANGED <<finRead, finOnData>>

\* The reader takes the frame at readPosition, and gets its Data.
Pop ==
    /\ ~ finRead
    /\ readPosition \in DOMAIN queuedFrames
    /\ LET frame == queuedFrames[readPosition]
       IN  /\ readPosition' = readPosition + frame.len
           /\ delivered' = delivered \o Content(frame.data, frame.len)
           /\ queuedFrames' = [o \in DOMAIN queuedFrames \ {frame.Offset} |->
                                  queuedFrames[o]]
           /\ finRead' = frame.FinBit
    /\ UNCHANGED <<received, gaps, pushErr, finOnData>>

SorterNext ==
    /\ ~ pushErr
    /\ \/ \E f \in Frames : PushFin(f) \/ PushData(f)
       \/ Pop

SorterSpec == SorterInit /\ [][SorterNext]_sorterVars

-----------------------------------------------------------------------------

\* The gaps are in order, with data between them, and hold exactly the bytes
\* that did not arrive: Push never forgets or invents a byte, however the
\* frames overlap.
GapsAreExact ==
    /\ \A i \in DOMAIN gaps : gaps[i].Start < gaps[i].End
    /\ \A i \in 1 .. Len(gaps) - 1 : gaps[i].End < gaps[i + 1].Start
    /\ \A b \in 0 .. Length - 1 :
           b \in received <=> \A i \in DOMAIN gaps :
                                  b \notin Bytes(gaps[i].Start, gaps[i].End)

\* The reader is never kept waiting: the next byte, once it arrived, is in the
\* frame at the head of the queue, whatever frames Push has cut, deleted as
\* covered, or left in the queue although they are covered; and io.EOF never
\* comes before all of the stream has arrived.  (It may come before all of it was
\* read: EOFAtEnd.)
NothingHeldBack ==
    /\ readPosition \in received /\ ~ pushErr =>
           /\ readPosition \in DOMAIN queuedFrames
           /\ queuedFrames[readPosition].len > 0
    /\ finRead => Bytes(0, Length) \subseteq received

\* "finishedReading is set once we read a frame with a FinBit" (stream.go), and
\* io.EOF is returned: all of the stream was read by then.
EOFAtEnd == finRead => readPosition = Length

\* "delete queued frames completely covered by the current frame": no frame is
\* queued behind the reader or inside another one.
NoCoveredFrame ==
    \A o \in DOMAIN queuedFrames :
        /\ o >= readPosition
        /\ \A p \in DOMAIN queuedFrames :
               o < p => o + queuedFrames[o].len <= p

=============================================================================
