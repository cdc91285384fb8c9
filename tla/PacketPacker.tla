---------------------------- MODULE PacketPacker ----------------------------
(***************************************************************************)
(* packet_packer.go and stream_framer.go: how the frames that wait to be   *)
(* sent become the payload of a packet.                                    *)
(*                                                                         *)
(* A packer k holds the control frames, and per path whether a             *)
(* STOP_WAITING and whether an ACK frame is queued.  A framer f holds the  *)
(* queues of stream_framer.go, the stream data still to be sent and the    *)
(* heap f.frames of StreamFrame objects: queues and packets hold pointers  *)
(* to them, so that splitting a frame, or dropping its length field,       *)
(* changes it wherever it is referenced.                                   *)
(*                                                                         *)
(* Sizes are scaled down: a control frame and the header of a stream frame *)
(* take one byte each, the length field of a stream frame one more.        *)
(***************************************************************************)
EXTENDS Naturals, SequencesExt

CONSTANT
    MaxPayload     \* MaxPacketSize less the public header and the overhead of the sealer

Byte == 1
DataLenSize == 1

Frame(type) == [t |-> type, n |-> 0]
StreamFrame(i) == [t |-> "STREAM", n |-> i]
WindowUpdate(offset) == [t |-> "WINDOW_UPDATE", n |-> offset]

(***************************************************************************)
(* A packed packet: its frames, and for each of them the form in which it  *)
(* was written.  NoPacket is the nil that PackPacket may return.           *)
(***************************************************************************)
Written(f, frame) ==
    IF frame.t = "STREAM" THEN f.frames[frame.n]
    ELSE [offset |-> 0, len |-> 0, fin |-> FALSE, dataLenPresent |-> TRUE]

WrittenLength(frame, w) ==
    Byte + (IF frame.t = "STREAM" THEN w.len + (IF w.dataLenPresent THEN DataLenSize ELSE 0) ELSE 0)

NoPacket == [frames |-> <<>>, wire |-> <<>>, level |-> "none"]

Packed(f, frames, level) ==
    [frames |-> frames, wire |-> [i \in DOMAIN frames |-> Written(f, frames[i])], level |-> level]

PacketSize(packet) ==
    FoldLeft(LAMBDA n, i : n + WrittenLength(packet.frames[i], packet.wire[i]), 0,
             [i \in DOMAIN packet.frames |-> i])

(***************************************************************************)
(* stream_framer.go                                                        *)
(***************************************************************************)
HasFramesForRetransmission(f) == f.retransmissionQueue # <<>>

HasCryptoStreamFrame(f) == f.crypto > 0

\* One frame takes whatever fits of the handshake data: a unit here.
PopCryptoStreamFrame(f) == [f EXCEPT !.crypto = @ - 1]

AddFrameForRetransmission(f, i) == [f EXCEPT !.retransmissionQueue = Append(@, i)]

SendWindowSize(f) == IF f.streamWindow < f.connectionWindow THEN f.streamWindow ELSE f.connectionWindow

\* Mutant: the offset of what remains is not moved.
maybeSplitOffFrame_offset(f, i, n) ==
    LET frame == f.frames[i]
    IN  [f EXCEPT !.frames = Append([@ EXCEPT ![i].len = frame.len - n],
                                    [frame EXCEPT !.len = n, !.fin = FALSE])]

\* The first n bytes become a new frame, the last of the heap; the frame that
\* is queued keeps the rest and the FIN.
maybeSplitOffFrame(f, i, n) ==
    LET frame == f.frames[i]
    IN  [f EXCEPT !.frames = Append([@ EXCEPT ![i].offset = frame.offset + n,
                                              ![i].len = frame.len - n],
                                    [frame EXCEPT !.len = n, !.fin = FALSE])]

\* One round of the loop: r.popped are the frames to send, r.len their length
\* with length fields, and r.done says that the loop was left.
PopRetransmission(r, i, maxLen) ==
    LET f == [r.framer EXCEPT !.frames[i].dataLenPresent = TRUE]
        len == r.len + Byte + DataLenSize
        split == maybeSplitOffFrame(f, i, maxLen - len)
    IN  IF r.done THEN r
        ELSE IF len >= maxLen THEN [r EXCEPT !.framer = f, !.done = TRUE]
        ELSE IF maxLen - len < f.frames[i].len
        THEN [framer |-> split, popped |-> Append(r.popped, Len(split.frames)),
              len |-> maxLen, done |-> TRUE]
        ELSE [r EXCEPT !.framer = [f EXCEPT !.retransmissionQueue = Tail(@)],
                       !.popped = Append(@, i), !.len = len + f.frames[i].len]

maybePopFramesForRetransmission(f, maxLen) ==
    FoldLeft(LAMBDA r, i : PopRetransmission(r, i, maxLen),
             [framer |-> f, popped |-> <<>>, len |-> 0, done |-> FALSE],
             f.retransmissionQueue)

\* New data of the one data stream, and a BLOCKED frame when it used up the
\* window of the connection or of the stream.
maybePopNormalFrames(f, maxBytes) ==
    LET header == Byte + DataLenSize
        room == maxBytes - header
        maxLen == IF f.unsent # 0 /\ SendWindowSize(f) < room THEN SendWindowSize(f) ELSE room
        n == IF f.unsent < maxLen THEN f.unsent ELSE maxLen
        fin == f.finishedWriting /\ ~f.finSent /\ f.unsent = n
        blocked == IF f.connectionWindow = n THEN <<Frame("BLOCKED")>>
                   ELSE IF ~fin /\ SendWindowSize(f) = n THEN <<Frame("STREAM_BLOCKED")>>
                   ELSE <<>>
    IN  IF header > maxBytes \/ maxLen = 0 \/ (n = 0 /\ ~fin) THEN [framer |-> f, popped |-> <<>>]
        ELSE [framer |->
                 [f EXCEPT !.frames = Append(@, [offset |-> f.writeOffset, len |-> n, fin |-> fin,
                                                 dataLenPresent |-> TRUE]),
                           !.unsent = @ - n, !.writeOffset = @ + n,
                           !.finSent = @ \/ fin,
                           !.streamWindow = @ - n, !.connectionWindow = @ - n,
                           !.blockedFrameQueue = @ \o blocked],
              popped |-> <<Len(f.frames) + 1>>]

\* New data in what the retransmissions leave.
PopNewFrames(old, maxLen) ==
    LET new == maybePopNormalFrames(old.framer, maxLen - old.len)
    IN  [framer |-> new.framer, popped |-> old.popped \o new.popped]

PopStreamFrames(f, maxLen) == PopNewFrames(maybePopFramesForRetransmission(f, maxLen), maxLen)

(***************************************************************************)
(* packet_packer.go                                                        *)
(***************************************************************************)
QueueControlFrame(k, frame, p) ==
    CASE frame.t = "STOP_WAITING" -> [k EXCEPT !.stopWaiting[p] = TRUE]
      [] frame.t = "ACK" -> [k EXCEPT !.ackFrame[p] = TRUE]
      [] OTHER -> [k EXCEPT !.controlFrames = Append(@, frame)]

\* A nil pointer to an ACK frame is an ACK frame to the type switch.
QueueNilAck(k, p) == [k EXCEPT !.ackFrame[p] = FALSE]

QueueAll(k, frames, p) == FoldLeft(LAMBDA c, frame : QueueControlFrame(c, frame, p), k, frames)

canSendData(perspective, level) ==
    level = "ForwardSecure" \/ (perspective = "client" /\ level = "Secure")

\* Control frames are taken from the end of the list.
ControlFramesThatFit(k, len) ==
    LET room == MaxPayload - len
        n == IF Len(k.controlFrames) < room THEN Len(k.controlFrames) ELSE room
    IN  [i \in 1..n |-> k.controlFrames[Len(k.controlFrames) + 1 - i]]

\* Mutant: the room for the stream frames is larger by a length field too many.
StreamRoom_twice(len) == MaxPayload + 2 * DataLenSize - len

\* The length field that the last frame will not have is room for data.
StreamRoom(len) == MaxPayload + DataLenSize - len

\* The last stream frame takes the rest of the packet.
OmitLastLength(f, popped) ==
    IF popped = <<>> THEN f ELSE [f EXCEPT !.frames[Last(popped)].dataLenPresent = FALSE]

\* The stream frames behind the others; BLOCKED frames wait for the next packet.
ComposeStreams(k, payload, streams) ==
    LET g == OmitLastLength(streams.framer, streams.popped)
    IN  [packer |-> [k EXCEPT !.controlFrames = @ \o g.blockedFrameQueue],
         framer |-> [g EXCEPT !.blockedFrameQueue = <<>>],
         payload |-> payload \o [i \in DOMAIN streams.popped |-> StreamFrame(streams.popped[i])]]

\* STOP_WAITING and ACK of the path, control frames, stream frames.
composeNextPacket(k, f, p, canSendStreamFrames) ==
    LET own == (IF k.stopWaiting[p] THEN <<Frame("STOP_WAITING")>> ELSE <<>>)
                  \o (IF k.ackFrame[p] THEN <<Frame("ACK")>> ELSE <<>>)
        control == ControlFramesThatFit(k, Len(own))
        rest == [k EXCEPT !.controlFrames = SubSeq(@, 1, Len(@) - Len(control))]
    IN  IF ~canSendStreamFrames
        THEN [packer |-> rest, framer |-> f, payload |-> own \o control]
        ELSE ComposeStreams(rest, own \o control,
                            PopStreamFrames(f, StreamRoom(Len(own) + Len(control))))

\* Handshake data is never sealed with the forward-secure keys.
CryptoLevel(perspective, level) ==
    IF perspective = "server" /\ level # "Unencrypted" THEN "Secure" ELSE "Unencrypted"

\* Only the frame of the handshake: what else is queued stays queued.
packCryptoPacket(k, f, level) ==
    [packer |-> k, framer |-> PopCryptoStreamFrame(f),
     packet |-> Packed(f, <<Frame("CRYPTO")>>, level)]

\* A PING at the head of the control frames is sent alone.
Payload(k, f, p, canSendStreamFrames) ==
    IF k.controlFrames # <<>> /\ Head(k.controlFrames).t = "PING"
    THEN [packer |-> [k EXCEPT !.controlFrames = Tail(@)], framer |-> f,
          payload |-> <<Frame("PING")>>]
    ELSE composeNextPacket(k, f, p, canSendStreamFrames)

\* Mutant: every payload of one frame is given up.
PackPayload_single(r, p, level) ==
    IF Len(r.payload) <= 1
    THEN [packer |-> r.packer, framer |-> r.framer, packet |-> NoPacket]
    ELSE [packer |-> [r.packer EXCEPT !.stopWaiting[p] = FALSE, !.ackFrame[p] = FALSE],
          framer |-> r.framer,
          packet |-> Packed(r.framer, r.payload, level)]

\* A payload of one frame is given up when a STOP_WAITING frame is queued.
PackPayload(r, p, level) ==
    IF Len(r.payload) = 0 \/ (Len(r.payload) = 1 /\ r.packer.stopWaiting[p])
    THEN [packer |-> r.packer, framer |-> r.framer, packet |-> NoPacket]
    ELSE [packer |-> [r.packer EXCEPT !.stopWaiting[p] = FALSE, !.ackFrame[p] = FALSE],
          framer |-> r.framer,
          packet |-> Packed(r.framer, r.payload, level)]

PackPacket(k, f, p, level, perspective) ==
    IF HasCryptoStreamFrame(f) THEN packCryptoPacket(k, f, CryptoLevel(perspective, level))
    ELSE PackPayload(Payload(k, f, p, canSendData(perspective, level)), p, level)

PackPing(k, f, p, level, perspective) ==
    PackPacket([k EXCEPT !.controlFrames = <<Frame("PING")>> \o @], f, p, level, perspective)

\* Called with an ACK frame queued.
PackAckPacket(k, f, p, level) ==
    [packer |-> [k EXCEPT !.stopWaiting[p] = FALSE, !.ackFrame[p] = FALSE],
     framer |-> f,
     packet |-> Packed(f, <<Frame("ACK")>> \o (IF k.stopWaiting[p] THEN <<Frame("STOP_WAITING")>>
                                               ELSE <<>>), level)]

\* The frames of a packet of the handshake again, behind a STOP_WAITING frame
\* that must be queued.
PackHandshakeRetransmission(k, f, p, packet) ==
    [packer |-> [k EXCEPT !.stopWaiting[p] = FALSE],
     framer |-> f,
     packet |-> IF k.stopWaiting[p]
                THEN Packed(f, <<Frame("STOP_WAITING")>> \o packet.frames, packet.level)
                ELSE NoPacket]
=============================================================================
