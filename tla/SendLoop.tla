------------------------------ MODULE SendLoop ------------------------------
(***************************************************************************)
(* scheduler.sendPacket with everything it calls: retransmissions are      *)
(* collected from all paths, a path is selected, a packet is packed and    *)
(* sent on it, again and again until no path or no frame is left, and then *)
(* the paths that still owe an ACK send one.                               *)
(*                                                                         *)
(* The session's goroutine runs the steps of the loop in order (loop.pc);  *)
(* between two calls it handles one event: a packet, an ACK, an alarm, the *)
(* keep-alive time, the end of the handshake.  The application and the     *)
(* path manager run beside it: Write, CancelWrite and CreatePath may come  *)
(* between any two steps.                                                  *)
(*                                                                         *)
(* A path is modelled by what the loop sees of it: the packets in flight   *)
(* and those queued for retransmission, the numbers behind its             *)
(* STOP_WAITING frames, its RTT, whether it is potentially failed, whether *)
(* an ACK is due and its quota.                                            *)
(***************************************************************************)
EXTENDS Schedulers, PacketPacker

CONSTANTS
    PathIDs,          \* ids of the paths there may be, InitialPathID among them
    Window,           \* congestion window, in packets
    MaxNonRetransmittablePackets,
    MaxTrackedSentPackets,
    MaxCountAction,   \* calls after which a new probability is requested
    RTTs,             \* smoothed RTTs a path may measure
    Scenarios         \* the initial states: see Init

ASSUME ConstantsAssumption ==
    /\ InitialPathID \in PathIDs /\ NoPath \notin PathIDs
    /\ Window \in Nat /\ MaxTrackedSentPackets > Window
    /\ MaxNonRetransmittablePackets \in Nat \ {0}
    /\ RTTs \subseteq Nat \ {0}
    /\ MaxPayload >= 4

VARIABLES
    scenario,           \* scheduler, perspective and the events there may be
    handshakeComplete,
    level,              \* of GetSealer
    paths,              \* keys of session.paths
    path,               \* state of each path
    packer, framer, sch,
    loop,               \* control and local variables of sendPacket
    receiveWindow,      \* offset of the newest window update
    windowUpdateDue, peerBlocked,
    sendingScheduled,   \* an element in the channel of that name
    budget,             \* events that may still happen
    acked,              \* what the peer has acknowledged
    early,              \* what was sent below forward security
    err                 \* the error sendPacket returned

vars == <<scenario, handshakeComplete, level, paths, path, packer, framer, sch, loop,
          receiveWindow, windowUpdateDue, peerBlocked, sendingScheduled, budget, acked, early, err>>

session == <<scenario, handshakeComplete, level, paths, sendingScheduled>>
events == <<receiveWindow, windowUpdateDue, peerBlocked, budget>>

Retransmittable(frame) == frame.t \notin {"ACK", "STOP_WAITING"}

(***************************************************************************)
(* What must arrive: the bytes of the stream, its end, and the control     *)
(* frames that are sent once.                                              *)
(***************************************************************************)
Bytes(w) == (w.offset)..(w.offset + w.len - 1)

ItemsOfFrame(f, frame) ==
    IF frame.t = "STREAM"
    THEN {<<"byte", b>> : b \in Bytes(f.frames[frame.n])}
            \cup (IF f.frames[frame.n].fin THEN {<<"fin", 0>>} ELSE {})
    ELSE IF frame.t \in {"RST_STREAM", "ADD_ADDRESS"} THEN {<<frame.t, 0>>}
    ELSE {}

ItemsOfFrames(f, frames) == UNION {ItemsOfFrame(f, frames[i]) : i \in DOMAIN frames}

ItemsOfPackets(f, packets) == UNION {ItemsOfFrames(f, packets[i].frames) : i \in DOMAIN packets}

(***************************************************************************)
(* The sent packet handler and the STOP_WAITING manager, as far as the     *)
(* loop sees them (SentPacketHandler models the first in full).            *)
(***************************************************************************)
NewPath == [inflight |-> <<>>, retransmissionQueue |-> <<>>, lastSent |-> 0,
            nextLeastUnacked |-> 0, largestLeastUnackedSent |-> 0,
            nonRetransmittable |-> 0, rtt |-> 0, potentiallyFailed |-> FALSE,
            ackQueued |-> FALSE, quota |-> 0]

Tracked(h) == Len(h.retransmissionQueue) + Len(h.inflight)

SendingAllowed(h) ==
    /\ Tracked(h) < MaxTrackedSentPackets
    /\ Len(h.inflight) <= Window \/ h.retransmissionQueue # <<>>

TooManyTracked(h) == Tracked(h) + 1 > MaxTrackedSentPackets

SentPacket(h, packet) ==
    LET frames == SelectSeq(packet.frames, Retransmittable)
    IN  IF TooManyTracked(h) THEN h
        ELSE [h EXCEPT !.lastSent = @ + 1,
                       !.inflight = IF frames = <<>> THEN @
                                    ELSE Append(@, [number |-> h.lastSent + 1, frames |-> frames,
                                                    level |-> packet.level]),
                       !.nonRetransmittable = IF frames = <<>> THEN @ + 1 ELSE 0]

DuplicatePacket(h, packet) ==
    [h EXCEPT !.retransmissionQueue =
        Append(@, [number |-> h.lastSent, frames |-> SelectSeq(packet.frames, Retransmittable),
                   level |-> packet.level])]

queuePacketForRetransmission(h, i) ==
    LET lost == h.inflight[i]
    IN  [h EXCEPT !.inflight = RemoveAt(@, i),
                  !.retransmissionQueue = Append(@, lost),
                  !.nextLeastUnacked = IF lost.number >= @ THEN lost.number + 1 ELSE @]

\* Every packet, the oldest first.
retransmitAllPackets(h) ==
    FoldLeft(LAMBDA g, packet : queuePacketForRetransmission(g, 1), h, h.inflight)

HasStopWaiting(h, force) ==
    h.nextLeastUnacked > h.largestLeastUnackedSent \/ (force /\ h.largestLeastUnackedSent > 0)

GetStopWaitingFrame(h) == [h EXCEPT !.largestLeastUnackedSent = h.nextLeastUnacked]

(***************************************************************************)
(* Initial states.  A scenario names the scheduler and the perspective,    *)
(* the paths, the data the application has written, whether the handshake  *)
(* still has to be sent, and how often each kind of event may happen.      *)
(***************************************************************************)
Idle == [pc |-> "idle", pth |-> NoPath, from |-> NoPath, retransmission |-> FALSE,
         stream |-> FALSE, handshake |-> NoPacket, windowUpdates |-> <<>>, todo |-> {},
         packet |-> NoPacket, pingDropped |-> FALSE]

EventKinds == {"receive", "ack", "lose", "rto", "update", "blocked", "keepalive", "reset",
               "address", "path", "window", "answer", "write"}

Init ==
    /\ scenario \in Scenarios
    /\ handshakeComplete = (scenario.crypto = 0)
    /\ level = IF scenario.crypto = 0 THEN "ForwardSecure" ELSE "Unencrypted"
    /\ paths = scenario.paths
    /\ path = [p \in PathIDs |-> [NewPath EXCEPT !.rtt = scenario.rtt[p]]]
    /\ packer = [controlFrames |-> <<>>, stopWaiting |-> [p \in PathIDs |-> FALSE],
                 ackFrame |-> [p \in PathIDs |-> FALSE]]
    /\ framer = [retransmissionQueue |-> <<>>, blockedFrameQueue |-> <<>>,
                 addAddressFrameQueue |-> <<>>, closePathFrameQueue |-> <<>>,
                 pathsFrame |-> FALSE, frames |-> <<>>, crypto |-> scenario.crypto,
                 unsent |-> scenario.data, writeOffset |-> 0,
                 finishedWriting |-> scenario.fin, finSent |-> FALSE,
                 streamWindow |-> scenario.window, connectionWindow |-> scenario.window + 1]
    /\ sch = [waiting |-> 0, prob |-> 0, count |-> 0, asked |-> 0, table |-> FALSE]
    /\ loop = Idle
    /\ receiveWindow = 0 /\ windowUpdateDue = FALSE /\ peerBlocked = FALSE
    /\ sendingScheduled = TRUE
    /\ budget = scenario.budget
    /\ acked = {} /\ early = {} /\ err = "none"

(***************************************************************************)
(* The steps of sendPacket.                                                *)
(***************************************************************************)
At(pc) == loop.pc = pc /\ err = "none"

\* getWindowUpdateFrames: a window that is due moves on; a peer that reported
\* to be blocked is told the current one again.
Updates(force) ==
    IF windowUpdateDue THEN <<WindowUpdate(receiveWindow + 1)>>
    ELSE IF force THEN <<WindowUpdate(receiveWindow)>>
    ELSE <<>>

UpdatesTaken ==
    /\ receiveWindow' = IF windowUpdateDue THEN receiveWindow + 1 ELSE receiveWindow
    /\ windowUpdateDue' = FALSE

Start ==
    /\ At("start")
    /\ packer' = QueueAll(packer, Updates(FALSE), InitialPathID)
    /\ loop' = [Idle EXCEPT !.pc = "retransmit", !.windowUpdates = Updates(FALSE)]
    /\ UpdatesTaken
    /\ UNCHANGED <<session, path, framer, sch, peerBlocked, budget, acked, early, err>>

\* The frames of a lost packet are queued again.
Requeue(r, frame, p) ==
    CASE frame.t = "STREAM" -> [r EXCEPT !.framer = AddFrameForRetransmission(@, frame.n)]
      [] frame.t = "WINDOW_UPDATE" ->
            IF frame.n >= receiveWindow THEN [r EXCEPT !.packer = QueueControlFrame(@, frame, p)] ELSE r
      [] frame.t = "PATHS" -> [r EXCEPT !.framer.pathsFrame = TRUE]
      [] OTHER -> [r EXCEPT !.packer = QueueControlFrame(@, frame, p)]

RequeueAll(k, f, frames, p) ==
    FoldLeft(LAMBDA r, frame : Requeue(r, frame, p), [packer |-> k, framer |-> f], frames)

\* One packet is dequeued on some path; a packet of the handshake ends the
\* collection, unless the handshake is complete: then it is given up.
getRetransmission ==
    \/ /\ \A p \in paths : path[p].retransmissionQueue = <<>>
       /\ loop' = [loop EXCEPT !.pc = "select"]
       /\ UNCHANGED <<path, packer, framer>>
    \/ \E p \in paths :
       /\ path[p].retransmissionQueue # <<>>
       /\ path' = [path EXCEPT ![p].retransmissionQueue = Tail(@)]
       /\ LET lost == Head(path[p].retransmissionQueue)
              again == RequeueAll(packer, framer, lost.frames, p)
          IN  IF lost.level # "ForwardSecure"
              THEN /\ loop' = [loop EXCEPT !.from = p, !.retransmission = TRUE,
                                           !.pc = IF handshakeComplete THEN @ ELSE "select",
                                           !.handshake = IF handshakeComplete THEN @ ELSE lost]
                   /\ UNCHANGED <<packer, framer>>
              ELSE /\ loop' = [loop EXCEPT !.from = p, !.retransmission = TRUE]
                   /\ packer' = again.packer
                   /\ framer' = again.framer

Retransmit ==
    /\ At("retransmit")
    /\ getRetransmission
    /\ UNCHANGED <<session, sch, events, acked, early, err>>

View ==
    [paths |-> paths,
     allowed |-> {p \in paths : SendingAllowed(path[p])},
     failed |-> {p \in paths : path[p].potentiallyFailed},
     rtt |-> [p \in PathIDs |-> path[p].rtt],
     quotas |-> [p \in PathIDs |-> path[p].quota]]

Request ==
    [retransmission |-> loop.retransmission,
     streamRetransmission |-> HasFramesForRetransmission(framer),
     from |-> loop.from]

\* Without a path only ACKs are left to send.
Select ==
    /\ At("select")
    /\ \E choice \in selectPath(scenario.scheduler, View, Request, sch, MaxCountAction) :
       /\ sch' = choice.sch
       /\ IF choice.path = NoPath
          THEN /\ loop' = [loop EXCEPT !.pc = "remaining", !.todo = paths,
                                       !.windowUpdates = Updates(peerBlocked)]
               /\ UpdatesTaken
          ELSE /\ loop' = [loop EXCEPT !.pth = choice.path,
                                       !.stream = HasFramesForRetransmission(framer),
                                       !.pc = IF loop.handshake # NoPacket THEN "handshake"
                                              ELSE "collect"]
               /\ UNCHANGED <<receiveWindow, windowUpdateDue>>
    /\ UNCHANGED <<session, path, packer, framer, peerBlocked, budget, acked, early, err>>

NextRound(l) == [l EXCEPT !.pc = "retransmit", !.from = NoPath, !.retransmission = FALSE,
                          !.stream = FALSE, !.handshake = NoPacket]

\* writeAndSealPacket refuses a packet that does not fit, and SentPacket one more
\* than the handler keeps track of.
SendError(h, packet) ==
    IF PacketSize(packet) > MaxPayload THEN "packet too large"
    ELSE IF TooManyTracked(h) THEN "too many tracked packets"
    ELSE "none"

\* A handshake packet goes out again at its own level.
Handshake ==
    /\ At("handshake")
    /\ LET p == loop.pth
           h == path[p]
           k == [packer EXCEPT !.stopWaiting[p] = HasStopWaiting(h, TRUE)]
           r == PackHandshakeRetransmission(k, framer, p, loop.handshake)
       IN  /\ packer' = r.packer
           /\ IF r.packet = NoPacket
              THEN /\ err' = "Handshake retransmissions must contain a StopWaitingFrame"
                   /\ path' = [path EXCEPT ![p] = GetStopWaitingFrame(h)]
                   /\ loop' = loop
              ELSE /\ path' = [path EXCEPT ![p] = SentPacket(GetStopWaitingFrame(h), r.packet)]
                   /\ loop' = [NextRound(loop) EXCEPT !.packet = r.packet]
                   /\ err' = SendError(h, r.packet)
    /\ UNCHANGED <<session, framer, sch, events, acked, early>>

\* The ACK of the path, a STOP_WAITING frame with it or with retransmissions,
\* and the control frames that wait in the framer.
Collect ==
    /\ At("collect")
    /\ LET p == loop.pth
           h == path[p]
           ack == h.ackQueued
           swf == (ack \/ loop.stream) /\ HasStopWaiting(h, loop.stream)
           own == (IF ack THEN <<Frame("ACK")>> ELSE <<>>)
                     \o (IF swf THEN <<Frame("STOP_WAITING")>> ELSE <<>>)
           waiting == framer.closePathFrameQueue \o framer.addAddressFrameQueue
                         \o (IF framer.pathsFrame THEN <<Frame("PATHS")>> ELSE <<>>)
       IN  /\ packer' = QueueAll(packer, own \o waiting, p)
           /\ path' = [path EXCEPT ![p] =
                          [(IF swf THEN GetStopWaitingFrame(h) ELSE h) EXCEPT !.ackQueued = FALSE]]
           /\ framer' = [framer EXCEPT !.closePathFrameQueue = <<>>, !.addAddressFrameQueue = <<>>,
                                       !.pathsFrame = FALSE]
    /\ loop' = [loop EXCEPT !.pc = "send", !.packet = NoPacket]
    /\ UNCHANGED <<session, sch, events, acked, early, err>>

EarlyItems(f, packet) ==
    IF packet.level = "ForwardSecure" THEN {} ELSE ItemsOfFrames(f, packet.frames)

PingAtHead(k) == k.controlFrames # <<>> /\ Head(k.controlFrames).t = "PING"

\* performPacketSending: every window update is queued once more behind the
\* first packet.
Send ==
    /\ At("send")
    /\ LET p == loop.pth
           k == IF path[p].nonRetransmittable >= MaxNonRetransmittablePackets
                THEN QueueControlFrame(packer, Frame("PING"), p) ELSE packer
       IN  \E r \in {PackPacket(k, framer, p, level, scenario.perspective)} :
           /\ framer' = r.framer
           /\ IF r.packet = NoPacket
              THEN /\ packer' = r.packer
                   /\ loop' = [loop EXCEPT !.pc = "remaining", !.todo = paths,
                                           !.windowUpdates = Updates(peerBlocked),
                                           !.pingDropped = PingAtHead(k)]
                   /\ UpdatesTaken
                   /\ UNCHANGED <<path, early, err>>
              ELSE /\ packer' = QueueAll(r.packer, loop.windowUpdates, p)
                   /\ path' = [path EXCEPT ![p] = [SentPacket(@, r.packet) EXCEPT !.quota = @ + 1]]
                   /\ loop' = [loop EXCEPT !.pc = "sent", !.windowUpdates = <<>>,
                                           !.packet = r.packet]
                   /\ early' = early \cup EarlyItems(r.framer, r.packet)
                   /\ err' = SendError(path[p], r.packet)
                   /\ UNCHANGED <<receiveWindow, windowUpdateDue>>
    /\ UNCHANGED <<session, sch, peerBlocked, budget, acked>>

\* A path that has sent less, and has room, should send the packet too.
DuplicateWanted(p) ==
    /\ path[p].rtt = 0
    /\ \E o \in paths \ {InitialPathID, p} :
          path[o].quota < path[p].quota /\ SendingAllowed(path[o])

\* The packet is sent on another path too while the RTT of this one is unknown,
\* and a path that is potentially failed is pinged.
Sent ==
    /\ At("sent")
    /\ LET p == loop.pth
           q == loop.from
           after == IF DuplicateWanted(p)
                    THEN [path EXCEPT ![p] = DuplicatePacket(@, loop.packet)] ELSE path
       IN  IF q = NoPath \/ ~path[q].potentiallyFailed
           THEN /\ path' = after
                /\ loop' = [NextRound(loop) EXCEPT !.packet = NoPacket]
                /\ UNCHANGED <<packer, framer, err>>
           ELSE \E r \in {PackPing(packer, framer, q, level, scenario.perspective)} :
                /\ packer' = r.packer /\ framer' = r.framer
                /\ IF r.packet = NoPacket
                   THEN /\ err' = "expected ping packet not to be nil"
                        /\ path' = after /\ loop' = loop
                   ELSE /\ path' = [after EXCEPT ![q] = SentPacket(@, r.packet)]
                        /\ loop' = [NextRound(loop) EXCEPT !.packet = r.packet]
                        /\ err' = SendError(after[q], r.packet)
    /\ UNCHANGED <<session, sch, events, acked, early>>

\* ackRemainingPaths: one path of the map.
Remaining(p) ==
    /\ At("remaining") /\ p \in loop.todo
    /\ LET h == path[p]
           wanted == h.ackQueued \/ (loop.windowUpdates # <<>> /\ p # InitialPathID)
           k == QueueAll(packer, loop.windowUpdates, p)
           swf == HasStopWaiting(h, FALSE)
           k2 == IF swf THEN QueueControlFrame(k, Frame("STOP_WAITING"), p) ELSE k
           g == [(IF swf THEN GetStopWaitingFrame(h) ELSE h) EXCEPT !.ackQueued = FALSE]
       IN  IF ~wanted
           THEN /\ packer' = k
                /\ loop' = [loop EXCEPT !.todo = @ \ {p}, !.packet = NoPacket]
                /\ UNCHANGED <<path, framer, early, err>>
           ELSE \E r \in {IF h.ackQueued
                          THEN PackAckPacket(QueueControlFrame(k2, Frame("ACK"), p), framer, p, level)
                          ELSE PackPacket(QueueNilAck(k2, p), framer, p, level, scenario.perspective)} :
                /\ packer' = r.packer /\ framer' = r.framer
                /\ path' = [path EXCEPT ![p] = IF r.packet = NoPacket THEN g
                                               ELSE SentPacket(g, r.packet)]
                /\ err' = IF r.packet = NoPacket THEN "nil packet" ELSE SendError(h, r.packet)
                /\ loop' = [loop EXCEPT !.todo = @ \ {p}, !.packet = r.packet,
                                        !.pth = IF r.packet = NoPacket THEN p ELSE @]
                /\ early' = early \cup EarlyItems(r.framer, r.packet)
    /\ UNCHANGED <<session, sch, events, acked>>

Return ==
    /\ At("remaining") /\ loop.todo = {}
    /\ peerBlocked' = FALSE
    /\ loop' = Idle
    /\ UNCHANGED <<session, path, packer, framer, sch, receiveWindow, windowUpdateDue, budget,
                   acked, early, err>>

(***************************************************************************)
(* Events.  The session handles one and then calls sendPacket.             *)
(***************************************************************************)
May(kind) == err = "none" /\ budget[kind] > 0 /\ budget["total"] > 0
Spent(kind) == budget' = [budget EXCEPT ![kind] = @ - 1, !["total"] = @ - 1]

Event(kind) == At("idle") /\ May(kind) /\ Spent(kind) /\ loop' = [Idle EXCEPT !.pc = "start"]

\* scheduleSending was called.
Wake ==
    /\ At("idle") /\ sendingScheduled
    /\ sendingScheduled' = FALSE
    /\ loop' = [Idle EXCEPT !.pc = "start"]
    /\ UNCHANGED <<scenario, handshakeComplete, level, paths, path, packer, framer, sch, events,
                   acked, early, err>>

\* A packet that has to be acknowledged.
ReceivePacket(p) ==
    /\ Event("receive")
    /\ p \in paths
    /\ path' = [path EXCEPT ![p].ackQueued = TRUE, ![p].potentiallyFailed = FALSE]
    /\ UNCHANGED <<session, packer, framer, sch, receiveWindow, windowUpdateDue, peerBlocked, acked,
                   early, err>>

(***************************************************************************)
(* scheduler_dl.go: what an ACK changes for the choice of a path.  The     *)
(* schedulers with a Q-table write an entry, unless the reward is zero,    *)
(* which is a choice.  The rewards that "dqn", "sac" and "sacmulti" sum up   *)
(* and post to the learning server change no later choice; "multiclients"  *)
(* never records the state of a packet, so it gets none.                   *)
(***************************************************************************)
GetStateAndRewardQSAT(c) == {c, [c EXCEPT !.table = TRUE]}

GetStateAndRewardQlearning(c) == {c, [c EXCEPT !.table = TRUE]}

\* handleAckFrame after the ACK was accepted.
Rewarded(name, c, p) ==
    CASE p # InitialPathID /\ name = "qsat" -> GetStateAndRewardQSAT(c)
      [] p # InitialPathID /\ name = "fuzzyqsat" -> GetStateAndRewardQlearning(c)
      [] OTHER -> {c}

\* A packet in flight is acknowledged, which measures the RTT.
ReceiveAck(p, i) ==
    /\ Event("ack")
    /\ p \in paths
    /\ \E rtt \in IF path[p].rtt = 0 THEN RTTs ELSE {path[p].rtt} :
          path' = [path EXCEPT ![p].inflight = RemoveAt(@, i), ![p].rtt = rtt,
                               ![p].potentiallyFailed = FALSE,
                               ![p].nextLeastUnacked =
                                   IF path[p].inflight[i].number >= @
                                   THEN path[p].inflight[i].number + 1 ELSE @]
    /\ acked' = acked \cup ItemsOfFrames(framer, path[p].inflight[i].frames)
    /\ sch' \in Rewarded(scenario.scheduler, sch, p)
    /\ UNCHANGED <<session, packer, framer, receiveWindow, windowUpdateDue, peerBlocked, early, err>>

\* A packet is found lost, or probed for: it is queued for retransmission.
Lose(p, i) ==
    /\ Event("lose")
    /\ p \in paths
    /\ path' = [path EXCEPT ![p] = queuePacketForRetransmission(@, i)]
    /\ UNCHANGED <<session, packer, framer, sch, receiveWindow, windowUpdateDue, peerBlocked, acked,
                   early, err>>

\* A retransmission timeout without any packet received in between.
RTO(p) ==
    /\ Event("rto")
    /\ p \in paths /\ path[p].inflight # <<>>
    /\ path' = [path EXCEPT ![p] = [retransmitAllPackets(@) EXCEPT !.potentiallyFailed = TRUE]]
    /\ framer' = [framer EXCEPT !.pathsFrame = TRUE]
    /\ UNCHANGED <<session, packer, sch, receiveWindow, windowUpdateDue, peerBlocked, acked, early, err>>

\* The application has read enough for a window update, or the peer is blocked.
WindowUpdateDue ==
    /\ Event("update")
    /\ windowUpdateDue' = TRUE
    /\ UNCHANGED <<session, path, packer, framer, sch, receiveWindow, peerBlocked, acked, early, err>>

PeerBlocked ==
    /\ Event("blocked")
    /\ peerBlocked' = TRUE
    /\ UNCHANGED <<session, path, packer, framer, sch, receiveWindow, windowUpdateDue, acked, early, err>>

\* Nothing was received for half of the idle timeout: after any event, or the
\* session's timer, a PING for every path.
KeepAlive ==
    /\ At("idle") \/ At("start")
    /\ May("keepalive") /\ Spent("keepalive")
    /\ handshakeComplete
    /\ loop' = [Idle EXCEPT !.pc = "start"]
    /\ packer' = [packer EXCEPT !.controlFrames = @ \o [i \in 1..Cardinality(paths) |-> Frame("PING")]]
    /\ UNCHANGED <<session, path, framer, sch, receiveWindow, windowUpdateDue, peerBlocked, acked,
                   early, err>>

\* The peer opens the windows of the stream and of the connection.
WindowUpdateReceived ==
    /\ Event("window")
    /\ framer' = [framer EXCEPT !.streamWindow = @ + 1, !.connectionWindow = @ + 1]
    /\ UNCHANGED <<session, path, packer, sch, receiveWindow, windowUpdateDue, peerBlocked, acked,
                   early, err>>

\* The crypto setup gets the next keys; with the forward-secure ones in use the
\* session learns that the handshake is complete.
HandshakeStep ==
    /\ At("idle") /\ ~handshakeComplete
    /\ \/ level = "Unencrypted" /\ level' = "Secure" /\ UNCHANGED handshakeComplete
       \/ level = "Secure" /\ level' = "ForwardSecure" /\ UNCHANGED handshakeComplete
       \/ level = "ForwardSecure" /\ handshakeComplete' = TRUE /\ UNCHANGED level
    /\ loop' = [Idle EXCEPT !.pc = "start"]
    /\ UNCHANGED <<scenario, paths, sendingScheduled, path, packer, framer, sch, events, acked, early, err>>

(***************************************************************************)
(* Other goroutines, between any two steps of the session.                 *)
(***************************************************************************)
\* stream.Write, and the request to send that follows.
Write ==
    /\ May("write") /\ Spent("write")
    /\ ~framer.finishedWriting
    /\ framer' = [framer EXCEPT !.unsent = @ + 1, !.finishedWriting = TRUE]
    /\ sendingScheduled' = TRUE
    /\ UNCHANGED <<scenario, handshakeComplete, level, paths, path, packer, sch, loop, receiveWindow, windowUpdateDue, peerBlocked, acked,
                   early, err>>

\* Another stream is reset: queueResetStreamFrame.
Reset ==
    /\ Event("reset")
    /\ packer' = QueueControlFrame(packer, Frame("RST_STREAM"), InitialPathID)
    /\ UNCHANGED <<session, path, framer, sch, receiveWindow, windowUpdateDue, peerBlocked, acked,
                   early, err>>

\* The path manager of a server advertises an address.
AdvertiseAddress ==
    /\ May("address") /\ Spent("address")
    /\ handshakeComplete /\ scenario.perspective = "server"
    /\ framer' = [framer EXCEPT !.addAddressFrameQueue = Append(@, Frame("ADD_ADDRESS"))]
    /\ UNCHANGED <<session, path, packer, sch, loop, receiveWindow, windowUpdateDue, peerBlocked,
                   acked, early, err>>

\* A path appears: a client creates it and pings on it, a server learns of it
\* by a packet with an unknown path id.
CreatePath(p) ==
    /\ May("path") /\ Spent("path")
    /\ p \notin paths
    /\ IF scenario.perspective = "client" THEN handshakeComplete ELSE level = "ForwardSecure"
    /\ \E r \in {PackPing(packer, framer, p, level, scenario.perspective)} :
           IF scenario.perspective = "client"
           THEN /\ packer' = r.packer /\ framer' = r.framer
                /\ path' = [path EXCEPT ![p] = IF r.packet = NoPacket THEN @
                                               ELSE SentPacket(@, r.packet)]
                /\ loop' = loop
           ELSE /\ At("idle")
                /\ path' = [path EXCEPT ![p].ackQueued = TRUE]
                /\ loop' = [Idle EXCEPT !.pc = "start"]
                /\ UNCHANGED <<packer, framer>>
    /\ paths' = paths \cup {p}
    /\ UNCHANGED <<scenario, handshakeComplete, level, sendingScheduled, sch, receiveWindow, windowUpdateDue,
                   peerBlocked, acked, early, err>>

\* getActionAsync: an answer of the learning server, of any outstanding request,
\* or a failed request.
Answer ==
    /\ err = "none" /\ sch.asked > 0
    /\ May("answer") /\ Spent("answer")
    /\ sch' \in {[sch EXCEPT !.asked = @ - 1]}
                   \cup {[sch EXCEPT !.asked = @ - 1, !.prob = q, !.table = TRUE] : q \in {0, 1, Learned}}
    /\ UNCHANGED <<session, path, packer, framer, loop, receiveWindow, windowUpdateDue, peerBlocked,
                   acked, early, err>>

(***************************************************************************)
(* The specification.                                                      *)
(***************************************************************************)
Step ==
    \/ Wake \/ Start \/ Retransmit \/ Select \/ Handshake \/ Collect \/ Send \/ Sent \/ Return
    \/ \E p \in PathIDs : Remaining(p)

Environment ==
    \/ \E p \in PathIDs : ReceivePacket(p) \/ RTO(p) \/ CreatePath(p)
    \/ \E p \in PathIDs : \E i \in DOMAIN path[p].inflight : ReceiveAck(p, i) \/ Lose(p, i)
    \/ WindowUpdateDue \/ PeerBlocked \/ KeepAlive \/ WindowUpdateReceived \/ HandshakeStep
    \/ Write \/ Reset \/ AdvertiseAddress \/ Answer

\* The session was closed by an error, or the events of the scenario are over.
Over == (err # "none" \/ At("idle")) /\ UNCHANGED vars

Next == Step \/ Environment \/ Over

Spec == Init /\ [][Next]_vars /\ WF_vars(Step)

(***************************************************************************)
(* Properties.                                                             *)
(***************************************************************************)
\* What has been taken from the application and what must reach the peer.
Taken ==
    {<<"byte", b>> : b \in 0..(framer.writeOffset - 1)}
       \cup (IF framer.finSent THEN {<<"fin", 0>>} ELSE {})
       \cup (IF budget["reset"] < scenario.budget["reset"] THEN {<<"RST_STREAM", 0>>} ELSE {})
       \cup (IF budget["address"] < scenario.budget["address"] THEN {<<"ADD_ADDRESS", 0>>} ELSE {})

Pending ==
    ItemsOfFrames(framer, packer.controlFrames)
       \cup ItemsOfFrames(framer, framer.addAddressFrameQueue)
       \cup ItemsOfFrames(framer, [i \in DOMAIN framer.retransmissionQueue |->
                                      StreamFrame(framer.retransmissionQueue[i])])
       \cup ItemsOfFrames(framer, loop.handshake.frames)
       \cup UNION {ItemsOfPackets(framer, path[p].inflight)
                      \cup ItemsOfPackets(framer, path[p].retransmissionQueue) : p \in PathIDs}

\* Every byte, the FIN and every reset and address that was taken to be sent is
\* acknowledged, in flight or queued, across splits, duplicates on other paths,
\* losses and timeouts; only what was first sent below forward security may be
\* given up (getRetransmission, maybeSplitOffFrame, composeNextPacket).
NothingLost == err = "none" => Taken \subseteq acked \cup Pending \cup early

\* No packet is larger than writeAndSealPacket accepts, except when data sent
\* before forward security is retransmitted behind a STOP_WAITING frame; and a
\* stream frame that is not the last one of its packet has a length field, unless
\* the packet holds one frame twice (composeNextPacket clears it in the last
\* frame).
PacketWellFormed ==
    /\ err = "packet too large" => early # {}
    /\ \A i \in DOMAIN loop.packet.frames :
          \/ loop.packet.frames[i].t # "STREAM" \/ loop.packet.wire[i].dataLenPresent
          \/ i = Len(loop.packet.frames)
          \/ Last(loop.packet.frames) = loop.packet.frames[i]

\* The errors of sendPacket, each of which closes the session, have one cause
\* each.  Window updates of ackRemainingPaths, or the PING to a failed path, are
\* packed into nothing only when a STOP_WAITING frame is queued for that very path
\* (PackPacket gives up a single frame then).  A handshake packet has no
\* STOP_WAITING frame only on another path than the one it was lost on
\* (PackHandshakeRetransmission).  There are too many tracked packets only by a
\* packet without stream frames that is duplicated again and again for a path that
\* has sent less and is potentially failed (selectPathLowLatency).
ErrorCause ==
    /\ err = "nil packet" => packer.stopWaiting[loop.pth]
    /\ err = "expected ping packet not to be nil" => packer.stopWaiting[loop.from]
    /\ err = "Handshake retransmissions must contain a StopWaitingFrame" => loop.pth # loop.from
    /\ err = "too many tracked packets" =>
          \E p, q \in paths \ {InitialPathID} :
             path[p].rtt = 0 /\ path[q].potentiallyFailed /\ path[q].quota < path[p].quota

Learning == {"random", "dqn", "sac", "sacmulti", "qsat", "fuzzyqsat", "multiclients"}

\* The frames that sendPacket could put into a packet.
Sendable ==
    \/ packer.controlFrames # <<>>
    \/ /\ canSendData(scenario.perspective, level)
       /\ \/ HasFramesForRetransmission(framer)
          \/ framer.unsent > 0 /\ SendWindowSize(framer) > 0

\* The paths that the heuristic schedulers may use.
Usable ==
    {p \in paths : /\ SendingAllowed(path[p])
                   /\ Cardinality(paths) > 1 => p # InitialPathID /\ ~path[p].potentiallyFailed}

\* The congestion windows are respected and used.  A packet without
\* retransmission is only sent on a path with room in its window, except that the
\* learning schedulers do not look at the only path beside the initial one
\* (selectPath).  With the low-latency scheduler, ECF and BLEST the loop of
\* sendPacket is left only without a path that has room or with nothing to send,
\* unless a PING was dropped because a STOP_WAITING frame was queued with it
\* (PackPacket).
WindowsUsed ==
    [][/\ loop.pc = "select" /\ loop'.pc = "collect" =>
             \/ loop.retransmission \/ SendingAllowed(path[loop'.pth])
             \/ scenario.scheduler \in Learning /\ Cardinality(paths) = 2
       /\ loop.pc # "remaining" /\ loop'.pc = "remaining" /\ ~loop'.pingDropped
             /\ scenario.scheduler \in {"rtt", "ecf", "blest"}
          => Usable' = {} \/ ~Sendable']_vars

\* "Repeatedly try sending until we don't have any more data, or run out of the
\* congestion window": a call of sendPacket is never stopped by the limit on
\* tracked packets instead.
StopsAtWindow == err # "too many tracked packets"
=============================================================================
