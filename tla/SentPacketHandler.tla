------------------------- MODULE SentPacketHandler -------------------------
(***************************************************************************)
(* The sender side of one path: ackhandler/sent_packet_handler.go with the *)
(* stopWaitingManager it embeds.                                           *)
(*                                                                         *)
(* A packet is its number, the retransmittable frames it carries and its   *)
(* length.  The packet history is a linked list that only ever grows at    *)
(* its back with a larger number, so it is modelled as a set ordered by    *)
(* packet number; the retransmission queue is a sequence.  Time is         *)
(* abstracted: lossTime and alarm say whether the corresponding instant is *)
(* set, and which packets are "old enough" to be lost is a choice that     *)
(* respects the order in which packets were sent.  An ACK is its           *)
(* LargestAcked and the set of numbers its ranges cover.                   *)
(*                                                                         *)
(* acked and requeued are history variables: the numbers that left the     *)
(* packet history because an ACK or CLOSE_PATH covered them, and because   *)
(* they were queued for retransmission.  sent is every number that ever    *)
(* entered the packet history.                                             *)
(***************************************************************************)
EXTENDS Naturals, Sequences, FiniteSets, FiniteSetsExt

CONSTANTS
    Frame,                    \* the retransmittable frames
    ProbedFrame,              \* those Packet.IsRetransmittable recognises
    Lengths,                  \* the possible packet lengths
    MaxTrackedSentPackets,
    MaxTrackedSkippedPackets,
    MaxGap,                   \* most packet numbers skipped between two sends
    MaxPacketNumber,          \* bound: largest packet number of a run
    MaxPeerPacketNumber       \* bound: largest number of a packet with an ACK

ASSUME SentPacketHandlerAssumption ==
    /\ ProbedFrame \subseteq Frame
    /\ Lengths \subseteq Nat
    /\ MaxTrackedSentPackets \in Nat \ {0}
    /\ MaxTrackedSkippedPackets \in Nat
    /\ MaxGap \in Nat
    /\ MaxPacketNumber \in Nat
    /\ MaxPeerPacketNumber \in Nat

maxTailLossProbes == 2

None == 0                     \* no STOP_WAITING frame; packet numbers start at 1

VARIABLES
    lastSentPacketNumber,
    skippedPackets,
    numNonRetransmittablePackets,
    LargestAcked,
    largestReceivedPacketWithAck,
    packetHistory,
    retransmissionQueue,
    bytesInFlight,
    rtoCount,
    tlpCount,
    lossTime,
    alarm,
    nextLeastUnacked,         \* stopWaitingManager
    largestLeastUnackedSent,  \* stopWaitingManager
    lastStopWaitingFrame,     \* stopWaitingManager
    stopWaiting,              \* the frame queued in the packer for this path
    sessionError,             \* the error that closed the session, if any
    runLoop,                  \* path.run, whose timer calls OnAlarm
    sent, acked, requeued     \* history variables

numbering == <<lastSentPacketNumber, skippedPackets,
               numNonRetransmittablePackets>>
acks == <<LargestAcked, largestReceivedPacketWithAck>>
flight == <<packetHistory, retransmissionQueue, bytesInFlight>>
timers == <<rtoCount, tlpCount, lossTime, alarm>>
stopWaitingManager == <<nextLeastUnacked, largestLeastUnackedSent,
                        lastStopWaitingFrame>>
history == <<sent, acked, requeued>>

vars == <<numbering, acks, flight, timers, stopWaitingManager, stopWaiting,
          sessionError, runLoop, history>>

-----------------------------------------------------------------------------

PacketNumbers == 1 .. MaxPacketNumber

Packet == [PacketNumber : Nat \ {0}, Frames : SUBSET Frame, Length : Lengths]

\* What determineNewlyAckedPackets reads of an ACK or CLOSE_PATH frame.
AckFrame == {f \in [LargestAcked : PacketNumbers,
                    packets : SUBSET PacketNumbers] :
                /\ f.LargestAcked \in f.packets
                /\ \A n \in f.packets : n <= f.LargestAcked}

Errors == {"none", "TooManyTrackedSentPackets", "AckForUnsentPacket",
           "AckForSkippedPacket"}

Numbers(S) == {p.PacketNumber : p \in S}

\* The bytes of the packets of S, and their number.
BytesOf(S) == UNION {{p} \X (1 .. p.Length) : p \in S}
Bytes(S) == Cardinality(BytesOf(S))

IsRetransmittable(p) == p.Frames \cap ProbedFrame # {}

\* The packets of S in the order of their numbers: the order in which a walk
\* from Front() visits them.
InOrder(S) ==
    [i \in 1 .. Cardinality(S) |->
        CHOOSE p \in S :
            Cardinality({q \in S : q.PacketNumber < p.PacketNumber}) = i - 1]

\* The n packets at the front, and at the back, of the packet history.
Oldest(n) ==
    {p \in packetHistory :
        Cardinality({q \in packetHistory :
                        q.PacketNumber < p.PacketNumber}) < n}
Newest(n) ==
    {p \in packetHistory :
        Cardinality({q \in packetHistory :
                        q.PacketNumber > p.PacketNumber}) < n}

\* n <= largestInOrderAcked(), for a packet history H and a LargestAcked la.
InOrderAcked(n, H, la) ==
    IF H = {} THEN n <= la ELSE \A p \in H : n < p.PacketNumber

\* The numbers of S that the bounded list of skipped numbers keeps.
LastSkipped(S) ==
    {n \in S : Cardinality({m \in S : m > n}) < MaxTrackedSkippedPackets}

hasOutstandingRetransmittablePacket ==
    \E p \in packetHistory : IsRetransmittable(p)

tracked == Len(retransmissionQueue) + Cardinality(packetHistory)

\* The check of SentPacket that ends in ErrTooManyTrackedSentPackets.
tooManyTracked == tracked + 1 > MaxTrackedSentPackets

-----------------------------------------------------------------------------

Init ==
    /\ lastSentPacketNumber = 0
    /\ skippedPackets = {}
    /\ numNonRetransmittablePackets = 0
    /\ LargestAcked = 0
    /\ largestReceivedPacketWithAck = 0
    /\ packetHistory = {}
    /\ retransmissionQueue = <<>>
    /\ bytesInFlight = 0
    /\ rtoCount = 0
    /\ tlpCount = 0
    /\ lossTime = FALSE
    /\ alarm = FALSE
    /\ nextLeastUnacked = 0
    /\ largestLeastUnackedSent = 0
    /\ lastStopWaitingFrame = None
    /\ stopWaiting = None
    /\ sessionError = "none"
    /\ runLoop = "running"
    /\ sent = {}
    /\ acked = {}
    /\ requeued = {}

-----------------------------------------------------------------------------
(***************************************************************************)
(* Sending.                                                                *)
(***************************************************************************)

\* SentPacket for packet number pn, after the frames were stripped of ACK and
\* STOP_WAITING.  duplicate: the scheduler also hands the packet to
\* DuplicatePacket, because it went out on a path of unknown RTT.  crypto: the
\* packet comes from packCryptoPacket, which leaves a queued STOP_WAITING where
\* it is; every other packer function takes the frame into the packet.
SentPacket(pn, frames, length, duplicate, crypto) ==
    LET packet == [PacketNumber |-> pn, Frames |-> frames, Length |-> length]
    IN
    /\ sessionError = "none"
    /\ pn > lastSentPacketNumber
    /\ ~tooManyTracked
    /\ skippedPackets' =
           LastSkipped(skippedPackets \cup (lastSentPacketNumber + 1 .. pn - 1))
    /\ lastSentPacketNumber' = pn
    /\ IF frames # {}
         THEN /\ packetHistory' = packetHistory \cup {packet}
              /\ bytesInFlight' = bytesInFlight + length
              /\ numNonRetransmittablePackets' = 0
              /\ sent' = sent \cup {pn}
         ELSE /\ numNonRetransmittablePackets' =
                     numNonRetransmittablePackets + 1
              /\ UNCHANGED <<packetHistory, bytesInFlight, sent>>
    /\ retransmissionQueue' = IF duplicate
                                THEN Append(retransmissionQueue, packet)
                                ELSE retransmissionQueue
    /\ alarm' = (packetHistory' # {})
    /\ stopWaiting' = IF crypto THEN stopWaiting ELSE None
    /\ UNCHANGED <<acks, rtoCount, tlpCount, lossTime, stopWaitingManager,
                   sessionError, acked, requeued>>

\* The limit on tracked packets is hit: sendPacket returns the error and the
\* session closes.
SentPacketRejected ==
    /\ sessionError = "none"
    /\ tooManyTracked
    /\ sessionError' = "TooManyTrackedSentPackets"
    /\ UNCHANGED <<numbering, acks, flight, timers, stopWaitingManager,
                   stopWaiting, history>>

DequeuePacketForRetransmission ==
    /\ sessionError = "none"
    /\ retransmissionQueue # <<>>
    /\ retransmissionQueue' = Tail(retransmissionQueue)
    /\ UNCHANGED <<numbering, acks, packetHistory, bytesInFlight, timers,
                   stopWaitingManager, stopWaiting, sessionError, history>>

\* GetStopWaitingFrame returns nothing (None), a new frame, or, when forced,
\* the last one again; the caller queues what it gets in the packer.  A forced
\* call that gets nothing overwrites the packer's entry with nil.
GetStopWaitingFrame(force) ==
    /\ sessionError = "none"
    /\ \/ /\ nextLeastUnacked > largestLeastUnackedSent
          /\ largestLeastUnackedSent' = nextLeastUnacked
          /\ lastStopWaitingFrame' = nextLeastUnacked
          /\ stopWaiting' = nextLeastUnacked
       \/ /\ nextLeastUnacked <= largestLeastUnackedSent
          /\ force
          /\ lastStopWaitingFrame' =
                IF lastStopWaitingFrame = None /\ largestLeastUnackedSent > 0
                  THEN nextLeastUnacked
                  ELSE lastStopWaitingFrame
          /\ stopWaiting' = lastStopWaitingFrame'
          /\ UNCHANGED largestLeastUnackedSent
    /\ UNCHANGED <<numbering, acks, flight, timers, nextLeastUnacked,
                   sessionError, history>>

-----------------------------------------------------------------------------
(***************************************************************************)
(* Loss.  queuePacketForRetransmission moves packets from the history to   *)
(* the queue; every way to lose packets goes through it.                   *)
(***************************************************************************)

\* Mutant: retransmissions and ACKs are not recorded.
LeastUnackedNotAdvanced(ns) == nextLeastUnacked

\* QueuedRetransmissionForPacketNumber for every number of a set, the number of
\* a LargestAcked being treated alike.
LeastUnackedAfter(ns) == Max({nextLeastUnacked} \cup {n + 1 : n \in ns})

\* The packets of H up to LargestAcked la; those up to the cut were sent more
\* than delayUntilLost ago.
Detectable(H, la) == {p \in H : p.PacketNumber <= la}
OldEnough(H, la, cut) == {p \in Detectable(H, la) : p.PacketNumber <= cut}

\* Mutants: onPacketAcked leaves bytesInFlight alone; a packet queued for
\* retransmission stays in the history.
RequeueUncounted(lost, newly) ==
    /\ packetHistory' = packetHistory \ (lost \cup newly)
    /\ retransmissionQueue' = retransmissionQueue \o InOrder(lost)
    /\ bytesInFlight' = bytesInFlight - Bytes(lost)
    /\ requeued' = requeued \cup Numbers(lost)
    /\ acked' = acked \cup Numbers(newly)
RequeueKeeping(lost, newly) ==
    /\ packetHistory' = packetHistory \ newly
    /\ retransmissionQueue' = retransmissionQueue \o InOrder(lost)
    /\ bytesInFlight' = bytesInFlight - Bytes(newly)
    /\ requeued' = requeued \cup Numbers(lost)
    /\ acked' = acked \cup Numbers(newly)

\* queuePacketForRetransmission on the packets of lost, the other packets of
\* the history in `newly` having just been acked.
Requeue(lost, newly) ==
    /\ packetHistory' = packetHistory \ (lost \cup newly)
    /\ retransmissionQueue' = retransmissionQueue \o InOrder(lost)
    /\ bytesInFlight' = bytesInFlight - Bytes(newly) - Bytes(lost)
    /\ requeued' = requeued \cup Numbers(lost)
    /\ acked' = acked \cup Numbers(newly)

-----------------------------------------------------------------------------
(***************************************************************************)
(* ReceivedAck for frame f in a packet numbered withPN, one action per     *)
(* outcome.  An error other than ErrDuplicateOrOutOfOrderAck closes the    *)
(* session (session.handleFrames).                                         *)
(***************************************************************************)

skippedPacketsAcked(f) == skippedPackets \cap f.packets # {}

AckForUnsentPacket(f) ==
    /\ sessionError = "none"
    /\ f.LargestAcked > lastSentPacketNumber
    /\ sessionError' = "AckForUnsentPacket"
    /\ UNCHANGED <<numbering, acks, flight, timers, stopWaitingManager,
                   stopWaiting, history>>

\* ErrDuplicateOrOutOfOrderAck: the session ignores it.
AckOutOfOrder(f, withPN) ==
    /\ sessionError = "none"
    /\ f.LargestAcked <= lastSentPacketNumber
    /\ withPN <= largestReceivedPacketWithAck
    /\ UNCHANGED vars

\* The two checks every ACK that is looked at has passed.
InOrderAck(f, withPN) ==
    /\ sessionError = "none"
    /\ f.LargestAcked <= lastSentPacketNumber
    /\ withPN > largestReceivedPacketWithAck
    /\ largestReceivedPacketWithAck' = withPN

RepeatedAck(f, withPN) ==
    /\ InOrderAck(f, withPN)
    /\ InOrderAcked(f.LargestAcked, packetHistory, LargestAcked)
    /\ UNCHANGED <<numbering, LargestAcked, flight, timers,
                   stopWaitingManager, stopWaiting, sessionError, history>>

AckForSkippedPacket(f, withPN) ==
    /\ InOrderAck(f, withPN)
    /\ ~InOrderAcked(f.LargestAcked, packetHistory, LargestAcked)
    /\ skippedPacketsAcked(f)
    /\ LargestAcked' = f.LargestAcked
    /\ sessionError' = "AckForSkippedPacket"
    /\ UNCHANGED <<numbering, flight, timers, stopWaitingManager,
                   stopWaiting, history>>

\* The ACK is processed: newly acked packets leave the history, then
\* detectLostPackets queues the packets up to the cut, then the alarm, the
\* skipped numbers and the stopWaitingManager are brought up to date.
AckAccepted(f, withPN, cut) ==
    LET newly == {p \in packetHistory : p.PacketNumber \in f.packets}
        lost  == OldEnough(packetHistory \ newly, f.LargestAcked, cut)
    IN
    /\ InOrderAck(f, withPN)
    /\ ~InOrderAcked(f.LargestAcked, packetHistory, LargestAcked)
    /\ ~skippedPacketsAcked(f)
    /\ LargestAcked' = f.LargestAcked
    /\ Requeue(lost, newly)
    /\ rtoCount' = IF newly = {} THEN rtoCount ELSE 0
    /\ tlpCount' = IF newly = {} THEN tlpCount ELSE 0
    /\ lossTime' = (Detectable(packetHistory', f.LargestAcked) # {})
    /\ alarm' = (packetHistory' # {})
    /\ skippedPackets' =
           {n \in skippedPackets :
               ~InOrderAcked(n, packetHistory', f.LargestAcked)}
    /\ nextLeastUnacked' = LeastUnackedAfter(Numbers(lost) \cup
                                             {f.LargestAcked})
    /\ UNCHANGED <<lastSentPacketNumber, numNonRetransmittablePackets,
                   largestLeastUnackedSent, lastStopWaitingFrame,
                   stopWaiting, sessionError, sent>>

-----------------------------------------------------------------------------
(***************************************************************************)
(* ReceivedClosePath.  The session drops the error it returns, so an       *)
(* invalid frame changes at most largestReceivedPacketWithAck.             *)
(***************************************************************************)

\* Not accepted: an unsent number, an old packet number, or a skipped number.
ClosePathRejected(f, withPN) ==
    /\ sessionError = "none"
    /\ \/ /\ \/ f.LargestAcked > lastSentPacketNumber
             \/ withPN <= largestReceivedPacketWithAck
          /\ UNCHANGED largestReceivedPacketWithAck
       \/ /\ InOrderAck(f, withPN)
          /\ skippedPacketsAcked(f)
    /\ UNCHANGED <<numbering, LargestAcked, flight, timers,
                   stopWaitingManager, stopWaiting, sessionError, history>>

\* Accepted: the packets it covers are acked, then SetInflightAsLost queues
\* what is left up to the LargestAcked of the last ACK.
ClosePathAccepted(f, withPN) ==
    LET newly == {p \in packetHistory : p.PacketNumber \in f.packets}
        lost  == Detectable(packetHistory \ newly, LargestAcked)
    IN
    /\ InOrderAck(f, withPN)
    /\ ~skippedPacketsAcked(f)
    /\ Requeue(lost, newly)
    /\ rtoCount' = IF newly = {} THEN rtoCount ELSE 0
    /\ tlpCount' = IF newly = {} THEN tlpCount ELSE 0
    /\ skippedPackets' =
           {n \in skippedPackets :
               ~InOrderAcked(n, packetHistory', LargestAcked)}
    /\ nextLeastUnacked' = LeastUnackedAfter(Numbers(lost))
    /\ UNCHANGED <<lastSentPacketNumber, numNonRetransmittablePackets,
                   LargestAcked, lossTime, alarm, largestLeastUnackedSent,
                   lastStopWaitingFrame, stopWaiting, sessionError, sent>>

-----------------------------------------------------------------------------
(***************************************************************************)
(* OnAlarm, called by session.run when the path's alarm is set and has     *)
(* passed.                                                                 *)
(***************************************************************************)

\* Mutant: the alarm is cancelled without looking at the history.
AlarmCancelledUnchecked ==
    /\ sessionError = "none"
    /\ alarm
    /\ alarm' = FALSE
    /\ UNCHANGED <<numbering, acks, flight, rtoCount, tlpCount, lossTime,
                   stopWaitingManager, stopWaiting, sessionError, history>>

AlarmCancelled ==
    /\ sessionError = "none"
    /\ alarm
    /\ ~hasOutstandingRetransmittablePacket
    /\ alarm' = FALSE
    /\ UNCHANGED <<numbering, acks, flight, rtoCount, tlpCount, lossTime,
                   stopWaitingManager, stopWaiting, sessionError, history>>

\* Mutant: the alarm is not set again after it fired.
RetransmitOnce(lost) ==
    /\ sessionError = "none"
    /\ alarm
    /\ hasOutstandingRetransmittablePacket
    /\ Requeue(lost, {})
    /\ nextLeastUnacked' = LeastUnackedAfter(Numbers(lost))
    /\ alarm' = FALSE
    /\ UNCHANGED <<numbering, acks, largestLeastUnackedSent,
                   lastStopWaitingFrame, stopWaiting, sessionError, sent>>

\* queuePacketForRetransmission on lost, then updateLossDetectionAlarm.
Retransmit(lost) ==
    /\ sessionError = "none"
    /\ alarm
    /\ hasOutstandingRetransmittablePacket
    /\ Requeue(lost, {})
    /\ nextLeastUnacked' = LeastUnackedAfter(Numbers(lost))
    /\ alarm' = (packetHistory' # {})
    /\ UNCHANGED <<numbering, acks, largestLeastUnackedSent,
                   lastStopWaitingFrame, stopWaiting, sessionError, sent>>

\* Time loss detection.  The alarm was set to lossTime, the instant at which
\* the oldest detectable packet is lost, so the cut reaches at least that one.
\* If the RTT has grown since (path 0's is also fed by the ACKs of other paths),
\* nothing may be old enough: the alarm is only set anew, a stuttering step.
LossTimeout(cut) ==
    /\ lossTime
    /\ Detectable(packetHistory, LargestAcked) # {} =>
           OldEnough(packetHistory, LargestAcked, cut) # {}
    /\ Retransmit(OldEnough(packetHistory, LargestAcked, cut))
    /\ lossTime' = (Detectable(packetHistory', LargestAcked) # {})
    /\ UNCHANGED <<rtoCount, tlpCount>>

TailLossProbe ==
    /\ ~lossTime
    /\ tlpCount < maxTailLossProbes
    /\ Retransmit(Newest(1))
    /\ tlpCount' = tlpCount + 1
    /\ UNCHANGED <<rtoCount, lossTime>>

\* potentiallyFailed: path.onRTO saw no network activity since the last send.
RetransmissionTimeout(potentiallyFailed) ==
    /\ ~lossTime
    /\ tlpCount >= maxTailLossProbes
    /\ Retransmit(IF potentiallyFailed THEN packetHistory ELSE Oldest(2))
    /\ rtoCount' = rtoCount + 1
    /\ UNCHANGED <<tlpCount, lossTime>>

OnAlarm ==
    \/ AlarmCancelled
    \/ \E cut \in PacketNumbers : LossTimeout(cut)
    \/ TailLossProbe
    \/ \E potentiallyFailed \in BOOLEAN :
           RetransmissionTimeout(potentiallyFailed)

-----------------------------------------------------------------------------

Send ==
    \E pn \in PacketNumbers, frames \in SUBSET Frame, length \in Lengths,
       duplicate, crypto \in BOOLEAN :
        /\ pn <= lastSentPacketNumber + 1 + MaxGap
        /\ SentPacket(pn, frames, length, duplicate, crypto)

ReceivedAck(f, withPN) ==
    \/ AckForUnsentPacket(f)
    \/ AckOutOfOrder(f, withPN)
    \/ RepeatedAck(f, withPN)
    \/ AckForSkippedPacket(f, withPN)
    \/ \E cut \in 0 .. MaxPacketNumber : AckAccepted(f, withPN, cut)

ReceivedClosePath(f, withPN) ==
    \/ ClosePathRejected(f, withPN)
    \/ ClosePathAccepted(f, withPN)

\* session.closePath: whatever ReceivedClosePath makes of the frame, the path's
\* run loop has closeChan to read.
ClosePath == runLoop' = IF runLoop = "running" THEN "closing" ELSE runLoop

Receive ==
    \E f \in AckFrame, withPN \in 1 .. MaxPeerPacketNumber :
        \/ ReceivedAck(f, withPN) /\ UNCHANGED runLoop
        \/ ReceivedClosePath(f, withPN) /\ ClosePath

\* path.run hands its timer to the session; it may do so once more before it
\* reads closeChan.
TimerFires ==
    /\ runLoop # "ended"
    /\ OnAlarm
    /\ runLoop' = IF runLoop = "closing" THEN "ended" ELSE runLoop

RunLoopEnds ==
    /\ runLoop = "closing"
    /\ runLoop' = "ended"
    /\ UNCHANGED <<numbering, acks, flight, timers, stopWaitingManager,
                   stopWaiting, sessionError, history>>

Next ==
    \/ /\ \/ Send
          \/ SentPacketRejected
          \/ DequeuePacketForRetransmission
          \/ \E force \in BOOLEAN : GetStopWaitingFrame(force)
       /\ UNCHANGED runLoop
    \/ Receive
    \/ TimerFires
    \/ RunLoopEnds

\* The timer of a path runs until the path is closed: an alarm that stays set
\* fires.
Fairness == WF_vars(runLoop = "running" /\ TimerFires)

Spec == Init /\ [][Next]_vars
FairSpec == Spec /\ Fairness

-----------------------------------------------------------------------------
(***************************************************************************)
(* Properties.                                                             *)
(***************************************************************************)

\* Every variable of the handler but bytesInFlight (see BytesInFlightExact) has
\* its type; the packet history only holds packets with retransmittable frames
\* and numbers already sent.
TypeOK ==
    /\ lastSentPacketNumber \in Nat
    /\ skippedPackets \in SUBSET (1 .. lastSentPacketNumber)
    /\ numNonRetransmittablePackets \in Nat
    /\ LargestAcked \in 0 .. lastSentPacketNumber
    /\ largestReceivedPacketWithAck \in Nat
    /\ packetHistory \in SUBSET Packet
    /\ \A p \in packetHistory : p.Frames # {}
    /\ Numbers(packetHistory) \subseteq 1 .. lastSentPacketNumber
    /\ retransmissionQueue \in Seq(Packet)
    /\ rtoCount \in Nat
    /\ tlpCount \in 0 .. maxTailLossProbes
    /\ lossTime \in BOOLEAN
    /\ alarm \in BOOLEAN
    /\ nextLeastUnacked \in Nat
    /\ largestLeastUnackedSent \in Nat
    /\ lastStopWaitingFrame \in Nat
    /\ stopWaiting \in Nat
    /\ sessionError \in Errors
    /\ sent \in SUBSET (1 .. lastSentPacketNumber)
    /\ acked \in SUBSET sent
    /\ requeued \in SUBSET sent

\* bytesInFlight, an unsigned counter that SentPacket, onPacketAcked and
\* queuePacketForRetransmission update separately, is always the number of
\* bytes of the packets in the history: it never underflows, and the window
\* check of SendingAllowed sees what is really in flight.
BytesInFlightExact == bytesInFlight = Bytes(packetHistory)

\* No packet with retransmittable frames is forgotten, and none is handled
\* twice: each number sent is in the history, or was acked, or was queued for
\* retransmission, and only one of the three, whatever order ACKs, CLOSE_PATH
\* frames, probes and timeouts come in.
NothingForgotten ==
    /\ sent = Numbers(packetHistory) \cup acked \cup requeued
    /\ Numbers(packetHistory) \cap (acked \cup requeued) = {}
    /\ acked \cap requeued = {}

\* While a packet that OnAlarm would retransmit is in flight, the alarm is
\* set: no sequence of ACKs, probes and timeouts leaves such a packet without
\* the instant at which the path's timer, while it runs, recovers it.
LossRecoveryArmed == hasOutstandingRetransmittablePacket => alarm

\* A STOP_WAITING frame, in the packer or still to be made, never names a
\* number beyond the next packet: StopWaitingFrame.Write never fails with
\* errLeastUnackedHigherThanPacketNumber.
StopWaitingNeverAhead ==
    /\ nextLeastUnacked <= lastSentPacketNumber + 1
    /\ stopWaiting <= lastSentPacketNumber + 1

\* What a forced GetStopWaitingFrame would return.
ForcedStopWaiting ==
    IF \/ nextLeastUnacked > largestLeastUnackedSent
       \/ lastStopWaitingFrame = None /\ largestLeastUnackedSent > 0
      THEN nextLeastUnacked
      ELSE lastStopWaitingFrame

\* The STOP_WAITING frame that goes out with a retransmission exists, and tells
\* the peer to wait for none of the packets that this path ever queued for
\* retransmission, whatever ACKs, losses and earlier STOP_WAITING frames came in
\* between.  This is about the handler of one path: a handshake packet that goes
\* out on another path asks that path's handler, which may have no frame, and
\* PackHandshakeRetransmission then fails (see ErrorCause of SendLoop).
StopWaitingPassesLost == \A n \in requeued : n < ForcedStopWaiting

\* The packets tracked exceed MaxTrackedSentPackets by at most the one packet
\* that DuplicatePacket, which does not check the limit, may add.
TrackedBounded == tracked <= MaxTrackedSentPackets + 1

\* "This allows the host to retransmit packets sent on this path that were not
\* acked by the ClosePath frame" (session.go): a CLOSE_PATH frame that is
\* accepted leaves no packet in the history of the path, whose timer is gone.
ClosePathRequeuesUnacked ==
    [][\A f \in AckFrame, withPN \in 1 .. MaxPeerPacketNumber :
           ClosePathAccepted(f, withPN) => packetHistory' = {}]_vars

\* Every packet in flight that the timer knows how to retransmit is in the end
\* acked or queued for retransmission, unless the session closes, or the peer
\* closes the path: then nobody drives the timer, and what ClosePathAccepted left
\* in the history stays there.
InFlightResolved ==
    \A n \in PacketNumbers :
        (\E p \in packetHistory : p.PacketNumber = n /\ IsRetransmittable(p))
            ~> \/ n \in acked \cup requeued
               \/ sessionError # "none"
               \/ runLoop # "running"
=============================================================================
