----------------------- MODULE ReceivedPacketHandler -----------------------
(***************************************************************************)
(* The receiver side of one path: ackhandler/received_packet_handler.go as *)
(* path.handlePacketImpl and session.handleFrames drive it.  The numbers   *)
(* tracked are the set `received` of ReceivedPackets, which the list of    *)
(* intervals of ReceivedPacketHistory implements.  ackAlarm says whether   *)
(* the instant is set; whether it has passed is a choice.                  *)
(*                                                                         *)
(* arrived, owed and limits are history variables: every number that was   *)
(* ever received, the numbers of tracked packets with retransmittable      *)
(* frames that no ACK frame has covered yet, and every lower limit set.    *)
(***************************************************************************)
EXTENDS ReceivedPackets

CONSTANTS
    Version39,                \* BOOLEAN: the version is 39 or later
    MaxTrackedReceivedAckRanges,
    MaxPacketsReceivedBeforeAckSend,
    RetransmittablePacketsBeforeAck,
    MaxSinceLastAck           \* bound: packets of a run between two ACKs

ASSUME ReceivedPacketHandlerAssumption ==
    /\ Version39 \in BOOLEAN
    /\ MaxTrackedReceivedAckRanges \in Nat \ {0}
    /\ MaxPacketsReceivedBeforeAckSend \in Nat \ {0}
    /\ RetransmittablePacketsBeforeAck \in Nat \ {0}
    /\ MaxSinceLastAck \in Nat

VARIABLES
    largestObserved,
    lowerLimit,
    packetsReceivedSinceLastAck,
    retransmittablePacketsReceivedSinceLastAck,
    ackQueued,
    ackAlarm,
    lastAck,                  \* the ACK frame last returned, or NoAck
    sessionError,             \* TooManyOutstandingReceivedPackets closed it
    arrived, owed, limits     \* history variables

counters == <<packetsReceivedSinceLastAck,
              retransmittablePacketsReceivedSinceLastAck>>
history == <<arrived, owed, limits>>

handlerVars == <<largestObserved, lowerLimit, received, counters, ackQueued,
                 ackAlarm, lastAck, sessionError, history>>

\* No ACK frame yet; a frame is its LargestAcked and the numbers it acks.
NoAck == [LargestAcked |-> 0, packets |-> {}]

-----------------------------------------------------------------------------

HandlerInit ==
    /\ Init
    /\ largestObserved = 0
    /\ lowerLimit = 0
    /\ packetsReceivedSinceLastAck = 0
    /\ retransmittablePacketsReceivedSinceLastAck = 0
    /\ ackQueued = FALSE
    /\ ackAlarm = FALSE
    /\ lastAck = NoAck
    /\ sessionError = FALSE
    /\ arrived = {}
    /\ owed = {}
    /\ limits = {}

\* The conditions of maybeQueueAck that queue an ACK at once, for packet pn
\* with the packets of S tracked and the counters already increased.
queuesAck(pn, S, shouldInstigateAck, packets, retransmittable) ==
    \/ ackQueued
    \/ lastAck = NoAck
    \/ ~Version39 /\ packets >= MaxPacketsReceivedBeforeAckSend
    \/ lastAck # NoAck /\ pn < lastAck.LargestAcked
    \/ lastAck # NoAck /\ HighestFirst(S) > lastAck.LargestAcked
    \/ shouldInstigateAck /\ retransmittable >= RetransmittablePacketsBeforeAck

\* Mutant: the alarm is not set for a first retransmittable packet.
maybeQueueAckNoAlarm(pn, S, shouldInstigateAck) ==
    LET packets == packetsReceivedSinceLastAck + 1
        retransmittable == retransmittablePacketsReceivedSinceLastAck +
                               (IF shouldInstigateAck THEN 1 ELSE 0)
    IN  /\ packetsReceivedSinceLastAck' = packets
        /\ retransmittablePacketsReceivedSinceLastAck' = retransmittable
        /\ ackQueued' = queuesAck(pn, S, shouldInstigateAck, packets,
                                  retransmittable)
        /\ ackAlarm' = (~ackQueued' /\ ackAlarm)

maybeQueueAck(pn, S, shouldInstigateAck) ==
    LET packets == packetsReceivedSinceLastAck + 1
        retransmittable == retransmittablePacketsReceivedSinceLastAck +
                               (IF shouldInstigateAck THEN 1 ELSE 0)
    IN  /\ packetsReceivedSinceLastAck' = packets
        /\ retransmittablePacketsReceivedSinceLastAck' = retransmittable
        /\ ackQueued' = queuesAck(pn, S, shouldInstigateAck, packets,
                                  retransmittable)
        /\ ackAlarm' = (~ackQueued' /\ (ackAlarm \/ shouldInstigateAck))

\* Mutant: LeastUnacked itself is deleted.
StopWaitingInclusive(S, leastUnacked) ==
    IF leastUnacked = 0
      THEN received' = S /\ UNCHANGED <<lowerLimit, limits>>
      ELSE /\ lowerLimit' = leastUnacked
           /\ received' = S \ (1 .. leastUnacked)
           /\ limits' = limits \cup {leastUnacked}

\* handleFrames: SetLowerLimit(leastUnacked - 1) for a STOP_WAITING frame in
\* the packet (leastUnacked = 0: there is none), S being what is tracked.
StopWaiting(S, leastUnacked) ==
    IF leastUnacked = 0
      THEN received' = S /\ UNCHANGED <<lowerLimit, limits>>
      ELSE /\ lowerLimit' = leastUnacked - 1
           /\ received' = S \ (1 .. leastUnacked - 1)
           /\ limits' = limits \cup {leastUnacked - 1}

\* A packet arrives: ReceivedPacket, then its frames.
ReceivedPacket(pn, isRetransmittable, leastUnacked) ==
    /\ ~sessionError
    /\ pn > lowerLimit
    /\ Cardinality(Starts(received)) < MaxTrackedReceivedAckRanges
    /\ largestObserved' = IF pn > largestObserved THEN pn ELSE largestObserved
    /\ maybeQueueAck(pn, received \cup {pn}, isRetransmittable)
    /\ StopWaiting(received \cup {pn}, leastUnacked)
    /\ arrived' = arrived \cup {pn}
    /\ owed' = (owed \cup {n \in {pn} : isRetransmittable}) \cap received'
    /\ UNCHANGED <<lastAck, sessionError>>

\* A packet at or below the lower limit is not tracked; its frames are handled.
ReceivedPacketBelowLimit(pn, leastUnacked) ==
    /\ ~sessionError
    /\ pn <= lowerLimit
    /\ largestObserved' = IF pn > largestObserved THEN pn ELSE largestObserved
    /\ StopWaiting(received, leastUnacked)
    /\ arrived' = arrived \cup {pn}
    /\ owed' = owed \cap received'
    /\ UNCHANGED <<counters, ackQueued, ackAlarm, lastAck, sessionError>>

\* Too many ranges: the error reaches the session, which closes.
ReceivedPacketRejected(pn) ==
    /\ ~sessionError
    /\ pn > lowerLimit
    /\ Cardinality(Starts(received)) >= MaxTrackedReceivedAckRanges
    /\ largestObserved' = IF pn > largestObserved THEN pn ELSE largestObserved
    /\ sessionError' = TRUE
    /\ UNCHANGED <<lowerLimit, received, counters, ackQueued, ackAlarm,
                   lastAck, history>>

\* The sender side asks for an ACK frame; ackAlarm may or may not have passed,
\* and a call that returns nil changes nothing.
GetAckFrame ==
    /\ ~sessionError
    /\ ackQueued \/ ackAlarm
    /\ lastAck' = [LargestAcked |-> largestObserved, packets |-> received]
    /\ ackQueued' = FALSE
    /\ ackAlarm' = FALSE
    /\ packetsReceivedSinceLastAck' = 0
    /\ retransmittablePacketsReceivedSinceLastAck' = 0
    /\ owed' = owed \ received
    /\ UNCHANGED <<largestObserved, lowerLimit, received, sessionError,
                   arrived, limits>>

\* A STOP_WAITING frame in packet pn names a number from 1 to pn
\* (wire.ParseStopWaitingFrame).
Receive(pn, isRetransmittable, leastUnacked) ==
    \/ ReceivedPacket(pn, isRetransmittable, leastUnacked)
    \/ ReceivedPacketBelowLimit(pn, leastUnacked)
    \/ ReceivedPacketRejected(pn)

HandlerNext ==
    \/ \E pn \in PacketNumbers, isRetransmittable \in BOOLEAN :
           \E leastUnacked \in 0 .. pn :
               /\ packetsReceivedSinceLastAck < MaxSinceLastAck
               /\ Receive(pn, isRetransmittable, leastUnacked)
    \/ GetAckFrame

HandlerSpec == HandlerInit /\ [][HandlerNext]_handlerVars

\* The session's send loop asks every path for its ACK frame each time it runs
\* (sendPacket, ackRemainingPaths), and the path's timer wakes it for ackAlarm.
HandlerFairSpec == HandlerSpec /\ WF_handlerVars(GetAckFrame)

-----------------------------------------------------------------------------
(***************************************************************************)
(* Properties.                                                             *)
(***************************************************************************)

\* Every variable has its type; the numbers tracked, acked or owed have all
\* arrived, and no number received or limit underflows.
HandlerTypeOK ==
    /\ largestObserved \in 0 .. MaxPacketNumber
    /\ lowerLimit \in 0 .. MaxPacketNumber
    /\ received \in SUBSET arrived
    /\ arrived \in SUBSET PacketNumbers
    /\ packetsReceivedSinceLastAck \in Nat
    /\ retransmittablePacketsReceivedSinceLastAck \in
           0 .. packetsReceivedSinceLastAck
    /\ ackQueued \in BOOLEAN
    /\ ackAlarm \in BOOLEAN
    /\ lastAck \in [LargestAcked : 0 .. MaxPacketNumber, packets : SUBSET arrived]
    /\ sessionError \in BOOLEAN
    /\ owed \in SUBSET received
    /\ limits \in SUBSET (0 .. MaxPacketNumber)

\* Whenever GetAckFrame may be called there is a range to index, and
\* LargestAcked is the end of the highest one: the frame is one that
\* validateAckRanges accepts at the peer.  STOP_WAITING frames, which delete
\* ranges, never delete the last one.
GetAckFrameSafe ==
    ~sessionError /\ (ackQueued \/ ackAlarm) =>
        /\ largestObserved \in received
        /\ \A n \in received : n <= largestObserved

\* A tracked packet with retransmittable frames that no ACK has covered keeps
\* an ACK queued or the alarm set, and it is the alarm alone only for fewer
\* than RetransmittablePacketsBeforeAck packets.
AckPromise ==
    owed # {} => \/ ackQueued
                 \/ /\ ackAlarm
                    /\ Cardinality(owed) < RetransmittablePacketsBeforeAck

\* A number that is missing above the last ACK is reported at once: as long as
\* no ACK is queued, every number between the last LargestAcked and the largest
\* number observed has arrived.
GapReported ==
    ~sessionError /\ lastAck # NoAck /\ ~ackQueued =>
        \A n \in lastAck.LargestAcked + 1 .. largestObserved : n \in arrived

\* A retransmittable packet that is tracked is in the end covered by an ACK
\* frame, unless a STOP_WAITING frame makes that unnecessary or the session
\* closes.
AckedEventually ==
    \A n \in PacketNumbers : n \in owed ~> n \notin owed \/ sessionError

\* "Packets with packet numbers smaller or equal than p will not be acked"
\* (the comment on SetLowerLimit), for every p that SetLowerLimit was given.
LimitNeverAcked ==
    [][GetAckFrame => \A l \in limits : lastAck'.packets \cap (1 .. l) = {}
      ]_handlerVars

\* "if the packet number is smaller than the largest acked packet, it must have
\* been reported missing with the last ACK / note that it cannot be a duplicate
\* because they're already filtered out by ReceivedPacket()" (the comments in
\* maybeQueueAck, which queues an ACK for that reason).
SmallerWasReportedMissing ==
    [][\A pn \in PacketNumbers, r \in BOOLEAN :
           /\ ReceivedPacket(pn, r, 0)
           /\ pn < lastAck.LargestAcked
           => pn \notin lastAck.packets]_handlerVars
=============================================================================
