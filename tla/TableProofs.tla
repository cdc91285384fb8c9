---------------------------- MODULE TableProofs -----------------------------
(***************************************************************************)
(* The tables that a session keeps, for every value of the constants.      *)
(*                                                                         *)
(* Packets received: an ACK frame can always be made, and the ACK that was *)
(* promised is not forgotten (ReceivedPacketHandler).                      *)
(*                                                                         *)
(* Streams: the slice, the map and the counters agree, the limits hold,    *)
(* and each stream gets its turn (StreamsMap).                             *)
(***************************************************************************)
EXTENDS ReceivedPacketHandler, StreamsMap, FiniteSetTheorems, WellFoundedInduction,
        TLAPS

\* A nonempty set of naturals has a least element.
LEMMA LeastNatural ==
    ASSUME NEW S \in SUBSET Nat, S # {}
    PROVE  \E m \in S : \A x \in S : m <= x
<1>1. PICK m \in S : \A y \in S : ~(<<y, m>> \in OpToRel(<, Nat))
  BY NatLessThanWellFounded, WFMin, Zenon
<1>2. ASSUME NEW x \in S
      PROVE  m <= x
  <2>1. m \in Nat /\ x \in Nat
    BY Zenon
  <2>2. ~(x < m)
    BY <1>1, <2>1, Zenon DEF OpToRel
  <2> QED
    BY <2>1, <2>2
<1> QED
  BY <1>2, Zenon

\* A nonempty set of naturals with an upper bound has a largest element, which
\* is its Max.
LEMMA MaxOfBounded ==
    ASSUME NEW S \in SUBSET Nat, S # {}, NEW b \in Nat, \A x \in S : x <= b
    PROVE  Max(S) \in S /\ \A x \in S : x <= Max(S)
<1> DEFINE T == {b - x : x \in S}
<1>1. T \in SUBSET Nat /\ T # {}
  <2>1. \A x \in S : b - x \in Nat
    OBVIOUS
  <2> QED
    BY <2>1, Zenon
<1>2. PICK m \in T : \A y \in T : m <= y
  <2> HIDE DEF T
  <2> QED
    BY <1>1, LeastNatural, Zenon
<1>3. PICK x \in S : m = b - x
  BY Zenon
<1>4. \A y \in S : x >= y
  BY <1>2, <1>3
<1>5. \E z \in S : \A y \in S : z >= y
  BY <1>4, Zenon
<1> QED
  BY <1>5, Zenon DEF Max
-----------------------------------------------------------------------------
(***************************************************************************)
(* The inductive invariant.  ObservedOK is what makes GetAckFrame safe: a  *)
(* lower limit stays below the largest number observed, which is therefore *)
(* always tracked.  PromiseOK ties the set owed to the counter that        *)
(* maybeQueueAck compares.                                                 *)
(***************************************************************************)

ObservedOK ==
    /\ \A n \in arrived : n <= largestObserved
    /\ arrived = {} => /\ largestObserved = 0 /\ lowerLimit = 0
                       /\ ~ackQueued /\ ~ackAlarm
    /\ arrived # {} => largestObserved \in received /\ lowerLimit < largestObserved
    /\ lastAck.LargestAcked <= largestObserved

PromiseOK ==
    /\ Cardinality(owed) <= retransmittablePacketsReceivedSinceLastAck
    /\ ~ackQueued => retransmittablePacketsReceivedSinceLastAck <
                         RetransmittablePacketsBeforeAck
    /\ owed # {} => ackQueued \/ ackAlarm

HInv ==
    /\ HandlerTypeOK
    /\ ~sessionError => ObservedOK
    /\ PromiseOK
    /\ GapReported

-----------------------------------------------------------------------------

\* Between a number of S and a smaller one that is not in S, a maximal interval
\* of S starts.
LEMMA IntervalStarts ==
    ASSUME NEW S \in SUBSET Nat, NEW p \in S, NEW n \in Nat, n \notin S, n < p
    PROVE  \E m \in Starts(S) : n < m
<1> DEFINE T == {m \in Nat : m .. p \subseteq S}
<1>1. p \in T
  OBVIOUS
<1>2. PICK m \in T : \A x \in T : m <= x
  <2>1. T \in SUBSET Nat /\ T # {}
    BY <1>1, Zenon
  <2> HIDE DEF T
  <2> QED
    BY <2>1, LeastNatural, Zenon
<1>3. m \in Nat /\ m <= p /\ m .. p \subseteq S
  BY <1>1, <1>2, Zenon
<1>4. n < m
  BY <1>3
<1>5. m \in S
  BY <1>3
<1>6. m - 1 \notin S
  <2> SUFFICES ASSUME m - 1 \in S PROVE FALSE
    BY Zenon
  <2>1. m - 1 \in Nat
    BY <1>3, <1>4, Zenon
  <2>2. (m - 1) .. p \subseteq S
    BY <1>3
  <2>3. m - 1 \in T
    BY <2>1, <2>2, Zenon
  <2> QED
    BY <1>2, <1>3, <2>3
<1> QED
  BY <1>4, <1>5, <1>6, Zenon DEF Starts

\* The highest range starts above every number below it that is missing.
LEMMA HighestFirstAbove ==
    ASSUME NEW S \in SUBSET PacketNumbers, NEW p \in S, NEW n \in Nat,
           n \notin S, n < p
    PROVE  HighestFirst(S) > n /\ HighestFirst(S) \in Nat
<1>1. MaxPacketNumber \in Nat
  BY MaxPacketNumberAssumption, Zenon
<1>2. S \in SUBSET Nat /\ \A x \in S : x <= MaxPacketNumber
  BY <1>1 DEF PacketNumbers
<1>3. PICK m \in Starts(S) : n < m
  BY <1>2, IntervalStarts, Zenon
<1>4. Starts(S) \in SUBSET S
  BY Zenon DEF Starts
<1>5. Max(Starts(S)) \in Starts(S) /\ \A x \in Starts(S) : x <= Max(Starts(S))
  <2>1. Starts(S) \in SUBSET Nat /\ Starts(S) # {}
        /\ \A x \in Starts(S) : x <= MaxPacketNumber
    BY <1>2, <1>3, <1>4, Zenon
  <2> QED
    BY <1>1, <2>1, MaxOfBounded, Zenon
<1>6. HighestFirst(S) = Max(Starts(S))
  BY Zenon DEF HighestFirst
<1>7. Max(Starts(S)) \in Nat /\ m \in Nat /\ m <= Max(Starts(S))
  BY <1>2, <1>4, <1>5, Zenon
<1> QED
  BY <1>3, <1>6, <1>7

\* Adding at most one number to a set of owed packets.
LEMMA OwedGrowsByOne ==
    ASSUME NEW S, NEW T, NEW x, IsFiniteSet(S), T \subseteq S \cup {x}
    PROVE  /\ Cardinality(S) \in Nat /\ Cardinality(T) \in Nat
           /\ Cardinality(T) <= Cardinality(S) + 1
           /\ T \subseteq S => Cardinality(T) <= Cardinality(S)
<1>1. /\ IsFiniteSet(S \cup {x})
      /\ Cardinality(S \cup {x}) <= Cardinality(S) + 1
      /\ Cardinality(S) \in Nat
  BY FS_AddElement, FS_CardinalityType
<1>2. IsFiniteSet(T) /\ Cardinality(T) <= Cardinality(S \cup {x})
  <2>1. T \in SUBSET (S \cup {x})
    BY Zenon
  <2> QED
    BY <1>1, <2>1, FS_Subset, Zenon
<1>3. Cardinality(T) \in Nat /\ Cardinality(S \cup {x}) \in Nat
  BY <1>1, <1>2, FS_CardinalityType, Zenon
<1>4. T \subseteq S => Cardinality(T) <= Cardinality(S)
  BY FS_Subset, Zenon
<1> QED
  BY <1>1, <1>2, <1>3, <1>4

\* The set owed is finite.
LEMMA OwedFinite == HandlerTypeOK => IsFiniteSet(owed)
<1> SUFFICES ASSUME HandlerTypeOK PROVE IsFiniteSet(owed)
  BY Zenon
<1>1. IsFiniteSet(PacketNumbers)
  BY MaxPacketNumberAssumption, FS_Interval DEF PacketNumbers
<1>2. owed \in SUBSET PacketNumbers
  BY Zenon DEF HandlerTypeOK
<1> QED
  BY <1>1, <1>2, FS_Subset, Zenon

\* What handleFrames does for a STOP_WAITING frame, whose number is at most
\* that of a packet already observed.
LEMMA StopWaitingKeeps ==
    ASSUME HandlerTypeOK, NEW S \in SUBSET PacketNumbers,
           NEW observed \in PacketNumbers, observed \in S,
           lowerLimit < observed,
           NEW leastUnacked \in 0 .. observed, StopWaiting(S, leastUnacked)
    PROVE  /\ received' \in SUBSET S /\ observed \in received'
           /\ lowerLimit' \in 0 .. MaxPacketNumber /\ lowerLimit' < observed
           /\ limits' \in SUBSET (0 .. MaxPacketNumber)
<1>1. MaxPacketNumber \in Nat /\ observed \in 1 .. MaxPacketNumber
  BY MaxPacketNumberAssumption, Zenon DEF PacketNumbers
<1>2. lowerLimit \in 0 .. MaxPacketNumber /\ limits \in SUBSET (0 .. MaxPacketNumber)
  BY Zenon DEF HandlerTypeOK
<1>3. CASE leastUnacked = 0
  BY <1>2, <1>3, Zenon DEF StopWaiting
<1>4. CASE leastUnacked # 0
  <2>1. /\ lowerLimit' = leastUnacked - 1
        /\ received' = S \ (1 .. leastUnacked - 1)
        /\ limits' = limits \cup {leastUnacked - 1}
    BY <1>4, Zenon DEF StopWaiting
  <2>2. leastUnacked - 1 \in 0 .. MaxPacketNumber /\ leastUnacked - 1 < observed
    BY <1>1, <1>4
  <2> QED
    BY <1>1, <1>2, <2>1, <2>2
<1> QED
  BY <1>3, <1>4, Zenon

\* A packet above the lower limit is tracked and its ACK is provided for.
LEMMA ReceivedPacketPreserves ==
    ASSUME HInv, NEW pn \in PacketNumbers, NEW isRetransmittable \in BOOLEAN,
           NEW leastUnacked \in 0 .. pn,
           ReceivedPacket(pn, isRetransmittable, leastUnacked)
    PROVE  HInv'
<1> DEFINE S == received \cup {pn}
           packets == packetsReceivedSinceLastAck + 1
           retransmittable == retransmittablePacketsReceivedSinceLastAck +
                                  (IF isRetransmittable THEN 1 ELSE 0)
<1> USE DEF HInv
<1>1. /\ MaxPacketNumber \in Nat /\ pn \in 1 .. MaxPacketNumber /\ pn \in Nat
      /\ RetransmittablePacketsBeforeAck \in Nat \ {0}
  BY MaxPacketNumberAssumption, ReceivedPacketHandlerAssumption DEF PacketNumbers
<1>2. /\ ~sessionError /\ ~sessionError' /\ ObservedOK
      /\ lastAck' = lastAck /\ arrived' = arrived \cup {pn}
      /\ pn > lowerLimit
      /\ largestObserved' = (IF pn > largestObserved THEN pn ELSE largestObserved)
  BY Zenon DEF ReceivedPacket
<1>3. /\ largestObserved \in 0 .. MaxPacketNumber
      /\ largestObserved' \in PacketNumbers
      /\ lowerLimit \in 0 .. MaxPacketNumber
      /\ pn <= largestObserved' /\ largestObserved <= largestObserved'
      /\ lowerLimit < largestObserved'
      /\ arrived \in SUBSET PacketNumbers
  BY <1>1, <1>2 DEF HandlerTypeOK, ObservedOK, PacketNumbers
<1>4. S \in SUBSET arrived' /\ S \in SUBSET PacketNumbers /\ largestObserved' \in S
  BY <1>1, <1>2, <1>3, Zenon DEF HandlerTypeOK, ObservedOK
<1>5. leastUnacked \in 0 .. largestObserved'
  BY <1>1, <1>3 DEF PacketNumbers
<1>6. /\ received' \in SUBSET S /\ largestObserved' \in received'
      /\ lowerLimit' \in 0 .. MaxPacketNumber /\ lowerLimit' < largestObserved'
      /\ limits' \in SUBSET (0 .. MaxPacketNumber)
  <2>1. StopWaiting(S, leastUnacked)
    BY Zenon DEF ReceivedPacket
  <2>2. ASSUME NEW o \in PacketNumbers, o = largestObserved'
        PROVE  /\ received' \in SUBSET S /\ o \in received'
               /\ lowerLimit' \in 0 .. MaxPacketNumber /\ lowerLimit' < o
               /\ limits' \in SUBSET (0 .. MaxPacketNumber)
    <3>1. o \in S /\ lowerLimit < o /\ leastUnacked \in 0 .. o
      BY <1>3, <1>4, <1>5, <2>2, Zenon
    <3> HIDE DEF S
    <3> QED
      BY <1>4, <2>1, <3>1, StopWaitingKeeps, Zenon
  <2> QED
    BY <1>3, <2>2, Zenon
<1>7. /\ packetsReceivedSinceLastAck' = packets
      /\ retransmittablePacketsReceivedSinceLastAck' = retransmittable
      /\ ackQueued' = queuesAck(pn, S, isRetransmittable, packets, retransmittable)
      /\ ackAlarm' = (~ackQueued' /\ (ackAlarm \/ isRetransmittable))
  BY Zenon DEF ReceivedPacket, maybeQueueAck
<1>8. /\ packetsReceivedSinceLastAck' \in Nat
      /\ retransmittablePacketsReceivedSinceLastAck' \in
             0 .. packetsReceivedSinceLastAck'
      /\ retransmittablePacketsReceivedSinceLastAck \in Nat
  BY <1>7 DEF HandlerTypeOK
<1>9. ackQueued' \in BOOLEAN /\ ackAlarm' \in BOOLEAN
  BY <1>7, Zenon DEF queuesAck
<1>10. owed' = (owed \cup {n \in {pn} : isRetransmittable}) \cap received'
  BY Zenon DEF ReceivedPacket
<1>11. HandlerTypeOK'
  <2>1. lastAck' \in [LargestAcked : 0 .. MaxPacketNumber, packets : SUBSET arrived']
    BY <1>2, Zenon DEF HandlerTypeOK
  <2>2. received' \in SUBSET arrived' /\ arrived' \in SUBSET PacketNumbers
    BY <1>2, <1>3, <1>4, <1>6, Zenon
  <2>3. largestObserved' \in 0 .. MaxPacketNumber /\ owed' \in SUBSET received'
    BY <1>1, <1>3, <1>10 DEF PacketNumbers
  <2>4. sessionError' \in BOOLEAN
    BY Zenon DEF ReceivedPacket, HandlerTypeOK
  <2> QED
    BY <1>6, <1>8, <1>9, <2>1, <2>2, <2>3, <2>4, Zenon DEF HandlerTypeOK
<1>12. ObservedOK'
  <2>1. \A n \in arrived' : n <= largestObserved'
    <3>1. \A n \in arrived : n \in Nat /\ n <= largestObserved
      BY <1>1, <1>2, <1>3 DEF ObservedOK, PacketNumbers
    <3> QED
      BY <1>1, <1>2, <1>3, <3>1
  <2>2. lastAck'.LargestAcked <= largestObserved'
    <3>1. lastAck.LargestAcked \in Nat /\ lastAck.LargestAcked <= largestObserved
      BY <1>1, <1>2 DEF ObservedOK, HandlerTypeOK
    <3> QED
      BY <1>1, <1>2, <1>3, <3>1 DEF PacketNumbers
  <2> QED
    BY <1>2, <1>6, <2>1, <2>2, Zenon DEF ObservedOK
<1>13. PromiseOK'
  <2>0. IsFiniteSet(owed)
    BY OwedFinite, Zenon
  <2>1. owed' \subseteq owed \cup {pn} /\ (~isRetransmittable => owed' \subseteq owed)
    BY <1>10, Zenon
  <2>2. /\ Cardinality(owed) \in Nat /\ Cardinality(owed') \in Nat
        /\ Cardinality(owed') <= Cardinality(owed) + 1
        /\ ~isRetransmittable => Cardinality(owed') <= Cardinality(owed)
    BY <2>0, <2>1, OwedGrowsByOne, Zenon
  <2>3. Cardinality(owed) <= retransmittablePacketsReceivedSinceLastAck
    BY Zenon DEF PromiseOK
  <2>4. Cardinality(owed') <= retransmittablePacketsReceivedSinceLastAck'
    BY <1>7, <1>8, <2>2, <2>3
  <2>5. ~ackQueued' => retransmittablePacketsReceivedSinceLastAck' <
                           RetransmittablePacketsBeforeAck
    <3> SUFFICES ASSUME ~ackQueued'
                 PROVE  retransmittable < RetransmittablePacketsBeforeAck
      BY <1>7, Zenon
    <3>1. ~ackQueued /\ ~(isRetransmittable
                          /\ retransmittable >= RetransmittablePacketsBeforeAck)
      BY <1>7, Zenon DEF queuesAck
    <3>2. CASE isRetransmittable
      BY <1>1, <1>8, <3>1, <3>2
    <3>3. CASE ~isRetransmittable
      BY <1>1, <1>8, <3>1, <3>3 DEF PromiseOK
    <3> QED
      BY <3>2, <3>3, Zenon
  <2>6. owed' # {} => ackQueued' \/ ackAlarm'
    <3> SUFFICES ASSUME owed' # {}, ~ackQueued' PROVE ackAlarm'
      BY Zenon
    <3>1. ~ackQueued
      BY <1>7, Zenon DEF queuesAck
    <3>2. owed # {} \/ isRetransmittable
      BY <2>1, Zenon
    <3>3. ackAlarm \/ isRetransmittable
      BY <3>1, <3>2, Zenon DEF PromiseOK
    <3> QED
      BY <1>7, <3>3, Zenon
  <2> QED
    BY <2>4, <2>5, <2>6, Zenon DEF PromiseOK
<1>14. GapReported'
  <2> SUFFICES ASSUME lastAck # NoAck, ~ackQueued',
                      NEW n \in lastAck.LargestAcked + 1 .. largestObserved',
                      n \notin arrived'
               PROVE  FALSE
    BY <1>2, Zenon DEF GapReported
  <2>0. lastAck.LargestAcked \in Nat
    BY <1>1 DEF HandlerTypeOK
  <2>1. n \in Nat /\ n > lastAck.LargestAcked /\ n <= largestObserved'
    BY <1>1, <1>3, <2>0 DEF PacketNumbers
  <2>2. ~ackQueued /\ ~(HighestFirst(S) > lastAck.LargestAcked)
    BY <1>7, Zenon DEF queuesAck
  <2>3. n \notin S /\ n # largestObserved'
    BY <1>4, Zenon
  <2>4. HighestFirst(S) > n /\ HighestFirst(S) \in Nat
    <3>1. ASSUME NEW o \in S, o = largestObserved'
          PROVE  HighestFirst(S) > n /\ HighestFirst(S) \in Nat
      <4>1. n < o
        BY <1>3, <2>1, <2>3, <3>1 DEF PacketNumbers
      <4> HIDE DEF S
      <4> QED
        BY <1>4, <2>1, <2>3, <4>1, HighestFirstAbove, Zenon
    <3> QED
      BY <1>4, <3>1, Zenon
  <2> QED
    BY <2>0, <2>1, <2>2, <2>4
<1> QED
  BY <1>2, <1>11, <1>12, <1>13, <1>14, Zenon

\* A packet at or below the lower limit can only move the limit.
LEMMA BelowLimitPreserves ==
    ASSUME HInv, NEW pn \in PacketNumbers, NEW leastUnacked \in 0 .. pn,
           ReceivedPacketBelowLimit(pn, leastUnacked)
    PROVE  HInv'
<1> USE DEF HInv
<1>1. MaxPacketNumber \in Nat /\ pn \in 1 .. MaxPacketNumber /\ pn \in Nat
  BY MaxPacketNumberAssumption DEF PacketNumbers
<1>2. /\ ~sessionError /\ ObservedOK /\ pn <= lowerLimit
      /\ arrived' = arrived \cup {pn} /\ owed' = owed \cap received'
      /\ StopWaiting(received, leastUnacked)
      /\ UNCHANGED <<counters, ackQueued, ackAlarm, lastAck, sessionError>>
  BY Zenon DEF ReceivedPacketBelowLimit
<1>3. /\ largestObserved \in 0 .. MaxPacketNumber
      /\ lowerLimit \in 0 .. MaxPacketNumber
      /\ received \in SUBSET PacketNumbers /\ arrived \in SUBSET PacketNumbers
  BY Zenon DEF HandlerTypeOK
<1>4. largestObserved \in received /\ lowerLimit < largestObserved
  BY <1>1, <1>2, <1>3 DEF ObservedOK
<1>5. largestObserved' = largestObserved /\ pn <= largestObserved
  BY <1>1, <1>2, <1>3, <1>4 DEF ReceivedPacketBelowLimit
<1>6. /\ received' \in SUBSET received /\ largestObserved \in received'
      /\ lowerLimit' \in 0 .. MaxPacketNumber /\ lowerLimit' < largestObserved
      /\ limits' \in SUBSET (0 .. MaxPacketNumber)
  <2>1. largestObserved \in PacketNumbers /\ leastUnacked \in 0 .. largestObserved
    BY <1>1, <1>3, <1>4, <1>5
  <2> QED
    BY <1>2, <1>3, <1>4, <2>1, StopWaitingKeeps, Zenon
<1>7. HandlerTypeOK'
  BY <1>1, <1>2, <1>5, <1>6, Zenon DEF HandlerTypeOK, counters, PacketNumbers
<1>8. ObservedOK'
  BY <1>1, <1>2, <1>5, <1>6, Zenon DEF ObservedOK
<1>9. PromiseOK'
  <2>1. IsFiniteSet(owed) /\ owed' \subseteq owed
    BY <1>2, OwedFinite, Zenon
  <2>2. /\ Cardinality(owed) \in Nat /\ Cardinality(owed') \in Nat
        /\ Cardinality(owed') <= Cardinality(owed)
    BY <2>1, OwedGrowsByOne, Zenon
  <2>3. retransmittablePacketsReceivedSinceLastAck \in Nat
    BY DEF HandlerTypeOK
  <2> QED
    BY <1>2, <2>1, <2>2, <2>3 DEF PromiseOK, counters
<1>10. GapReported'
  BY <1>2, <1>5, Zenon DEF GapReported
<1> QED
  BY <1>7, <1>8, <1>9, <1>10, Zenon

\* Too many ranges: the session is closed and nothing is promised any more.
LEMMA RejectedPreserves ==
    ASSUME HInv, NEW pn \in PacketNumbers, ReceivedPacketRejected(pn)
    PROVE  HInv'
<1> USE DEF HInv
<1>1. MaxPacketNumber \in Nat /\ pn \in 1 .. MaxPacketNumber
  BY MaxPacketNumberAssumption, Zenon DEF PacketNumbers
<1>2. /\ sessionError' = TRUE
      /\ largestObserved' \in 0 .. MaxPacketNumber
      /\ UNCHANGED <<lowerLimit, received, counters, ackQueued, ackAlarm,
                     lastAck, history>>
  BY <1>1 DEF ReceivedPacketRejected, HandlerTypeOK
<1>3. HandlerTypeOK'
  BY <1>2, Zenon DEF HandlerTypeOK, counters, history
<1>4. PromiseOK'
  BY <1>2, Zenon DEF PromiseOK, counters, history
<1> QED
  BY <1>2, <1>3, <1>4, Zenon DEF GapReported

\* An ACK frame covers everything that is owed.
LEMMA GetAckFramePreserves ==
    ASSUME HInv, GetAckFrame
    PROVE  HInv'
<1> USE DEF HInv
<1>1. /\ ~sessionError /\ ObservedOK /\ ackQueued' = FALSE /\ ackAlarm' = FALSE
      /\ lastAck' = [LargestAcked |-> largestObserved, packets |-> received]
      /\ packetsReceivedSinceLastAck' = 0
      /\ retransmittablePacketsReceivedSinceLastAck' = 0
      /\ owed' = owed \ received
      /\ UNCHANGED <<largestObserved, lowerLimit, received, sessionError,
                     arrived, limits>>
  BY Zenon DEF GetAckFrame
<1>2. owed' = {}
  BY <1>1, Zenon DEF HandlerTypeOK
<1>3. HandlerTypeOK'
  <2>1. lastAck' \in [LargestAcked : 0 .. MaxPacketNumber, packets : SUBSET arrived']
    BY <1>1, Zenon DEF HandlerTypeOK
  <2>2. ackQueued' \in BOOLEAN /\ ackAlarm' \in BOOLEAN
    BY <1>1, Zenon
  <2>3. retransmittablePacketsReceivedSinceLastAck' \in
            0 .. packetsReceivedSinceLastAck'
    BY <1>1
  <2> QED
    BY <1>1, <1>2, <2>1, <2>2, <2>3, Zenon DEF HandlerTypeOK
<1>4. ObservedOK'
  <2>1. arrived # {}
    BY <1>1, Zenon DEF ObservedOK, GetAckFrame
  <2>2. lastAck'.LargestAcked = largestObserved /\ largestObserved \in Nat
    BY <1>1, MaxPacketNumberAssumption DEF HandlerTypeOK
  <2> QED
    BY <1>1, <2>1, <2>2 DEF ObservedOK
<1>5. PromiseOK'
  <2>1. Cardinality(owed') = 0
    BY <1>2, FS_EmptySet, Zenon
  <2>2. 0 < RetransmittablePacketsBeforeAck
    BY ReceivedPacketHandlerAssumption
  <2> QED
    BY <1>1, <1>2, <2>1, <2>2 DEF PromiseOK
<1>6. GapReported'
  <2>1. lastAck'.LargestAcked = largestObserved' /\ largestObserved' \in Nat
    BY <1>1, MaxPacketNumberAssumption DEF HandlerTypeOK
  <2>2. \A n \in lastAck'.LargestAcked + 1 .. largestObserved' : FALSE
    <3>1. \A m \in Nat : \A n \in m + 1 .. m : FALSE
      OBVIOUS
    <3> QED
      BY <2>1, <3>1, Zenon
  <2> QED
    BY <2>2, Zenon DEF GapReported
<1> QED
  BY <1>1, <1>3, <1>4, <1>5, <1>6, Zenon

-----------------------------------------------------------------------------

\* HInv holds initially.
LEMMA HandlerInitEstablishes == HandlerInit => HInv
<1> SUFFICES ASSUME HandlerInit PROVE HInv
  BY Zenon
<1>1. HandlerTypeOK
  <2>1. lastAck \in [LargestAcked : 0 .. MaxPacketNumber, packets : SUBSET arrived]
    BY MaxPacketNumberAssumption DEF HandlerInit, NoAck
  <2>2. ackQueued \in BOOLEAN /\ ackAlarm \in BOOLEAN /\ sessionError \in BOOLEAN
    BY Zenon DEF HandlerInit
  <2> QED
    BY <2>1, <2>2, MaxPacketNumberAssumption
    DEF HandlerInit, Init, HandlerTypeOK
<1>2. ObservedOK
  BY DEF HandlerInit, Init, ObservedOK, NoAck
<1>3. PromiseOK
  BY FS_EmptySet, ReceivedPacketHandlerAssumption DEF HandlerInit, PromiseOK
<1>4. GapReported
  BY Zenon DEF HandlerInit, GapReported
<1> QED
  BY <1>1, <1>2, <1>3, <1>4, Zenon DEF HInv

\* Every step of the handler preserves HInv.
LEMMA HandlerNextPreserves == HInv /\ [HandlerNext]_handlerVars => HInv'
<1> SUFFICES ASSUME HInv, [HandlerNext]_handlerVars PROVE HInv'
  BY Zenon
<1>1. CASE GetAckFrame
  BY <1>1, GetAckFramePreserves, Zenon
<1>2. ASSUME NEW pn \in PacketNumbers, NEW isRetransmittable \in BOOLEAN,
             NEW leastUnacked \in 0 .. pn,
             Receive(pn, isRetransmittable, leastUnacked)
      PROVE  HInv'
  BY <1>2, ReceivedPacketPreserves, BelowLimitPreserves, RejectedPreserves, Zenon
  DEF Receive
<1>3. CASE UNCHANGED handlerVars
  BY <1>3, Zenon
  DEF handlerVars, counters, history, HInv, HandlerTypeOK, ObservedOK,
      PromiseOK, GapReported
<1> QED
  BY <1>1, <1>2, <1>3, Zenon DEF HandlerNext

\* HInv is an invariant of the handler.
THEOREM HandlerInvariant == HandlerSpec => []HInv
BY HandlerInitEstablishes, HandlerNextPreserves, PTL DEF HandlerSpec

\* Type correctness of the handler's state.
THEOREM HandlerTypeCorrect == HandlerSpec => []HandlerTypeOK
<1>1. HInv => HandlerTypeOK
  BY Zenon DEF HInv
<1> QED
  BY <1>1, HandlerInvariant, PTL

\* GetAckFrame never indexes an empty list of ranges, and its LargestAcked is
\* the end of the highest range.
THEOREM GetAckFrameIsSafe == HandlerSpec => []GetAckFrameSafe
<1>1. HInv => GetAckFrameSafe
  BY Zenon DEF HInv, HandlerTypeOK, ObservedOK, GetAckFrameSafe
<1> QED
  BY <1>1, HandlerInvariant, PTL

\* A retransmittable packet keeps an ACK queued or the alarm set until an ACK
\* covers it.
THEOREM AckIsPromised == HandlerSpec => []AckPromise
<1>1. HInv => AckPromise
  <2> SUFFICES ASSUME HInv, owed # {}, ~ackQueued
               PROVE  /\ ackAlarm
                      /\ Cardinality(owed) < RetransmittablePacketsBeforeAck
    BY Zenon DEF AckPromise
  <2>1. Cardinality(owed) \in Nat
    BY OwedFinite, FS_CardinalityType, Zenon DEF HInv
  <2>2. retransmittablePacketsReceivedSinceLastAck \in Nat
        /\ RetransmittablePacketsBeforeAck \in Nat
    BY ReceivedPacketHandlerAssumption DEF HInv, HandlerTypeOK
  <2> QED
    BY <2>1, <2>2 DEF HInv, PromiseOK
<1> QED
  BY <1>1, HandlerInvariant, PTL

\* A gap above the last ACK is never left unreported.
THEOREM GapIsReported == HandlerSpec => []GapReported
<1>1. HInv => GapReported
  BY Zenon DEF HInv
<1> QED
  BY <1>1, HandlerInvariant, PTL
-----------------------------------------------------------------------------
(* The table of the streams.                                               *)

\* The sequence q holds each element of S once and nothing else.
Enumerates(q, S) ==
    /\ q \in Seq(Nat)
    /\ S = {q[i] : i \in DOMAIN q}
    /\ \A i, j \in DOMAIN q : q[i] = q[j] => i = j

Even(S) == {id \in S : id % 2 = 0}
Odd(S) == {id \in S : id % 2 = 1}

\* The slice of open streams enumerates the map, and the counters count.
TableOK ==
    /\ Enumerates(openStreams, streams)
    /\ numOutgoingStreams = Cardinality(Even(streams))
    /\ numIncomingStreams = Cardinality(Odd(streams))

\* The next id to open, on either side, was never open before: nothing else keeps
\* the slice from holding a stream twice.
IdsOK ==
    /\ perspective \in {"server", "client"}
    /\ nextStream \in Nat /\ Mine(nextStream)
    /\ highestStreamOpenedByPeer \in Nat
    /\ highestStreamOpenedByPeer % 2 = IF perspective = "client" THEN 0 ELSE 1
    /\ \A id \in streams : IF Mine(id) THEN id < nextStream
                                       ELSE id <= highestStreamOpenedByPeer

\* The server never goes beyond the limit of the peer.
ServerLimited ==
    perspective = "server" => numOutgoingStreams <= MaxOutgoingStreams

TInv == TableOK /\ IdsOK /\ ServerLimited

-----------------------------------------------------------------------------
(* Sequences without repetitions.                                          *)

LEMMA IntervalSize ==
    ASSUME NEW n \in Nat
    PROVE  IsFiniteSet(1 .. n) /\ Cardinality(1 .. n) = n
<1>1. 1 \in Int /\ n \in Int
  OBVIOUS
<1>2. /\ IsFiniteSet(1 .. n)
      /\ Cardinality(1 .. n) = IF 1 > n THEN 0 ELSE n - 1 + 1
  BY <1>1, FS_Interval, Zenon
<1> QED
  BY <1>2

\* A slice without repetitions is as long as the set of its elements is large.
LEMMA EnumerationSize ==
    ASSUME NEW q, NEW S, Enumerates(q, S)
    PROVE  /\ S \in SUBSET Nat
           /\ IsFiniteSet(S)
           /\ Cardinality(S) = Len(q)
<1>1. Len(q) \in Nat /\ DOMAIN q = 1 .. Len(q) /\ \A i \in DOMAIN q : q[i] \in Nat
  BY DEF Enumerates
<1>2. q \in Bijection(1 .. Len(q), S)
  <2>1. q \in [1 .. Len(q) -> S]
    BY <1>1 DEF Enumerates
  <2>2. \A a, b \in 1 .. Len(q) : q[a] = q[b] => a = b
    BY <1>1, Zenon DEF Enumerates
  <2>3. \A t \in S : \E a \in 1 .. Len(q) : q[a] = t
    BY <1>1, Zenon DEF Enumerates
  <2> QED
    BY <2>1, <2>2, <2>3, Zenon DEF Bijection, Injection, Surjection, IsInjective
<1>3. ExistsBijection(1 .. Len(q), S)
  BY <1>2, Zenon DEF ExistsBijection
<1>4. IsFiniteSet(1 .. Len(q)) /\ Cardinality(1 .. Len(q)) = Len(q)
  BY <1>1, IntervalSize, Zenon
<1> QED
  BY <1>1, <1>3, <1>4, FS_Bijection DEF Enumerates

\* The concatenation of two lists.
LEMMA Joined ==
    ASSUME NEW S, NEW a \in Seq(S), NEW b \in Seq(S)
    PROVE  /\ a \o b \in Seq(S) /\ Len(a \o b) = Len(a) + Len(b)
           /\ \A j \in 1 .. Len(a) + Len(b) :
                 (a \o b)[j] = IF j <= Len(a) THEN a[j] ELSE b[j - Len(a)]
OBVIOUS

\* Appending new elements to the slice.
LEMMA ConcatEnumerates ==
    ASSUME NEW q, NEW S, Enumerates(q, S), NEW r, NEW T, Enumerates(r, T),
           S \cap T = {}
    PROVE  Enumerates(q \o r, S \cup T)
<1> DEFINE qr == q \o r
<1>1. q \in Seq(Nat) /\ r \in Seq(Nat)
  BY Zenon DEF Enumerates
<1>2. /\ qr \in Seq(Nat) /\ Len(qr) = Len(q) + Len(r)
      /\ DOMAIN q = 1 .. Len(q) /\ DOMAIN r = 1 .. Len(r)
      /\ DOMAIN qr = 1 .. Len(q) + Len(r)
      /\ Len(q) \in Nat /\ Len(r) \in Nat
  BY <1>1
<1>3. /\ \A i \in 1 .. Len(q) : qr[i] = q[i]
      /\ \A i \in 1 .. Len(r) : qr[Len(q) + i] = r[i]
  BY <1>1
<1>4. \A i \in 1 .. Len(q) + Len(r) :
         i \in 1 .. Len(q) \/ \E k \in 1 .. Len(r) : i = Len(q) + k
  <2> TAKE i \in 1 .. Len(q) + Len(r)
  <2>1. CASE i <= Len(q)
    BY <1>2, <2>1
  <2>2. CASE i > Len(q)
    <3>1. i - Len(q) \in 1 .. Len(r) /\ i = Len(q) + (i - Len(q))
      BY <1>2, <2>2
    <3> QED
      BY <3>1, Zenon
  <2> QED
    BY <1>2, <2>1, <2>2
<1> HIDE DEF qr
<1>5. S \cup T = {qr[i] : i \in DOMAIN qr}
  <2>1. ASSUME NEW x \in S \cup T
        PROVE  \E i \in DOMAIN qr : x = qr[i]
    <3>1. CASE x \in S
      <4>1. PICK i \in 1 .. Len(q) : x = q[i]
        BY <1>2, <3>1, Zenon DEF Enumerates
      <4> QED
        BY <1>2, <1>3, <4>1
    <3>2. CASE x \in T
      <4>1. PICK i \in 1 .. Len(r) : x = r[i]
        BY <1>2, <3>2, Zenon DEF Enumerates
      <4>2. Len(q) + i \in DOMAIN qr
        BY <1>2
      <4> QED
        BY <1>3, <4>1, <4>2, Zenon
    <3> QED
      BY <3>1, <3>2, Zenon
  <2>2. ASSUME NEW i \in DOMAIN qr
        PROVE  qr[i] \in S \cup T
    <3>1. \A k \in 1 .. Len(q) : qr[k] \in S
      BY <1>2, <1>3, Zenon DEF Enumerates
    <3>2. \A k \in 1 .. Len(r) : qr[Len(q) + k] \in T
      BY <1>2, <1>3, Zenon DEF Enumerates
    <3> QED
      BY <1>2, <1>4, <3>1, <3>2, Zenon
  <2> QED
    BY <2>1, <2>2
<1>6. ASSUME NEW i \in DOMAIN qr, NEW j \in DOMAIN qr, qr[i] = qr[j]
      PROVE  i = j
  <2>1. CASE i \in 1 .. Len(q) /\ j \in 1 .. Len(q)
    BY <1>2, <1>3, <1>6, <2>1, Zenon DEF Enumerates
  <2>2. ASSUME NEW k \in 1 .. Len(r), NEW l \in 1 .. Len(r),
               i = Len(q) + k, j = Len(q) + l
        PROVE  i = j
    BY <1>2, <1>3, <1>6, <2>2, Zenon DEF Enumerates
  <2>3. ASSUME NEW x \in 1 .. Len(q), NEW k \in 1 .. Len(r), qr[x] = qr[Len(q) + k]
        PROVE  FALSE
    <3>1. q[x] \in S /\ r[k] \in T
      BY <1>2, Zenon DEF Enumerates
    <3> QED
      BY <1>3, <2>3, <3>1, Zenon
  <2> QED
    BY <1>2, <1>4, <1>6, <2>1, <2>2, <2>3, Zenon
<1> QED
  BY <1>2, <1>5, <1>6, Zenon DEF Enumerates, qr

LEMMA SingletonEnumerates ==
    ASSUME NEW x \in Nat
    PROVE  Enumerates(<<x>>, {x})
BY DEF Enumerates

\* Taking position i out of the slice takes its element out of the set.
LEMMA RemoveAtEnumerates ==
    ASSUME NEW q, NEW S, Enumerates(q, S), NEW i \in DOMAIN q
    PROVE  Enumerates(RemoveAt(q, i), S \ {q[i]})
<1> DEFINE n == Len(q)
           r == RemoveAt(q, i)
           old(k) == IF k < i THEN k ELSE k + 1
<1>1. q \in Seq(Nat) /\ n \in Nat /\ DOMAIN q = 1 .. n /\ i \in 1 .. n
  BY DEF Enumerates
<1>2. /\ r \in Seq(Nat) /\ Len(r) = n - 1 /\ DOMAIN r = 1 .. n - 1
      /\ \A k \in 1 .. n - 1 : r[k] = q[old(k)]
  <2> DEFINE a == SubSeq(q, 1, i - 1)
             b == SubSeq(q, i + 1, n)
  <2>1. /\ a \in Seq(Nat) /\ Len(a) = i - 1
        /\ \A k \in 1 .. i - 1 : a[k] = q[k]
    BY <1>1
  <2>2. /\ b \in Seq(Nat) /\ Len(b) = n - i
        /\ \A k \in 1 .. n - i : b[k] = q[k + i]
    <3>1. /\ i + 1 \in Int /\ n \in Int
          /\ \A k \in i + 1 .. n : q[k] \in Nat
      BY <1>1
    <3>2. /\ b \in Seq(Nat)
          /\ Len(b) = IF i + 1 <= n THEN n - (i + 1) + 1 ELSE 0
          /\ \A k \in 1 .. n - (i + 1) + 1 : b[k] = q[(i + 1) + k - 1]
      BY <3>1
    <3>3. n - (i + 1) + 1 = n - i /\ \A k \in 1 .. n - i : (i + 1) + k - 1 = k + i
      BY <1>1
    <3>4. Len(b) = n - i
      BY <1>1, <3>2
    <3>5. ASSUME NEW k \in 1 .. n - i
          PROVE  b[k] = q[k + i]
      <4>1. k \in 1 .. n - (i + 1) + 1 /\ (i + 1) + k - 1 = k + i
        BY <3>3, Zenon
      <4> HIDE DEF b, n
      <4> QED
        BY <3>2, <4>1, Zenon
    <3> QED
      BY <3>2, <3>4, <3>5, Zenon
  <2>3. r = a \o b
    BY Zenon DEF RemoveAt
  <2> HIDE DEF a, b, r, n
  <2>4. /\ a \o b \in Seq(Nat) /\ Len(a \o b) = n - 1
        /\ DOMAIN (a \o b) = 1 .. n - 1
        /\ \A k \in 1 .. n - 1 :
               (a \o b)[k] = IF k <= i - 1 THEN a[k] ELSE b[k - (i - 1)]
    <3>1. /\ a \o b \in Seq(Nat)
          /\ Len(a \o b) = Len(a) + Len(b)
          /\ \A k \in 1 .. Len(a) + Len(b) :
                 (a \o b)[k] = IF k <= Len(a) THEN a[k] ELSE b[k - Len(a)]
      BY <2>1, <2>2, Joined, Zenon
    <3>2. Len(a) + Len(b) = n - 1
      BY <1>1, <2>1, <2>2
    <3>3. DOMAIN (a \o b) = 1 .. Len(a \o b)
      BY <3>1
    <3> QED
      BY <2>1, <3>1, <3>2, <3>3, Zenon
  <2>5. ASSUME NEW k \in 1 .. n - 1
        PROVE  (a \o b)[k] = q[old(k)]
    <3>1. CASE k < i
      <4>1. k <= i - 1 /\ k \in 1 .. i - 1 /\ old(k) = k
        BY <1>1, <3>1
      <4> QED
        BY <2>1, <2>4, <4>1, Zenon
    <3>2. CASE k >= i
      <4>1. (a \o b)[k] = b[k - (i - 1)] /\ k - (i - 1) \in 1 .. n - i
        <5>1. ~ (k <= i - 1) /\ k - (i - 1) \in 1 .. n - i
          BY <1>1, <3>2
        <5> QED
          BY <2>4, <5>1, Zenon
      <4>2. b[k - (i - 1)] = q[(k - (i - 1)) + i]
        BY <2>2, <4>1, Zenon
      <4>3. (k - (i - 1)) + i = old(k)
        BY <1>1, <3>2
      <4> QED
        BY <4>1, <4>2, <4>3, Zenon
    <3>3. k < i \/ k >= i
      BY <1>1
    <3> QED
      BY <3>1, <3>2, <3>3, Zenon
  <2> QED
    BY <2>3, <2>4, <2>5, Zenon
<1>3. /\ \A k \in 1 .. n - 1 : old(k) \in (1 .. n) \ {i}
      /\ \A k, l \in 1 .. n - 1 : old(k) = old(l) => k = l
      /\ \A j \in (1 .. n) \ {i} : \E k \in 1 .. n - 1 : j = old(k)
  <2>1. ASSUME NEW j \in (1 .. n) \ {i}
        PROVE  \E k \in 1 .. n - 1 : j = old(k)
    <3>1. CASE j < i
      BY <1>1, <3>1
    <3>2. CASE j > i
      <4>1. j - 1 \in 1 .. n - 1 /\ j = old(j - 1)
        BY <1>1, <3>2
      <4> QED
        BY <4>1, Zenon
    <3> QED
      BY <1>1, <3>1, <3>2
  <2>2. \A k \in 1 .. n - 1 : old(k) \in (1 .. n) \ {i}
    BY <1>1
  <2>3. \A k, l \in 1 .. n - 1 : old(k) = old(l) => k = l
    BY <1>1
  <2> QED
    BY <2>1, <2>2, <2>3, Zenon
<1> HIDE DEF r, n, old
<1>4. S \ {q[i]} = {r[k] : k \in DOMAIN r}
  <2>1. ASSUME NEW x \in S, x # q[i]
        PROVE  \E k \in DOMAIN r : x = r[k]
    <3>1. PICK j \in 1 .. n : x = q[j]
      BY <1>1, Zenon DEF Enumerates
    <3> QED
      BY <1>2, <1>3, <2>1, <3>1, Zenon
  <2>2. ASSUME NEW k \in DOMAIN r
        PROVE  r[k] \in S \ {q[i]}
    BY <1>1, <1>2, <1>3 DEF Enumerates
  <2> QED
    BY <2>1, <2>2, Zenon
<1>5. \A k, l \in DOMAIN r : r[k] = r[l] => k = l
  BY <1>1, <1>2, <1>3 DEF Enumerates
<1> QED
  BY <1>2, <1>4, <1>5, Zenon DEF Enumerates, r

-----------------------------------------------------------------------------
(* Counting by parity.                                                     *)

\* A counter goes up by the number of streams of its parity that are opened.
LEMMA CountAdded ==
    ASSUME NEW S \in SUBSET Nat, IsFiniteSet(S),
           NEW T \in SUBSET Nat, IsFiniteSet(T), S \cap T = {}
    PROVE  /\ (\A t \in T : t % 2 = 0) =>
                /\ Cardinality(Even(S \cup T)) = Cardinality(Even(S)) + Cardinality(T)
                /\ Odd(S \cup T) = Odd(S)
           /\ (\A t \in T : t % 2 = 1) =>
                /\ Cardinality(Odd(S \cup T)) = Cardinality(Odd(S)) + Cardinality(T)
                /\ Even(S \cup T) = Even(S)
<1>1. ASSUME NEW P \in SUBSET S
      PROVE  Cardinality(P \cup T) = Cardinality(P) + Cardinality(T)
  <2>1. IsFiniteSet(P) /\ P \cap T = {}
    BY FS_Subset, Zenon
  <2>2. Cardinality(P \cup T) = Cardinality(P) + Cardinality(T) - Cardinality({})
    BY <2>1, FS_Union, Zenon
  <2> QED
    BY <2>1, <2>2, FS_EmptySet, FS_CardinalityType
<1>2. ASSUME \A t \in T : t % 2 = 0
      PROVE  Even(S \cup T) = Even(S) \cup T /\ Odd(S \cup T) = Odd(S)
  <2>1. \A t \in T : t % 2 # 1
    BY <1>2
  <2> QED
    BY <1>2, <2>1, Zenon DEF Even, Odd
<1>3. ASSUME \A t \in T : t % 2 = 1
      PROVE  Odd(S \cup T) = Odd(S) \cup T /\ Even(S \cup T) = Even(S)
  <2>1. \A t \in T : t % 2 # 0
    BY <1>3
  <2> QED
    BY <1>3, <2>1, Zenon DEF Even, Odd
<1>4. Even(S) \in SUBSET S /\ Odd(S) \in SUBSET S
  BY Zenon DEF Even, Odd
<1> QED
  BY <1>1, <1>2, <1>3, <1>4, Zenon

\* The counter that RemoveStream decrements is the one that counted the stream.
LEMMA CountRemoved ==
    ASSUME NEW S \in SUBSET Nat, IsFiniteSet(S), NEW x \in S
    PROVE  IF x % 2 = 0
             THEN /\ Cardinality(Even(S \ {x})) = Cardinality(Even(S)) - 1
                  /\ Odd(S \ {x}) = Odd(S)
             ELSE /\ Cardinality(Odd(S \ {x})) = Cardinality(Odd(S)) - 1
                  /\ Even(S \ {x}) = Even(S)
<1>1. IsFiniteSet(Even(S)) /\ IsFiniteSet(Odd(S))
  BY FS_Subset, Zenon DEF Even, Odd
<1>2. x \in Nat /\ (x % 2 = 0 \/ x % 2 = 1)
  OBVIOUS
<1>3. CASE x % 2 = 0
  <2>1. Even(S \ {x}) = Even(S) \ {x} /\ Odd(S \ {x}) = Odd(S) /\ x \in Even(S)
    BY <1>3 DEF Even, Odd
  <2>2. Cardinality(Even(S) \ {x}) = Cardinality(Even(S)) - 1
    BY <1>1, <2>1, FS_RemoveElement, Zenon
  <2> QED
    BY <1>3, <2>1, <2>2, Zenon
<1>4. CASE x % 2 = 1
  <2>1. Odd(S \ {x}) = Odd(S) \ {x} /\ Even(S \ {x}) = Even(S) /\ x \in Odd(S)
    BY <1>4 DEF Even, Odd
  <2>2. Cardinality(Odd(S) \ {x}) = Cardinality(Odd(S)) - 1
    BY <1>1, <2>1, FS_RemoveElement, Zenon
  <2>3. x % 2 # 0
    BY <1>4
  <2> QED
    BY <2>1, <2>2, <2>3, Zenon
<1> QED
  BY <1>2, <1>3, <1>4, Zenon

\* GetOrOpenStream opens new streams only, all of the peer's parity, up to id.
LEMMA OpenedAreNew ==
    ASSUME TInv, NEW id \in Nat, ~ Mine(id), id > highestStreamOpenedByPeer
    PROVE  /\ Enumerates(Opened(id), Range(Opened(id)))
           /\ \A s \in Range(Opened(id)) :
                 /\ s % 2 = IF perspective = "client" THEN 0 ELSE 1
                 /\ ~ Mine(s) /\ s \in highestStreamOpenedByPeer + 1 .. id
<1> DEFINE h == highestStreamOpenedByPeer
           n == (id - h) \div 2
<1>1. /\ h \in Nat /\ n \in Nat /\ id = h + 2 * n
      /\ h % 2 = IF perspective = "client" THEN 0 ELSE 1
  BY DEF TInv, IdsOK, Mine
<1>2. /\ Opened(id) = [k \in 1 .. n |-> h + 2 * k]
      /\ DOMAIN Opened(id) = 1 .. n
      /\ \A k \in 1 .. n : Opened(id)[k] = h + 2 * k
  BY Zenon DEF Opened
<1> HIDE DEF h, n
<1>3. \A k \in 1 .. n : /\ h + 2 * k \in Nat
                        /\ (h + 2 * k) % 2 = h % 2
                        /\ h + 2 * k \in h + 1 .. id
  BY <1>1
<1>4. Opened(id) \in Seq(Nat)
  BY <1>1, <1>2, <1>3
<1>5. Enumerates(Opened(id), Range(Opened(id)))
  BY <1>1, <1>2, <1>4 DEF Enumerates, Range
<1>6. ASSUME NEW s \in Range(Opened(id))
      PROVE  /\ s % 2 = h % 2
             /\ s \in h + 1 .. id
  BY <1>2, <1>3 DEF Range
<1> QED
  BY <1>1, <1>5, <1>6 DEF h, Mine, TInv, IdsOK

-----------------------------------------------------------------------------
(* The steps.                                                              *)

LEMMA InitTInv == MapInit => TInv
<1> SUFFICES ASSUME MapInit PROVE TInv
  BY Zenon
<1>1. Even({1}) = {} /\ Odd({1}) = {1}
  BY DEF Even, Odd
<1>2. TableOK
  BY <1>1, SingletonEnumerates, FS_EmptySet, FS_Singleton, Zenon DEF MapInit, TableOK
<1>3. IdsOK /\ ServerLimited
  BY StreamsMapAssumption DEF MapInit, IdsOK, Mine, ServerLimited
<1> QED
  BY <1>2, <1>3, Zenon DEF TInv

\* The steps that change nothing the invariant is about.
LEMMA MapUntouched ==
    ASSUME TInv,
           UNCHANGED <<perspective, streams, openStreams, nextStream,
                       highestStreamOpenedByPeer, streamCounts>>
    PROVE  TInv'
BY Zenon DEF TInv, TableOK, IdsOK, ServerLimited, Mine, streamCounts

LEMMA OpenKeeps ==
    ASSUME TInv, openStreamImpl, UNCHANGED perspective
    PROVE  TInv'
<1> DEFINE x == nextStream
<1>1. /\ x \in Nat /\ x \notin streams
      /\ x % 2 = IF perspective = "client" THEN 1 ELSE 0
  BY DEF TInv, IdsOK, Mine
<1>2. /\ streams \in SUBSET Nat /\ IsFiniteSet(streams)
      /\ Enumerates(openStreams, streams)
  BY EnumerationSize, Zenon DEF TInv, TableOK
<1>3. openStreams' = openStreams \o <<x>> /\ streams' = streams \cup {x}
  <2>1. openStreams \in Seq(Nat)
    BY <1>2, Zenon DEF Enumerates
  <2>2. Append(openStreams, x) = openStreams \o <<x>>
    BY <1>1, <2>1
  <2> QED
    BY <2>2, Zenon DEF openStreamImpl
<1>4. Enumerates(openStreams', streams')
  <2>1. streams \cap {x} = {}
    BY <1>1, Zenon
  <2> QED
    BY <1>1, <1>2, <1>3, <2>1, SingletonEnumerates, ConcatEnumerates, Zenon
<1>5. /\ IsFiniteSet({x}) /\ Cardinality({x}) = 1
      /\ {x} \in SUBSET Nat /\ streams \cap {x} = {}
  BY <1>1, FS_Singleton, Zenon
<1>6. /\ IsFiniteSet(Even(streams)) /\ IsFiniteSet(Odd(streams))
  BY <1>2, FS_Subset, Zenon DEF Even, Odd
<1>7. Cardinality(Even(streams)) \in Nat /\ Cardinality(Odd(streams)) \in Nat
  BY <1>6, FS_CardinalityType, Zenon
<1>8. IdsOK'
  <2>1. nextStream' = x + 2 /\ UNCHANGED highestStreamOpenedByPeer
    BY Zenon DEF openStreamImpl
  <2>2. ASSUME NEW s \in streams'
        PROVE  IF Mine(s) THEN s < x + 2 ELSE s <= highestStreamOpenedByPeer
    <3>1. CASE s \in streams
      BY <1>1, <1>2, <3>1 DEF TInv, IdsOK
    <3>2. CASE s = x
      BY <1>1, <3>2 DEF TInv, IdsOK
    <3> QED
      BY <1>3, <3>1, <3>2, Zenon
  <2>3. Mine(x + 2)
    BY <1>1 DEF Mine, TInv, IdsOK
  <2> QED
    BY <1>1, <2>1, <2>2, <2>3 DEF TInv, IdsOK, Mine
<1>9. CASE perspective = "server"
  <2>1. /\ Cardinality(Even(streams')) = Cardinality(Even(streams)) + 1
        /\ Odd(streams') = Odd(streams)
    BY <1>1, <1>2, <1>3, <1>5, <1>9, CountAdded, Zenon
  <2>2. TableOK' /\ ServerLimited'
    BY <1>4, <1>7, <1>9, <2>1, StreamsMapAssumption
       DEF openStreamImpl, Room, TInv, TableOK, ServerLimited
  <2> QED
    BY <1>8, <2>2, Zenon DEF TInv
<1>10. CASE perspective = "client"
  <2>1. /\ Cardinality(Odd(streams')) = Cardinality(Odd(streams)) + 1
        /\ Even(streams') = Even(streams)
    BY <1>1, <1>2, <1>3, <1>5, <1>10, CountAdded, Zenon
  <2>2. TableOK' /\ ServerLimited'
    BY <1>4, <1>7, <1>10, <2>1, Zenon DEF openStreamImpl, TInv, TableOK, ServerLimited
  <2> QED
    BY <1>8, <2>2, Zenon DEF TInv
<1> QED
  BY <1>9, <1>10, Zenon DEF TInv, IdsOK

LEMMA GetOrOpenKeeps ==
    ASSUME TInv, NEW id \in Nat, GetOrOpenStream(id), UNCHANGED perspective
    PROVE  TInv'
<1> DEFINE q == Opened(id)
           T == Range(Opened(id))
           h == highestStreamOpenedByPeer
<1>1. /\ ~ Mine(id) /\ id > h
      /\ Enumerates(q, T)
      /\ \A s \in T : /\ s % 2 = IF perspective = "client" THEN 0 ELSE 1
                      /\ ~ Mine(s) /\ s \in h + 1 .. id
  BY OpenedAreNew, Zenon DEF GetOrOpenStream
<1>2. CASE CloseWithError
  BY <1>2, MapUntouched, Zenon DEF CloseWithError, table, ids, streamCounts
<1>3. CASE ~ CloseWithError
  <2>1. /\ IF perspective = "server"
             THEN /\ numIncomingStreams' = numIncomingStreams + Len(q)
                  /\ UNCHANGED numOutgoingStreams
             ELSE /\ numOutgoingStreams' = numOutgoingStreams + Len(q)
                  /\ UNCHANGED numIncomingStreams
        /\ highestStreamOpenedByPeer' = id
        /\ streams' = streams \cup T
        /\ openStreams' = openStreams \o q
        /\ UNCHANGED nextStream
    BY <1>3, Zenon DEF GetOrOpenStream
  <2> HIDE DEF q, T
  <2>2. /\ streams \in SUBSET Nat /\ IsFiniteSet(streams)
        /\ Enumerates(openStreams, streams)
    BY EnumerationSize, Zenon DEF TInv, TableOK
  <2>3. T \in SUBSET Nat /\ IsFiniteSet(T) /\ Cardinality(T) = Len(q)
    BY <1>1, EnumerationSize, Zenon
  <2>4. streams \cap T = {}
    <3>1. ASSUME NEW s \in streams, s \in T
          PROVE  FALSE
      <4>1. s <= h
        BY <1>1, <3>1, Zenon DEF TInv, IdsOK
      <4>2. s >= h + 1 /\ h \in Nat /\ s \in Nat
        BY <1>1, <2>2, <3>1 DEF TInv, IdsOK
      <4> QED
        BY <4>1, <4>2
    <3> QED
      BY <3>1, Zenon
  <2>5. Enumerates(openStreams', streams')
    BY <1>1, <2>1, <2>2, <2>4, ConcatEnumerates, Zenon
  <2>6. TableOK' /\ ServerLimited'
    <3>1. CASE perspective = "server"
      <4>1. /\ Cardinality(Odd(streams')) = Cardinality(Odd(streams)) + Len(q)
            /\ Even(streams') = Even(streams)
        BY <1>1, <2>1, <2>2, <2>3, <2>4, <3>1, CountAdded, Zenon
      <4> QED
        BY <2>1, <2>5, <3>1, <4>1, Zenon DEF TInv, TableOK, ServerLimited
    <3>2. CASE perspective = "client"
      <4>1. /\ Cardinality(Even(streams')) = Cardinality(Even(streams)) + Len(q)
            /\ Odd(streams') = Odd(streams)
        BY <1>1, <2>1, <2>2, <2>3, <2>4, <3>2, CountAdded, Zenon
      <4> QED
        BY <2>1, <2>5, <3>2, <4>1, Zenon DEF TInv, TableOK, ServerLimited
    <3> QED
      BY <3>1, <3>2, Zenon DEF TInv, IdsOK
  <2>7. IdsOK'
    <3>1. ASSUME NEW s \in streams'
          PROVE  IF Mine(s) THEN s < nextStream ELSE s <= id
      <4>1. CASE s \in streams
        BY <1>1, <2>2, <4>1 DEF TInv, IdsOK
      <4>2. CASE s \in T
        BY <1>1, <4>2 DEF TInv, IdsOK
      <4> QED
        BY <2>1, <4>1, <4>2, Zenon
    <3>2. id % 2 = IF perspective = "client" THEN 0 ELSE 1
      BY <1>1 DEF Mine, TInv, IdsOK
    <3> QED
      BY <2>1, <3>1, <3>2, Zenon DEF TInv, IdsOK, Mine
  <2> QED
    BY <2>6, <2>7, Zenon DEF TInv
<1> QED
  BY <1>2, <1>3, Zenon

LEMMA RemoveKeeps ==
    ASSUME TInv, NEW id \in Nat, RemoveStream(id), UNCHANGED perspective
    PROVE  TInv'
<1>1. /\ streams \in SUBSET Nat /\ IsFiniteSet(streams)
      /\ Enumerates(openStreams, streams) /\ id \in streams
  BY EnumerationSize, Zenon DEF TInv, TableOK, RemoveStream
<1> DEFINE i == CHOOSE i \in DOMAIN openStreams : openStreams[i] = id
<1>2. i \in DOMAIN openStreams /\ openStreams[i] = id
  BY <1>1, Zenon DEF Enumerates
<1>3. openStreams' = RemoveAt(openStreams, i) /\ streams' = streams \ {id}
  BY Zenon DEF RemoveStream
<1> HIDE DEF i
<1>4. Enumerates(openStreams', streams')
  BY <1>1, <1>2, <1>3, RemoveAtEnumerates, Zenon
<1>5. Decremented(id)
  BY Zenon DEF RemoveStream
<1>6. Cardinality(Even(streams)) \in Nat /\ Cardinality(Odd(streams)) \in Nat
  BY <1>1, FS_Subset, FS_CardinalityType, Zenon DEF Even, Odd
<1>7. TableOK' /\ ServerLimited'
  <2>1. IF id % 2 = 0
          THEN /\ Cardinality(Even(streams')) = Cardinality(Even(streams)) - 1
               /\ Odd(streams') = Odd(streams)
          ELSE /\ Cardinality(Odd(streams')) = Cardinality(Odd(streams)) - 1
               /\ Even(streams') = Even(streams)
    BY <1>1, <1>3, CountRemoved, Zenon
  <2> QED
    BY <1>4, <1>5, <1>6, <2>1, StreamsMapAssumption
       DEF Decremented, TInv, TableOK, ServerLimited
<1>8. IdsOK'
  BY <1>3, Zenon DEF RemoveStream, ids, TInv, IdsOK, Mine
<1> QED
  BY <1>7, <1>8, Zenon DEF TInv

LEMMA StepTInv == TInv /\ [MapNext]_mapVars => TInv'
<1> SUFFICES ASSUME TInv, [MapNext]_mapVars
             PROVE  TInv'
  BY Zenon
<1> USE DEF table, ids, streamCounts
<1>1. CASE UNCHANGED mapVars
  BY <1>1, MapUntouched, Zenon DEF mapVars
<1>2. CASE MapNext
  <2>1. UNCHANGED perspective
    BY <1>2, Zenon DEF MapNext
  <2>2. CASE OpenStream
    BY <2>1, <2>2, OpenKeeps, Zenon DEF OpenStream
  <2>3. ASSUME NEW o \in Openers, SyncStep(o)
        PROVE  TInv'
    BY <2>1, <2>3, OpenKeeps, MapUntouched, Zenon DEF SyncStep, OpenStreamSync
  <2>4. CASE AcceptStream
    BY <2>1, <2>4, MapUntouched, Zenon DEF AcceptStream
  <2>5. ASSUME NEW id \in 1 .. MaxID, GetOrOpenStream(id) \/ RemoveStream(id)
        PROVE  TInv'
    <3>1. id \in Nat
      BY StreamsMapAssumption
    <3> QED
      BY <2>1, <2>5, <3>1, GetOrOpenKeeps, RemoveKeeps, Zenon
  <2>6. ASSUME NEW n \in 0 .. MaxID, RoundRobinIterate(n)
        PROVE  TInv'
    BY <2>1, <2>6, MapUntouched, Zenon DEF RoundRobinIterate
  <2>7. CASE CloseWithError
    BY <2>1, <2>7, MapUntouched, Zenon DEF CloseWithError
  <2> QED
    BY <1>2, <2>2, <2>3, <2>4, <2>5, <2>6, <2>7, Zenon DEF MapNext
<1> QED
  BY <1>1, <1>2, Zenon

LEMMA MapInvariance == MapSpec => []TInv
BY InitTInv, StepTInv, PTL DEF MapSpec

-----------------------------------------------------------------------------

\* In every behaviour the slice, the map and the two counters of streamsMap agree,
\* for any limits and any number of goroutines that open streams.
THEOREM TableIsConsistent == MapSpec => []TableConsistent
<1>1. TInv => TableConsistent
  BY EnumerationSize, Zenon DEF TInv, TableOK, TableConsistent, Enumerates, Even, Odd
<1> QED
  BY <1>1, MapInvariance, PTL

\* In every behaviour a server has at most as many streams of its own open as the
\* peer allows.
THEOREM OwnStreamsAreLimited == MapSpec => []OwnStreamsLimited
<1>1. ASSUME TInv
      PROVE  OwnStreamsLimited
  <2> SUFFICES ASSUME perspective = "server"
               PROVE  Cardinality({id \in streams \ {1} : Mine(id)})
                        <= MaxOutgoingStreams
    BY Zenon DEF OwnStreamsLimited
  <2>1. streams \in SUBSET Nat
    BY <1>1, EnumerationSize, Zenon DEF TInv, TableOK
  <2>2. {id \in streams \ {1} : Mine(id)} = Even(streams)
    <3>1. \A id \in streams : Mine(id) <=> id % 2 = 0
      BY <2>1 DEF Mine
    <3>2. 1 % 2 # 0
      OBVIOUS
    <3> QED
      BY <3>1, <3>2, Zenon DEF Even
  <2> QED
    BY <1>1, <2>2, Zenon DEF TInv, TableOK, ServerLimited
<1> QED
  BY <1>1, MapInvariance, PTL
-----------------------------------------------------------------------------
(* The turns of RoundRobinIterate.                                         *)

\* A stream has waited at most for the streams behind it in the rotation: what
\* is left until the loop comes to it shrinks with every iteration without a
\* turn for it.  RemoveStream may leave the index just behind the last position.
TurnsOK ==
    LET n == Len(openStreams)
    IN  /\ roundRobinIndex \in 0 .. n
        /\ DOMAIN waits = streams \ Priority
        /\ \A id \in DOMAIN waits :
              /\ waits[id] \in Nat
              /\ \E d \in 0 .. n - 1 :
                    /\ openStreams[((d + roundRobinIndex) % n) + 1] = id
                    /\ waits[id] + d < n

\* The remainder of a number that is not much too large.
LEMMA SmallRemainder ==
    ASSUME NEW n \in Nat \ {0}, NEW k \in 0 .. n - 1
    PROVE  k % n = k /\ (k + n) % n = k /\ (k + 2 * n) % n = k
<1>1. k % n = k
  OBVIOUS
<1>2. (k + n) % n = k
  OBVIOUS
<1>3. (k + 2 * n) % n = k
  OBVIOUS
<1> QED
  BY <1>1, <1>2, <1>3, Zenon

\* From any index, the loop comes to every position.
LEMMA EveryPositionIsReached ==
    ASSUME NEW n \in Nat \ {0}, NEW r \in 0 .. n, NEW k \in 0 .. n - 1
    PROVE  \E d \in 0 .. n - 1 : (d + r) % n = k
<1>1. CASE k >= r
  <2>1. k - r \in 0 .. n - 1 /\ (k - r) + r = k
    BY <1>1
  <2> QED
    BY <2>1, SmallRemainder, Zenon
<1>2. CASE k < r
  <2>1. k - r + n \in 0 .. n - 1 /\ (k - r + n) + r = k + n
    BY <1>2
  <2> QED
    BY <2>1, SmallRemainder, Zenon
<1> QED
  BY <1>1, <1>2

\* Moving the index forward brings the positions nearer by as much.
LEMMA IndexMoved ==
    ASSUME NEW n \in Nat \ {0}, NEW r \in 0 .. n, NEW m \in 0 .. n, NEW d \in m .. n - 1
    PROVE  ((d - m) + ((r + m) % n)) % n = (d + r) % n
<1> DEFINE x == r + m
<1>1. CASE x < n
  <2>1. x % n = x
    BY <1>1, SmallRemainder
  <2>2. (d - m) + x = d + r
    OBVIOUS
  <2> QED
    BY <2>1, <2>2, Zenon
<1>2. CASE n <= x /\ x < 2 * n
  <2>1. x - n \in 0 .. n - 1 /\ x = (x - n) + n
    BY <1>2
  <2>2. x % n = x - n
    BY <2>1, SmallRemainder, Zenon
  <2>3. (d - m) + (x - n) = d + r - n /\ d + r - n \in 0 .. 2 * n
    BY <1>2
  <2>4. (d + r - n) % n = (d + r) % n
    <3>1. CASE d + r - n < n
      BY <2>3, <3>1, SmallRemainder
    <3>2. CASE d + r - n >= n
      <4>1. d + r - 2 * n \in 0 .. n - 1
        BY <3>2
      <4> QED
        BY <4>1, SmallRemainder
    <3> QED
      BY <2>3, <3>1, <3>2
  <2> QED
    BY <2>2, <2>3, <2>4, Zenon
<1>3. CASE x = 2 * n
  BY <1>3
<1> QED
  BY <1>1, <1>2, <1>3


\* A stream is at some distance in the rotation.
LEMMA StreamIsReached ==
    ASSUME NEW q, NEW S, Enumerates(q, S), NEW r \in 0 .. Len(q), NEW id \in S
    PROVE  \E d \in 0 .. Len(q) - 1 : q[((d + r) % Len(q)) + 1] = id
<1>1. Len(q) \in Nat /\ DOMAIN q = 1 .. Len(q)
  BY DEF Enumerates
<1>2. PICK i \in 1 .. Len(q) : q[i] = id
  BY <1>1, Zenon DEF Enumerates
<1>3. Len(q) \in Nat \ {0} /\ i - 1 \in 0 .. Len(q) - 1
  BY <1>1, <1>2
<1>4. PICK d \in 0 .. Len(q) - 1 : (d + r) % Len(q) = i - 1
  BY <1>3, EveryPositionIsReached, Zenon
<1>5. ((d + r) % Len(q)) + 1 = i
  BY <1>2, <1>4
<1> QED
  BY <1>2, <1>5, Zenon

\* After a change of the set of streams nobody has waited.
LEMMA FreshTurns ==
    ASSUME Enumerates(openStreams', streams'), roundRobinIndex' \in 0 .. Len(openStreams'),
           waits' = NoWaits(streams')
    PROVE  TurnsOK'
<1>1. Len(openStreams') \in Nat
  BY DEF Enumerates
<1>2. DOMAIN waits' = streams' \ Priority /\ \A id \in DOMAIN waits' : waits'[id] = 0
  BY Zenon DEF NoWaits
<1>3. ASSUME NEW id \in DOMAIN waits'
      PROVE  \E d \in 0 .. Len(openStreams') - 1 :
                /\ openStreams'[((d + roundRobinIndex') % Len(openStreams')) + 1] = id
                /\ waits'[id] + d < Len(openStreams')
  <2>1. PICK d \in 0 .. Len(openStreams') - 1 :
               openStreams'[((d + roundRobinIndex') % Len(openStreams')) + 1] = id
    <3>1. id \in streams'
      BY <1>2, <1>3, Zenon
    <3> QED
      BY <3>1, StreamIsReached, Zenon
  <2>2. waits'[id] + d < Len(openStreams')
    BY <1>1, <1>2, <1>3, <2>1
  <2> QED
    BY <2>1, <2>2, Zenon
<1>4. \A id \in DOMAIN waits' : waits'[id] \in Nat
  BY <1>2
<1> QED
  BY <1>2, <1>3, <1>4, Zenon DEF TurnsOK

\* A stream that gets no turn had at least as many steps of the loop before it as
\* there were turns.
LEMMA NoTurnYet ==
    ASSUME NEW d \in Nat, NEW n \in Nat, ~ (Turns(d) <= n)
    PROVE  n <= d
<1> DEFINE T == {j \in 0 .. d : StreamAt(j) \notin Priority}
<1>1. IsFiniteSet(0 .. d) /\ Cardinality(0 .. d) = d + 1
  <2>1. 0 \in Int /\ d \in Int /\ ~ (0 > d)
    OBVIOUS
  <2>2. IsFiniteSet(0 .. d) /\ Cardinality(0 .. d) = IF 0 > d THEN 0 ELSE d - 0 + 1
    BY <2>1, FS_Interval, Zenon
  <2> QED
    BY <2>1, <2>2
<1>2. T \subseteq 0 .. d
  BY Zenon
<1> HIDE DEF T
<1>3. Cardinality(T) \in Nat /\ Cardinality(T) <= d + 1
  BY <1>1, <1>2, FS_Subset, FS_CardinalityType, Zenon
<1>4. Turns(d) = Cardinality(T)
  BY Zenon DEF Turns, T
<1> QED
  BY <1>3, <1>4

LEMMA IterateKeepsTurns ==
    ASSUME TInv, TurnsOK, NEW n, RoundRobinIterate(n), n # 0
    PROVE  TurnsOK'
<1> DEFINE N == Len(openStreams)
           r == roundRobinIndex
<1>1. /\ Enumerates(openStreams, streams) /\ IsFiniteSet(streams)
      /\ Cardinality(streams) = N /\ N \in Nat
  <2>1. Enumerates(openStreams, streams)
    BY Zenon DEF TInv, TableOK
  <2>2. N \in Nat
    BY <2>1 DEF Enumerates
  <2> QED
    BY <2>1, <2>2, EnumerationSize, Zenon
<1>2. n \in 1 .. N
  <2>1. streams \ Priority \subseteq streams
    BY Zenon
  <2>2. Cardinality(streams \ Priority) \in Nat /\ Cardinality(streams \ Priority) <= N
    BY <1>1, <2>1, FS_Subset, FS_CardinalityType, Zenon
  <2>3. n \in 1 .. Cardinality(streams \ Priority)
    BY Zenon DEF RoundRobinIterate
  <2> QED
    BY <1>1, <2>2, <2>3
<1>3. N \in Nat \ {0} /\ r \in 0 .. N
  <2>1. N \in Nat \ {0}
    BY <1>1, <1>2
  <2>2. r \in 0 .. Len(openStreams)
    BY Zenon DEF TurnsOK
  <2> QED
    BY <2>1, <2>2, Zenon
<1>4. /\ r' = (r + n) % N /\ streams' = streams /\ openStreams' = openStreams
      /\ DOMAIN waits' = DOMAIN waits
      /\ \A id \in DOMAIN waits :
            waits'[id] = IF \E i \in 0 .. N - 1 : StreamAt(i) = id /\ Turns(i) <= n
                           THEN 0 ELSE waits[id] + 1
  BY <1>1, Zenon DEF RoundRobinIterate, IndexAfter
<1>5. r' \in 0 .. N - 1
  BY <1>2, <1>3, <1>4
<1> HIDE DEF N, r
<1>6. ASSUME NEW id \in DOMAIN waits
      PROVE  /\ waits'[id] \in Nat
             /\ \E d \in 0 .. N - 1 : /\ openStreams[((d + r') % N) + 1] = id
                                      /\ waits'[id] + d < N
  <2>1. id \in streams /\ waits[id] \in Nat
    BY <1>6, Zenon DEF TurnsOK
  <2>2. CASE waits'[id] = 0
    <3>1. r' \in 0 .. N
      BY <1>3, <1>5
    <3>2. PICK d \in 0 .. N - 1 : openStreams[((d + r') % N) + 1] = id
      BY <1>1, <2>1, <3>1, StreamIsReached, Zenon DEF N
    <3>3. waits'[id] + d < N
      BY <1>3, <2>2, <3>2
    <3>4. waits'[id] \in Nat
      BY <2>2
    <3> QED
      BY <3>2, <3>3, <3>4, Zenon
  <2>3. CASE waits'[id] # 0
    <3>1. /\ waits'[id] = waits[id] + 1
          /\ \A i \in 0 .. N - 1 : StreamAt(i) = id => ~ (Turns(i) <= n)
      BY <1>4, <1>6, <2>3, Zenon
    <3>2. PICK d \in 0 .. N - 1 : openStreams[((d + r) % N) + 1] = id /\ waits[id] + d < N
      BY <1>6, Zenon DEF TurnsOK, N, r
    <3>3. StreamAt(d) = id
      BY <1>1, <3>2, Zenon DEF StreamAt, r
    <3>4. n <= d
      <4>1. ~ (Turns(d) <= n)
        BY <3>1, <3>2, <3>3, Zenon
      <4>2. d \in Nat /\ n \in Nat
        BY <1>2, <1>3, <3>2
      <4> QED
        BY <4>1, <4>2, NoTurnYet, Zenon
    <3>5. d \in n .. N - 1 /\ n \in 0 .. N /\ d - n \in 0 .. N - 1
      BY <1>2, <1>3, <3>2, <3>4
    <3>6. ((d - n) + r') % N = (d + r) % N
      BY <1>3, <1>4, <3>5, IndexMoved, Zenon
    <3>7. openStreams[(((d - n) + r') % N) + 1] = id
      BY <3>2, <3>6, Zenon
    <3>8. waits'[id] + (d - n) < N /\ waits'[id] \in Nat
      BY <1>2, <1>3, <2>1, <3>1, <3>2, <3>5
    <3> QED
      BY <3>5, <3>7, <3>8, Zenon
  <2> QED
    BY <2>2, <2>3, Zenon
<1>7. r' \in 0 .. N
  BY <1>3, <1>5
<1> QED
  BY <1>4, <1>6, <1>7, Zenon DEF TurnsOK, N, r


LEMMA InitTurns == MapInit => TurnsOK
<1> SUFFICES ASSUME MapInit PROVE TurnsOK
  BY Zenon
<1>1. /\ openStreams = <<1>> /\ streams = {1} /\ roundRobinIndex = 0 /\ waits = << >>
  BY Zenon DEF MapInit
<1>2. Len(openStreams) = 1 /\ DOMAIN waits = {}
  BY <1>1
<1>3. streams \ Priority = {}
  BY <1>1, Zenon DEF Priority
<1>4. roundRobinIndex \in 0 .. Len(openStreams)
  BY <1>1, <1>2
<1> QED
  BY <1>2, <1>3, <1>4, Zenon DEF TurnsOK

\* The steps that leave the streams and their turns alone.
LEMMA TurnsUntouched ==
    ASSUME TurnsOK, UNCHANGED table
    PROVE  TurnsOK'
BY Zenon DEF TurnsOK, table

\* The slice only grows when streams are opened, and the index stays.
LEMMA TurnsOfMore ==
    ASSUME TInv, TInv', TurnsOK, UNCHANGED roundRobinIndex, waits' = NoWaits(streams'),
           NEW q \in Seq(Nat), openStreams' = openStreams \o q
    PROVE  TurnsOK'
<1>1. openStreams \in Seq(Nat) /\ Enumerates(openStreams', streams')
  BY Zenon DEF TInv, TableOK, Enumerates
<1>2. /\ Len(openStreams') = Len(openStreams) + Len(q)
      /\ Len(openStreams) \in Nat /\ Len(q) \in Nat
  <2>1. Len(openStreams \o q) = Len(openStreams) + Len(q)
    BY <1>1, Joined, Zenon
  <2> QED
    BY <1>1, <2>1
<1>3. roundRobinIndex' \in 0 .. Len(openStreams')
  BY <1>2 DEF TurnsOK
<1> QED
  BY <1>1, <1>3, FreshTurns, Zenon

LEMMA OpenKeepsTurns ==
    ASSUME TInv, TInv', TurnsOK, openStreamImpl
    PROVE  TurnsOK'
<1>1. openStreams \in Seq(Nat) /\ nextStream \in Nat
  BY Zenon DEF TInv, TableOK, Enumerates, IdsOK
<1>2. openStreams' = openStreams \o <<nextStream>> /\ <<nextStream>> \in Seq(Nat)
  <2>1. Append(openStreams, nextStream) = openStreams \o <<nextStream>>
    BY <1>1
  <2> QED
    BY <1>1, <2>1 DEF openStreamImpl
<1>3. UNCHANGED roundRobinIndex /\ waits' = NoWaits(streams')
  BY Zenon DEF openStreamImpl
<1> QED
  BY <1>2, <1>3, TurnsOfMore, Zenon

LEMMA GetOrOpenKeepsTurns ==
    ASSUME TInv, TInv', TurnsOK, NEW id \in Nat, GetOrOpenStream(id)
    PROVE  TurnsOK'
<1>1. CASE CloseWithError
  BY <1>1, TurnsUntouched, Zenon DEF CloseWithError
<1>2. CASE ~ CloseWithError
  <2>1. /\ openStreams' = openStreams \o Opened(id) /\ UNCHANGED roundRobinIndex
        /\ waits' = NoWaits(streams')
    BY <1>2, Zenon DEF GetOrOpenStream
  <2>2. Opened(id) \in Seq(Nat)
    BY OpenedAreNew, Zenon DEF GetOrOpenStream, Enumerates
  <2> QED
    BY <2>1, <2>2, TurnsOfMore, Zenon
<1> QED
  BY <1>1, <1>2, Zenon

\* RemoveStream moves the index with the positions behind the removed one.
LEMMA RemoveKeepsTurns ==
    ASSUME TInv, TInv', TurnsOK, NEW id, RemoveStream(id)
    PROVE  TurnsOK'
<1>1. Enumerates(openStreams, streams) /\ Enumerates(openStreams', streams') /\ id \in streams
  BY Zenon DEF TInv, TableOK, RemoveStream
<1> DEFINE i == CHOOSE i \in DOMAIN openStreams : openStreams[i] = id
<1>2. i \in DOMAIN openStreams /\ openStreams[i] = id
  BY <1>1, Zenon DEF Enumerates
<1>3. /\ roundRobinIndex' = AdjustedIndex(i - 1) /\ streams' = streams \ {id}
      /\ waits' = NoWaits(streams')
  BY Zenon DEF RemoveStream
<1> HIDE DEF i
<1>4. IsFiniteSet(streams) /\ Cardinality(streams) = Len(openStreams)
      /\ Cardinality(streams') = Len(openStreams')
  BY <1>1, EnumerationSize, Zenon
<1>5. Len(openStreams') = Len(openStreams) - 1
  BY <1>1, <1>3, <1>4, FS_RemoveElement, Zenon
<1>6. /\ Len(openStreams) \in Nat /\ i \in 1 .. Len(openStreams)
      /\ roundRobinIndex \in 0 .. Len(openStreams)
  BY <1>1, <1>2 DEF Enumerates, TurnsOK
<1>7. roundRobinIndex' \in 0 .. Len(openStreams) - 1
  BY <1>3, <1>6 DEF AdjustedIndex
<1> QED
  BY <1>1, <1>3, <1>5, <1>7, FreshTurns, Zenon

LEMMA StepTurns == TInv /\ TInv' /\ TurnsOK /\ [MapNext]_mapVars => TurnsOK'
<1> SUFFICES ASSUME TInv, TInv', TurnsOK, [MapNext]_mapVars
             PROVE  TurnsOK'
  BY Zenon
<1>1. CASE UNCHANGED mapVars
  BY <1>1, TurnsUntouched, Zenon DEF mapVars
<1>2. CASE MapNext
  <2>1. CASE OpenStream
    BY <2>1, OpenKeepsTurns, Zenon DEF OpenStream
  <2>2. ASSUME NEW o \in Openers, SyncStep(o)
        PROVE  TurnsOK'
    BY <2>2, OpenKeepsTurns, TurnsUntouched, Zenon DEF SyncStep, OpenStreamSync
  <2>3. CASE AcceptStream
    BY <2>3, TurnsUntouched, Zenon DEF AcceptStream
  <2>4. ASSUME NEW id \in 1 .. MaxID, GetOrOpenStream(id) \/ RemoveStream(id)
        PROVE  TurnsOK'
    <3>1. id \in Nat
      BY StreamsMapAssumption
    <3> QED
      BY <2>4, <3>1, GetOrOpenKeepsTurns, RemoveKeepsTurns, Zenon
  <2>5. ASSUME NEW n \in 0 .. MaxID, RoundRobinIterate(n)
        PROVE  TurnsOK'
    <3>1. CASE n = 0
      <4>1. n \notin 1 .. Cardinality(streams \ Priority)
        BY <3>1
      <4> QED
        BY <2>5, <4>1, TurnsUntouched, Zenon DEF RoundRobinIterate, table
    <3> QED
      BY <2>5, <3>1, IterateKeepsTurns, Zenon
  <2>6. CASE CloseWithError
    BY <2>6, TurnsUntouched, Zenon DEF CloseWithError
  <2> QED
    BY <1>2, <2>1, <2>2, <2>3, <2>4, <2>5, <2>6, Zenon DEF MapNext
<1> QED
  BY <1>1, <1>2, Zenon

\* In every behaviour no stream starves behind the others in RoundRobinIterate,
\* although streams 1 and 3 are skipped without moving the index: while the same
\* streams are open, fewer iterations that come to the rotation pass without a turn
\* for one of them than there are positions in the slice.
THEOREM NoStreamStarves == MapSpec => []NoStarvation
<1>1. TurnsOK => NoStarvation
  <2> SUFFICES ASSUME TurnsOK, NEW id \in DOMAIN waits
               PROVE  waits[id] < Len(openStreams)
    BY Zenon DEF NoStarvation
  <2>1. PICK d \in 0 .. Len(openStreams) - 1 : waits[id] + d < Len(openStreams)
    BY Zenon DEF TurnsOK
  <2>2. waits[id] \in Nat /\ roundRobinIndex \in 0 .. Len(openStreams)
    BY Zenon DEF TurnsOK
  <2> QED
    BY <2>1, <2>2
<1> QED
  BY <1>1, InitTurns, StepTurns, MapInvariance, PTL DEF MapSpec
=============================================================================
