---------------------- MODULE SentPacketHandlerProofs ----------------------
(***************************************************************************)
(* Safety of SentPacketHandler for every value of its constants.           *)
(***************************************************************************)
EXTENDS SentPacketHandler, FiniteSetTheorems, WellFoundedInduction, TLAPS

\* A nonempty set of naturals has a least element.
LEMMA LeastNatural ==
    ASSUME NEW S \in SUBSET Nat, S # {}
    PROVE  \E m \in S : \A x \in S : m <= x
<1>1. PICK m \in S : \A y \in S : ~(<<y, m>> \in OpToRel(<, Nat))
  BY NatLessThanWellFounded, WFMin, Zenon
<1>2. ASSUME NEW x \in S
      PROVE  m <= x
  <2>1. m \in Nat /\ x \in Nat
    BY Zenon
  <2>2. ~(x < m)
    BY <1>1, <2>1, Zenon DEF OpToRel
  <2> QED
    BY <2>1, <2>2
<1> QED
  BY <1>2, Zenon

\* A nonempty set of naturals with an upper bound has a largest element, which
\* is its Max.
LEMMA MaxOfBounded ==
    ASSUME NEW S \in SUBSET Nat, S # {}, NEW b \in Nat, \A x \in S : x <= b
    PROVE  Max(S) \in S /\ \A x \in S : x <= Max(S)
<1> DEFINE T == {b - x : x \in S}
<1>1. T \in SUBSET Nat /\ T # {}
  <2>1. \A x \in S : b - x \in Nat
    OBVIOUS
  <2> QED
    BY <2>1, Zenon
<1>2. PICK m \in T : \A y \in T : m <= y
  <2> HIDE DEF T
  <2> QED
    BY <1>1, LeastNatural, Zenon
<1>3. PICK x \in S : m = b - x
  BY Zenon
<1>4. \A y \in S : x >= y
  BY <1>2, <1>3
<1>5. \E z \in S : \A y \in S : z >= y
  BY <1>4, Zenon
<1> QED
  BY <1>5, Zenon DEF Max

\* n bytes of s, from offset a, are n elements.
Run(s, a, n) == {<<s, k>> : k \in a .. a + n - 1}

LEMMA RunOfBytes ==
    ASSUME NEW s, NEW a \in Nat, NEW n \in Nat
    PROVE  IsFiniteSet(Run(s, a, n)) /\ Cardinality(Run(s, a, n)) = n
<1> DEFINE R == Run(s, a, n)
           I == a .. a + n - 1
           g == [k \in I |-> <<s, k>>]
<1>1. a \in Int /\ a + n - 1 \in Int
  OBVIOUS
<1>2. IsFiniteSet(I) /\ Cardinality(I) = IF a > a + n - 1 THEN 0 ELSE (a + n - 1) - a + 1
  BY <1>1, FS_Interval, Zenon
<1>3. Cardinality(I) = n
  BY <1>2
<1>4. g \in Bijection(I, R)
  <2>1. g \in [I -> R]
    BY Zenon DEF Run
  <2>2. \A x, y \in I : g[x] = g[y] => x = y
    BY Zenon
  <2>3. \A t \in R : \E x \in I : g[x] = t
    BY Zenon DEF Run
  <2> HIDE DEF g, I, R
  <2> QED
    BY <2>1, <2>2, <2>3, Zenon DEF Bijection, Injection, Surjection, IsInjective
<1>5. ExistsBijection(I, R)
  BY <1>4, Zenon DEF ExistsBijection
<1> QED
  BY <1>2, <1>3, <1>5, FS_Bijection, Zenon

-----------------------------------------------------------------------------
(***************************************************************************)
(* The inductive invariant.  Beyond the invariants themselves it says that *)
(* the history is finite and holds one packet per number, and what ties    *)
(* the fields of the stopWaitingManager together.                          *)
(***************************************************************************)

\* The linked list of SentPacket is finite and holds each number once.
HistoryOK ==
    /\ IsFiniteSet(packetHistory)
    /\ \A p, q \in packetHistory : p.PacketNumber = q.PacketNumber => p = q

StopWaitingOK ==
    /\ StopWaitingNeverAhead
    /\ lastStopWaitingFrame = largestLeastUnackedSent
    /\ largestLeastUnackedSent <= nextLeastUnacked
    /\ \A n \in requeued : n < nextLeastUnacked

IInv ==
    /\ TypeOK
    /\ HistoryOK
    /\ NothingForgotten
    /\ LossRecoveryArmed
    /\ StopWaitingOK
    /\ TrackedBounded

-----------------------------------------------------------------------------
(***************************************************************************)
(* Facts about the operators.                                              *)
(***************************************************************************)

\* InOrder(S), the walk over S from its front, is a sequence of the packets of
\* S with one entry per packet.
LEMMA InOrderIsSequence ==
    ASSUME NEW S \in SUBSET Packet, IsFiniteSet(S),
           \A p, q \in S : p.PacketNumber = q.PacketNumber => p = q
    PROVE  /\ InOrder(S) \in Seq(S)
           /\ Len(InOrder(S)) = Cardinality(S)
<1> DEFINE Below(p) == {q \in S : q.PacketNumber < p.PacketNumber}
           n == Cardinality(S)
           rank == [p \in S |-> Cardinality(Below(p)) + 1]
<1>1. n \in Nat
  BY FS_CardinalityType, Zenon
<1>2. \A p \in S : p.PacketNumber \in Nat
  BY Zenon DEF Packet
<1>3. ASSUME NEW p \in S
      PROVE  Cardinality(Below(p)) \in 0 .. n - 1
  <2>1. IsFiniteSet(Below(p)) /\ Cardinality(Below(p)) <= n
    BY FS_Subset, Zenon
  <2>2. Cardinality(Below(p)) \in Nat
    BY <2>1, FS_CardinalityType, Zenon
  <2>3. p \notin Below(p)
    BY <1>2
  <2>4. Cardinality(Below(p)) # n
    BY <2>3, FS_Subset, Zenon
  <2> QED
    BY <2>1, <2>2, <2>4, <1>1
<1>4. rank \in [S -> 1 .. n]
  BY <1>1, <1>3
<1>5. ASSUME NEW p \in S, NEW q \in S, p.PacketNumber < q.PacketNumber
      PROVE  Cardinality(Below(p)) # Cardinality(Below(q))
  <2>1. Below(p) \subseteq Below(q)
    BY <1>2, <1>5
  <2>2. p \in Below(q) /\ p \notin Below(p)
    BY <1>2, <1>5
  <2>3. IsFiniteSet(Below(q))
    BY FS_Subset, Zenon
  <2>4. Below(p) \in SUBSET Below(q)
    BY <2>1, Zenon
  <2> QED
    BY <2>2, <2>3, <2>4, FS_Subset, Zenon
<1>6. \A p, q \in S : rank[p] = rank[q] => p = q
  <2> SUFFICES ASSUME NEW p \in S, NEW q \in S, rank[p] = rank[q]
               PROVE  p = q
    BY Zenon
  <2>1. Cardinality(Below(p)) = Cardinality(Below(q))
    <3>1. rank[p] = Cardinality(Below(p)) + 1 /\ rank[q] = Cardinality(Below(q)) + 1
      BY Zenon
    <3>2. Cardinality(Below(p)) \in Nat /\ Cardinality(Below(q)) \in Nat
      BY <1>1, <1>3
    <3> QED
      BY <3>1, <3>2
  <2>2. ~(p.PacketNumber < q.PacketNumber) /\ ~(q.PacketNumber < p.PacketNumber)
    BY <2>1, <1>5, Zenon
  <2> QED
    BY <2>2, <1>2
<1>7. rank \in Injection(S, 1 .. n)
  BY <1>4, <1>6, Zenon DEF Injection, IsInjective
<1>8. IsFiniteSet(1 .. n) /\ Cardinality(1 .. n) = n
  BY <1>1, FS_Interval
<1>9. rank \in Surjection(S, 1 .. n)
  BY <1>7, <1>8, FS_Injection, Zenon
<1>10. ASSUME NEW i \in 1 .. n
       PROVE  \E p \in S : Cardinality(Below(p)) = i - 1
  <2>1. PICK p \in S : rank[p] = i
    BY <1>9, Zenon DEF Surjection
  <2>2. Cardinality(Below(p)) \in Nat
    BY <1>1, <1>3
  <2>3. rank[p] = Cardinality(Below(p)) + 1
    BY Zenon
  <2> HIDE DEF rank, n, Below
  <2>4. Cardinality(Below(p)) = i - 1
    BY <2>1, <2>2, <2>3, <1>1
  <2> QED
    BY <2>4, Zenon
<1>11. InOrder(S) = [i \in 1 .. n |-> CHOOSE p \in S : Cardinality(Below(p)) = i - 1]
  BY Zenon DEF InOrder
<1>12. InOrder(S) \in [1 .. n -> S]
  BY <1>10, <1>11, Zenon
<1> HIDE DEF n
<1> QED
  BY <1>1, <1>12 DEF n

\* What QueuedRetransmissionForPacketNumber and ReceivedAck make of the least
\* unacked number: it never decreases and stays within the numbers sent.
LEMMA LeastUnackedAdvances ==
    ASSUME TypeOK, StopWaitingOK,
           NEW ns \in SUBSET (1 .. lastSentPacketNumber)
    PROVE  LET next == LeastUnackedAfter(ns)
           IN  /\ next \in Nat
               /\ nextLeastUnacked <= next
               /\ next <= lastSentPacketNumber + 1
               /\ \A n \in ns : n < next
<1> DEFINE S == {nextLeastUnacked} \cup {n + 1 : n \in ns}
<1>1. lastSentPacketNumber \in Nat /\ nextLeastUnacked \in Nat
  BY Zenon DEF TypeOK
<1>2. nextLeastUnacked <= lastSentPacketNumber + 1
  BY Zenon DEF StopWaitingOK, StopWaitingNeverAhead
<1>3. \A n \in ns : n \in Nat /\ n <= lastSentPacketNumber
  BY <1>1
<1>4. S \in SUBSET Nat /\ S # {}
  BY <1>1, <1>3
<1>5. \A x \in S : x <= lastSentPacketNumber + 1
  BY <1>1, <1>2, <1>3
<1>6. lastSentPacketNumber + 1 \in Nat
  BY <1>1
<1>7. Max(S) \in S /\ \A x \in S : x <= Max(S)
  <2> HIDE DEF S
  <2> QED
    BY <1>4, <1>5, <1>6, MaxOfBounded, Zenon
<1>8. ASSUME NEW n \in ns
      PROVE  n < Max(S)
  <2>1. n + 1 \in S
    BY <1>3
  <2> HIDE DEF S
  <2>2. Max(S) \in Nat /\ n + 1 <= Max(S)
    BY <2>1, <1>4, <1>7, Zenon
  <2>3. n \in Nat
    BY <1>3, Zenon
  <2> QED
    BY <2>2, <2>3
<1>9. nextLeastUnacked <= Max(S)
  BY <1>7, Zenon
<1>10. LeastUnackedAfter(ns) = Max(S)
  BY Zenon DEF LeastUnackedAfter
<1> HIDE DEF S
<1> QED
  BY <1>4, <1>5, <1>7, <1>8, <1>9, <1>10, Zenon

\* Requeue keeps the history well formed, moves numbers from the history to
\* acked or requeued without losing one, and tracks no more packets than before.
LEMMA RequeuePreserves ==
    ASSUME TypeOK, HistoryOK, NothingForgotten, TrackedBounded,
           NEW lost \in SUBSET packetHistory,
           NEW newly \in SUBSET packetHistory,
           lost \cap newly = {},
           Requeue(lost, newly), sent' = sent,
           lastSentPacketNumber' = lastSentPacketNumber
    PROVE  /\ packetHistory' \in SUBSET packetHistory
           /\ retransmissionQueue' \in Seq(Packet)
           /\ acked' \in SUBSET sent /\ requeued' \in SUBSET sent
           /\ HistoryOK'
           /\ NothingForgotten'
           /\ TrackedBounded'
<1>1. packetHistory' = packetHistory \ (lost \cup newly)
  BY Zenon DEF Requeue
<1>2. IsFiniteSet(packetHistory)
  BY Zenon DEF HistoryOK
<1>3. IsFiniteSet(lost) /\ IsFiniteSet(packetHistory')
  BY <1>1, <1>2, FS_Subset, Zenon
<1>4. HistoryOK'
  BY <1>1, <1>3, Zenon DEF HistoryOK
<1>5. InOrder(lost) \in Seq(lost) /\ Len(InOrder(lost)) = Cardinality(lost)
  <2>1. lost \in SUBSET Packet
    BY Zenon DEF TypeOK
  <2>2. \A p, q \in lost : p.PacketNumber = q.PacketNumber => p = q
    BY Zenon DEF HistoryOK
  <2> QED
    BY <2>1, <2>2, <1>3, InOrderIsSequence, Zenon
<1>6. InOrder(lost) \in Seq(Packet)
  BY <1>5 DEF TypeOK
<1>7. /\ retransmissionQueue \in Seq(Packet)
      /\ retransmissionQueue' = retransmissionQueue \o InOrder(lost)
  BY Zenon DEF TypeOK, Requeue
<1>8. /\ retransmissionQueue' \in Seq(Packet)
      /\ Len(retransmissionQueue') = Len(retransmissionQueue) + Cardinality(lost)
  <2>1. \A s, t \in Seq(Packet) : /\ s \o t \in Seq(Packet)
                                  /\ Len(s \o t) = Len(s) + Len(t)
    OBVIOUS
  <2> QED
    BY <2>1, <1>5, <1>6, <1>7, Zenon
<1>9. TrackedBounded'
  <2>1. /\ Cardinality(lost) \in Nat
        /\ Cardinality(packetHistory) \in Nat
        /\ Cardinality(packetHistory') \in Nat
    BY <1>2, <1>3, FS_CardinalityType, Zenon
  <2>2. lost \cap packetHistory' = {}
    BY <1>1, Zenon
  <2>3. Cardinality(lost \cup packetHistory') =
            Cardinality(lost) + Cardinality(packetHistory') - Cardinality({})
    BY <1>3, <2>2, FS_Union, Zenon
  <2>4. Cardinality(lost \cup packetHistory') <= Cardinality(packetHistory)
    <3>1. lost \cup packetHistory' \in SUBSET packetHistory
      BY <1>1, Zenon
    <3> QED
      BY <3>1, <1>2, FS_Subset, Zenon
  <2>5. Cardinality(lost) + Cardinality(packetHistory') <=
            Cardinality(packetHistory)
    BY <2>1, <2>3, <2>4, FS_EmptySet
  <2>6. Len(retransmissionQueue) \in Nat
    BY <1>7
  <2>7. MaxTrackedSentPackets \in Nat
    BY SentPacketHandlerAssumption, Zenon
  <2> QED
    BY <2>1, <2>5, <2>6, <2>7, <1>8 DEF TrackedBounded, tracked
<1>10. /\ acked' = acked \cup Numbers(newly)
       /\ requeued' = requeued \cup Numbers(lost)
  BY Zenon DEF Requeue
<1>11. Numbers(packetHistory) =
           Numbers(packetHistory') \cup Numbers(newly) \cup Numbers(lost)
  BY <1>1, Zenon DEF Numbers
<1>12. /\ Numbers(packetHistory') \cap Numbers(newly) = {}
       /\ Numbers(packetHistory') \cap Numbers(lost) = {}
       /\ Numbers(newly) \cap Numbers(lost) = {}
  BY <1>1, Zenon DEF Numbers, HistoryOK
<1>13. NothingForgotten'
  BY <1>10, <1>11, <1>12, Zenon DEF NothingForgotten
<1>14. acked' \in SUBSET sent /\ requeued' \in SUBSET sent
  BY <1>10, <1>11, Zenon DEF NothingForgotten
<1> QED
  BY <1>1, <1>4, <1>8, <1>9, <1>13, <1>14, Zenon

-----------------------------------------------------------------------------
(***************************************************************************)
(* The invariant is inductive: one lemma per kind of step.                 *)
(***************************************************************************)

\* SentPacket adds at most one packet, of a new number, to the history.
LEMMA SentPacketPreserves ==
    ASSUME IInv,
           NEW pn \in PacketNumbers, NEW frames \in SUBSET Frame,
           NEW length \in Lengths, NEW duplicate \in BOOLEAN,
           NEW crypto \in BOOLEAN,
           SentPacket(pn, frames, length, duplicate, crypto)
    PROVE  IInv'
<1> DEFINE packet == [PacketNumber |-> pn, Frames |-> frames, Length |-> length]
<1> USE DEF IInv
<1>1. /\ lastSentPacketNumber \in Nat /\ pn \in Nat
      /\ pn > lastSentPacketNumber /\ lastSentPacketNumber' = pn
  BY SentPacketHandlerAssumption DEF SentPacket, TypeOK, PacketNumbers
<1>2. packet \in Packet
  BY <1>1 DEF Packet
<1>3. \A p \in packetHistory : p.PacketNumber \in 1 .. lastSentPacketNumber
  BY Zenon DEF TypeOK, Numbers
<1>4. /\ HistoryOK' /\ NothingForgotten'
      /\ Cardinality(packetHistory') <= Cardinality(packetHistory) + 1
      /\ packetHistory' \in SUBSET Packet
      /\ \A p \in packetHistory' : p.Frames # {}
      /\ Numbers(packetHistory') \subseteq 1 .. pn
      /\ sent' \in SUBSET (1 .. pn) /\ sent \subseteq sent'
      /\ numNonRetransmittablePackets' \in Nat
  <2>0. Cardinality(packetHistory) \in Nat
    BY FS_CardinalityType, Zenon DEF HistoryOK
  <2>1. CASE frames # {}
    <3>1. /\ packetHistory' = packetHistory \cup {packet}
          /\ numNonRetransmittablePackets' = 0
          /\ sent' = sent \cup {pn}
      BY <2>1, Zenon DEF SentPacket
    <3>2. packet \notin packetHistory
      BY <1>1, <1>3
    <3>3. /\ IsFiniteSet(packetHistory')
          /\ Cardinality(packetHistory') = Cardinality(packetHistory) + 1
      BY <3>1, <3>2, FS_AddElement, Zenon DEF HistoryOK
    <3>4. HistoryOK'
      <4>1. \A p \in packetHistory : p.PacketNumber # packet.PacketNumber
        BY <1>1, <1>3
      <4> HIDE DEF packet
      <4> QED
        BY <4>1, <3>1, <3>3, Zenon DEF HistoryOK
    <3>5. Numbers(packetHistory') = Numbers(packetHistory) \cup {pn}
      <4>1. packet.PacketNumber = pn
        BY Zenon
      <4> HIDE DEF packet
      <4> QED
        BY <4>1, <3>1, Zenon DEF Numbers
    <3>6. pn \notin acked /\ pn \notin requeued /\ pn \notin Numbers(packetHistory)
      BY <1>1 DEF TypeOK
    <3>7. NothingForgotten'
      BY <3>1, <3>5, <3>6, Zenon DEF NothingForgotten, SentPacket
    <3>8. 1 .. lastSentPacketNumber \subseteq 1 .. pn /\ pn \in 1 .. pn
      BY <1>1
    <3>9. /\ packetHistory' \in SUBSET Packet
          /\ \A p \in packetHistory' : p.Frames # {}
      <4>1. packet.Frames # {}
        BY <2>1, Zenon
      <4> HIDE DEF packet
      <4> QED
        BY <1>2, <4>1, <3>1, Zenon DEF TypeOK
    <3>10. /\ Numbers(packetHistory') \subseteq 1 .. pn
           /\ sent' \in SUBSET (1 .. pn)
      BY <3>1, <3>5, <3>8, Zenon DEF TypeOK
    <3>11. /\ Cardinality(packetHistory') <= Cardinality(packetHistory) + 1
           /\ numNonRetransmittablePackets' \in Nat
           /\ sent \subseteq sent'
      BY <2>0, <3>1, <3>3
    <3> QED
      BY <3>4, <3>7, <3>9, <3>10, <3>11, Zenon
  <2>2. CASE frames = {}
    <3>1. /\ UNCHANGED <<packetHistory, sent>>
          /\ numNonRetransmittablePackets' = numNonRetransmittablePackets + 1
      BY <2>2, Zenon DEF SentPacket
    <3>2. HistoryOK' /\ NothingForgotten'
      BY <3>1, Zenon DEF HistoryOK, NothingForgotten, SentPacket, Numbers
    <3>3. 1 .. lastSentPacketNumber \subseteq 1 .. pn
      BY <1>1
    <3> QED
      BY <2>0, <3>1, <3>2, <3>3 DEF TypeOK, Numbers
  <2> QED
    BY <2>1, <2>2, Zenon
<1>5. skippedPackets' \in SUBSET (1 .. pn)
  <2>1. skippedPackets \subseteq 1 .. pn /\ lastSentPacketNumber + 1 .. pn - 1 \subseteq 1 .. pn
    BY <1>1 DEF TypeOK
  <2> QED
    BY <2>1, Zenon DEF SentPacket, LastSkipped
<1>6. /\ retransmissionQueue' \in Seq(Packet)
      /\ Len(retransmissionQueue') <= Len(retransmissionQueue) + 1
  BY <1>2 DEF SentPacket, TypeOK
<1>7. TypeOK'
  <2>1. LargestAcked' \in 0 .. pn
    BY <1>1 DEF TypeOK, SentPacket, acks
  <2>2. /\ alarm' \in BOOLEAN
        /\ stopWaiting' \in Nat
    BY Zenon DEF TypeOK, SentPacket, None
  <2> QED
    BY <1>1, <1>4, <1>5, <1>6, <2>1, <2>2, Zenon
    DEF TypeOK, SentPacket, acks, stopWaitingManager
<1>8. LossRecoveryArmed'
  BY Zenon DEF SentPacket, LossRecoveryArmed, hasOutstandingRetransmittablePacket
<1>9. StopWaitingOK'
  BY <1>1 DEF SentPacket, StopWaitingOK, StopWaitingNeverAhead,
              stopWaitingManager, TypeOK, None
<1>10. TrackedBounded'
  <2>1. /\ Cardinality(packetHistory) \in Nat /\ Cardinality(packetHistory') \in Nat
        /\ Len(retransmissionQueue) \in Nat /\ Len(retransmissionQueue') \in Nat
        /\ MaxTrackedSentPackets \in Nat
    BY <1>4, <1>6, FS_CardinalityType, SentPacketHandlerAssumption
    DEF HistoryOK, TypeOK
  <2>2. Len(retransmissionQueue) + Cardinality(packetHistory) + 1 <= MaxTrackedSentPackets
    BY <2>1 DEF SentPacket, tooManyTracked, tracked
  <2> QED
    BY <1>4, <1>6, <2>1, <2>2 DEF TrackedBounded, tracked
<1> QED
  BY <1>4, <1>7, <1>8, <1>9, <1>10, Zenon

\* Every step that acks or loses packets through Requeue preserves the
\* invariant, given what it does to the other variables.
LEMMA LossStepPreserves ==
    ASSUME IInv,
           NEW lost \in SUBSET packetHistory,
           NEW newly \in SUBSET packetHistory,
           NEW ns \in SUBSET (1 .. lastSentPacketNumber),
           lost \cap newly = {}, Numbers(lost) \subseteq ns,
           Requeue(lost, newly),
           nextLeastUnacked' = LeastUnackedAfter(ns),
           alarm' = (packetHistory' # {}) \/ alarm' = alarm,
           skippedPackets' \in SUBSET skippedPackets,
           LargestAcked' \in 0 .. lastSentPacketNumber,
           largestReceivedPacketWithAck' \in Nat,
           rtoCount' \in Nat, tlpCount' \in 0 .. maxTailLossProbes,
           lossTime' \in BOOLEAN,
           UNCHANGED <<lastSentPacketNumber, numNonRetransmittablePackets,
                       largestLeastUnackedSent, lastStopWaitingFrame,
                       stopWaiting, sessionError, sent>>
    PROVE  IInv'
<1> USE DEF IInv
<1>1. /\ packetHistory' \in SUBSET packetHistory
      /\ retransmissionQueue' \in Seq(Packet)
      /\ acked' \in SUBSET sent /\ requeued' \in SUBSET sent
      /\ HistoryOK' /\ NothingForgotten' /\ TrackedBounded'
  BY RequeuePreserves, Zenon
<1>2. /\ nextLeastUnacked' \in Nat
      /\ nextLeastUnacked <= nextLeastUnacked'
      /\ nextLeastUnacked' <= lastSentPacketNumber + 1
      /\ \A n \in ns : n < nextLeastUnacked'
  BY LeastUnackedAdvances, Zenon
<1>3. TypeOK'
  <2>1. alarm' \in BOOLEAN
    BY Zenon DEF TypeOK
  <2>2. Numbers(packetHistory') \subseteq 1 .. lastSentPacketNumber
    BY <1>1, Zenon DEF TypeOK, Numbers
  <2> QED
    BY <1>1, <1>2, <2>1, <2>2, Zenon DEF TypeOK
<1>4. LossRecoveryArmed'
  BY <1>1, Zenon DEF LossRecoveryArmed, hasOutstandingRetransmittablePacket
<1>5. StopWaitingOK'
  <2>1. \A n \in requeued' : n < nextLeastUnacked'
    <3>1. ASSUME NEW n \in requeued
          PROVE  n < nextLeastUnacked'
      <4>1. n < nextLeastUnacked
        BY <3>1, Zenon DEF StopWaitingOK
      <4>2. n \in 1 .. lastSentPacketNumber /\ lastSentPacketNumber \in Nat
            /\ nextLeastUnacked \in Nat
        BY <3>1, Zenon DEF TypeOK
      <4> QED
        BY <1>2, <4>1, <4>2
    <3>2. requeued' = requeued \cup Numbers(lost)
      BY Zenon DEF Requeue
    <3> QED
      BY <1>2, <3>1, <3>2, Zenon
  <2>2. largestLeastUnackedSent' <= nextLeastUnacked'
    BY <1>2 DEF StopWaitingOK, TypeOK
  <2> QED
    BY <1>2, <2>1, <2>2, Zenon DEF StopWaitingOK, StopWaitingNeverAhead
<1> QED
  BY <1>1, <1>3, <1>4, <1>5, Zenon

\* An ACK that is processed.
LEMMA AckAcceptedPreserves ==
    ASSUME IInv, NEW f \in AckFrame, NEW withPN \in 1 .. MaxPeerPacketNumber,
           NEW cut \in 0 .. MaxPacketNumber, AckAccepted(f, withPN, cut)
    PROVE  IInv'
<1> DEFINE newly == {p \in packetHistory : p.PacketNumber \in f.packets}
           lost  == OldEnough(packetHistory \ newly, f.LargestAcked, cut)
           ns    == Numbers(lost) \cup {f.LargestAcked}
<1>1. lost \in SUBSET packetHistory /\ lost \cap newly = {}
  BY Zenon DEF OldEnough, Detectable
<1>2. newly \in SUBSET packetHistory
  BY Zenon
<1>3. f.LargestAcked \in 1 .. lastSentPacketNumber
  BY DEF AckAccepted, InOrderAck, AckFrame, PacketNumbers, IInv, TypeOK
<1>4. ns \in SUBSET (1 .. lastSentPacketNumber) /\ Numbers(lost) \subseteq ns
  <2>1. Numbers(lost) \subseteq Numbers(packetHistory)
    BY <1>1, Zenon DEF Numbers
  <2> QED
    BY <1>3, <2>1, Zenon DEF IInv, TypeOK
<1>5. /\ Requeue(lost, newly)
      /\ nextLeastUnacked' = LeastUnackedAfter(ns)
      /\ alarm' = (packetHistory' # {})
      /\ skippedPackets' \in SUBSET skippedPackets
      /\ LargestAcked' = f.LargestAcked
      /\ lossTime' \in BOOLEAN
  BY Zenon DEF AckAccepted
<1>6. /\ rtoCount' \in Nat /\ tlpCount' \in 0 .. maxTailLossProbes
      /\ largestReceivedPacketWithAck' \in Nat
  BY SentPacketHandlerAssumption
  DEF AckAccepted, InOrderAck, IInv, TypeOK, maxTailLossProbes
<1>7. LargestAcked' \in 0 .. lastSentPacketNumber
  BY <1>3, <1>5
<1>8. UNCHANGED <<lastSentPacketNumber, numNonRetransmittablePackets,
                  largestLeastUnackedSent, lastStopWaitingFrame,
                  stopWaiting, sessionError, sent>>
  BY Zenon DEF AckAccepted
<1> HIDE DEF newly, lost, ns
<1> QED
  BY <1>1, <1>2, <1>4, <1>5, <1>6, <1>7, <1>8, LossStepPreserves, Zenon

\* A CLOSE_PATH frame that is accepted.
LEMMA ClosePathAcceptedPreserves ==
    ASSUME IInv, NEW f \in AckFrame, NEW withPN \in 1 .. MaxPeerPacketNumber,
           ClosePathAccepted(f, withPN)
    PROVE  IInv'
<1> DEFINE newly == {p \in packetHistory : p.PacketNumber \in f.packets}
           lost  == Detectable(packetHistory \ newly, LargestAcked)
           ns    == Numbers(lost)
<1>1. lost \in SUBSET packetHistory /\ lost \cap newly = {}
  BY Zenon DEF Detectable
<1>2. newly \in SUBSET packetHistory
  BY Zenon
<1>3. ns \in SUBSET (1 .. lastSentPacketNumber)
  BY <1>1, Zenon DEF Numbers, IInv, TypeOK
<1>4. /\ Requeue(lost, newly)
      /\ nextLeastUnacked' = LeastUnackedAfter(ns)
      /\ alarm' = alarm
      /\ skippedPackets' \in SUBSET skippedPackets
  BY Zenon DEF ClosePathAccepted
<1>5. /\ rtoCount' \in Nat /\ tlpCount' \in 0 .. maxTailLossProbes
      /\ largestReceivedPacketWithAck' \in Nat
      /\ LargestAcked' \in 0 .. lastSentPacketNumber
      /\ lossTime' \in BOOLEAN
  BY SentPacketHandlerAssumption
  DEF ClosePathAccepted, InOrderAck, IInv, TypeOK, maxTailLossProbes
<1>6. UNCHANGED <<lastSentPacketNumber, numNonRetransmittablePackets,
                  largestLeastUnackedSent, lastStopWaitingFrame,
                  stopWaiting, sessionError, sent>>
  BY Zenon DEF ClosePathAccepted
<1> HIDE DEF newly, lost, ns
<1> QED
  BY <1>1, <1>2, <1>3, <1>4, <1>5, <1>6, LossStepPreserves, Zenon DEF ns

\* The alarm: time loss detection, a probe or a retransmission timeout.
LEMMA RetransmitPreserves ==
    ASSUME IInv, NEW lost \in SUBSET packetHistory, Retransmit(lost),
           rtoCount' \in Nat, tlpCount' \in 0 .. maxTailLossProbes,
           lossTime' \in BOOLEAN
    PROVE  IInv'
<1>1. Numbers(lost) \in SUBSET (1 .. lastSentPacketNumber)
  BY Zenon DEF Numbers, IInv, TypeOK
<1>2. /\ Requeue(lost, {})
      /\ nextLeastUnacked' = LeastUnackedAfter(Numbers(lost))
      /\ alarm' = (packetHistory' # {})
      /\ UNCHANGED <<numbering, acks, largestLeastUnackedSent,
                     lastStopWaitingFrame, stopWaiting, sessionError, sent>>
  BY Zenon DEF Retransmit
<1>3. /\ skippedPackets' \in SUBSET skippedPackets
      /\ LargestAcked' \in 0 .. lastSentPacketNumber
      /\ largestReceivedPacketWithAck' \in Nat
      /\ UNCHANGED <<lastSentPacketNumber, numNonRetransmittablePackets>>
  BY <1>2, Zenon DEF numbering, acks, IInv, TypeOK
<1>4. {} \in SUBSET packetHistory /\ lost \cap {} = {}
  BY Zenon
<1> QED
  BY <1>1, <1>2, <1>3, <1>4, LossStepPreserves, Zenon

\* The packer asks for a STOP_WAITING frame.
LEMMA GetStopWaitingFramePreserves ==
    ASSUME IInv, NEW force \in BOOLEAN, GetStopWaitingFrame(force)
    PROVE  IInv'
<1> USE DEF IInv
<1>1. UNCHANGED <<numbering, acks, flight, timers, nextLeastUnacked,
                  sessionError, history>>
  BY Zenon DEF GetStopWaitingFrame
<1>2. /\ largestLeastUnackedSent' \in Nat
      /\ lastStopWaitingFrame' \in Nat /\ stopWaiting' \in Nat
  BY Zenon DEF GetStopWaitingFrame, TypeOK
<1>3. TypeOK' /\ HistoryOK' /\ NothingForgotten' /\ LossRecoveryArmed'
      /\ TrackedBounded'
  BY <1>1, <1>2, Zenon
  DEF TypeOK, HistoryOK, NothingForgotten, LossRecoveryArmed, TrackedBounded,
      tracked, hasOutstandingRetransmittablePacket, Numbers,
      numbering, acks, flight, timers, history
<1>4. StopWaitingOK'
  BY <1>1
  DEF GetStopWaitingFrame, StopWaitingOK, StopWaitingNeverAhead, TypeOK, None,
      numbering, history
<1> QED
  BY <1>3, <1>4, Zenon

\* A retransmission leaves the queue.
LEMMA DequeuePreserves ==
    ASSUME IInv, DequeuePacketForRetransmission
    PROVE  IInv'
<1> USE DEF IInv
<1>1. UNCHANGED <<numbering, acks, packetHistory, timers, stopWaitingManager,
                  stopWaiting, sessionError, history>>
  BY Zenon DEF DequeuePacketForRetransmission
<1>2. /\ retransmissionQueue' \in Seq(Packet)
      /\ Len(retransmissionQueue') <= Len(retransmissionQueue)
      /\ Len(retransmissionQueue) \in Nat /\ Len(retransmissionQueue') \in Nat
  BY DEF DequeuePacketForRetransmission, TypeOK
<1>3. TypeOK' /\ HistoryOK' /\ NothingForgotten' /\ LossRecoveryArmed'
      /\ StopWaitingOK'
  BY <1>1, <1>2, Zenon
  DEF TypeOK, HistoryOK, NothingForgotten, LossRecoveryArmed, StopWaitingOK,
      StopWaitingNeverAhead, hasOutstandingRetransmittablePacket, Numbers,
      numbering, acks, timers, stopWaitingManager, history
<1>4. TrackedBounded'
  <2>1. /\ Cardinality(packetHistory) \in Nat /\ packetHistory' = packetHistory
        /\ MaxTrackedSentPackets \in Nat
    BY <1>1, FS_CardinalityType, SentPacketHandlerAssumption, Zenon DEF HistoryOK
  <2> QED
    BY <1>2, <2>1 DEF TrackedBounded, tracked
<1> QED
  BY <1>3, <1>4, Zenon

\* Steps that touch none of what the invariant relates: a rejected packet, ACK
\* or CLOSE_PATH frame, a repeated ACK, stuttering.
LEMMA RejectionPreserves ==
    ASSUME IInv,
           UNCHANGED <<numbering, flight, timers, stopWaitingManager,
                       stopWaiting, history>>,
           LargestAcked' \in 0 .. lastSentPacketNumber,
           largestReceivedPacketWithAck' \in Nat,
           sessionError' \in Errors
    PROVE  IInv'
BY Zenon DEF IInv, TypeOK, HistoryOK, NothingForgotten, LossRecoveryArmed,
       StopWaitingOK, StopWaitingNeverAhead, TrackedBounded, tracked,
       hasOutstandingRetransmittablePacket, Numbers,
       numbering, flight, timers, stopWaitingManager, history

\* An alarm that finds nothing to retransmit.
LEMMA AlarmCancelledPreserves ==
    ASSUME IInv, AlarmCancelled
    PROVE  IInv'
BY Zenon DEF IInv, TypeOK, HistoryOK, NothingForgotten, LossRecoveryArmed,
       StopWaitingOK, StopWaitingNeverAhead, TrackedBounded, tracked,
       hasOutstandingRetransmittablePacket, Numbers, AlarmCancelled,
       numbering, acks, flight, stopWaitingManager, history

\* IInv holds initially.
LEMMA InitEstablishes == Init => IInv
<1> SUFFICES ASSUME Init PROVE IInv
  BY Zenon
<1>1. packetHistory = {} /\ IsFiniteSet({}) /\ Cardinality({}) = 0
  BY FS_EmptySet, Zenon DEF Init
<1>2. TypeOK
  <2>1. Numbers(packetHistory) = {}
    BY <1>1, Zenon DEF Numbers
  <2>2. retransmissionQueue \in Seq(Packet)
    BY DEF Init
  <2>3. lossTime \in BOOLEAN /\ alarm \in BOOLEAN /\ sessionError \in Errors
    BY Zenon DEF Init, Errors
  <2>4. \A p \in packetHistory : p.Frames # {}
    BY <1>1, Zenon
  <2> QED
    BY <2>1, <2>2, <2>3, <2>4 DEF Init, TypeOK, maxTailLossProbes, None
<1>3. HistoryOK /\ NothingForgotten /\ LossRecoveryArmed /\ StopWaitingOK
  BY <1>1
  DEF Init, HistoryOK, NothingForgotten, Numbers, LossRecoveryArmed,
      hasOutstandingRetransmittablePacket, StopWaitingOK,
      StopWaitingNeverAhead, None
<1>4. TrackedBounded
  BY <1>1, SentPacketHandlerAssumption DEF Init, TrackedBounded, tracked
<1> QED
  BY <1>2, <1>3, <1>4, Zenon DEF IInv

\* Every step of the handler preserves IInv.
LEMMA NextPreserves == IInv /\ [Next]_vars => IInv'
<1> SUFFICES ASSUME IInv, [Next]_vars PROVE IInv'
  BY Zenon
<1>0. /\ LargestAcked \in 0 .. lastSentPacketNumber
      /\ largestReceivedPacketWithAck \in Nat /\ sessionError \in Errors
      /\ rtoCount \in Nat /\ tlpCount \in 0 .. maxTailLossProbes
      /\ lossTime \in BOOLEAN /\ lastSentPacketNumber \in Nat
  BY Zenon DEF IInv, TypeOK
<1>1. CASE Send
  BY <1>1, SentPacketPreserves, Zenon DEF Send
<1>2. CASE SentPacketRejected
  <2>1. /\ UNCHANGED <<numbering, flight, timers, stopWaitingManager,
                       stopWaiting, history>>
        /\ UNCHANGED acks /\ sessionError' \in Errors
    BY <1>2, Zenon DEF SentPacketRejected, Errors
  <2> QED
    BY <1>0, <2>1, RejectionPreserves, Zenon DEF acks
<1>3. CASE DequeuePacketForRetransmission
  BY <1>3, DequeuePreserves, Zenon
<1>4. CASE \E force \in BOOLEAN : GetStopWaitingFrame(force)
  BY <1>4, GetStopWaitingFramePreserves, Zenon
<1>5. CASE Receive
  <2> PICK f \in AckFrame, withPN \in 1 .. MaxPeerPacketNumber :
          ReceivedAck(f, withPN) \/ ReceivedClosePath(f, withPN)
    BY <1>5, Zenon DEF Receive
  <2>0. withPN \in Nat /\ f.LargestAcked \in Nat
    BY SentPacketHandlerAssumption DEF AckFrame, PacketNumbers
  <2>1. CASE AckForUnsentPacket(f)
    BY <1>0, <2>1, RejectionPreserves, Zenon DEF AckForUnsentPacket, acks, Errors
  <2>2. CASE AckOutOfOrder(f, withPN)
    BY <1>0, <2>2, RejectionPreserves, Zenon DEF AckOutOfOrder, vars, acks
  <2>3. CASE RepeatedAck(f, withPN)
    BY <1>0, <2>0, <2>3, RejectionPreserves, Zenon DEF RepeatedAck, InOrderAck
  <2>4. CASE AckForSkippedPacket(f, withPN)
    BY <1>0, <2>0, <2>4, RejectionPreserves
    DEF AckForSkippedPacket, InOrderAck, Errors
  <2>5. CASE \E cut \in 0 .. MaxPacketNumber : AckAccepted(f, withPN, cut)
    BY <2>5, AckAcceptedPreserves, Zenon
  <2>6. CASE ClosePathRejected(f, withPN)
    BY <1>0, <2>0, <2>6, RejectionPreserves, Zenon DEF ClosePathRejected, InOrderAck
  <2>7. CASE ClosePathAccepted(f, withPN)
    BY <2>7, ClosePathAcceptedPreserves, Zenon
  <2> QED
    BY <2>1, <2>2, <2>3, <2>4, <2>5, <2>6, <2>7, Zenon
    DEF ReceivedAck, ReceivedClosePath
<1>6. CASE OnAlarm
  <2>1. CASE AlarmCancelled
    BY <2>1, AlarmCancelledPreserves, Zenon
  <2>2. ASSUME NEW cut \in PacketNumbers, LossTimeout(cut)
        PROVE  IInv'
    <3>1. OldEnough(packetHistory, LargestAcked, cut) \in SUBSET packetHistory
      BY Zenon DEF OldEnough, Detectable
    <3>2. /\ Retransmit(OldEnough(packetHistory, LargestAcked, cut))
          /\ lossTime' \in BOOLEAN /\ UNCHANGED <<rtoCount, tlpCount>>
      BY <2>2, Zenon DEF LossTimeout
    <3> QED
      BY <1>0, <3>1, <3>2, RetransmitPreserves, Zenon
  <2>3. CASE TailLossProbe
    <3>1. Newest(1) \in SUBSET packetHistory
      BY Zenon DEF Newest
    <3>2. tlpCount' \in 0 .. maxTailLossProbes
      BY <1>0, <2>3 DEF TailLossProbe, maxTailLossProbes
    <3> QED
      BY <1>0, <2>3, <3>1, <3>2, RetransmitPreserves, Zenon DEF TailLossProbe
  <2>4. ASSUME NEW potentiallyFailed \in BOOLEAN,
               RetransmissionTimeout(potentiallyFailed)
        PROVE  IInv'
    <3> DEFINE lost == IF potentiallyFailed THEN packetHistory ELSE Oldest(2)
    <3>1. lost \in SUBSET packetHistory
      BY Zenon DEF Oldest
    <3>2. /\ Retransmit(lost) /\ rtoCount' = rtoCount + 1
          /\ UNCHANGED <<tlpCount, lossTime>>
      BY <2>4, Zenon DEF RetransmissionTimeout
    <3> HIDE DEF lost
    <3> QED
      BY <1>0, <3>1, <3>2, RetransmitPreserves
  <2> QED
    BY <1>6, <2>1, <2>2, <2>3, <2>4, Zenon DEF OnAlarm
<1>7. CASE UNCHANGED vars \/ RunLoopEnds
  BY <1>0, <1>7, RejectionPreserves, Zenon DEF RunLoopEnds, vars, acks
<1> QED
  BY <1>1, <1>2, <1>3, <1>4, <1>5, <1>6, <1>7, Zenon DEF Next, TimerFires

-----------------------------------------------------------------------------

\* IInv is an invariant of the handler.
THEOREM InductiveInvariant == Spec => []IInv
BY InitEstablishes, NextPreserves, PTL DEF Spec

\* Type correctness of the handler's state.
THEOREM TypeCorrect == Spec => []TypeOK
<1>1. IInv => TypeOK
  BY Zenon DEF IInv
<1> QED
  BY <1>1, InductiveInvariant, PTL

\* Every retransmittable packet ever sent is in flight, acked or queued for
\* retransmission, and exactly one of the three.
THEOREM NothingIsForgotten == Spec => []NothingForgotten
<1>1. IInv => NothingForgotten
  BY Zenon DEF IInv
<1> QED
  BY <1>1, InductiveInvariant, PTL

\* The alarm is set whenever a packet it would retransmit is in flight.
THEOREM LossRecoveryIsArmed == Spec => []LossRecoveryArmed
<1>1. IInv => LossRecoveryArmed
  BY Zenon DEF IInv
<1> QED
  BY <1>1, InductiveInvariant, PTL

\* STOP_WAITING frames can always be written.
THEOREM StopWaitingIsNeverAhead == Spec => []StopWaitingNeverAhead
<1>1. IInv => StopWaitingNeverAhead
  BY Zenon DEF IInv, StopWaitingOK
<1> QED
  BY <1>1, InductiveInvariant, PTL

\* The STOP_WAITING frame of a retransmission exists and passes every number
\* that the path ever queued for retransmission.
THEOREM StopWaitingAlwaysPassesLost == Spec => []StopWaitingPassesLost
<1>1. IInv => StopWaitingPassesLost
  <2> SUFFICES ASSUME IInv, NEW n \in requeued
               PROVE  n < ForcedStopWaiting
    BY Zenon DEF StopWaitingPassesLost
  <2>1. /\ n < nextLeastUnacked
        /\ lastStopWaitingFrame = largestLeastUnackedSent
        /\ largestLeastUnackedSent <= nextLeastUnacked
    BY Zenon DEF IInv, StopWaitingOK
  <2>2. nextLeastUnacked \in Nat /\ largestLeastUnackedSent \in Nat
    BY Zenon DEF IInv, TypeOK
  <2>3. ForcedStopWaiting = nextLeastUnacked
    BY <2>1, <2>2 DEF ForcedStopWaiting
  <2> QED
    BY <2>1, <2>3, Zenon
<1> QED
  BY <1>1, InductiveInvariant, PTL

\* The number of tracked packets is bounded.
THEOREM TrackedIsBounded == Spec => []TrackedBounded
<1>1. IInv => TrackedBounded
  BY Zenon DEF IInv
<1> QED
  BY <1>1, InductiveInvariant, PTL

-----------------------------------------------------------------------------
(***************************************************************************)
(* The counter of bytes in flight.                                         *)
(***************************************************************************)

BytesOK == IsFiniteSet(BytesOf(packetHistory)) /\ BytesInFlightExact

\* The bytes of one packet are as many as its length.
LEMMA BytesOfPacket ==
    ASSUME NEW p, p.Length \in Nat
    PROVE  IsFiniteSet(BytesOf({p})) /\ Cardinality(BytesOf({p})) = p.Length
<1>1. IsFiniteSet(Run(p, 1, p.Length)) /\ Cardinality(Run(p, 1, p.Length)) = p.Length
  BY RunOfBytes, Zenon
<1>2. BytesOf({p}) = Run(p, 1, p.Length)
  <2>1. 1 + p.Length - 1 = p.Length
    OBVIOUS
  <2>2. BytesOf({p}) = {p} \X (1 .. p.Length)
    BY Zenon DEF BytesOf
  <2>3. Run(p, 1, p.Length) = {<<p, k>> : k \in 1 .. p.Length}
    BY <2>1, Zenon DEF Run
  <2> QED
    BY <2>2, <2>3
<1> QED
  BY <1>1, <1>2, Zenon

\* The bytes of two sets of packets without a packet in common.
LEMMA BytesOfUnion ==
    ASSUME NEW S, NEW T, S \cap T = {},
           IsFiniteSet(BytesOf(S)), IsFiniteSet(BytesOf(T))
    PROVE  /\ IsFiniteSet(BytesOf(S \cup T))
           /\ Bytes(S \cup T) = Bytes(S) + Bytes(T)
<1>1. BytesOf(S \cup T) = BytesOf(S) \cup BytesOf(T)
  BY Zenon DEF BytesOf
<1>2. BytesOf(S) \cap BytesOf(T) = {}
  <2>1. ASSUME NEW U, NEW b \in BytesOf(U)
        PROVE  b[1] \in U
    <3>1. PICK p \in U : b \in {p} \X (1 .. p.Length)
      BY <2>1, Zenon DEF BytesOf
    <3> QED
      BY <3>1, Zenon
  <2> QED
    BY <2>1, Zenon
<1>3. /\ IsFiniteSet(BytesOf(S) \cup BytesOf(T))
      /\ Cardinality(BytesOf(S) \cup BytesOf(T)) =
             Cardinality(BytesOf(S)) + Cardinality(BytesOf(T))
             - Cardinality(BytesOf(S) \cap BytesOf(T))
  BY FS_Union, Zenon
<1>4. Cardinality(BytesOf(S) \cap BytesOf(T)) = 0
  BY <1>2, FS_EmptySet, Zenon
<1>5. Cardinality(BytesOf(S)) \in Nat /\ Cardinality(BytesOf(T)) \in Nat
  BY FS_CardinalityType, Zenon
<1>6. Cardinality(BytesOf(S) \cup BytesOf(T)) = Cardinality(BytesOf(S)) + Cardinality(BytesOf(T))
  BY <1>3, <1>4, <1>5
<1> QED
  BY <1>1, <1>3, <1>6, Zenon DEF Bytes

\* A new packet is counted once.
LEMMA SentPacketCounts ==
    ASSUME IInv, BytesOK, Send
    PROVE  BytesOK'
<1> PICK pn \in PacketNumbers, frames \in SUBSET Frame, length \in Lengths,
         duplicate \in BOOLEAN, crypto \in BOOLEAN :
            SentPacket(pn, frames, length, duplicate, crypto)
  BY Zenon DEF Send
<1> DEFINE packet == [PacketNumber |-> pn, Frames |-> frames, Length |-> length]
<1>1. CASE UNCHANGED <<packetHistory, bytesInFlight>>
  BY <1>1, Zenon DEF BytesOK, BytesInFlightExact
<1>2. CASE /\ packetHistory' = packetHistory \cup {packet}
           /\ bytesInFlight' = bytesInFlight + length
  <2>1. packet.Length = length /\ packet.PacketNumber = pn
    BY Zenon
  <2>2. length \in Nat /\ pn > lastSentPacketNumber /\ pn \in Nat
    BY SentPacketHandlerAssumption DEF SentPacket, PacketNumbers
  <2> HIDE DEF packet
  <2>3. packet \notin packetHistory
    <3>1. \A p \in packetHistory : p.PacketNumber \in 1 .. lastSentPacketNumber
      BY Zenon DEF IInv, TypeOK, Numbers
    <3>2. lastSentPacketNumber \in Nat
      BY Zenon DEF IInv, TypeOK
    <3> QED
      BY <2>1, <2>2, <3>1, <3>2
  <2>4. IsFiniteSet(BytesOf({packet})) /\ Bytes({packet}) = length
    BY <2>1, <2>2, BytesOfPacket, Zenon DEF Bytes
  <2>5. packetHistory \cap {packet} = {}
    BY <2>3, Zenon
  <2>6. /\ IsFiniteSet(BytesOf(packetHistory \cup {packet}))
        /\ Bytes(packetHistory \cup {packet}) = Bytes(packetHistory) + Bytes({packet})
    BY <2>4, <2>5, BytesOfUnion, Zenon DEF BytesOK
  <2> QED
    BY <1>2, <2>4, <2>6, Zenon DEF BytesOK, BytesInFlightExact
<1> QED
  BY <1>1, <1>2, Zenon DEF SentPacket

\* Packets that leave the history, acked or lost, are discounted once each.
LEMMA RequeueCounts ==
    ASSUME BytesOK,
           NEW lost \in SUBSET packetHistory,
           NEW newly \in SUBSET packetHistory,
           lost \cap newly = {},
           Requeue(lost, newly)
    PROVE  BytesOK'
<1> DEFINE rest == packetHistory \ (lost \cup newly)
<1>1. \A S \in SUBSET packetHistory : BytesOf(S) \subseteq BytesOf(packetHistory)
  BY Zenon DEF BytesOf
<1>2. \A S \in SUBSET packetHistory : IsFiniteSet(BytesOf(S))
  BY <1>1, FS_Subset, Zenon DEF BytesOK
<1>3. Bytes(lost \cup newly) = Bytes(lost) + Bytes(newly)
  BY <1>2, BytesOfUnion, Zenon
<1>4. /\ rest \in SUBSET packetHistory /\ lost \cup newly \in SUBSET packetHistory
      /\ rest \cap (lost \cup newly) = {}
      /\ packetHistory = rest \cup (lost \cup newly)
  BY Zenon
<1>5. packetHistory' = rest /\ bytesInFlight' = bytesInFlight - Bytes(newly) - Bytes(lost)
  BY Zenon DEF Requeue
<1> HIDE DEF rest
<1>6. Bytes(rest \cup (lost \cup newly)) = Bytes(rest) + Bytes(lost \cup newly)
  BY <1>2, <1>4, BytesOfUnion, Zenon
<1>7. Bytes(rest) \in Nat /\ Bytes(lost) \in Nat /\ Bytes(newly) \in Nat
  BY <1>2, <1>4, FS_CardinalityType, Zenon DEF Bytes
<1>8. bytesInFlight = Bytes(rest) + (Bytes(lost) + Bytes(newly))
  BY <1>3, <1>4, <1>6, Zenon DEF BytesOK, BytesInFlightExact
<1>9. bytesInFlight' = Bytes(rest)
  BY <1>5, <1>7, <1>8
<1> QED
  BY <1>2, <1>4, <1>5, <1>9, Zenon DEF BytesOK, BytesInFlightExact

LEMMA NextCounts == IInv /\ BytesOK /\ [Next]_vars => BytesOK'
<1> SUFFICES ASSUME IInv, BytesOK, [Next]_vars PROVE BytesOK'
  BY Zenon
<1>1. ASSUME UNCHANGED <<packetHistory, bytesInFlight>>
      PROVE  BytesOK'
  BY <1>1, Zenon DEF BytesOK, BytesInFlightExact
<1>2. ASSUME NEW lost \in SUBSET packetHistory, Retransmit(lost)
      PROVE  BytesOK'
  <2>1. {} \in SUBSET packetHistory /\ lost \cap {} = {} /\ Requeue(lost, {})
    BY <1>2, Zenon DEF Retransmit
  <2> QED
    BY <1>2, <2>1, RequeueCounts, Zenon
<1>3. CASE Send
  BY <1>3, SentPacketCounts, Zenon
<1>4. CASE \/ SentPacketRejected \/ DequeuePacketForRetransmission \/ UNCHANGED vars
           \/ \E force \in BOOLEAN : GetStopWaitingFrame(force)
           \/ AlarmCancelled \/ RunLoopEnds
  BY <1>1, <1>4, Zenon
  DEF RunLoopEnds, SentPacketRejected, DequeuePacketForRetransmission, vars,
      flight, GetStopWaitingFrame, AlarmCancelled
<1>5. CASE Receive
  <2> PICK f \in AckFrame, withPN \in 1 .. MaxPeerPacketNumber :
          ReceivedAck(f, withPN) \/ ReceivedClosePath(f, withPN)
    BY <1>5, Zenon DEF Receive
  <2> DEFINE newly == {p \in packetHistory : p.PacketNumber \in f.packets}
  <2>1. CASE \/ AckForUnsentPacket(f) \/ AckOutOfOrder(f, withPN)
             \/ RepeatedAck(f, withPN) \/ AckForSkippedPacket(f, withPN)
             \/ ClosePathRejected(f, withPN)
    BY <1>1, <2>1, Zenon DEF AckForUnsentPacket, AckOutOfOrder, RepeatedAck, AckForSkippedPacket,
       ClosePathRejected, flight, vars
  <2>2. ASSUME NEW cut \in 0 .. MaxPacketNumber, AckAccepted(f, withPN, cut)
        PROVE  BytesOK'
    <3> DEFINE lost == OldEnough(packetHistory \ newly, f.LargestAcked, cut)
    <3>1. lost \in SUBSET packetHistory /\ lost \cap newly = {}
      BY Zenon DEF OldEnough, Detectable
    <3>2. newly \in SUBSET packetHistory /\ Requeue(lost, newly)
      BY <2>2, Zenon DEF AckAccepted
    <3> HIDE DEF newly, lost
    <3> QED
      BY <3>1, <3>2, RequeueCounts, Zenon
  <2>3. CASE ClosePathAccepted(f, withPN)
    <3> DEFINE lost == Detectable(packetHistory \ newly, LargestAcked)
    <3>1. lost \in SUBSET packetHistory /\ lost \cap newly = {}
      BY Zenon DEF Detectable
    <3>2. newly \in SUBSET packetHistory /\ Requeue(lost, newly)
      BY <2>3, Zenon DEF ClosePathAccepted
    <3> HIDE DEF newly, lost
    <3> QED
      BY <3>1, <3>2, RequeueCounts, Zenon
  <2> QED
    BY <2>1, <2>2, <2>3, Zenon DEF ReceivedAck, ReceivedClosePath
<1>6. CASE OnAlarm
  <2>1. ASSUME NEW cut \in PacketNumbers, LossTimeout(cut)
        PROVE  BytesOK'
    <3>1. OldEnough(packetHistory, LargestAcked, cut) \in SUBSET packetHistory
      BY Zenon DEF OldEnough, Detectable
    <3> QED
      BY <1>2, <2>1, <3>1, Zenon DEF LossTimeout
  <2>2. CASE TailLossProbe
    <3>1. Newest(1) \in SUBSET packetHistory
      BY Zenon DEF Newest
    <3> QED
      BY <1>2, <2>2, <3>1, Zenon DEF TailLossProbe
  <2>3. ASSUME NEW potentiallyFailed \in BOOLEAN,
               RetransmissionTimeout(potentiallyFailed)
        PROVE  BytesOK'
    <3> DEFINE lost == IF potentiallyFailed THEN packetHistory ELSE Oldest(2)
    <3>1. lost \in SUBSET packetHistory
      BY Zenon DEF Oldest
    <3>2. Retransmit(lost)
      BY <2>3, Zenon DEF RetransmissionTimeout
    <3> HIDE DEF lost
    <3> QED
      BY <1>2, <3>1, <3>2, Zenon
  <2> QED
    BY <1>4, <1>6, <2>1, <2>2, <2>3, Zenon DEF OnAlarm
<1> QED
  BY <1>3, <1>4, <1>5, <1>6, Zenon DEF Next, TimerFires

\* bytesInFlight is always the number of bytes of the packets in the history: the
\* unsigned counter never wraps.
THEOREM BytesInFlightIsExact == Spec => []BytesInFlightExact
<1>1. Init => BytesOK
  <2>1. ASSUME packetHistory = {}
        PROVE  BytesOf(packetHistory) = {}
    BY <2>1, Zenon DEF BytesOf
  <2>2. IsFiniteSet({}) /\ Cardinality({}) = 0
    BY FS_EmptySet, Zenon
  <2> QED
    BY <2>1, <2>2, Zenon DEF Init, BytesOK, BytesInFlightExact, Bytes
<1>2. BytesOK => BytesInFlightExact
  BY Zenon DEF BytesOK
<1> QED
  BY <1>1, <1>2, InductiveInvariant, NextCounts, PTL DEF Spec
=============================================================================
