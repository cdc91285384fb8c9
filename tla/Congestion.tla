----------------------------- MODULE Congestion -----------------------------
(***************************************************************************)
(* Congestion control of the paths of a session: cubic_sender.go for a     *)
(* session with one path and olia_sender.go for the paths that share their *)
(* windows, driven by the calls of sent_packet_handler.go.  The two        *)
(* senders have the same code but for the growth of the window beyond slow *)
(* start, so they are one module with the kind of a path as a parameter.   *)
(*                                                                         *)
(* An ACK or a timeout is a list of calls, one for each packet acked and   *)
(* then for each packet lost, the oldest first; `calls` holds the ones     *)
(* still to come, and no other event is handled before they are done.      *)
(* history is the packets in flight of each path.                          *)
(*                                                                         *)
(* reducedAt, beyond and stale are history variables: the last number sent *)
(* when the window was last reduced for a loss (0 after a timeout),        *)
(* whether a number above it was acked since, and whether the epoch of     *)
(* Cubic's curve began with the start of an application-limited period     *)
(* still recorded.                                                         *)
(*                                                                         *)
(* A behaviour is explored with one of the Bounds: the paths that are      *)
(* used, the initial window, the lengths of packets and the RTT samples,   *)
(* how many packets are sent, how many of them are in flight at a time and *)
(* how many timeouts happen on each path, and the last instant.            *)
(***************************************************************************)
EXTENDS CongestionAlgorithms

CONSTANTS
    Paths,
    Cubic,                    \* the paths with a cubicSender; the others are OLIA's
    MinCongestionWindow,      \* defaultMinimumCongestionWindow
    MaxCongestionWindow,      \* DefaultMaxCongestionWindow
    MaxBurstBytes,
    Bounds                    \* the bounds that behaviours are explored with

ASSUME CongestionAssumption ==
    /\ Cubic \subseteq Paths
    /\ IsFiniteSet(Paths)
    /\ MinCongestionWindow \in Nat \ {0}
    /\ MaxCongestionWindow \in Nat /\ MinCongestionWindow <= MaxCongestionWindow
    /\ MaxBurstBytes \in Nat
    /\ OliaScale >= 2
    /\ \A b \in Bounds : /\ b.paths \subseteq Paths
                         /\ b.initial \in MinCongestionWindow .. MaxCongestionWindow
                         /\ b.lengths \subseteq 1 .. MSS
                         /\ b.rtts \subseteq Nat \ {0}

VARIABLES
    history, retransmissions, lastSent, LargestAcked, calls, timeouts, now,
    largestSentPacketNumber, largestAckedPacketNumber, largestSentAtLastCutback,
    congestionWindow, slowstartThreshold, rttStats, prr, hybridSlowStart, cubic, olia,
    reducedAt, beyond, stale,
    bounds

handler == <<history, retransmissions, lastSent, LargestAcked, calls, timeouts>>
numbers == <<largestSentPacketNumber, largestAckedPacketNumber, largestSentAtLastCutback>>
window == <<congestionWindow, slowstartThreshold>>
parts == <<rttStats, prr, hybridSlowStart, cubic, olia>>
ghosts == <<reducedAt, beyond, stale>>
vars == <<handler, now, numbers, window, parts, ghosts, bounds>>

NoCalls == [path |-> CHOOSE p \in Paths : TRUE, acked |-> {}, lost |-> {}, timeout |-> FALSE]

Init ==
    /\ bounds \in Bounds
    /\ history = [p \in Paths |-> {}]
    /\ retransmissions = [p \in Paths |-> 0]
    /\ lastSent = [p \in Paths |-> 0]
    /\ LargestAcked = [p \in Paths |-> 0]
    /\ calls = NoCalls
    /\ timeouts = [p \in Paths |-> 0]
    /\ now = 1
    /\ largestSentPacketNumber = [p \in Paths |-> 0]
    /\ largestAckedPacketNumber = [p \in Paths |-> 0]
    /\ largestSentAtLastCutback = [p \in Paths |-> 0]
    /\ congestionWindow = [p \in Paths |-> bounds.initial]
    /\ slowstartThreshold = [p \in Paths |-> MaxCongestionWindow]
    /\ rttStats = [p \in Paths |-> NoRTT]
    /\ prr = [p \in Paths |-> NoPrr]
    /\ hybridSlowStart = [p \in Paths |-> NewHybrid]
    /\ cubic = [p \in Paths |-> NewCubic]
    /\ olia = [p \in Paths |-> NewOlia]
    /\ reducedAt = [p \in Paths |-> 0]
    /\ beyond = [p \in Paths |-> TRUE]
    /\ stale = [p \in Paths |-> FALSE]

Numbers(p) == {k.number : k \in history[p]}
Packet(p, n) == CHOOSE k \in history[p] : k.number = n
Without(p, n) == [history EXCEPT ![p] = @ \ {Packet(p, n)}]
BytesInFlight(S) == MapThenSumSet(LAMBDA k : k.length, S)

\* Mutant: recovery ends with the last packet sent before the reduction.
InRecovery_short(acked, p) == acked < largestSentAtLastCutback[p] /\ acked # 0

\* With `acked` as the largest number acked.
InRecovery(acked, p) == acked <= largestSentAtLastCutback[p] /\ acked # 0

InSlowStart(w, t) == w < t

isCwndLimited(w, t, bytesInFlight) ==
    \/ bytesInFlight >= w * MSS
    \/ InSlowStart(w, t) /\ bytesInFlight > (w * MSS) \div 2
    \/ w * MSS - bytesInFlight <= MaxBurstBytes

-----------------------------------------------------------------------------
(***************************************************************************)
(* The calls of the sender.                                                *)
(***************************************************************************)

OnPacketSent(p, n, length) ==
    /\ prr' = IF InRecovery(largestAckedPacketNumber[p], p)
              THEN [prr EXCEPT ![p] = PrrPacketSent(@, length)] ELSE prr
    /\ largestSentPacketNumber' = [largestSentPacketNumber EXCEPT ![p] = n]
    /\ hybridSlowStart' = [hybridSlowStart EXCEPT ![p] = HybridPacketSent(@, n)]
    /\ UNCHANGED <<largestAckedPacketNumber, largestSentAtLastCutback, window, rttStats, cubic,
                   olia, ghosts>>

\* UpdateRTT, and the MaybeExitSlowStart that follows.
MaybeExitSlowStart(p, rtt) ==
    LET r == UpdateRTT(rttStats[p], rtt, 0)
        asked == InSlowStart(congestionWindow[p], slowstartThreshold[p])
    IN  /\ rttStats' = [rttStats EXCEPT ![p] = r]
        /\ hybridSlowStart' =
              IF asked THEN [hybridSlowStart EXCEPT ![p] = HybridSampled(@, r.latest, r.min)]
              ELSE hybridSlowStart
        /\ slowstartThreshold' =
              IF asked /\ ShouldExitSlowStart(hybridSlowStart[p], r.latest, r.min,
                                              congestionWindow[p])
              THEN [slowstartThreshold EXCEPT ![p] = congestionWindow[p]]
              ELSE slowstartThreshold

\* The ways maybeIncreaseCwnd ends; o is OLIA's state of each path with the
\* bytes just acked.
StayLimited(p, o) ==
    /\ cubic' = IF p \in Cubic THEN [cubic EXCEPT ![p] = OnApplicationLimited(@, now)] ELSE cubic
    /\ olia' = o
    /\ UNCHANGED <<congestionWindow, stale>>

StayAtMax(o) == olia' = o /\ UNCHANGED <<congestionWindow, cubic, stale>>

GrowInSlowStart(p, o) ==
    /\ congestionWindow' = [congestionWindow EXCEPT ![p] = @ + 1]
    /\ olia' = o
    /\ UNCHANGED <<cubic, stale>>

GrowCubic(p) ==
    LET c == CubicAfterAck(cubic[p], congestionWindow[p], rttStats[p].min, now)
    IN  /\ cubic' = [cubic EXCEPT ![p] = c]
        /\ congestionWindow' =
              [congestionWindow EXCEPT ![p] = Smaller(MaxCongestionWindow, CubicWindow(c))]
        /\ stale' = [stale EXCEPT ![p] = IF cubic[p].epoch = Never /\ c.epoch # Never
                                         THEN c.appLimited # Never ELSE @]
        /\ UNCHANGED olia

\* The orders in which a Go map may be visited.
Orders(S) == {o \in [1 .. Cardinality(S) -> S] : \A p \in S : \E i \in DOMAIN o : o[i] = p}

GrowOlia(p, o) ==
    \E order \in Orders(Paths \ Cubic) :
       LET e == getEpsilon([q \in Paths \ Cubic |-> o[q]], rttStats,
                           [q \in Paths \ Cubic |-> congestionWindow[q]],
                           BestPath(order, o, rttStats))
       IN  \E increment \in Increments(e[p]) :
             /\ congestionWindow' =
                   [congestionWindow EXCEPT
                       ![p] = Smaller(MaxCongestionWindow, OliaWindow(e[p], increment, @))]
             /\ olia' = [q \in Paths |-> IF q \in Cubic THEN o[q]
                                         ELSE IF q = p THEN OliaCounted(e[p], increment)
                                         ELSE e[q]]
             /\ UNCHANGED <<cubic, stale>>

CubicMaybeIncreaseCwnd(p, bytesInFlight) ==
    LET w == congestionWindow[p]
        t == slowstartThreshold[p]
    IN  IF ~isCwndLimited(w, t, bytesInFlight) THEN StayLimited(p, olia)
        ELSE IF w >= MaxCongestionWindow THEN StayAtMax(olia)
        ELSE IF InSlowStart(w, t) THEN GrowInSlowStart(p, olia)
        ELSE GrowCubic(p)

OliaMaybeIncreaseCwnd(p, bytesInFlight, o) ==
    LET w == congestionWindow[p]
        t == slowstartThreshold[p]
    IN  IF ~isCwndLimited(w, t, bytesInFlight) THEN StayLimited(p, o)
        ELSE IF w >= MaxCongestionWindow THEN StayAtMax(o)
        ELSE IF InSlowStart(w, t) THEN GrowInSlowStart(p, o)
        ELSE GrowOlia(p, o)

\* OnPacketAcked in recovery, and its end otherwise.
AckedInRecovery(p, length) ==
    /\ prr' = [prr EXCEPT ![p] = PrrPacketAcked(@, length)]
    /\ UNCHANGED <<congestionWindow, cubic, olia, stale, hybridSlowStart>>

EndRound(p, n) ==
    /\ hybridSlowStart' = IF InSlowStart(congestionWindow'[p], slowstartThreshold[p])
                          THEN [hybridSlowStart EXCEPT ![p] = HybridPacketAcked(@, n)]
                          ELSE hybridSlowStart
    /\ UNCHANGED prr

CubicOnPacketAcked(p, n, length, bytesInFlight) ==
    IF InRecovery(Larger(n, largestAckedPacketNumber[p]), p) THEN AckedInRecovery(p, length)
    ELSE CubicMaybeIncreaseCwnd(p, bytesInFlight) /\ EndRound(p, n)

OliaOnPacketAcked(p, n, length, bytesInFlight) ==
    LET o == [olia EXCEPT ![p] = UpdateAckedSinceLastLoss(@, length)]
    IN  IF InRecovery(Larger(n, largestAckedPacketNumber[p]), p) THEN AckedInRecovery(p, length)
        ELSE OliaMaybeIncreaseCwnd(p, bytesInFlight, o) /\ EndRound(p, n)

OnPacketAcked(p, n, length, bytesInFlight) ==
    /\ largestAckedPacketNumber' = [largestAckedPacketNumber EXCEPT ![p] = Larger(n, @)]
    /\ IF p \in Cubic THEN CubicOnPacketAcked(p, n, length, bytesInFlight)
       ELSE OliaOnPacketAcked(p, n, length, bytesInFlight)
    /\ beyond' = [beyond EXCEPT ![p] = @ \/ n > reducedAt[p]]
    /\ UNCHANGED <<largestSentPacketNumber, largestSentAtLastCutback, slowstartThreshold, rttStats,
                   reducedAt>>

\* Mutant: the smallest window is not enforced.
Reduced_unbounded(w) == Beta(w)

\* The window after a loss: RenoBeta and CongestionWindowAfterPacketLoss reduce
\* it by the same factor.
Reduced(w) == Larger(Beta(w), MinCongestionWindow)

\* A loss that reduces the window.
Reduce(p, bytesInFlight) ==
    /\ prr' = [prr EXCEPT ![p] = PrrPacketLost(@, bytesInFlight)]
    /\ congestionWindow' = [congestionWindow EXCEPT ![p] = Reduced(@)]
    /\ slowstartThreshold' = [slowstartThreshold EXCEPT ![p] = Reduced(congestionWindow[p])]
    /\ largestSentAtLastCutback' =
          [largestSentAtLastCutback EXCEPT ![p] = largestSentPacketNumber[p]]
    /\ reducedAt' = [reducedAt EXCEPT ![p] = lastSent[p]]
    /\ beyond' = [beyond EXCEPT ![p] = FALSE]
    /\ UNCHANGED <<largestSentPacketNumber, largestAckedPacketNumber, rttStats, hybridSlowStart,
                   stale>>

CubicOnPacketLost(p, n, bytesInFlight) ==
    IF n <= largestSentAtLastCutback[p] THEN UNCHANGED <<numbers, window, parts, ghosts>>
    ELSE /\ Reduce(p, bytesInFlight)
         /\ cubic' = [cubic EXCEPT ![p] = CubicAfterLoss(@, congestionWindow[p])]
         /\ UNCHANGED olia

OliaOnPacketLost(p, n, bytesInFlight) ==
    IF n <= largestSentAtLastCutback[p] THEN UNCHANGED <<numbers, window, parts, ghosts>>
    ELSE /\ Reduce(p, bytesInFlight)
         /\ olia' = [olia EXCEPT ![p] = OliaPacketLost(@)]
         /\ UNCHANGED cubic

\* OnRetransmissionTimeout, but for the reset of Cubic or OLIA.
Restart(p) ==
    /\ largestSentAtLastCutback' = [largestSentAtLastCutback EXCEPT ![p] = 0]
    /\ hybridSlowStart' = [hybridSlowStart EXCEPT ![p] = HybridRestart(@)]
    /\ slowstartThreshold' = [slowstartThreshold EXCEPT ![p] = congestionWindow[p] \div 2]
    /\ congestionWindow' = [congestionWindow EXCEPT ![p] = MinCongestionWindow]
    /\ reducedAt' = [reducedAt EXCEPT ![p] = 0]
    /\ beyond' = [beyond EXCEPT ![p] = TRUE]
    /\ stale' = [stale EXCEPT ![p] = FALSE]
    /\ UNCHANGED <<largestSentPacketNumber, largestAckedPacketNumber, rttStats, prr>>

CubicOnRetransmissionTimeout(p) ==
    /\ Restart(p)
    /\ cubic' = [cubic EXCEPT ![p] = NewCubic]
    /\ UNCHANGED olia

OliaOnRetransmissionTimeout(p) ==
    /\ Restart(p)
    /\ olia' = [olia EXCEPT ![p] = NewOlia]
    /\ UNCHANGED cubic

-----------------------------------------------------------------------------
(***************************************************************************)
(* The handler.                                                            *)
(***************************************************************************)

Idle == calls = NoCalls

\* The calls left when those to packet n are done.
Left(c) == IF c.acked = {} /\ c.lost = {} /\ ~c.timeout THEN NoCalls ELSE c

\* SendingAllowed looks at the window only when nothing is to be retransmitted.
SentPacket(p, length) ==
    /\ Idle
    /\ lastSent[p] < bounds.packets
    /\ Cardinality(history[p]) < bounds.inflight
    /\ BytesInFlight(history[p]) <= congestionWindow[p] * MSS \/ retransmissions[p] > 0
    /\ lastSent' = [lastSent EXCEPT ![p] = @ + 1]
    /\ history' = [history EXCEPT ![p] = @ \cup {[number |-> lastSent'[p], length |-> length]}]
    /\ retransmissions' = [retransmissions EXCEPT ![p] = IF @ > 0 THEN @ - 1 ELSE 0]
    /\ OnPacketSent(p, lastSent'[p], length)
    /\ UNCHANGED <<LargestAcked, calls, timeouts, now>>

\* An ACK with largest number la, new for the packets of `acked`; the packets
\* sent up to `old` have been in flight for too long.
ReceivedAck(p, la, acked, old, rtt) ==
    /\ Idle
    /\ la >= LargestAcked[p]
    /\ acked \subseteq 1 .. la
    /\ la \in Numbers(p) => la \in acked
    /\ LargestAcked' = [LargestAcked EXCEPT ![p] = la]
    /\ LET lost == {n \in Numbers(p) \ acked : n <= la /\ n <= old}
       IN  /\ acked \cup lost # {}
           /\ calls' = [path |-> p, acked |-> acked, lost |-> lost, timeout |-> FALSE]
    /\ IF la \in acked THEN MaybeExitSlowStart(p, rtt)
       ELSE UNCHANGED <<rttStats, hybridSlowStart, slowstartThreshold>>
    /\ UNCHANGED <<history, retransmissions, lastSent, timeouts, now, numbers, congestionWindow,
                   prr, cubic, olia, ghosts>>

\* The alarm: packets found lost by time, a probe, or a timeout.
LossAlarm(p, old) ==
    /\ Idle
    /\ LET lost == {n \in Numbers(p) : n <= LargestAcked[p] /\ n <= old}
       IN  /\ lost # {}
           /\ calls' = [NoCalls EXCEPT !.path = p, !.lost = lost]
    /\ UNCHANGED <<history, retransmissions, lastSent, LargestAcked, timeouts, now, numbers,
                   window, parts, ghosts>>

\* retransmitTLP does not tell the sender.
TailLossProbe(p) ==
    /\ Idle
    /\ history[p] # {}
    /\ history' = Without(p, Max(Numbers(p)))
    /\ retransmissions' = [retransmissions EXCEPT ![p] = @ + 1]
    /\ UNCHANGED <<lastSent, LargestAcked, calls, timeouts, now, numbers, window, parts, ghosts>>

\* The two oldest packets, or all of them when the path has potentially failed.
RetransmissionTimeout(p, all) ==
    /\ Idle
    /\ history[p] # {}
    /\ timeouts[p] < bounds.timeouts
    /\ timeouts' = [timeouts EXCEPT ![p] = @ + 1]
    /\ calls' = [path |-> p, acked |-> {}, timeout |-> TRUE,
                 lost |-> {n \in Numbers(p) :
                              all \/ Cardinality({m \in Numbers(p) : m < n}) < 2}]
    /\ UNCHANGED <<history, retransmissions, lastSent, LargestAcked, now, numbers, window, parts,
                   ghosts>>

CallAcked(n) ==
    LET p == calls.path
    IN  /\ n \in calls.acked /\ \A m \in calls.acked : n <= m
        /\ history' = Without(p, n)
        /\ calls' = Left([calls EXCEPT !.acked = @ \ {n}])
        /\ OnPacketAcked(p, n, Packet(p, n).length, BytesInFlight(history'[p]))
        /\ UNCHANGED <<retransmissions, lastSent, LargestAcked, timeouts, now>>

CallLost(n) ==
    LET p == calls.path
    IN  /\ calls.acked = {}
        /\ n \in calls.lost /\ \A m \in calls.lost : n <= m
        /\ history' = Without(p, n)
        /\ retransmissions' = [retransmissions EXCEPT ![p] = @ + 1]
        /\ calls' = Left([calls EXCEPT !.lost = @ \ {n}])
        /\ IF p \in Cubic THEN CubicOnPacketLost(p, n, BytesInFlight(history'[p]))
           ELSE OliaOnPacketLost(p, n, BytesInFlight(history'[p]))
        /\ UNCHANGED <<lastSent, LargestAcked, timeouts, now>>

CallTimeout ==
    /\ calls.timeout /\ calls.lost = {}
    /\ calls' = NoCalls
    /\ IF calls.path \in Cubic THEN CubicOnRetransmissionTimeout(calls.path)
       ELSE OliaOnRetransmissionTimeout(calls.path)
    /\ UNCHANGED <<history, retransmissions, lastSent, LargestAcked, timeouts, now>>

\* Only Cubic reads the clock.
Tick ==
    /\ Idle
    /\ now < bounds.time
    /\ now' = now + 1
    /\ UNCHANGED <<handler, numbers, window, parts, ghosts>>

Calls == \/ \E n \in calls.acked : CallAcked(n)
         \/ \E n \in calls.lost : CallLost(n)
         \/ CallTimeout

Step ==
    \/ \E p \in bounds.paths :
          \/ \E length \in bounds.lengths : SentPacket(p, length)
          \/ \E acked \in SUBSET Numbers(p), la \in 1 .. lastSent[p], old \in 0 .. lastSent[p],
                rtt \in bounds.rtts : ReceivedAck(p, la, acked, old, rtt)
          \/ \E old \in 1 .. lastSent[p] : LossAlarm(p, old)
          \/ TailLossProbe(p)
          \/ \E all \in BOOLEAN : RetransmissionTimeout(p, all)
    \/ Calls
    \/ Tick

Next == Step /\ UNCHANGED bounds

Spec == Init /\ [][Next]_vars

-----------------------------------------------------------------------------
(***************************************************************************)
(* Properties.                                                             *)
(***************************************************************************)

\* The window of every path stays between the smallest and the largest one,
\* though OLIA takes window away from a path down to 1 and Cubic's curve may
\* return any number (OnPacketLost, maybeIncreaseCwnd, CongestionWindowAfterAck).
WindowBounds ==
    \A p \in Paths : congestionWindow[p] \in MinCongestionWindow .. MaxCongestionWindow

\* From a reduction to the ACK of a packet sent after it the window stands: the
\* loss of older packets does not reduce it again, and their ACKs do not let it
\* grow.  Only a retransmission timeout is not bound by it (OnPacketLost,
\* InRecovery).
WindowStands ==
    [][\A p \in Paths :
          congestionWindow'[p] # congestionWindow[p] =>
             \/ beyond'[p]
             \/ \E n \in calls.lost \ calls'.lost : calls.path = p /\ n > reducedAt[p]
      ]_vars

\* The bytes acked at the last two losses and now are in order, across losses,
\* timeouts and resets: SmoothedBytesBetweenLosses subtracts unsigned numbers.
LossesInOrder == \A p \in Paths : olia[p].loss1 <= olia[p].loss2 /\ olia[p].loss2 <= olia[p].loss3

\* The epoch of Cubic's curve is never in the future, however many
\* application-limited periods it is shifted by.  Only an epoch that began with
\* the start of an older period still recorded may be shifted past the present
\* (OnApplicationLimited, CongestionWindowAfterAck).
EpochNotAhead == \A p \in Cubic : ~stale[p] => cubic[p].epoch <= now

\* No unsigned difference wraps: the epoch of Cubic's curve is not ahead of the
\* clock, the curve stays in range on both sides of its origin point
\* (CongestionWindowAfterAck), and OLIA's byte counts are in order
\* (SmoothedBytesBetweenLosses).
NoWrap ==
    /\ EpochNotAhead
    /\ \A p \in Cubic : ~stale[p] => cubic[p].target < Wrap \div 2
    /\ LossesInOrder

\* "Time when this cycle started, after last loss event" (the comment on epoch).
EpochInPast == \A p \in Cubic : cubic[p].epoch <= now

\* "Exit from slow start if the cwnd is greater than 16 and increasing delay is
\* found" (the comment in ShouldExitSlowStart).
LowWindowStaysInSlowStart ==
    [][\A p \in Paths :
          Idle /\ slowstartThreshold'[p] # slowstartThreshold[p] =>
             congestionWindow[p] >= HybridStartLowWindow]_vars
=============================================================================
