------------------------ MODULE CongestionAlgorithms ------------------------
(***************************************************************************)
(* The parts of package congestion that a sender is put together from, as  *)
(* operators on records: rtt_stats.go, prr_sender.go, hybrid_slow_start.go,*)
(* cubic.go and olia.go.  Each operator maps the state of its part to the  *)
(* state after the call.                                                   *)
(*                                                                         *)
(* Time and bytes are small integers; the scales of the code (MSS, the     *)
(* cube's factors, OLIA's 1 << 10) are constants.  Factors in float32 are  *)
(* fractions: 0.85 is 17/20, and alpha is 36/37 for two connections.       *)
(* Unsigned subtraction wraps modulo Wrap, and so do products (Int64): in  *)
(* getEpsilon bytes times squared nanoseconds pass 2^63 at ordinary        *)
(* round-trip times.  Left out: what nothing reads   *)
(* (the recent minimum RTT, the statistics), SetSlowStartLargeReduction,   *)
(* SetNumEmulatedConnections, OnConnectionMigration and TimeUntilSend,     *)
(* which nothing calls, and Reno, which NewSentPacketHandler never asks    *)
(* for.                                                                    *)
(***************************************************************************)
EXTENDS Integers, Sequences, FiniteSetsExt

CONSTANTS
    MSS,                      \* DefaultTCPMSS
    Wrap,                     \* 2^64
    CubeNum, CubeDen,         \* cubeCongestionWindowScale and 1 << cubeScale
    MaxCubicTimeInterval,
    HybridStartLowWindow,
    HybridStartMinSamples,
    MinDelayThreshold,        \* hybridStartDelayMinThresholdUs
    MaxDelayThreshold,        \* hybridStartDelayMaxThresholdUs
    OliaScale                 \* 1 << scale

ASSUME AlgorithmsAssumption ==
    /\ MSS \in Nat \ {0}
    /\ Wrap \in Nat \ {0}
    /\ CubeNum \in Nat \ {0} /\ CubeDen \in Nat \ {0}
    /\ OliaScale \in Nat \ {0}

Larger(a, b) == IF a > b THEN a ELSE b
Smaller(a, b) == IF a < b THEN a ELSE b

\* What an int64 keeps of a number.
Int64(n) == ((n + Wrap \div 2) % Wrap) - Wrap \div 2

\* The zero time.Time.
Never == 0

(***************************************************************************)
(* rtt_stats.go                                                            *)
(***************************************************************************)
NoRTT == [latest |-> 0, min |-> 0, smoothed |-> 0]

\* A send delta that is not positive is ignored.
UpdateRTT(r, sendDelta, ackDelay) ==
    LET sample == IF sendDelta > ackDelay THEN sendDelta - ackDelay ELSE sendDelta
    IN  IF sendDelta <= 0 THEN r
        ELSE [latest   |-> sample,
              min      |-> IF r.min = 0 THEN sendDelta ELSE Smaller(r.min, sendDelta),
              smoothed |-> IF r.smoothed = 0 THEN sample
                           ELSE (7 * r.smoothed + sample) \div 8]

(***************************************************************************)
(* prr_sender.go                                                           *)
(***************************************************************************)
NoPrr == [sent |-> 0, delivered |-> 0, acks |-> 0, before |-> 0]

PrrPacketSent(r, bytes) == [r EXCEPT !.sent = @ + bytes]

PrrPacketLost(r, bytesInFlight) == [NoPrr EXCEPT !.before = bytesInFlight]

PrrPacketAcked(r, bytes) == [r EXCEPT !.delivered = @ + bytes, !.acks = @ + 1]

(***************************************************************************)
(* hybrid_slow_start.go                                                    *)
(***************************************************************************)
NewHybrid == [end |-> 0, lastSent |-> 0, started |-> FALSE, minRTT |-> 0, samples |-> 0,
              found |-> FALSE]

StartReceiveRound(s) ==
    [s EXCEPT !.end = s.lastSent, !.minRTT = 0, !.samples = 0, !.started = TRUE]

DelayThreshold(minRTT) == Larger(Smaller(minRTT \div 8, MaxDelayThreshold), MinDelayThreshold)

\* The state after ShouldExitSlowStart, and its result.
HybridSampled(s, latestRTT, minRTT) ==
    LET r == IF s.started THEN s ELSE StartReceiveRound(s)
        n == r.samples + 1
        m == IF n <= HybridStartMinSamples /\ (r.minRTT = 0 \/ r.minRTT > latestRTT)
             THEN latestRTT ELSE r.minRTT
    IN  IF r.found THEN r
        ELSE [r EXCEPT !.samples = n, !.minRTT = m,
                       !.found = n = HybridStartMinSamples /\ m > minRTT + DelayThreshold(minRTT)]

ShouldExitSlowStart(s, latestRTT, minRTT, window) ==
    s.found \/ (HybridSampled(s, latestRTT, minRTT).found /\ window >= HybridStartLowWindow)

HybridPacketSent(s, n) == [s EXCEPT !.lastSent = n]

\* The round ends with the ACK of a packet sent after it began.
HybridPacketAcked(s, n) == [s EXCEPT !.started = @ /\ ~(s.end < n)]

HybridRestart(s) == [s EXCEPT !.started = FALSE, !.found = FALSE]

(***************************************************************************)
(* cubic.go                                                                *)
(***************************************************************************)
NewCubic == [epoch |-> Never, appLimited |-> Never, lastUpdate |-> Never, lastWindow |-> 0,
             lastMax |-> 0, acked |-> 0, estimate |-> 0, origin |-> 0, timeToOrigin |-> 0,
             target |-> 0]

Beta(window) == (17 * window) \div 20

OnApplicationLimited(c, now) == [c EXCEPT !.appLimited = IF @ = Never THEN now ELSE @]

\* The state after CongestionWindowAfterPacketLoss; its result is Beta(window).
CubicAfterLoss(c, window) ==
    [c EXCEPT !.lastMax = IF window < @ THEN Beta(window) ELSE window, !.epoch = Never]

\* The largest r with r^3 <= n.
CubeRoot(n) == CHOOSE r \in 0 .. n : r * r * r <= n /\ (r + 1) * (r + 1) * (r + 1) > n

\* The ACKs that Reno would need to increase window e.
RequiredAcks(e) == (37 * e) \div 36

\* The ACKs that each number of increases up to n costs.
Costs(n, e) ==
    LET cost[k \in 0 .. n] == IF k = 0 THEN 0 ELSE cost[k - 1] + RequiredAcks(e + k - 1)
    IN  cost

\* The loop on the estimated window: as many increases as the ACKs pay for.
Increases(acked, e) == Max({k \in 0 .. acked + 1 : Costs(acked + 1, e)[k] <= acked})

IncreaseCost(acked, e) == Costs(acked + 1, e)[Increases(acked, e)]

\* The first ACK after a loss or a timeout.
StartEpoch(c, window, now) ==
    LET below == c.lastMax > window
    IN  [c EXCEPT !.epoch = now, !.acked = 1, !.estimate = window,
                  !.timeToOrigin = IF below
                                   THEN CubeRoot((CubeDen \div CubeNum) * (c.lastMax - window))
                                   ELSE 0,
                  !.origin = IF below THEN c.lastMax ELSE window]

\* Mutant: the start of the period is not forgotten.
ShiftEpoch_kept(c, now) ==
    IF c.appLimited = Never THEN c ELSE [c EXCEPT !.epoch = @ + (now - c.appLimited)]

\* The epoch is moved by the application-limited period that ends.
ShiftEpoch(c, now) ==
    IF c.appLimited = Never THEN c
    ELSE [c EXCEPT !.epoch = @ + (now - c.appLimited), !.appLimited = Never]

\* The window on the cubic curve.
CubicTarget(c, elapsed) ==
    LET offset == c.timeToOrigin - elapsed
        distance == IF offset < 0 THEN - offset ELSE offset
        delta == Int64(CubeNum * distance * distance * distance) \div CubeDen
    IN  IF elapsed > c.timeToOrigin THEN (c.origin + delta) % Wrap
        ELSE (c.origin - delta) % Wrap

\* CongestionWindowAfterAck returns the last result.
CubicUnchanged(c, window, now) ==
    c.lastWindow = window /\ now - c.lastUpdate <= MaxCubicTimeInterval

\* The state after CongestionWindowAfterAck.
CubicAfterAck(c, window, delayMin, now) ==
    LET d == [c EXCEPT !.acked = @ + 1]
        e == [d EXCEPT !.lastWindow = window, !.lastUpdate = now]
        f == IF c.epoch = Never THEN StartEpoch(e, window, now) ELSE ShiftEpoch(e, now)
    IN  IF CubicUnchanged(c, window, now) THEN d
        ELSE [f EXCEPT !.target = CubicTarget(f, now + delayMin - f.epoch),
                       !.estimate = @ + Increases(f.acked, f.estimate),
                       !.acked = @ - IncreaseCost(f.acked, f.estimate)]

\* Its result.
CubicWindow(c) == Larger(c.target, c.estimate)

(***************************************************************************)
(* olia.go and the coupling of the senders in olia_sender.go               *)
(***************************************************************************)
NewOlia == [loss1 |-> 0, loss2 |-> 0, loss3 |-> 0, num |-> 0, den |-> 1, count |-> 0]

SmoothedBytesBetweenLosses(o) ==
    Larger((o.loss3 - o.loss2) % Wrap, (o.loss2 - o.loss1) % Wrap)

UpdateAckedSinceLastLoss(o, bytes) == [o EXCEPT !.loss3 = @ + bytes]

OliaPacketLost(o) == [o EXCEPT !.loss1 = o.loss2, !.loss2 = o.loss3]

Squared(rtt) == Int64(rtt.smoothed * rtt.smoothed)

\* A path is at least as good as the best one so far: bytes between losses by
\* the square of the RTT.
AtLeast(o, rtt, best) ==
    Int64(SmoothedBytesBetweenLosses(o) * best.rtt) >= Int64(best.bytes * Squared(rtt))

\* The best path, for senders visited in the given order: the map has none.
BestPath(order, olias, rtts) ==
    LET best[i \in 0 .. Len(order)] ==
            IF i = 0 THEN [rtt |-> 0, bytes |-> 0]
            ELSE IF AtLeast(olias[order[i]], rtts[order[i]], best[i - 1])
            THEN [rtt   |-> Squared(rtts[order[i]]),
                  bytes |-> SmoothedBytesBetweenLosses(olias[order[i]])]
            ELSE best[i - 1]
    IN  best[Len(order)]

getMaxCwnd(windows) == Max({windows[p] : p \in DOMAIN windows})

\* The states of all the paths after getEpsilon: what the paths with the largest
\* window give up, the best paths with a smaller one get.
getEpsilon(olias, rtts, windows, best) ==
    LET n == Cardinality(DOMAIN windows)
        M == {p \in DOMAIN windows : windows[p] = getMaxCwnd(windows)}
        BNotM == {p \in DOMAIN windows \ M : AtLeast(olias[p], rtts[p], best)}
    IN  [p \in DOMAIN windows |->
            IF BNotM # {} /\ p \in BNotM
            THEN [olias[p] EXCEPT !.num = 1, !.den = n * Cardinality(BNotM)]
            ELSE IF BNotM # {} /\ p \in M
            THEN [olias[p] EXCEPT !.num = -1, !.den = n * Cardinality(M)]
            ELSE [olias[p] EXCEPT !.num = 0, !.den = 1]]

\* The scaled increments that CongestionWindowAfterAck may compute: below zero
\* only for a path that gives up window.  Beyond one window's worth they all
\* have the same effect.
Increments(o) == IF o.num = -1 THEN - OliaScale .. OliaScale ELSE 0 .. OliaScale

\* The counter after an increment, and the window that CongestionWindowAfterAck
\* returns.
OliaCounted(o, increment) ==
    LET count == o.count + increment
    IN  [o EXCEPT !.count = IF count >= OliaScale - 1 \/ count <= 1 - OliaScale THEN 0 ELSE count]

OliaWindow(o, increment, window) ==
    LET count == o.count + increment
    IN  IF count >= OliaScale - 1 THEN window + 1
        ELSE IF count <= 1 - OliaScale THEN Larger(1, window - 1)
        ELSE window
=============================================================================
