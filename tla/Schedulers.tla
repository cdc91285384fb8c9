----------------------------- MODULE Schedulers -----------------------------
(***************************************************************************)
(* The path selection of scheduler.go: one operator per select function,   *)
(* each the set of results the function may return.                        *)
(*                                                                         *)
(* A function looks at a view v of the session: its paths, those with      *)
(* SendingAllowed, those potentially failed, smoothed RTTs and quotas; at  *)
(* the request r: hasRetransmission, hasStreamRetransmission and the path  *)
(* fromPth of the last packet dequeued; and at the scheduler's own state   *)
(* c.  A result is the path (or NoPath, the code's nil) with the new c.    *)
(* What is random is a choice: the order in which Go ranges over the map   *)
(* of paths, rand, and the comparisons of measured rates and of learned    *)
(* floating-point values.                                                  *)
(*                                                                         *)
(* c.waiting is sch.waiting of ECF and Peekaboo.  c.prob is current_Prob:  *)
(* 0 at first, 1 once a probability was requested, Learned for any answer  *)
(* strictly in between.  c.count is count_Action and c.asked the number of *)
(* requests that the learning server has not answered.  c.table says       *)
(* whether an entry of the Q-table was ever written: rows are equal and    *)
(* zero until then.                                                        *)
(***************************************************************************)
EXTENDS Naturals, FiniteSets, SequencesExt

InitialPathID == 0
NoPath == 255
Learned == 2

\* Orders in which a map of the paths may be ranged over.
Orders(v) == SetToSeqs(v.paths)

Kept(c, P) == {[path |-> p, sch |-> c] : p \in P}

(***************************************************************************)
(* What the select functions begin with.                                   *)
(***************************************************************************)
\* The only path there is.
SinglePath(v, r) ==
    IF ~r.retransmission /\ InitialPathID \notin v.allowed THEN {NoPath} ELSE {InitialPathID}

\* A duplicate goes to a path that has sent less.
LowerQuotaPaths(v, r) ==
    IF r.retransmission /\ r.streamRetransmission /\ v.rtt[r.from] = 0
    THEN {p \in v.paths \ {InitialPathID, r.from} : v.quotas[p] < v.quotas[r.from]}
    ELSE {}

\* Mutant: the congestion window is not looked at.
Considered_anyWindow(v, r, p) == p \notin v.failed /\ p # InitialPathID

\* Paths that the loops of the heuristic schedulers consider.
Considered(v, r, p) ==
    /\ r.retransmission \/ p \in v.allowed
    /\ p \notin v.failed
    /\ p # InitialPathID

(***************************************************************************)
(* selectPathRoundRobin, which selectPath does not call.                   *)
(***************************************************************************)
selectPathRoundRobin(v, r, c) ==
    LET usable == {p \in v.paths : Considered(v, r, p)}
    IN  IF Cardinality(v.paths) <= 1 THEN Kept(c, SinglePath(v, r))
        ELSE IF usable = {} THEN Kept(c, {NoPath})
        ELSE Kept(c, {p \in usable : \A q \in usable : v.quotas[p] <= v.quotas[q]})

(***************************************************************************)
(* selectPathLowLatency: the loop keeps a selected path and its RTT.       *)
(***************************************************************************)
LowLatencyStep(v, r, sel, p) ==
    IF \/ ~Considered(v, r, p)
       \/ sel.rtt # 0 /\ v.rtt[p] = 0
       \/ v.rtt[p] = 0 /\ sel.path # NoPath /\ v.quotas[p] > v.quotas[sel.path]
       \/ v.rtt[p] # 0 /\ sel.rtt # 0 /\ sel.path # NoPath /\ v.rtt[p] >= sel.rtt
    THEN sel
    ELSE [path |-> p, rtt |-> v.rtt[p]]

LowestLatency(v, r) ==
    {FoldLeft(LAMBDA sel, p : LowLatencyStep(v, r, sel, p),
              [path |-> NoPath, rtt |-> 0], order).path : order \in Orders(v)}

selectPathLowLatency(v, r, c) ==
    IF Cardinality(v.paths) <= 1 THEN Kept(c, SinglePath(v, r))
    ELSE IF LowerQuotaPaths(v, r) # {} THEN Kept(c, LowerQuotaPaths(v, r))
    ELSE Kept(c, LowestLatency(v, r))

(***************************************************************************)
(* BLEST, ECF and Peekaboo look for the best and the second best path.     *)
(* Peekaboo does not require SendingAllowed of them (windowed = FALSE).    *)
(***************************************************************************)
BestTwoStep(v, r, windowed, b, p) ==
    LET second == IF /\ v.rtt[p] >= b.rtt
                     /\ b.secondRTT = 0 \/ v.rtt[p] < b.secondRTT
                     /\ p \in v.allowed
                  THEN [b EXCEPT !.second = p, !.secondRTT = v.rtt[p]]
                  ELSE b
    IN  IF \/ windowed /\ ~Considered(v, r, p)
           \/ p \in v.failed \/ p = InitialPathID
           \/ b.rtt # 0 /\ v.rtt[p] = 0
           \/ v.rtt[p] = 0 /\ b.best # NoPath /\ v.quotas[p] > v.quotas[b.best]
        THEN b
        ELSE IF v.rtt[p] >= b.rtt /\ v.rtt[p] # 0 /\ b.rtt # 0 /\ b.best # NoPath THEN second
        ELSE [second EXCEPT !.best = p, !.rtt = v.rtt[p]]

BestTwo(v, r, windowed) ==
    {FoldLeft(LAMBDA b, p : BestTwoStep(v, r, windowed, b, p),
              [best |-> NoPath, second |-> NoPath, rtt |-> 0, secondRTT |-> 0], order) :
         order \in Orders(v)}

\* Comparing the blocking estimates decides between waiting and the second path.
BLESTDecision(v, r, c, b) ==
    IF b.best = NoPath THEN Kept(c, {b.second})
    ELSE IF r.retransmission \/ b.best \in v.allowed THEN Kept(c, {b.best})
    ELSE IF b.second = NoPath THEN Kept(c, {NoPath})
    ELSE Kept(c, {NoPath, b.second})

selectBLEST(v, r, c) ==
    IF Cardinality(v.paths) <= 1 THEN Kept(c, SinglePath(v, r))
    ELSE IF LowerQuotaPaths(v, r) # {} THEN Kept(c, LowerQuotaPaths(v, r))
    ELSE UNION {BLESTDecision(v, r, c, b) : b \in BestTwo(v, r, TRUE)}

\* The same with the hysteresis of sch.waiting.
ECFDecision(v, r, c, b) ==
    IF b.best = NoPath THEN Kept(c, {b.second})
    ELSE IF r.retransmission \/ b.best \in v.allowed THEN Kept(c, {b.best})
    ELSE IF b.second = NoPath THEN Kept(c, {NoPath})
    ELSE Kept([c EXCEPT !.waiting = 1], {NoPath})
            \cup Kept(c, {b.second}) \cup Kept([c EXCEPT !.waiting = 0], {b.second})

selectECF(v, r, c) ==
    IF Cardinality(v.paths) <= 1 THEN Kept(c, SinglePath(v, r))
    ELSE IF LowerQuotaPaths(v, r) # {} THEN Kept(c, LowerQuotaPaths(v, r))
    ELSE UNION {ECFDecision(v, r, c, b) : b \in BestTwo(v, r, TRUE)}

\* The bandit's values and rand decide whether to wait for the best path.
PeekDecision(v, r, c, b) ==
    IF b.best = NoPath THEN Kept(c, {b.second})
    ELSE IF b.best \in v.allowed THEN Kept([c EXCEPT !.waiting = 0], {b.best})
    ELSE IF b.second = NoPath THEN Kept(c, {NoPath})
    ELSE IF r.retransmission
         THEN Kept(c, {IF b.second \in v.allowed THEN b.second ELSE InitialPathID})
    ELSE IF c.waiting = 1 THEN Kept(c, {NoPath})
    ELSE Kept([c EXCEPT !.waiting = 1], {NoPath}) \cup Kept([c EXCEPT !.waiting = 0], {b.second})

selectPathPeek(v, r, c) ==
    IF Cardinality(v.paths) <= 1 THEN Kept(c, SinglePath(v, r))
    ELSE IF LowerQuotaPaths(v, r) # {} THEN Kept(c, LowerQuotaPaths(v, r))
    ELSE UNION {PeekDecision(v, r, c, b) : b \in BestTwo(v, r, FALSE)}

(***************************************************************************)
(* The learning schedulers.  Their actions 0 and 1 index the list of the   *)
(* other paths in the order of the map: either may be any of them.         *)
(***************************************************************************)
ActionPairs(v) ==
    {<<p, q>> \in (v.paths \ {InitialPathID}) \X (v.paths \ {InitialPathID}) : p # q}

\* What most of them begin with: the single path, the unique path beside the
\* initial one whatever its window, or a path of lower quota.
IsEarly(v, r) == Cardinality(v.paths) <= 2 \/ LowerQuotaPaths(v, r) # {}

Early(v, r) ==
    IF Cardinality(v.paths) <= 1 THEN SinglePath(v, r)
    ELSE IF Cardinality(v.paths) = 2 THEN v.paths \ {InitialPathID}
    ELSE LowerQuotaPaths(v, r)

\* What they end with.
InitialForRetransmission(v, r) ==
    IF r.retransmission /\ InitialPathID \in v.allowed THEN InitialPathID ELSE NoPath

QSATAction(v, r, a) ==
    IF v.rtt[a[2]] < v.rtt[a[1]] /\ a[2] \in v.allowed THEN a[2]
    ELSE IF a[1] \in v.allowed THEN a[1]
    ELSE InitialForRetransmission(v, r)

\* rand > Epsilon explores with low latency; an untouched row does as well.
selectPathQSAT(v, r, c) ==
    selectPathLowLatency(v, r, c) \cup
        IF IsEarly(v, r) THEN Kept(c, Early(v, r))
        ELSE IF c.table THEN Kept(c, {QSATAction(v, r, a) : a \in ActionPairs(v)})
        ELSE {}

QlearningAction(v, r, a) ==
    IF a[1] \in v.allowed THEN a[1]
    ELSE IF v.rtt[a[2]] < v.rtt[a[1]] /\ a[2] \in v.allowed THEN a[2]
    ELSE InitialForRetransmission(v, r)

selectPathQlearning(v, r, c) ==
    selectPathLowLatency(v, r, c) \cup
        IF IsEarly(v, r) THEN Kept(c, Early(v, r))
        ELSE IF c.table THEN Kept(c, {QlearningAction(v, r, a) : a \in ActionPairs(v)})
        ELSE {}

\* Each path is taken only while the sum of the windows of all clients is below
\* a limit (a choice here).
MultiClientsActions(v, a) ==
    {NoPath} \cup ({a[1]} \cap v.allowed)
             \cup (IF v.rtt[a[2]] < v.rtt[a[1]] THEN {a[2]} \cap v.allowed ELSE {})

selectPathQlearningMultiClients(v, r, c) ==
    selectPathLowLatency(v, r, c) \cup
        IF IsEarly(v, r) THEN Kept(c, Early(v, r))
        ELSE IF c.table THEN Kept(c, UNION {MultiClientsActions(v, a) : a \in ActionPairs(v)})
        ELSE {}

\* The request of an action is commented out: only retransmissions get a path.
selectPathDQN(v, r, c) ==
    Kept(c, IF IsEarly(v, r) THEN Early(v, r) ELSE {InitialForRetransmission(v, r)})

\* current_Prob is 0.5, and the paths are those with the ids 1 and 3.
selectPathRandom(v, r, c) ==
    Kept(c, IF IsEarly(v, r) THEN Early(v, r)
            ELSE {IF p \in v.allowed THEN p ELSE InitialForRetransmission(v, r) : p \in {1, 3}})

\* The path of a learned probability; a new one is requested now and then,
\* while the old one stays in use.
SACAction(v, r, c, MaxCount) ==
    LET asks == c.count > MaxCount
        next == IF asks THEN [c EXCEPT !.count = 0, !.asked = @ + 1] ELSE [c EXCEPT !.count = @ + 1]
    IN  Kept(next, {IF a[1] \in v.allowed THEN a[1] ELSE InitialForRetransmission(v, r) :
                        a \in ActionPairs(v)})

\* Low latency until the first answer is there.
selectPathSAC(v, r, c, MaxCount) ==
    IF IsEarly(v, r) THEN Kept(c, Early(v, r))
    ELSE IF c.prob = 0 THEN selectPathLowLatency(v, r, [c EXCEPT !.prob = 1, !.asked = @ + 1])
    ELSE IF c.prob = 1 THEN selectPathLowLatency(v, r, c)
    ELSE SACAction(v, r, c, MaxCount)

\* The same with the state of all clients in the request.
selectPathSACMulti(v, r, c, MaxCount) ==
    IF IsEarly(v, r) THEN Kept(c, Early(v, r))
    ELSE IF c.prob = 0 THEN selectPathLowLatency(v, r, [c EXCEPT !.prob = 1, !.asked = @ + 1])
    ELSE IF c.prob = 1 THEN selectPathLowLatency(v, r, c)
    ELSE SACAction(v, r, c, MaxCount)

(***************************************************************************)
(* selectPath.                                                             *)
(***************************************************************************)
SchedulerNames == {"rtt", "random", "peek", "ecf", "blest", "dqn", "sac", "sacmulti", "qsat",
                   "fuzzyqsat", "multiclients"}

selectPath(name, v, r, c, MaxCount) ==
    CASE name = "rtt" -> selectPathLowLatency(v, r, c)
      [] name = "random" -> selectPathRandom(v, r, c)
      [] name = "peek" -> selectPathPeek(v, r, c)
      [] name = "ecf" -> selectECF(v, r, c)
      [] name = "blest" -> selectBLEST(v, r, c)
      [] name = "dqn" -> selectPathDQN(v, r, c)
      [] name = "sac" -> selectPathSAC(v, r, c, MaxCount)
      [] name = "sacmulti" -> selectPathSACMulti(v, r, c, MaxCount)
      [] name = "qsat" -> selectPathQSAT(v, r, c)
      [] name = "fuzzyqsat" -> selectPathQlearning(v, r, c)
      [] name = "multiclients" -> selectPathQlearningMultiClients(v, r, c)
      [] OTHER -> selectPathLowLatency(v, r, c)
=============================================================================
