-------------------------- MODULE CongestionProofs --------------------------
(***************************************************************************)
(* Congestion control for every number of paths and packets, and every     *)
(* order of sends, ACKs, losses, probes and timeouts.  CInv is inductive:  *)
(* the estimate of Reno's window, once made, keeps Cubic above the least   *)
(* window; OLIA's counter, which never ran over, takes window away only    *)
(* after a negative increment, and those go to paths that have more than   *)
(* another one; the numbers of the sender are those of the handler, and an *)
(* ACK beyond the last reduction is recorded when it is handled.           *)
(***************************************************************************)
EXTENDS Congestion, WellFoundedInduction, TLAPS

\* A nonempty set of naturals has a least element.
LEMMA LeastNatural ==
    ASSUME NEW S \in SUBSET Nat, S # {}
    PROVE  \E m \in S : \A x \in S : m <= x
<1>1. PICK m \in S : \A y \in S : ~(<<y, m>> \in OpToRel(<, Nat))
  BY NatLessThanWellFounded, WFMin, Zenon
<1>2. ASSUME NEW x \in S
      PROVE  m <= x
  <2>1. m \in Nat /\ x \in Nat
    BY Zenon
  <2>2. ~(x < m)
    BY <1>1, <2>1, Zenon DEF OpToRel
  <2> QED
    BY <2>1, <2>2
<1> QED
  BY <1>2, Zenon

\* A nonempty set of naturals with an upper bound has a largest element, which
\* is its Max.
LEMMA MaxOfBounded ==
    ASSUME NEW S \in SUBSET Nat, S # {}, NEW b \in Nat, \A x \in S : x <= b
    PROVE  Max(S) \in S /\ \A x \in S : x <= Max(S)
<1> DEFINE T == {b - x : x \in S}
<1>1. T \in SUBSET Nat /\ T # {}
  <2>1. \A x \in S : b - x \in Nat
    OBVIOUS
  <2> QED
    BY <2>1, Zenon
<1>2. PICK m \in T : \A y \in T : m <= y
  <2> HIDE DEF T
  <2> QED
    BY <1>1, LeastNatural, Zenon
<1>3. PICK x \in S : m = b - x
  BY Zenon
<1>4. \A y \in S : x >= y
  BY <1>2, <1>3
<1>5. \E z \in S : \A y \in S : z >= y
  BY <1>4, Zenon
<1> QED
  BY <1>5, Zenon DEF Max

CubicFields == {"epoch", "appLimited", "lastUpdate", "lastWindow", "lastMax", "acked",
                "estimate", "origin", "timeToOrigin", "target"}

\* Reno's window has been estimated from the first ACK of an epoch on, at the
\* window of that time, which the smallest one bounds; a loss begins another epoch
\* and leaves the estimate.
CubicOK(c) ==
    /\ DOMAIN c = CubicFields
    /\ c.epoch \in Int /\ c.appLimited \in Int /\ c.lastWindow \in Int /\ c.lastMax \in Int
    /\ c.acked \in Nat /\ c.estimate \in Nat
    /\ c.origin \in Int /\ c.timeToOrigin \in Int /\ c.target \in Nat
    /\ (c.epoch = Never /\ c.lastWindow = 0) \/ c.estimate >= MinCongestionWindow

OliaFields == {"loss1", "loss2", "loss3", "num", "den", "count"}

\* A counter that has not run over: an increment that is not negative never takes
\* window away.
OliaOK(o) ==
    /\ DOMAIN o = OliaFields
    /\ o.count \in Int /\ 1 - OliaScale < o.count /\ o.count < OliaScale - 1
    /\ o.loss1 \in Nat /\ o.loss2 \in Nat /\ o.loss3 \in Nat
    /\ o.loss1 <= o.loss2 /\ o.loss2 <= o.loss3

WindowOK(w) ==
    /\ DOMAIN w = Paths
    /\ \A p \in Paths : w[p] \in MinCongestionWindow .. MaxCongestionWindow

CubicsOK(c) == DOMAIN c = Paths /\ \A p \in Paths : CubicOK(c[p])
OliasOK(o) == DOMAIN o = Paths /\ \A p \in Paths : OliaOK(o[p])
MinRTTOK(r) == DOMAIN r = Paths /\ \A p \in Paths : r[p].min \in Nat

PartsOK ==
    /\ WindowOK(congestionWindow)
    /\ CubicsOK(cubic)
    /\ OliasOK(olia)
    /\ MinRTTOK(rttStats)
    /\ now \in Nat
    /\ bounds \in Bounds

\* The sender knows the last number of the handler, and the history variable says
\* when a number above the cutback has been acked.
NumbersOK ==
    /\ DOMAIN lastSent = Paths /\ DOMAIN largestSentPacketNumber = Paths
    /\ DOMAIN largestAckedPacketNumber = Paths /\ DOMAIN largestSentAtLastCutback = Paths
    /\ DOMAIN reducedAt = Paths /\ DOMAIN beyond = Paths
    /\ \A p \in Paths :
          /\ lastSent[p] \in Nat
          /\ largestSentPacketNumber[p] = lastSent[p]
          /\ largestAckedPacketNumber[p] \in 0 .. lastSent[p]
          /\ reducedAt[p] \in 0 .. lastSent[p]
          /\ largestSentAtLastCutback[p] = reducedAt[p]
          /\ largestAckedPacketNumber[p] > reducedAt[p] => beyond[p]

\* The packets in flight, and the calls about them.
FlightOK ==
    /\ DOMAIN history = Paths
    /\ \A p \in Paths : \A k \in history[p] : k.number \in 1 .. lastSent[p] /\ k.length \in Nat
    /\ DOMAIN calls = {"path", "acked", "lost", "timeout"}
    /\ calls.timeout => calls.path \in Paths
    /\ \A n \in calls.acked \cup calls.lost : calls.path \in Paths /\ n \in Numbers(calls.path)
    /\ calls.acked \cap calls.lost = {}

CInv == PartsOK /\ NumbersOK /\ FlightOK
-----------------------------------------------------------------------------
(* Cubic.                                                                  *)

LEMMA BetaType ==
    ASSUME NEW w \in Nat
    PROVE  Beta(w) \in Nat
BY DEF Beta

\* Among the numbers up to n there is a cube root.
LEMMA CubeRootType ==
    ASSUME NEW n \in Nat
    PROVE  CubeRoot(n) \in Nat
<1> DEFINE S == {r \in 0 .. n : r * r * r <= n}
<1>1. S \in SUBSET Nat /\ 0 \in S /\ \A r \in S : r <= n
  OBVIOUS
<1>2. PICK m \in S : \A r \in S : r <= m
  BY <1>1, MaxOfBounded, Zenon
<1>3. m \in 0 .. n /\ m * m * m <= n
  BY <1>2, Zenon
<1>4. (m + 1) * (m + 1) * (m + 1) > n
  <2>1. CASE m + 1 \in 0 .. n
    <3>1. m + 1 \notin S
      BY <1>2, <1>3
    <3> DEFINE c == (m + 1) * (m + 1) * (m + 1)
    <3>2. c \in Nat /\ ~ (c <= n)
      BY <1>3, <2>1, <3>1
    <3> QED
      BY <3>2
  <2>2. CASE m = n
    <3>1. (n + 1) * (n + 1) >= 1
      OBVIOUS
    <3> DEFINE s == (n + 1) * (n + 1)
    <3>2. s \in Nat /\ s >= 1
      BY <3>1
    <3> HIDE DEF s
    <3>3. s * (n + 1) >= n + 1
      BY <3>2
    <3> QED
      BY <2>2, <3>3 DEF s
  <2> QED
    BY <1>3, <2>1, <2>2
<1>5. CubeRoot(n) \in 0 .. n
  <2> HIDE DEF S
  <2> QED
    BY <1>3, <1>4, Zenon DEF CubeRoot
<1> QED
  BY <1>5

LEMMA RequiredAcksType ==
    ASSUME NEW e \in Nat
    PROVE  RequiredAcks(e) \in Nat
BY DEF RequiredAcks

\* The table of costs exists, and holds naturals.
LEMMA CostsType ==
    ASSUME NEW n \in Nat, NEW e \in Nat
    PROVE  /\ Costs(n, e)[0] = 0
           /\ \A k \in 0 .. n : Costs(n, e)[k] \in Nat
<1> DEFINE Table(c, m) ==
             /\ c \in [0 .. m -> Nat]
             /\ c[0] = 0
             /\ \A k \in 1 .. m : c[k] = c[k - 1] + RequiredAcks(e + k - 1)
           F(c) == [k \in 0 .. n |-> IF k = 0 THEN 0 ELSE c[k - 1] + RequiredAcks(e + k - 1)]
           None == {m \in Nat : ~ \E c : Table(c, m)}
<1>1. \A k \in 1 .. n : RequiredAcks(e + k - 1) \in Nat
  BY RequiredAcksType
<1>2. None = {}
  <2> SUFFICES ASSUME None # {} PROVE FALSE
    BY Zenon
  <2>1. PICK m \in None : \A x \in None : m <= x
    <3>1. None \in SUBSET Nat
      BY Zenon
    <3> HIDE DEF None
    <3> QED
      BY <3>1, LeastNatural, Zenon
  <2>2. m # 0
    <3> DEFINE z == [k \in 0 .. 0 |-> 0]
    <3>1. z \in [0 .. 0 -> Nat] /\ z[0] = 0 /\ 1 .. 0 = {}
      OBVIOUS
    <3> HIDE DEF z
    <3>2. Table(z, 0)
      BY <3>1, Zenon
    <3> HIDE DEF Table
    <3> QED
      BY <2>1, <3>2, Zenon
  <2>3. m \in Nat /\ m - 1 \in Nat /\ m - 1 \notin None
    <3>1. m \in Nat
      BY <2>1, Zenon
    <3> HIDE DEF None
    <3> QED
      BY <2>1, <2>2, <3>1
  <2>4. PICK c : Table(c, m - 1)
    <3> HIDE DEF Table
    <3> QED
      BY <2>3, Zenon
  <2> DEFINE d == [k \in 0 .. m |-> IF k = m THEN c[m - 1] + RequiredAcks(e + m - 1) ELSE c[k]]
  <2>5. RequiredAcks(e + m - 1) \in Nat
    <3>1. e + m - 1 \in Nat
      BY <2>3
    <3> QED
      BY <3>1, RequiredAcksType, Zenon
  <2>6. d \in [0 .. m -> Nat]
    BY <2>3, <2>4, <2>5
  <2>7. d[0] = 0
    BY <2>2, <2>3, <2>4
  <2>8. \A k \in 1 .. m : d[k] = d[k - 1] + RequiredAcks(e + k - 1)
    <3>1. ASSUME NEW k \in 1 .. m
          PROVE  /\ k \in 0 .. m /\ k - 1 \in 0 .. m /\ k - 1 # m
                 /\ k # m => k \in 1 .. m - 1
      BY <2>3
    <3>2. \A k \in 1 .. m - 1 : c[k] = c[k - 1] + RequiredAcks(e + k - 1)
      BY <2>4, Zenon
    <3> QED
      BY <3>1, <3>2, Zenon
  <2> HIDE DEF d
  <2>9. Table(d, m)
    BY <2>6, <2>7, <2>8, Zenon
  <2> HIDE DEF Table
  <2> QED
    BY <2>1, <2>9, Zenon
<1>3. PICK c : Table(c, n)
  BY <1>2, Zenon
<1>4. c = F(c)
  BY <1>3
<1>5. Costs(n, e) = F(Costs(n, e))
  <2>1. Costs(n, e) = CHOOSE f : f = F(f)
    BY Zenon DEF Costs
  <2> HIDE DEF F
  <2> QED
    BY <1>4, <2>1, Zenon
<1> DEFINE s == Costs(n, e)
           Bad == {k \in 0 .. n : s[k] \notin Nat}
<1>6. s[0] = 0 /\ \A k \in 1 .. n : s[k] = s[k - 1] + RequiredAcks(e + k - 1)
  <2> HIDE DEF s
  <2>1. s = F(s)
    BY <1>5, Zenon DEF s
  <2> QED
    BY <2>1
<1> HIDE DEF s
<1>7. Bad = {}
  <2> SUFFICES ASSUME Bad # {} PROVE FALSE
    BY Zenon
  <2>1. PICK m \in Bad : \A x \in Bad : m <= x
    <3>1. Bad \in SUBSET Nat
      OBVIOUS
    <3> HIDE DEF Bad
    <3> QED
      BY <3>1, LeastNatural, Zenon
  <2>2. m \in 1 .. n
    BY <1>6, <2>1
  <2>3. m - 1 \in 0 .. n /\ m - 1 \notin Bad
    BY <2>1, <2>2
  <2>4. s[m - 1] \in Nat /\ s[m] = s[m - 1] + RequiredAcks(e + m - 1)
    BY <1>6, <2>2, <2>3, Zenon
  <2>5. s[m] \in Nat
    BY <1>1, <2>2, <2>4
  <2> QED
    BY <2>1, <2>5, Zenon
<1> QED
  BY <1>6, <1>7, Zenon DEF s

LEMMA IncreasesType ==
    ASSUME NEW acked \in Nat, NEW e \in Nat
    PROVE  /\ Increases(acked, e) \in Nat
           /\ acked - IncreaseCost(acked, e) \in Nat
<1> DEFINE c == Costs(acked + 1, e)
           S == {k \in 0 .. acked + 1 : c[k] <= acked}
<1>1. acked + 1 \in Nat
  OBVIOUS
<1>2. c[0] = 0 /\ \A k \in 0 .. acked + 1 : c[k] \in Nat
  BY <1>1, CostsType, Zenon
<1>3. Increases(acked, e) = Max(S) /\ IncreaseCost(acked, e) = c[Increases(acked, e)]
  BY Zenon DEF Increases, IncreaseCost
<1> HIDE DEF c
<1>4. S \in SUBSET Nat /\ 0 \in S /\ \A k \in S : k <= acked + 1
  BY <1>2
<1>5. Max(S) \in S
  <2> HIDE DEF S
  <2> QED
    BY <1>1, <1>4, MaxOfBounded, Zenon
<1>6. Max(S) \in 0 .. acked + 1 /\ c[Max(S)] <= acked
  <2> DEFINE m == Max(S)
  <2> HIDE DEF m
  <2>1. m \in S
    BY <1>5, Zenon DEF m
  <2> QED
    BY <2>1, Zenon DEF m
<1> HIDE DEF S
<1> QED
  BY <1>2, <1>3, <1>6

LEMMA CubicTargetType ==
    ASSUME NEW c, c.origin \in Int, c.timeToOrigin \in Int, NEW elapsed \in Int
    PROVE  CubicTarget(c, elapsed) \in Nat
<1> DEFINE offset == c.timeToOrigin - elapsed
           distance == IF offset < 0 THEN - offset ELSE offset
           cube == CubeNum * distance * distance * distance
           delta == Int64(cube) \div CubeDen
<1>1. distance \in Int /\ Wrap \in Nat \ {0} /\ CubeDen \in Nat \ {0} /\ CubeNum \in Nat
  BY AlgorithmsAssumption
<1> HIDE DEF distance
<1>2. cube \in Int
  <2>1. CubeNum * distance \in Int
    BY <1>1
  <2>2. CubeNum * distance * distance \in Int
    BY <1>1, <2>1
  <2> QED
    BY <1>1, <2>2
<1> HIDE DEF cube
<1>3. delta \in Int
  <2>1. Int64(cube) \in Int
    BY <1>1, <1>2 DEF Int64
  <2> QED
    BY <1>1, <2>1
<1>4. CubicTarget(c, elapsed) = IF elapsed > c.timeToOrigin THEN (c.origin + delta) % Wrap
                                ELSE (c.origin - delta) % Wrap
  BY Zenon DEF CubicTarget, delta, cube, distance
<1> HIDE DEF delta
<1> QED
  BY <1>1, <1>3, <1>4

LEMMA CubicAfterLossOK ==
    ASSUME NEW c, CubicOK(c), NEW w \in Nat
    PROVE  CubicOK(CubicAfterLoss(c, w))
<1> DEFINE lm == IF w < c.lastMax THEN Beta(w) ELSE w
           x == [c EXCEPT !.lastMax = lm, !.epoch = Never]
<1>1. CubicAfterLoss(c, w) = x
  BY Zenon DEF CubicAfterLoss, CubicOK, CubicFields
<1>2. lm \in Int
  BY BetaType
<1> HIDE DEF lm
<1>3. /\ DOMAIN x = CubicFields /\ x.epoch = Never /\ x.appLimited = c.appLimited
      /\ x.lastWindow = c.lastWindow /\ x.lastMax = lm /\ x.acked = c.acked
      /\ x.estimate = c.estimate /\ x.origin = c.origin /\ x.timeToOrigin = c.timeToOrigin
      /\ x.target = c.target
  BY Zenon DEF CubicOK, CubicFields
<1> HIDE DEF x
<1>4. CubicOK(x)
  BY <1>2, <1>3 DEF CubicOK, Never
<1> QED
  BY <1>1, <1>4, Zenon

LEMMA OnApplicationLimitedOK ==
    ASSUME NEW c, CubicOK(c), NEW t \in Nat
    PROVE  CubicOK(OnApplicationLimited(c, t))
<1> DEFINE a == IF c.appLimited = Never THEN t ELSE c.appLimited
           x == [c EXCEPT !.appLimited = a]
<1>1. OnApplicationLimited(c, t) = x
  BY Zenon DEF OnApplicationLimited, CubicOK, CubicFields
<1>2. a \in Int
  BY DEF CubicOK
<1> HIDE DEF a
<1>3. /\ DOMAIN x = CubicFields /\ x.epoch = c.epoch /\ x.appLimited = a
      /\ x.lastWindow = c.lastWindow /\ x.lastMax = c.lastMax /\ x.acked = c.acked
      /\ x.estimate = c.estimate /\ x.origin = c.origin /\ x.timeToOrigin = c.timeToOrigin
      /\ x.target = c.target
  BY Zenon DEF CubicOK, CubicFields
<1> HIDE DEF x
<1>4. CubicOK(x)
  BY <1>2, <1>3, Zenon DEF CubicOK
<1> QED
  BY <1>1, <1>4, Zenon

LEMMA NewCubicOK == CubicOK(NewCubic)
BY DEF NewCubic, CubicOK, CubicFields, Never

\* The state from which the new target and the new estimate are computed.
LEMMA EpochOK ==
    ASSUME NEW c, CubicOK(c), NEW w \in MinCongestionWindow .. MaxCongestionWindow, NEW t \in Nat
    PROVE  LET d == [c EXCEPT !.acked = @ + 1]
               e == [d EXCEPT !.lastWindow = w, !.lastUpdate = t]
               f == IF c.epoch = Never THEN StartEpoch(e, w, t) ELSE ShiftEpoch(e, t)
           IN  /\ DOMAIN f = CubicFields
               /\ f.epoch \in Int /\ f.appLimited \in Int /\ f.lastWindow \in Int
               /\ f.lastMax \in Int /\ f.acked \in Nat /\ f.origin \in Int
               /\ f.timeToOrigin \in Int
               /\ f.estimate \in Nat /\ f.estimate >= MinCongestionWindow
<1> DEFINE d == [c EXCEPT !.acked = @ + 1]
           e == [d EXCEPT !.lastWindow = w, !.lastUpdate = t]
           f == IF c.epoch = Never THEN StartEpoch(e, w, t) ELSE ShiftEpoch(e, t)
           OK(x) == /\ DOMAIN x = CubicFields
                    /\ x.epoch \in Int /\ x.appLimited \in Int /\ x.lastWindow \in Int
                    /\ x.lastMax \in Int /\ x.acked \in Nat /\ x.origin \in Int
                    /\ x.timeToOrigin \in Int
                    /\ x.estimate \in Nat /\ x.estimate >= MinCongestionWindow
<1>1. w \in Nat /\ w >= MinCongestionWindow /\ MinCongestionWindow \in Nat
  BY CongestionAssumption
<1>2. /\ DOMAIN d = CubicFields /\ d.epoch = c.epoch /\ d.appLimited = c.appLimited
      /\ d.lastWindow = c.lastWindow /\ d.lastMax = c.lastMax /\ d.acked = c.acked + 1
      /\ d.estimate = c.estimate /\ d.origin = c.origin /\ d.timeToOrigin = c.timeToOrigin
      /\ d.target = c.target
  BY Zenon DEF CubicOK, CubicFields
<1> HIDE DEF d
<1>3. /\ DOMAIN e = CubicFields /\ e.epoch = c.epoch /\ e.appLimited = c.appLimited
      /\ e.lastWindow = w /\ e.lastMax = c.lastMax /\ e.acked = c.acked + 1
      /\ e.estimate = c.estimate /\ e.origin = c.origin /\ e.timeToOrigin = c.timeToOrigin
      /\ e.target = c.target
  BY <1>2, Zenon DEF CubicFields
<1> HIDE DEF e
<1>4. /\ c.epoch \in Int /\ c.appLimited \in Int /\ c.lastMax \in Int /\ c.acked \in Nat
      /\ c.origin \in Int /\ c.timeToOrigin \in Int /\ c.estimate \in Nat
      /\ c.epoch # Never => c.estimate >= MinCongestionWindow
  BY Zenon DEF CubicOK
<1>5. ASSUME c.epoch = Never PROVE OK(f)
  <2> DEFINE below == e.lastMax > w
             k == IF below THEN CubeRoot((CubeDen \div CubeNum) * (e.lastMax - w)) ELSE 0
             o == IF below THEN e.lastMax ELSE w
             x == [e EXCEPT !.epoch = t, !.acked = 1, !.estimate = w, !.timeToOrigin = k,
                            !.origin = o]
  <2>1. f = x
    BY <1>5, Zenon DEF StartEpoch
  <2>2. k \in Int
    <3>1. CubeDen \div CubeNum \in Nat
      BY AlgorithmsAssumption
    <3>2. below => e.lastMax - w \in Nat
      BY <1>1, <1>3, <1>4
    <3>3. below => (CubeDen \div CubeNum) * (e.lastMax - w) \in Nat
      BY <3>1, <3>2
    <3> QED
      BY <3>3, CubeRootType
  <2>3. o \in Int
    BY <1>1, <1>3, <1>4
  <2> HIDE DEF k, o
  <2>4. /\ DOMAIN x = CubicFields /\ x.epoch = t /\ x.appLimited = e.appLimited
        /\ x.lastWindow = w /\ x.lastMax = e.lastMax /\ x.acked = 1
        /\ x.estimate = w /\ x.origin = o /\ x.timeToOrigin = k
    BY <1>3, Zenon DEF CubicFields
  <2> HIDE DEF x
  <2>5. OK(x)
    BY <1>1, <1>3, <1>4, <2>2, <2>3, <2>4
  <2> HIDE DEF OK, f
  <2> QED
    BY <2>1, <2>5, Zenon
<1>6. ASSUME c.epoch # Never PROVE OK(f)
  <2>1. OK(e)
    BY <1>1, <1>3, <1>4, <1>6
  <2> DEFINE y == e.epoch + (t - e.appLimited)
             x == [e EXCEPT !.epoch = y, !.appLimited = Never]
  <2>2. f = IF e.appLimited = Never THEN e ELSE x
    BY <1>3, <1>6, Zenon DEF ShiftEpoch, CubicFields
  <2>3. y \in Int
    BY <1>3, <1>4
  <2> HIDE DEF y
  <2>4. /\ DOMAIN x = CubicFields /\ x.epoch = y /\ x.appLimited = Never
        /\ x.lastWindow = w /\ x.lastMax = e.lastMax /\ x.acked = e.acked
        /\ x.estimate = e.estimate /\ x.origin = e.origin /\ x.timeToOrigin = e.timeToOrigin
    BY <1>3, Zenon DEF CubicFields
  <2> HIDE DEF x
  <2>5. OK(x)
    BY <2>1, <2>3, <2>4 DEF Never
  <2> HIDE DEF OK, f
  <2> QED
    BY <2>1, <2>2, <2>5, Zenon
<1>7. OK(f)
  <2> HIDE DEF OK, f
  <2> QED
    BY <1>5, <1>6, Zenon
<1> QED
  BY <1>7, Zenon DEF f, e, d

LEMMA CubicAfterAckOK ==
    ASSUME NEW c, CubicOK(c), NEW w \in MinCongestionWindow .. MaxCongestionWindow,
           NEW delayMin \in Nat, NEW t \in Nat
    PROVE  LET x == CubicAfterAck(c, w, delayMin, t)
           IN  CubicOK(x) /\ CubicWindow(x) \in Nat /\ CubicWindow(x) >= MinCongestionWindow
<1> DEFINE d == [c EXCEPT !.acked = @ + 1]
           e == [d EXCEPT !.lastWindow = w, !.lastUpdate = t]
           f == IF c.epoch = Never THEN StartEpoch(e, w, t) ELSE ShiftEpoch(e, t)
           target == CubicTarget(f, t + delayMin - f.epoch)
           estimate == f.estimate + Increases(f.acked, f.estimate)
           acked == f.acked - IncreaseCost(f.acked, f.estimate)
           g == [f EXCEPT !.target = target, !.estimate = estimate, !.acked = acked]
           OK(x) == /\ CubicOK(x)
                    /\ CubicWindow(x) \in Nat /\ CubicWindow(x) >= MinCongestionWindow
<1>1. w \in Nat /\ w # 0 /\ MinCongestionWindow \in Nat
  BY CongestionAssumption
<1>2. /\ DOMAIN d = CubicFields /\ d.epoch = c.epoch /\ d.appLimited = c.appLimited
      /\ d.lastWindow = c.lastWindow /\ d.lastMax = c.lastMax /\ d.acked = c.acked + 1
      /\ d.estimate = c.estimate /\ d.origin = c.origin /\ d.timeToOrigin = c.timeToOrigin
      /\ d.target = c.target
  BY Zenon DEF CubicOK, CubicFields
<1>3. /\ DOMAIN f = CubicFields
      /\ f.epoch \in Int /\ f.appLimited \in Int /\ f.lastWindow \in Int
      /\ f.lastMax \in Int /\ f.acked \in Nat /\ f.origin \in Int
      /\ f.timeToOrigin \in Int
      /\ f.estimate \in Nat /\ f.estimate >= MinCongestionWindow
  BY EpochOK, Zenon
<1>4. CubicAfterAck(c, w, delayMin, t) = IF CubicUnchanged(c, w, t) THEN d ELSE g
  <2>1. g = [f EXCEPT !.target = CubicTarget(f, t + delayMin - f.epoch),
                      !.estimate = @ + Increases(f.acked, f.estimate),
                      !.acked = @ - IncreaseCost(f.acked, f.estimate)]
    <3> HIDE DEF f
    <3> QED
      BY <1>3, Zenon DEF CubicFields
  <2> QED
    BY <2>1, Zenon DEF CubicAfterAck
<1> HIDE DEF d, f
<1>5. CASE CubicUnchanged(c, w, t)
  <2>1. c.lastWindow = w /\ c.estimate >= MinCongestionWindow
    BY <1>1, <1>5, Zenon DEF CubicUnchanged, CubicOK
  <2>2. OK(d)
    BY <1>1, <1>2, <2>1 DEF CubicOK, CubicWindow, Larger
  <2> QED
    BY <1>4, <1>5, <2>2, Zenon
<1>6. CASE ~ CubicUnchanged(c, w, t)
  <2>1. target \in Nat
    <3>1. t + delayMin - f.epoch \in Int
      BY <1>3
    <3> QED
      BY <1>3, <3>1, CubicTargetType, Zenon
  <2>2. /\ Increases(f.acked, f.estimate) \in Nat /\ acked \in Nat
    BY <1>3, IncreasesType, Zenon
  <2>3. estimate \in Nat /\ estimate >= MinCongestionWindow
    BY <1>1, <1>3, <2>2
  <2> HIDE DEF target, estimate, acked
  <2>4. /\ DOMAIN g = CubicFields /\ g.epoch = f.epoch /\ g.appLimited = f.appLimited
        /\ g.lastWindow = f.lastWindow /\ g.lastMax = f.lastMax /\ g.acked = acked
        /\ g.estimate = estimate /\ g.origin = f.origin /\ g.timeToOrigin = f.timeToOrigin
        /\ g.target = target
    BY <1>3, Zenon DEF CubicFields
  <2> HIDE DEF g
  <2>5. OK(g)
    BY <1>1, <1>3, <2>1, <2>2, <2>3, <2>4 DEF CubicOK, CubicWindow, Larger
  <2> QED
    BY <1>4, <1>6, <2>5, Zenon
<1> QED
  BY <1>5, <1>6, Zenon

-----------------------------------------------------------------------------
(* OLIA.                                                                   *)

LEMMA NewOliaOK == OliaOK(NewOlia)
BY CongestionAssumption, AlgorithmsAssumption DEF NewOlia, OliaOK, OliaFields

LEMMA OliaAckedOK ==
    ASSUME NEW o, OliaOK(o), NEW bytes \in Nat
    PROVE  OliaOK(UpdateAckedSinceLastLoss(o, bytes))
<1> DEFINE n == o.loss3 + bytes
           x == [o EXCEPT !.loss3 = n]
<1>1. UpdateAckedSinceLastLoss(o, bytes) = x
  BY Zenon DEF UpdateAckedSinceLastLoss, OliaOK, OliaFields
<1>2. n \in Nat /\ o.loss3 <= n
  BY DEF OliaOK
<1> HIDE DEF n
<1>3. /\ DOMAIN x = OliaFields /\ x.count = o.count
      /\ x.loss1 = o.loss1 /\ x.loss2 = o.loss2 /\ x.loss3 = n
  BY Zenon DEF OliaOK, OliaFields
<1> HIDE DEF x
<1>4. OliaOK(x)
  BY <1>2, <1>3 DEF OliaOK
<1> QED
  BY <1>1, <1>4, Zenon

LEMMA OliaLostOK ==
    ASSUME NEW o, OliaOK(o)
    PROVE  OliaOK(OliaPacketLost(o))
<1> DEFINE x == OliaPacketLost(o)
<1>1. /\ DOMAIN x = OliaFields /\ x.count = o.count
      /\ x.loss1 = o.loss2 /\ x.loss2 = o.loss3 /\ x.loss3 = o.loss3
  BY Zenon DEF OliaOK, OliaFields, OliaPacketLost
<1> HIDE DEF x
<1>2. OliaOK(x)
  BY <1>1 DEF OliaOK
<1> QED
  BY <1>2, Zenon DEF x

LEMMA OliaCountedOK ==
    ASSUME NEW o, OliaOK(o), NEW increment \in Increments(o)
    PROVE  OliaOK(OliaCounted(o, increment))
<1> DEFINE s == o.count + increment
           n == IF s >= OliaScale - 1 \/ s <= 1 - OliaScale THEN 0 ELSE s
           x == [o EXCEPT !.count = n]
<1>1. OliaCounted(o, increment) = x
  BY Zenon DEF OliaCounted
<1>2. OliaScale \in Nat /\ OliaScale >= 2 /\ increment \in Int
  BY AlgorithmsAssumption, CongestionAssumption DEF Increments
<1>3. n \in Int /\ 1 - OliaScale < n /\ n < OliaScale - 1
  BY <1>2 DEF OliaOK
<1> HIDE DEF n
<1>4. /\ DOMAIN x = OliaFields /\ x.count = n
      /\ x.loss1 = o.loss1 /\ x.loss2 = o.loss2 /\ x.loss3 = o.loss3
  BY Zenon DEF OliaOK, OliaFields
<1> HIDE DEF x
<1>5. OliaOK(x)
  BY <1>3, <1>4, Zenon DEF OliaOK
<1> QED
  BY <1>1, <1>5, Zenon

\* A change of the fraction leaves the rest.
LEMMA OliaFractionOK ==
    ASSUME NEW o, OliaOK(o), NEW a, NEW b
    PROVE  LET x == [o EXCEPT !.num = a, !.den = b] IN OliaOK(x) /\ x.num = a
<1> DEFINE x == [o EXCEPT !.num = a, !.den = b]
<1>1. /\ DOMAIN x = OliaFields /\ x.count = o.count /\ x.num = a
      /\ x.loss1 = o.loss1 /\ x.loss2 = o.loss2 /\ x.loss3 = o.loss3
  BY Zenon DEF OliaOK, OliaFields
<1> HIDE DEF x
<1>2. OliaOK(x)
  BY <1>1, Zenon DEF OliaOK
<1> QED
  BY <1>1, <1>2, Zenon DEF x

\* Only a path with the largest window gives up some, and only when another path
\* has less: its window is not the smallest one.
LEMMA EpsilonOK ==
    ASSUME NEW Q, NEW o, \A q \in Q : OliaOK(o[q]),
           NEW w, \A q \in Q : w[q] \in MinCongestionWindow .. MaxCongestionWindow,
           NEW rtts, NEW best, NEW p \in Q
    PROVE  LET e == getEpsilon([q \in Q |-> o[q]], rtts, [q \in Q |-> w[q]], best)
           IN  OliaOK(e[p]) /\ (e[p].num = -1 => w[p] - 1 >= MinCongestionWindow)
<1> DEFINE u == [q \in Q |-> w[q]]
           v == [q \in Q |-> o[q]]
           S == {u[q] : q \in DOMAIN u}
           m == Max(S)
           M == {q \in DOMAIN u : u[q] = getMaxCwnd(u)}
           B == {q \in DOMAIN u \ M : AtLeast(v[q], rtts[q], best)}
           n == Cardinality(DOMAIN u)
           e == getEpsilon(v, rtts, u, best)
<1>1. /\ MinCongestionWindow \in Nat /\ MaxCongestionWindow \in Nat
      /\ \A q \in Q : w[q] \in Nat /\ w[q] >= MinCongestionWindow /\ w[q] <= MaxCongestionWindow
  BY CongestionAssumption
<1>2. DOMAIN u = Q /\ DOMAIN v = Q /\ \A q \in Q : u[q] = w[q] /\ v[q] = o[q]
  BY Zenon
<1> HIDE DEF u, v
<1>3. S \in SUBSET Nat /\ S # {} /\ \A x \in S : x <= MaxCongestionWindow
  BY <1>1, <1>2, Zenon
<1>4. m \in S /\ \A x \in S : x <= m
  <2> HIDE DEF S
  <2> QED
    BY <1>1, <1>3, MaxOfBounded, Zenon
<1>5. getMaxCwnd(u) = m
  BY Zenon DEF getMaxCwnd
<1> HIDE DEF m
<1>6. ASSUME B # {}, p \in M PROVE w[p] - 1 >= MinCongestionWindow
  <2>1. PICK r \in B : TRUE
    BY <1>6, Zenon
  <2>2. r \in Q /\ u[r] # m /\ u[p] = m /\ u[r] \in S
    BY <1>2, <1>5, <1>6, <2>1, Zenon
  <2>3. w[r] <= m /\ w[r] # m /\ w[p] = m
    BY <1>2, <1>4, <2>2, Zenon
  <2> HIDE DEF S, B, M
  <2> QED
    BY <1>1, <2>2, <2>3
<1> DEFINE x1 == [v[p] EXCEPT !.num = 1, !.den = n * Cardinality(B)]
           x2 == [v[p] EXCEPT !.num = -1, !.den = n * Cardinality(M)]
           x3 == [v[p] EXCEPT !.num = 0, !.den = 1]
<1>7. e[p] = IF B # {} /\ p \in B THEN x1 ELSE IF B # {} /\ p \in M THEN x2 ELSE x3
  BY <1>2, Zenon DEF getEpsilon
<1>8. OliaOK(v[p])
  BY <1>2, Zenon
<1> HIDE DEF B, M, n, e
<1>9. /\ OliaOK(x1) /\ x1.num = 1 /\ OliaOK(x2) /\ OliaOK(x3) /\ x3.num = 0
  BY <1>8, OliaFractionOK, Zenon
<1>10. OliaOK(e[p]) /\ (e[p].num = -1 => w[p] - 1 >= MinCongestionWindow)
  <2> HIDE DEF x1, x2, x3
  <2>1. OliaOK(e[p])
    BY <1>7, <1>9, Zenon
  <2>2. e[p].num = -1 => (B # {} /\ p \in M)
    BY <1>7, <1>9
  <2> QED
    BY <1>6, <2>1, <2>2, Zenon
<1> QED
  BY <1>10, Zenon DEF e, u, v

LEMMA OliaWindowOK ==
    ASSUME NEW o, OliaOK(o), NEW increment \in Increments(o),
           NEW w \in MinCongestionWindow .. MaxCongestionWindow,
           o.num = -1 => w - 1 >= MinCongestionWindow
    PROVE  Smaller(MaxCongestionWindow, OliaWindow(o, increment, w))
              \in MinCongestionWindow .. MaxCongestionWindow
<1>1. /\ MinCongestionWindow \in Nat /\ MinCongestionWindow >= 1 /\ MaxCongestionWindow \in Nat
      /\ w \in Nat /\ w >= MinCongestionWindow /\ w <= MaxCongestionWindow
  BY CongestionAssumption
<1>2. OliaScale \in Nat /\ OliaScale >= 2
  BY AlgorithmsAssumption, CongestionAssumption, Zenon
<1>3. increment \in Int /\ o.count \in Int /\ 1 - OliaScale < o.count
  BY <1>2 DEF Increments, OliaOK
<1> DEFINE s == o.count + increment
<1>4. s \in Int /\ (s <= 1 - OliaScale => o.num = -1)
  BY <1>2, <1>3 DEF Increments
<1>5. OliaWindow(o, increment, w) = IF s >= OliaScale - 1 THEN w + 1
                                    ELSE IF s <= 1 - OliaScale THEN Larger(1, w - 1) ELSE w
  BY Zenon DEF OliaWindow
<1> HIDE DEF s
<1>6. /\ OliaWindow(o, increment, w) \in Nat
      /\ OliaWindow(o, increment, w) >= MinCongestionWindow
  BY <1>1, <1>2, <1>4, <1>5 DEF Larger
<1> QED
  BY <1>1, <1>6 DEF Smaller

-----------------------------------------------------------------------------
(* The calls of the sender.                                                *)

LEMMA PartsStay ==
    ASSUME PartsOK, UNCHANGED <<congestionWindow, cubic, olia, bounds>>,
           MinRTTOK(rttStats'), now' \in Nat
    PROVE  PartsOK'
BY Zenon DEF PartsOK, WindowOK, CubicsOK, OliasOK

LEMMA MinRTTStays ==
    ASSUME MinRTTOK(rttStats), NEW p \in Paths, NEW rtt \in Nat, MaybeExitSlowStart(p, rtt)
    PROVE  MinRTTOK(rttStats')
<1> DEFINE r == UpdateRTT(rttStats[p], rtt, 0)
<1>1. r.min \in Nat
  BY Zenon DEF UpdateRTT, Smaller, MinRTTOK
<1>2. rttStats' = [rttStats EXCEPT ![p] = r]
  BY Zenon DEF MaybeExitSlowStart
<1> HIDE DEF r
<1> QED
  BY <1>1, <1>2, Zenon DEF MinRTTOK

\* The window and the growth of one path.
LEMMA OneWindow ==
    ASSUME WindowOK(congestionWindow), NEW p \in Paths,
           NEW w \in MinCongestionWindow .. MaxCongestionWindow,
           congestionWindow' = [congestionWindow EXCEPT ![p] = w]
    PROVE  WindowOK(congestionWindow')
BY Zenon DEF WindowOK

LEMMA OneCubic ==
    ASSUME CubicsOK(cubic), NEW p \in Paths, NEW c, CubicOK(c), cubic' = [cubic EXCEPT ![p] = c]
    PROVE  CubicsOK(cubic')
<1>1. \A q \in Paths : cubic'[q] = IF q = p THEN c ELSE cubic[q]
  BY Zenon DEF CubicsOK
<1>2. DOMAIN cubic' = Paths
  BY Zenon DEF CubicsOK
<1> QED
  BY <1>1, <1>2, Zenon DEF CubicsOK

LEMMA OneOlia ==
    ASSUME OliasOK(olia), NEW p \in Paths, NEW o, OliaOK(o)
    PROVE  OliasOK([olia EXCEPT ![p] = o])
<1> DEFINE f == [olia EXCEPT ![p] = o]
<1>1. DOMAIN f = Paths /\ \A q \in Paths : f[q] = IF q = p THEN o ELSE olia[q]
  BY Zenon DEF OliasOK
<1> HIDE DEF f
<1>2. OliasOK(f)
  BY <1>1, Zenon DEF OliasOK
<1> QED
  BY <1>2, Zenon DEF f

LEMMA StayLimitedOK ==
    ASSUME PartsOK, NEW p \in Paths, NEW o, OliasOK(o), StayLimited(p, o)
    PROVE  WindowOK(congestionWindow') /\ CubicsOK(cubic') /\ OliasOK(olia')
<1>1. congestionWindow' = congestionWindow /\ olia' = o
  BY Zenon DEF StayLimited
<1>2. CASE cubic' = cubic
  BY <1>1, <1>2, Zenon DEF PartsOK
<1>3. CASE cubic' = [cubic EXCEPT ![p] = OnApplicationLimited(@, now)]
  <2>1. CubicOK(OnApplicationLimited(cubic[p], now))
    BY OnApplicationLimitedOK, Zenon DEF PartsOK, CubicsOK
  <2>2. CubicsOK(cubic')
    BY <1>3, <2>1, OneCubic, Zenon DEF PartsOK
  <2> QED
    BY <1>1, <2>2, Zenon DEF PartsOK
<1> QED
  BY <1>2, <1>3, Zenon DEF StayLimited

LEMMA GrowInSlowStartOK ==
    ASSUME PartsOK, NEW p \in Paths, NEW o, OliasOK(o), GrowInSlowStart(p, o),
           ~ (congestionWindow[p] >= MaxCongestionWindow)
    PROVE  WindowOK(congestionWindow') /\ CubicsOK(cubic') /\ OliasOK(olia')
<1>1. congestionWindow' = [congestionWindow EXCEPT ![p] = congestionWindow[p] + 1]
  BY Zenon DEF GrowInSlowStart
<1>2. congestionWindow[p] + 1 \in MinCongestionWindow .. MaxCongestionWindow
  BY CongestionAssumption DEF PartsOK, WindowOK
<1>3. WindowOK(congestionWindow')
  BY <1>1, <1>2, OneWindow, Zenon DEF PartsOK
<1> QED
  BY <1>3, Zenon DEF GrowInSlowStart, PartsOK

LEMMA GrowCubicOK ==
    ASSUME PartsOK, NEW p \in Paths, GrowCubic(p)
    PROVE  WindowOK(congestionWindow') /\ CubicsOK(cubic') /\ OliasOK(olia')
<1> DEFINE c == CubicAfterAck(cubic[p], congestionWindow[p], rttStats[p].min, now)
           w == Smaller(MaxCongestionWindow, CubicWindow(c))
<1>1. CubicOK(c) /\ CubicWindow(c) \in Nat /\ CubicWindow(c) >= MinCongestionWindow
  BY CubicAfterAckOK, Zenon DEF PartsOK, WindowOK, CubicsOK, MinRTTOK
<1>2. /\ cubic' = [cubic EXCEPT ![p] = c] /\ congestionWindow' = [congestionWindow EXCEPT ![p] = w]
      /\ olia' = olia
  BY Zenon DEF GrowCubic
<1> HIDE DEF c
<1>3. w \in MinCongestionWindow .. MaxCongestionWindow
  BY <1>1, CongestionAssumption DEF Smaller
<1> HIDE DEF w
<1>4. CubicsOK(cubic') /\ WindowOK(congestionWindow')
  BY <1>1, <1>2, <1>3, OneWindow, OneCubic, Zenon DEF PartsOK
<1> QED
  BY <1>2, <1>4, Zenon DEF PartsOK

LEMMA GrowOliaOK ==
    ASSUME PartsOK, NEW p \in Paths, p \notin Cubic, NEW o, OliasOK(o), GrowOlia(p, o)
    PROVE  WindowOK(congestionWindow') /\ CubicsOK(cubic') /\ OliasOK(olia')
<1> DEFINE Q == Paths \ Cubic
<1>1. PICK order \in Orders(Q) :
         LET e == getEpsilon([q \in Q |-> o[q]], rttStats, [q \in Q |-> congestionWindow[q]],
                             BestPath(order, o, rttStats))
         IN  \E increment \in Increments(e[p]) :
               /\ congestionWindow' =
                     [congestionWindow EXCEPT
                         ![p] = Smaller(MaxCongestionWindow, OliaWindow(e[p], increment, @))]
               /\ olia' = [q \in Paths |-> IF q \in Cubic THEN o[q]
                                           ELSE IF q = p THEN OliaCounted(e[p], increment)
                                           ELSE e[q]]
               /\ UNCHANGED <<cubic, stale>>
  BY Zenon DEF GrowOlia
<1> DEFINE best == BestPath(order, o, rttStats)
           e == getEpsilon([q \in Q |-> o[q]], rttStats, [q \in Q |-> congestionWindow[q]], best)
<1>2. PICK increment \in Increments(e[p]) :
         /\ congestionWindow' =
               [congestionWindow EXCEPT
                   ![p] = Smaller(MaxCongestionWindow, OliaWindow(e[p], increment, @))]
         /\ olia' = [q \in Paths |-> IF q \in Cubic THEN o[q]
                                     ELSE IF q = p THEN OliaCounted(e[p], increment)
                                     ELSE e[q]]
         /\ UNCHANGED <<cubic, stale>>
  BY <1>1, Zenon
<1> HIDE DEF best
<1>3. \A q \in Q : OliaOK(o[q])
  BY Zenon DEF OliasOK
<1>4. \A q \in Q : congestionWindow[q] \in MinCongestionWindow .. MaxCongestionWindow
  BY Zenon DEF PartsOK, WindowOK
<1>5. \A q \in Q : /\ OliaOK(e[q])
                   /\ e[q].num = -1 => congestionWindow[q] - 1 >= MinCongestionWindow
  <2> HIDE DEF Q
  <2> QED
    BY <1>3, <1>4, EpsilonOK, Zenon
<1> HIDE DEF e
<1> DEFINE w == Smaller(MaxCongestionWindow, OliaWindow(e[p], increment, congestionWindow[p]))
<1>6. p \in Q
  BY Zenon
<1>7. w \in MinCongestionWindow .. MaxCongestionWindow
  BY <1>2, <1>4, <1>5, <1>6, OliaWindowOK, Zenon
<1>8. congestionWindow' = [congestionWindow EXCEPT ![p] = w]
  BY <1>2, Zenon DEF PartsOK, WindowOK
<1> HIDE DEF w
<1>9. WindowOK(congestionWindow')
  BY <1>7, <1>8, OneWindow, Zenon DEF PartsOK
<1>10. OliaOK(OliaCounted(e[p], increment))
  BY <1>2, <1>5, <1>6, OliaCountedOK, Zenon
<1>11. OliasOK(olia')
  <2>1. DOMAIN olia' = Paths
    BY <1>2, Zenon
  <2>2. ASSUME NEW q \in Paths PROVE OliaOK(olia'[q])
    <3>1. olia'[q] = IF q \in Cubic THEN o[q]
                     ELSE IF q = p THEN OliaCounted(e[p], increment) ELSE e[q]
      BY <1>2, Zenon
    <3> QED
      BY <1>5, <1>10, <3>1, Zenon DEF OliasOK
  <2> QED
    BY <2>1, <2>2, Zenon DEF OliasOK
<1> QED
  BY <1>2, <1>9, <1>11, Zenon DEF PartsOK

LEMMA AckedParts ==
    ASSUME PartsOK, NEW p \in Paths, NEW n, NEW length \in Nat, NEW b,
           OnPacketAcked(p, n, length, b), UNCHANGED <<now, bounds>>
    PROVE  PartsOK'
<1>1. rttStats' = rttStats /\ now' = now /\ bounds' = bounds
  BY Zenon DEF OnPacketAcked
<1> SUFFICES WindowOK(congestionWindow') /\ CubicsOK(cubic') /\ OliasOK(olia')
  BY <1>1, Zenon DEF PartsOK
<1>2. CASE AckedInRecovery(p, length)
  BY <1>2, Zenon DEF AckedInRecovery, PartsOK
<1>3. CASE p \in Cubic /\ CubicMaybeIncreaseCwnd(p, b)
  <2>1. OliasOK(olia)
    BY Zenon DEF PartsOK
  <2>2. \/ StayLimited(p, olia)
        \/ StayAtMax(olia)
        \/ GrowInSlowStart(p, olia) /\ ~ (congestionWindow[p] >= MaxCongestionWindow)
        \/ GrowCubic(p)
    BY <1>3, Zenon DEF CubicMaybeIncreaseCwnd
  <2>3. CASE StayAtMax(olia)
    BY <2>3, Zenon DEF StayAtMax, PartsOK
  <2> QED
    BY <2>1, <2>2, <2>3, StayLimitedOK, GrowInSlowStartOK, GrowCubicOK, Zenon
<1>4. CASE /\ p \notin Cubic
           /\ OliaMaybeIncreaseCwnd(p, b, [olia EXCEPT ![p] = UpdateAckedSinceLastLoss(@, length)])
  <2> DEFINE o == [olia EXCEPT ![p] = UpdateAckedSinceLastLoss(@, length)]
  <2>1. OliasOK(o)
    <3>1. OliaOK(UpdateAckedSinceLastLoss(olia[p], length))
      BY OliaAckedOK, Zenon DEF PartsOK, OliasOK
    <3> QED
      BY <3>1, OneOlia, Zenon DEF PartsOK, OliasOK
  <2> HIDE DEF o
  <2>2. \/ StayLimited(p, o)
        \/ StayAtMax(o)
        \/ GrowInSlowStart(p, o) /\ ~ (congestionWindow[p] >= MaxCongestionWindow)
        \/ GrowOlia(p, o)
    BY <1>4, Zenon DEF OliaMaybeIncreaseCwnd, o
  <2>3. CASE StayAtMax(o)
    BY <2>1, <2>3, Zenon DEF StayAtMax, PartsOK
  <2> QED
    BY <1>4, <2>1, <2>2, <2>3, StayLimitedOK, GrowInSlowStartOK, GrowOliaOK, Zenon
<1> QED
  BY <1>2, <1>3, <1>4, Zenon DEF OnPacketAcked, CubicOnPacketAcked, OliaOnPacketAcked


LEMMA ReducedOK ==
    ASSUME NEW w \in MinCongestionWindow .. MaxCongestionWindow
    PROVE  Reduced(w) \in MinCongestionWindow .. MaxCongestionWindow
<1>1. /\ MinCongestionWindow \in Nat /\ MaxCongestionWindow \in Nat
      /\ w \in Nat /\ w >= MinCongestionWindow /\ w <= MaxCongestionWindow
  BY CongestionAssumption
<1>2. Beta(w) \in Nat /\ Beta(w) <= w
  BY <1>1 DEF Beta
<1> QED
  BY <1>1, <1>2 DEF Reduced, Larger

LEMMA LostParts ==
    ASSUME PartsOK, NEW p \in Paths, NEW n, NEW b, UNCHANGED <<now, bounds>>,
           CubicOnPacketLost(p, n, b) \/ OliaOnPacketLost(p, n, b)
    PROVE  PartsOK'
<1>1. CASE UNCHANGED <<numbers, window, parts, ghosts>>
  BY <1>1, Zenon DEF window, parts, PartsOK
<1>2. ASSUME Reduce(p, b) PROVE WindowOK(congestionWindow') /\ rttStats' = rttStats
  <2>1. congestionWindow' = [congestionWindow EXCEPT ![p] = Reduced(congestionWindow[p])]
    BY <1>2, Zenon DEF Reduce
  <2>2. Reduced(congestionWindow[p]) \in MinCongestionWindow .. MaxCongestionWindow
    BY ReducedOK, Zenon DEF PartsOK, WindowOK
  <2> QED
    BY <1>2, <2>1, <2>2, OneWindow, Zenon DEF PartsOK, Reduce
<1>3. CASE /\ Reduce(p, b)
           /\ cubic' = [cubic EXCEPT ![p] = CubicAfterLoss(@, congestionWindow[p])]
           /\ UNCHANGED olia
  <2>1. congestionWindow[p] \in Nat
    BY CongestionAssumption DEF PartsOK, WindowOK
  <2>2. CubicOK(CubicAfterLoss(cubic[p], congestionWindow[p]))
    BY <2>1, CubicAfterLossOK, Zenon DEF PartsOK, CubicsOK
  <2>3. CubicsOK(cubic')
    BY <1>3, <2>2, OneCubic, Zenon DEF PartsOK
  <2> QED
    BY <1>2, <1>3, <2>3, Zenon DEF PartsOK
<1>4. CASE /\ Reduce(p, b)
           /\ olia' = [olia EXCEPT ![p] = OliaPacketLost(@)]
           /\ UNCHANGED cubic
  <2>1. OliaOK(OliaPacketLost(olia[p]))
    BY OliaLostOK, Zenon DEF PartsOK, OliasOK
  <2>2. OliasOK(olia')
    BY <1>4, <2>1, OneOlia, Zenon DEF PartsOK
  <2> QED
    BY <1>2, <1>4, <2>2, Zenon DEF PartsOK
<1> QED
  BY <1>1, <1>3, <1>4, Zenon DEF CubicOnPacketLost, OliaOnPacketLost

LEMMA TimeoutParts ==
    ASSUME PartsOK, NEW p \in Paths, UNCHANGED <<now, bounds>>,
           CubicOnRetransmissionTimeout(p) \/ OliaOnRetransmissionTimeout(p)
    PROVE  PartsOK'
<1>1. Restart(p)
  BY Zenon DEF CubicOnRetransmissionTimeout, OliaOnRetransmissionTimeout
<1>2. rttStats' = rttStats /\ congestionWindow' = [congestionWindow EXCEPT ![p] = MinCongestionWindow]
  BY <1>1, Zenon DEF Restart
<1>3. MinCongestionWindow \in MinCongestionWindow .. MaxCongestionWindow
  BY CongestionAssumption
<1>4. WindowOK(congestionWindow')
  BY <1>2, <1>3, OneWindow, Zenon DEF PartsOK
<1>5. CubicsOK(cubic')
  BY NewCubicOK, OneCubic, Zenon DEF PartsOK, CubicOnRetransmissionTimeout, OliaOnRetransmissionTimeout
<1>6. OliasOK(olia')
  BY NewOliaOK, OneOlia, Zenon DEF PartsOK, CubicOnRetransmissionTimeout, OliaOnRetransmissionTimeout
<1> QED
  BY <1>2, <1>4, <1>5, <1>6, Zenon DEF PartsOK

LEMMA NumbersAt ==
    ASSUME NumbersOK, NEW p \in Paths
    PROVE  /\ lastSent[p] \in Nat /\ largestAckedPacketNumber[p] \in Nat /\ reducedAt[p] \in Nat
           /\ largestSentAtLastCutback[p] = reducedAt[p]
           /\ largestAckedPacketNumber[p] > reducedAt[p] => beyond[p]
BY DEF NumbersOK

LEMMA NumbersStay ==
    ASSUME NumbersOK, UNCHANGED <<numbers, reducedAt, beyond, lastSent>>
    PROVE  NumbersOK'
BY Zenon DEF NumbersOK, numbers

LEMMA SentNumbers ==
    ASSUME NumbersOK, NEW p \in Paths, NEW length,
           lastSent' = [lastSent EXCEPT ![p] = @ + 1], OnPacketSent(p, lastSent'[p], length)
    PROVE  NumbersOK'
<1>1. largestSentPacketNumber' = [largestSentPacketNumber EXCEPT ![p] = lastSent'[p]]
  BY Zenon DEF OnPacketSent
<1>2. UNCHANGED <<largestAckedPacketNumber, largestSentAtLastCutback, reducedAt, beyond>>
  BY Zenon DEF OnPacketSent, ghosts
<1> QED
  BY <1>1, <1>2 DEF NumbersOK

LEMMA AckedNumbers ==
    ASSUME NumbersOK, NEW p \in Paths, NEW n \in 1 .. lastSent[p], NEW length, NEW b,
           OnPacketAcked(p, n, length, b), UNCHANGED lastSent
    PROVE  NumbersOK'
<1>1. /\ largestAckedPacketNumber' =
            [largestAckedPacketNumber EXCEPT ![p] = Larger(n, largestAckedPacketNumber[p])]
      /\ beyond' = [beyond EXCEPT ![p] = beyond[p] \/ n > reducedAt[p]]
      /\ UNCHANGED <<largestSentPacketNumber, largestSentAtLastCutback, reducedAt>>
  BY Zenon DEF OnPacketAcked
<1>2. DOMAIN largestAckedPacketNumber' = Paths /\ DOMAIN beyond' = Paths
  BY <1>1, Zenon DEF NumbersOK
<1>3. ASSUME NEW q \in Paths
      PROVE  /\ largestAckedPacketNumber'[q] \in 0 .. lastSent[q]
             /\ largestAckedPacketNumber'[q] > reducedAt[q] => beyond'[q]
  <2>1. CASE q # p
    BY <1>1, <2>1, Zenon DEF NumbersOK
  <2>2. CASE q = p
    <3>1. /\ largestAckedPacketNumber'[p] = Larger(n, largestAckedPacketNumber[p])
          /\ beyond'[p] = (beyond[p] \/ n > reducedAt[p])
      BY <1>1, Zenon DEF NumbersOK
    <3>2. largestAckedPacketNumber[p] \in 0 .. lastSent[p] /\ lastSent[p] \in Nat
      BY Zenon DEF NumbersOK
    <3>3. \/ largestAckedPacketNumber'[p] = n
          \/ largestAckedPacketNumber'[p] = largestAckedPacketNumber[p]
      BY <3>1, Zenon DEF Larger
    <3>4. largestAckedPacketNumber'[p] > reducedAt[p] => beyond'[p]
      BY <3>1, <3>3, Zenon DEF NumbersOK
    <3>5. largestAckedPacketNumber'[p] \in 0 .. lastSent[p]
      BY <3>2, <3>3
    <3> QED
      BY <2>2, <3>4, <3>5, Zenon
  <2> QED
    BY <2>1, <2>2, Zenon
<1> QED
  BY <1>1, <1>2, <1>3, Zenon DEF NumbersOK

LEMMA LostNumbers ==
    ASSUME NumbersOK, NEW p \in Paths, NEW n, NEW b, UNCHANGED lastSent,
           CubicOnPacketLost(p, n, b) \/ OliaOnPacketLost(p, n, b)
    PROVE  NumbersOK'
<1>1. CASE UNCHANGED <<numbers, window, parts, ghosts>>
  BY <1>1, NumbersStay, Zenon DEF ghosts
<1>2. CASE Reduce(p, b)
  <2>1. /\ largestSentAtLastCutback' =
             [largestSentAtLastCutback EXCEPT ![p] = largestSentPacketNumber[p]]
        /\ reducedAt' = [reducedAt EXCEPT ![p] = lastSent[p]]
        /\ beyond' = [beyond EXCEPT ![p] = FALSE]
        /\ UNCHANGED <<largestSentPacketNumber, largestAckedPacketNumber>>
    BY <1>2, Zenon DEF Reduce
  <2>2. /\ DOMAIN largestSentAtLastCutback' = Paths /\ DOMAIN reducedAt' = Paths
        /\ DOMAIN beyond' = Paths
    BY <2>1, Zenon DEF NumbersOK
  <2>3. ASSUME NEW q \in Paths
        PROVE  /\ reducedAt'[q] \in 0 .. lastSent[q]
               /\ largestSentAtLastCutback'[q] = reducedAt'[q]
               /\ largestAckedPacketNumber[q] > reducedAt'[q] => beyond'[q]
    BY <2>1, SMTT(20) DEF NumbersOK
  <2> QED
    BY <2>1, <2>2, <2>3, Zenon DEF NumbersOK
<1> QED
  BY <1>1, <1>2, Zenon DEF CubicOnPacketLost, OliaOnPacketLost

LEMMA TimeoutNumbers ==
    ASSUME NumbersOK, NEW p \in Paths, Restart(p), UNCHANGED lastSent
    PROVE  NumbersOK'
<1>1. /\ largestSentAtLastCutback' = [largestSentAtLastCutback EXCEPT ![p] = 0]
      /\ reducedAt' = [reducedAt EXCEPT ![p] = 0]
      /\ beyond' = [beyond EXCEPT ![p] = TRUE]
      /\ UNCHANGED <<largestSentPacketNumber, largestAckedPacketNumber>>
  BY Zenon DEF Restart
<1>2. /\ DOMAIN largestSentAtLastCutback' = Paths /\ DOMAIN reducedAt' = Paths
      /\ DOMAIN beyond' = Paths
  BY <1>1, Zenon DEF NumbersOK
<1>3. ASSUME NEW q \in Paths
      PROVE  /\ reducedAt'[q] \in 0 .. lastSent[q]
             /\ largestSentAtLastCutback'[q] = reducedAt'[q]
             /\ largestAckedPacketNumber[q] > reducedAt'[q] => beyond'[q]
  BY <1>1 DEF NumbersOK
<1> QED
  BY <1>1, <1>2, <1>3, Zenon DEF NumbersOK
-----------------------------------------------------------------------------
(* The handler.                                                            *)

LEMMA NoCallsFields ==
    /\ DOMAIN NoCalls = {"path", "acked", "lost", "timeout"}
    /\ NoCalls.acked = {} /\ NoCalls.lost = {} /\ NoCalls.timeout = FALSE
BY Zenon DEF NoCalls

LEMMA IdleFlight ==
    ASSUME FlightOK, UNCHANGED <<history, lastSent>>, calls' = NoCalls
    PROVE  FlightOK'
BY NoCallsFields, Zenon DEF FlightOK

\* The packets of a call that begins are in flight.
LEMMA CallsFlight ==
    ASSUME FlightOK, UNCHANGED <<history, lastSent>>, NEW p \in Paths,
           DOMAIN calls' = {"path", "acked", "lost", "timeout"}, calls'.path = p,
           calls'.acked \subseteq Numbers(p), calls'.lost \subseteq Numbers(p),
           calls'.acked \cap calls'.lost = {}
    PROVE  FlightOK'
BY Zenon DEF FlightOK, Numbers

LEMMA SentFlight ==
    ASSUME FlightOK, NumbersOK, NEW p \in Paths, NEW length \in Nat, Idle, UNCHANGED calls,
           lastSent' = [lastSent EXCEPT ![p] = @ + 1],
           history' = [history EXCEPT ![p] = @ \cup {[number |-> lastSent'[p], length |-> length]}]
    PROVE  FlightOK'
<1> DEFINE k == [number |-> lastSent'[p], length |-> length]
<1>1. lastSent[p] \in Nat /\ lastSent'[p] = lastSent[p] + 1
      /\ \A q \in Paths : q # p => lastSent'[q] = lastSent[q]
  BY Zenon DEF NumbersOK
<1>2. DOMAIN history' = Paths /\ history'[p] = history[p] \cup {k}
      /\ \A q \in Paths : q # p => history'[q] = history[q]
  BY Zenon DEF FlightOK
<1>3. k.number = lastSent[p] + 1 /\ k.length \in Nat
  BY <1>1, Zenon
<1> HIDE DEF k
<1>4. ASSUME NEW q \in Paths, NEW x \in history'[q]
      PROVE  x.number \in 1 .. lastSent'[q] /\ x.length \in Nat
  <2>1. CASE q # p
    BY <1>1, <1>2, <1>4, <2>1, Zenon DEF FlightOK
  <2>2. CASE q = p /\ x = k
    BY <1>1, <1>3, <2>2
  <2>3. CASE q = p /\ x \in history[p]
    <3>1. x.number \in 1 .. lastSent[p] /\ x.length \in Nat
      BY <2>3, Zenon DEF FlightOK
    <3> QED
      BY <1>1, <2>3, <3>1
  <2> QED
    BY <1>2, <1>4, <2>1, <2>2, <2>3, Zenon
<1>5. calls'.acked = {} /\ calls'.lost = {} /\ calls'.timeout = FALSE /\ calls' = calls
  BY NoCallsFields, Zenon DEF Idle
<1> QED
  BY <1>2, <1>4, <1>5, Zenon DEF FlightOK

LEMMA PacketOfNumber ==
    ASSUME NEW p, NEW n \in Numbers(p)
    PROVE  Packet(p, n) \in history[p] /\ Packet(p, n).number = n
BY Zenon DEF Numbers, Packet

\* A call is about a packet in flight.
LEMMA CalledInFlight ==
    ASSUME FlightOK, NEW n \in calls.acked \cup calls.lost
    PROVE  /\ calls.path \in Paths /\ n \in Numbers(calls.path)
           /\ n \in 1 .. lastSent[calls.path] /\ Packet(calls.path, n).length \in Nat
<1>1. calls.path \in Paths /\ n \in Numbers(calls.path)
  BY Zenon DEF FlightOK
<1>2. Packet(calls.path, n) \in history[calls.path] /\ Packet(calls.path, n).number = n
  BY <1>1, PacketOfNumber, Zenon
<1> QED
  BY <1>1, <1>2, Zenon DEF FlightOK

\* A packet leaves the flight when its call is made.
LEMMA LeftFlight ==
    ASSUME FlightOK, NEW n \in calls.acked \cup calls.lost, UNCHANGED lastSent,
           history' = Without(calls.path, n), NEW c,
           DOMAIN c = {"path", "acked", "lost", "timeout"}, c.path = calls.path,
           c.timeout = calls.timeout, c.acked = calls.acked \ {n}, c.lost = calls.lost \ {n},
           calls' = Left(c)
    PROVE  FlightOK'
<1> DEFINE p == calls.path
<1>1. p \in Paths /\ n \in Numbers(p)
  BY Zenon DEF FlightOK
<1>2. Packet(p, n) \in history[p] /\ Packet(p, n).number = n
  BY <1>1, PacketOfNumber, Zenon
<1>3. DOMAIN history' = Paths /\ history'[p] = history[p] \ {Packet(p, n)}
      /\ \A q \in Paths : q # p => history'[q] = history[q]
  BY <1>1, Zenon DEF FlightOK, Without
<1>4. \A q \in Paths : \A k \in history'[q] :
         k.number \in 1 .. lastSent[q] /\ k.length \in Nat
  BY <1>3, Zenon DEF FlightOK
<1>5. ASSUME NEW m \in c.acked \cup c.lost PROVE \E k \in history'[p] : k.number = m
  <2>1. m # n /\ m \in calls.acked \cup calls.lost
    BY <1>5, Zenon
  <2>2. PICK k \in history[p] : k.number = m
    BY <2>1, Zenon DEF FlightOK, Numbers
  <2>3. k \in history'[p]
    BY <1>2, <1>3, <2>1, <2>2, Zenon
  <2> QED
    BY <2>2, <2>3, Zenon
<1>6. CASE calls' = c
  <2>1. c.acked \cap c.lost = {}
    BY Zenon DEF FlightOK
  <2>2. c.timeout => c.path \in Paths
    BY <1>1, Zenon
  <2> HIDE DEF p
  <2>3. \A m \in c.acked \cup c.lost : c.path \in Paths /\ \E k \in history'[c.path] : k.number = m
    BY <1>1, <1>5, Zenon DEF p
  <2> QED
    BY <1>3, <1>4, <1>6, <2>1, <2>2, <2>3, SMTT(20) DEF FlightOK, Numbers
<1>7. CASE calls' = NoCalls
  BY <1>3, <1>4, <1>7, NoCallsFields, Zenon DEF FlightOK
<1> QED
  BY <1>6, <1>7, Zenon DEF Left


LEMMA InitKeeps == Init => CInv
<1> SUFFICES ASSUME Init PROVE CInv
  BY Zenon
<1>1. PartsOK
  BY NewCubicOK, NewOliaOK, CongestionAssumption, Zenon
  DEF Init, PartsOK, WindowOK, CubicsOK, OliasOK, MinRTTOK, NoRTT
<1>2. NumbersOK
  BY DEF Init, NumbersOK
<1>3. FlightOK
  BY NoCallsFields, Zenon DEF Init, FlightOK
<1> QED
  BY <1>1, <1>2, <1>3, Zenon DEF CInv

\* Steps of the handler that call no sender.
LEMMA QuietKeeps ==
    ASSUME CInv, UNCHANGED <<lastSent, now, numbers, window, parts, ghosts, bounds>>
    PROVE  PartsOK' /\ NumbersOK'
<1>1. PartsOK'
  BY PartsStay, Zenon DEF CInv, PartsOK, window, parts
<1>2. NumbersOK'
  BY NumbersStay, Zenon DEF CInv, ghosts
<1> QED
  BY <1>1, <1>2, Zenon

LEMMA SentPacketKeeps ==
    ASSUME CInv, NEW p \in Paths, NEW length \in Nat, SentPacket(p, length), UNCHANGED bounds
    PROVE  CInv'
<1> USE DEF CInv
<1>1. /\ lastSent' = [lastSent EXCEPT ![p] = @ + 1] /\ OnPacketSent(p, lastSent'[p], length)
      /\ history' = [history EXCEPT ![p] = @ \cup {[number |-> lastSent'[p], length |-> length]}]
      /\ Idle /\ UNCHANGED <<calls, now>>
  BY Zenon DEF SentPacket
<1>2. UNCHANGED <<congestionWindow, cubic, olia, rttStats>>
  BY <1>1, Zenon DEF OnPacketSent, window
<1>3. PartsOK'
  BY <1>1, <1>2, PartsStay, Zenon DEF PartsOK
<1>4. NumbersOK' /\ FlightOK'
  BY <1>1, SentNumbers, SentFlight, Zenon
<1> QED
  BY <1>3, <1>4, Zenon

LEMMA ReceivedAckKeeps ==
    ASSUME CInv, NEW p \in Paths, NEW la, NEW acked \in SUBSET Numbers(p), NEW old,
           NEW rtt \in Nat, ReceivedAck(p, la, acked, old, rtt), UNCHANGED bounds
    PROVE  CInv'
<1> USE DEF CInv
<1>1. UNCHANGED <<history, lastSent, now, numbers, congestionWindow, cubic, olia, ghosts>>
  BY Zenon DEF ReceivedAck
<1>2. MinRTTOK(rttStats')
  BY MinRTTStays, Zenon DEF ReceivedAck, PartsOK
<1>3. PartsOK'
  BY <1>1, <1>2, PartsStay, Zenon DEF PartsOK
<1>4. NumbersOK'
  BY <1>1, NumbersStay, Zenon DEF ghosts
<1> DEFINE lost == {n \in Numbers(p) \ acked : n <= la /\ n <= old}
<1>5. calls' = [path |-> p, acked |-> acked, lost |-> lost, timeout |-> FALSE]
  BY Zenon DEF ReceivedAck
<1>6. lost \subseteq Numbers(p) /\ acked \cap lost = {}
  BY Zenon
<1> HIDE DEF lost
<1>7. FlightOK'
  BY <1>1, <1>5, <1>6, CallsFlight, Zenon
<1> QED
  BY <1>3, <1>4, <1>7, Zenon

LEMMA LossAlarmKeeps ==
    ASSUME CInv, NEW p \in Paths, NEW old, LossAlarm(p, old), UNCHANGED bounds
    PROVE  CInv'
<1>1. UNCHANGED <<history, lastSent, now, numbers, window, parts, ghosts>>
  BY Zenon DEF LossAlarm
<1> DEFINE lost == {n \in Numbers(p) : n <= LargestAcked[p] /\ n <= old}
<1>2. calls' = [NoCalls EXCEPT !.path = p, !.lost = lost] /\ lost \subseteq Numbers(p)
  BY Zenon DEF LossAlarm
<1> HIDE DEF lost
<1>3. /\ DOMAIN calls' = {"path", "acked", "lost", "timeout"} /\ calls'.path = p
      /\ calls'.acked = {} /\ calls'.lost = lost
  BY <1>2, Zenon DEF NoCalls
<1>4. FlightOK'
  BY <1>1, <1>2, <1>3, CallsFlight, Zenon DEF CInv
<1> QED
  BY <1>1, <1>4, QuietKeeps, Zenon DEF CInv

\* The packet that a probe sends again leaves the flight with no call pending.
LEMMA TailLossProbeKeeps ==
    ASSUME CInv, NEW p \in Paths, TailLossProbe(p), UNCHANGED bounds
    PROVE  CInv'
<1>1. UNCHANGED <<lastSent, calls, now, numbers, window, parts, ghosts>> /\ Idle
  BY Zenon DEF TailLossProbe
<1>2. DOMAIN history' = Paths /\ \A q \in Paths : history'[q] \subseteq history[q]
  BY Zenon DEF TailLossProbe, Without, CInv, FlightOK
<1>3. FlightOK'
  BY <1>1, <1>2, NoCallsFields, Zenon DEF CInv, FlightOK, Idle
<1> QED
  BY <1>1, <1>3, QuietKeeps, Zenon DEF CInv

LEMMA RetransmissionTimeoutKeeps ==
    ASSUME CInv, NEW p \in Paths, NEW all, RetransmissionTimeout(p, all), UNCHANGED bounds
    PROVE  CInv'
<1>1. UNCHANGED <<history, lastSent, now, numbers, window, parts, ghosts>>
  BY Zenon DEF RetransmissionTimeout
<1> DEFINE lost == {n \in Numbers(p) : all \/ Cardinality({m \in Numbers(p) : m < n}) < 2}
<1>2. /\ calls' = [path |-> p, acked |-> {}, timeout |-> TRUE, lost |-> lost]
      /\ lost \subseteq Numbers(p)
  BY Zenon DEF RetransmissionTimeout
<1> HIDE DEF lost
<1>3. FlightOK'
  BY <1>1, <1>2, CallsFlight, Zenon DEF CInv
<1> QED
  BY <1>1, <1>3, QuietKeeps, Zenon DEF CInv

LEMMA CallAckedKeeps ==
    ASSUME CInv, NEW n \in calls.acked, CallAcked(n), UNCHANGED bounds
    PROVE  CInv'
<1> USE DEF CInv
<1> DEFINE p == calls.path
           length == Packet(p, n).length
           b == BytesInFlight(history'[p])
           c == [calls EXCEPT !.acked = @ \ {n}]
<1>1. /\ history' = Without(p, n) /\ calls' = Left(c) /\ OnPacketAcked(p, n, length, b)
      /\ UNCHANGED <<lastSent, now>>
  BY Zenon DEF CallAcked
<1>2. p \in Paths /\ n \in 1 .. lastSent[p] /\ length \in Nat
  BY CalledInFlight, Zenon
<1>3. /\ DOMAIN c = {"path", "acked", "lost", "timeout"} /\ c.path = p
      /\ c.timeout = calls.timeout /\ c.acked = calls.acked \ {n} /\ c.lost = calls.lost \ {n}
  BY Zenon DEF FlightOK
<1> HIDE DEF c
<1>4. FlightOK'
  BY <1>1, <1>3, LeftFlight, Zenon
<1> HIDE DEF p, length, b
<1>5. PartsOK' /\ NumbersOK'
  BY <1>1, <1>2, AckedParts, AckedNumbers, Zenon
<1> QED
  BY <1>4, <1>5, Zenon

LEMMA CallLostKeeps ==
    ASSUME CInv, NEW n \in calls.lost, CallLost(n), UNCHANGED bounds
    PROVE  CInv'
<1> USE DEF CInv
<1> DEFINE p == calls.path
           b == BytesInFlight(history'[p])
           c == [calls EXCEPT !.lost = @ \ {n}]
<1>1. /\ history' = Without(p, n) /\ calls' = Left(c) /\ calls.acked = {}
      /\ CubicOnPacketLost(p, n, b) \/ OliaOnPacketLost(p, n, b)
      /\ UNCHANGED <<lastSent, now>>
  BY Zenon DEF CallLost
<1>2. p \in Paths
  BY CalledInFlight, Zenon
<1>3. /\ DOMAIN c = {"path", "acked", "lost", "timeout"} /\ c.path = p
      /\ c.timeout = calls.timeout /\ c.acked = calls.acked \ {n} /\ c.lost = calls.lost \ {n}
  BY <1>1, Zenon DEF FlightOK
<1> HIDE DEF c
<1>4. FlightOK'
  BY <1>1, <1>3, LeftFlight, Zenon
<1> HIDE DEF p, b
<1>5. PartsOK' /\ NumbersOK'
  BY <1>1, <1>2, LostParts, LostNumbers, Zenon
<1> QED
  BY <1>4, <1>5, Zenon

LEMMA CallTimeoutKeeps ==
    ASSUME CInv, CallTimeout, UNCHANGED bounds
    PROVE  CInv'
<1> USE DEF CInv
<1> DEFINE p == calls.path
<1>1. /\ CubicOnRetransmissionTimeout(p) \/ OliaOnRetransmissionTimeout(p)
      /\ calls' = NoCalls /\ UNCHANGED <<history, lastSent, now>>
  BY Zenon DEF CallTimeout
<1>2. p \in Paths
  BY Zenon DEF FlightOK, CallTimeout
<1>3. Restart(p)
  BY <1>1, Zenon DEF CubicOnRetransmissionTimeout, OliaOnRetransmissionTimeout
<1>4. FlightOK'
  BY <1>1, IdleFlight, Zenon
<1> HIDE DEF p
<1>5. PartsOK' /\ NumbersOK'
  BY <1>1, <1>2, <1>3, TimeoutParts, TimeoutNumbers, Zenon
<1> QED
  BY <1>4, <1>5, Zenon

LEMMA TickKeeps ==
    ASSUME CInv, Tick, UNCHANGED bounds
    PROVE  CInv'
<1> USE DEF CInv
<1>1. now' \in Nat /\ UNCHANGED <<handler, numbers, window, parts, ghosts>>
  BY DEF Tick, PartsOK
<1>2. PartsOK'
  BY <1>1, PartsStay, Zenon DEF PartsOK, window, parts
<1>3. NumbersOK'
  BY <1>1, NumbersStay, Zenon DEF handler, ghosts
<1>4. FlightOK'
  BY <1>1, Zenon DEF handler, FlightOK, Numbers
<1> QED
  BY <1>2, <1>3, <1>4, Zenon

LEMMA StutterKeeps ==
    ASSUME CInv, UNCHANGED vars
    PROVE  CInv'
<1>1. UNCHANGED <<handler, numbers, window, parts, ghosts, now, bounds>>
  BY Zenon DEF vars
<1>2. FlightOK'
  BY <1>1, Zenon DEF CInv, handler, FlightOK, Numbers
<1> QED
  BY <1>1, <1>2, QuietKeeps, Zenon DEF CInv, handler

LEMMA NextKeeps == CInv /\ [Next]_vars => CInv'
<1> SUFFICES ASSUME CInv, [Next]_vars PROVE CInv'
  BY Zenon
<1>1. bounds \in Bounds
  BY Zenon DEF CInv, PartsOK
<1>2. bounds.paths \subseteq Paths /\ bounds.lengths \subseteq Nat /\ bounds.rtts \subseteq Nat
  BY <1>1, CongestionAssumption, AlgorithmsAssumption
<1>3. CASE Next
  <2>1. UNCHANGED bounds /\ Step
    BY <1>3, Zenon DEF Next
  <2>2. ASSUME NEW p \in bounds.paths, NEW length \in bounds.lengths, SentPacket(p, length)
        PROVE  CInv'
    BY <1>2, <2>1, <2>2, SentPacketKeeps, Zenon
  <2>3. ASSUME NEW p \in bounds.paths, NEW acked \in SUBSET Numbers(p), NEW la, NEW old,
               NEW rtt \in bounds.rtts, ReceivedAck(p, la, acked, old, rtt)
        PROVE  CInv'
    BY <1>2, <2>1, <2>3, ReceivedAckKeeps, Zenon
  <2>4. ASSUME NEW p \in bounds.paths, NEW old, LossAlarm(p, old) PROVE CInv'
    BY <1>2, <2>1, <2>4, LossAlarmKeeps, Zenon
  <2>5. ASSUME NEW p \in bounds.paths, TailLossProbe(p) PROVE CInv'
    BY <1>2, <2>1, <2>5, TailLossProbeKeeps, Zenon
  <2>6. ASSUME NEW p \in bounds.paths, NEW all, RetransmissionTimeout(p, all) PROVE CInv'
    BY <1>2, <2>1, <2>6, RetransmissionTimeoutKeeps, Zenon
  <2>7. CASE Calls
    BY <2>1, <2>7, CallAckedKeeps, CallLostKeeps, CallTimeoutKeeps, Zenon DEF Calls
  <2>8. CASE Tick
    BY <2>1, <2>8, TickKeeps, Zenon
  <2> QED
    BY <2>1, <2>2, <2>3, <2>4, <2>5, <2>6, <2>7, <2>8, Zenon DEF Step
<1> QED
  BY <1>3, StutterKeeps, Zenon

-----------------------------------------------------------------------------
(* The theorems.                                                           *)

\* In no behaviour, with any number of paths, packets, losses and timeouts, does a
\* window leave its bounds (OnPacketLost, maybeIncreaseCwnd,
\* CongestionWindowAfterAck): OLIA's counter takes window away only from a path
\* with more than another one has, and Reno's estimate bounds Cubic's curve.
THEOREM WindowAlwaysBounded == Spec => []WindowBounds
<1>1. CInv => WindowBounds
  BY Zenon DEF CInv, PartsOK, WindowOK, WindowBounds
<1> QED
  BY <1>1, InitKeeps, NextKeeps, PTL DEF Spec

\* OLIA never subtracts a later byte count from an earlier one
\* (SmoothedBytesBetweenLosses).
THEOREM LossesStayInOrder == Spec => []LossesInOrder
<1>1. CInv => LossesInOrder
  BY Zenon DEF CInv, PartsOK, OliasOK, OliaOK, LossesInOrder
<1> QED
  BY <1>1, InitKeeps, NextKeeps, PTL DEF Spec

\* What an ACK may do to the windows: those of the other paths stand, and that of
\* its own path unless it is in recovery.
LEMMA AckedWindow ==
    ASSUME CInv, NEW p \in Paths, NEW n \in 1 .. lastSent[p], NEW length, NEW b,
           OnPacketAcked(p, n, length, b), NEW q \in Paths,
           congestionWindow'[q] # congestionWindow[q]
    PROVE  q = p /\ ~ InRecovery(Larger(n, largestAckedPacketNumber[p]), p)
<1>1. DOMAIN congestionWindow = Paths
  BY Zenon DEF CInv, PartsOK, WindowOK
<1>2. ~ AckedInRecovery(p, length)
  BY Zenon DEF AckedInRecovery
<1>3. ~ InRecovery(Larger(n, largestAckedPacketNumber[p]), p)
  BY <1>2, Zenon DEF OnPacketAcked, CubicOnPacketAcked, OliaOnPacketAcked
<1>4. \E o : StayLimited(p, o) \/ StayAtMax(o) \/ GrowInSlowStart(p, o) \/ GrowCubic(p)
             \/ GrowOlia(p, o)
  <2>1. CASE p \in Cubic
    <3>1. CubicMaybeIncreaseCwnd(p, b)
      BY <1>3, <2>1, Zenon DEF OnPacketAcked, CubicOnPacketAcked
    <3>2. StayLimited(p, olia) \/ StayAtMax(olia) \/ GrowInSlowStart(p, olia) \/ GrowCubic(p)
      BY <3>1, Zenon DEF CubicMaybeIncreaseCwnd
    <3> QED
      BY <3>2, Zenon
  <2>2. CASE p \notin Cubic
    <3> DEFINE o == [olia EXCEPT ![p] = UpdateAckedSinceLastLoss(@, length)]
    <3>1. OliaMaybeIncreaseCwnd(p, b, o)
      BY <1>3, <2>2, Zenon DEF OnPacketAcked, OliaOnPacketAcked
    <3> HIDE DEF o
    <3>2. StayLimited(p, o) \/ StayAtMax(o) \/ GrowInSlowStart(p, o) \/ GrowOlia(p, o)
      BY <3>1, Zenon DEF OliaMaybeIncreaseCwnd
    <3> QED
      BY <3>2, Zenon
  <2> QED
    BY <2>1, <2>2, Zenon
<1>5. \E w : congestionWindow' = [congestionWindow EXCEPT ![p] = w]
  <2>1. PICK o : StayLimited(p, o) \/ StayAtMax(o) \/ GrowInSlowStart(p, o) \/ GrowCubic(p)
                 \/ GrowOlia(p, o)
    BY <1>4, Zenon
  <2>2. CASE StayLimited(p, o) \/ StayAtMax(o)
    BY <2>2, Zenon DEF StayLimited, StayAtMax
  <2>3. CASE GrowInSlowStart(p, o)
    BY <2>3, Zenon DEF GrowInSlowStart
  <2>4. CASE GrowCubic(p)
    BY <2>4, Zenon DEF GrowCubic
  <2>5. CASE GrowOlia(p, o)
    BY <2>5, Zenon DEF GrowOlia
  <2> QED
    BY <2>1, <2>2, <2>3, <2>4, <2>5, Zenon
<1>6. q = p
  BY <1>1, <1>5, Zenon
<1> QED
  BY <1>3, <1>6, Zenon

LEMMA CallAckedStands ==
    ASSUME CInv, NEW n \in calls.acked, CallAcked(n), NEW q \in Paths,
           congestionWindow'[q] # congestionWindow[q]
    PROVE  beyond'[q]
<1> DEFINE p == calls.path
           length == Packet(p, n).length
           b == BytesInFlight(history'[p])
           l == largestAckedPacketNumber[p]
<1>1. OnPacketAcked(p, n, length, b)
  BY Zenon DEF CallAcked
<1>2. p \in Paths /\ n \in 1 .. lastSent[p]
  BY CalledInFlight, Zenon DEF CInv
<1> HIDE DEF p, length, b
<1>3. q = p /\ ~ InRecovery(Larger(n, l), p)
  BY <1>1, <1>2, AckedWindow, Zenon
<1>4. /\ lastSent[p] \in Nat /\ l \in Nat /\ reducedAt[p] \in Nat
      /\ largestSentAtLastCutback[p] = reducedAt[p]
  BY <1>2, NumbersAt, Zenon DEF CInv
<1>5. l > reducedAt[p] => beyond[p]
  BY <1>2, NumbersAt, Zenon DEF CInv
<1>6. beyond'[p] = (beyond[p] \/ n > reducedAt[p])
  BY <1>1, <1>2, Zenon DEF OnPacketAcked, CInv, NumbersOK
<1> HIDE DEF l
<1>7. n > reducedAt[p] \/ l > reducedAt[p]
  BY <1>2, <1>3, <1>4 DEF InRecovery, Larger
<1> QED
  BY <1>3, <1>5, <1>6, <1>7, Zenon

LEMMA CallLostStands ==
    ASSUME CInv, NEW n \in calls.lost, CallLost(n), NEW q \in Paths,
           congestionWindow'[q] # congestionWindow[q]
    PROVE  calls.path = q /\ n > reducedAt[q] /\ n \in calls.lost \ calls'.lost
<1> DEFINE p == calls.path
           b == BytesInFlight(history'[p])
           c == [calls EXCEPT !.lost = @ \ {n}]
<1>1. CubicOnPacketLost(p, n, b) \/ OliaOnPacketLost(p, n, b)
  BY Zenon DEF CallLost
<1>2. p \in Paths /\ n \in 1 .. lastSent[p]
  BY CalledInFlight, Zenon DEF CInv
<1>3. n \notin calls'.lost
  <2>1. c.lost = calls.lost \ {n} /\ calls' = Left(c)
    BY Zenon DEF CInv, FlightOK, CallLost
  <2> HIDE DEF c
  <2> QED
    BY <2>1, NoCallsFields, Zenon DEF Left
<1> HIDE DEF p, b
<1>4. ~ (n <= largestSentAtLastCutback[p]) /\ Reduce(p, b)
  BY <1>1, Zenon DEF CubicOnPacketLost, OliaOnPacketLost, window
<1>5. q = p
  BY <1>2, <1>4, Zenon DEF Reduce, CInv, PartsOK, WindowOK
<1>6. /\ lastSent[p] \in Nat /\ reducedAt[p] \in Nat
      /\ largestSentAtLastCutback[p] = reducedAt[p]
  BY <1>2, NumbersAt, Zenon DEF CInv
<1>7. n > reducedAt[p]
  <2>1. n \in Nat
    BY <1>2, <1>6
  <2>2. ~ (n <= reducedAt[p])
    BY <1>4, <1>6, Zenon
  <2> QED
    BY <1>6, <2>1, <2>2
<1> QED
  BY <1>3, <1>5, <1>7, Zenon DEF p

LEMMA CallTimeoutStands ==
    ASSUME CInv, CallTimeout, NEW q \in Paths, congestionWindow'[q] # congestionWindow[q]
    PROVE  beyond'[q]
<1> DEFINE p == calls.path
<1>1. Restart(p)
  BY Zenon DEF CallTimeout, CubicOnRetransmissionTimeout, OliaOnRetransmissionTimeout
<1>2. p \in Paths
  BY Zenon DEF CallTimeout, CInv, FlightOK
<1> HIDE DEF p
<1>3. q = p
  BY <1>1, <1>2, Zenon DEF Restart, CInv, PartsOK, WindowOK
<1> QED
  BY <1>1, <1>2, <1>3, Zenon DEF Restart, CInv, NumbersOK

\* From a reduction to the ACK of a packet sent after it, the losses and the ACKs
\* of older packets leave the window alone, on every path and in every order of
\* the calls (OnPacketLost, OnPacketAcked, InRecovery).
THEOREM WindowAlwaysStands == Spec => WindowStands
<1> DEFINE Stands == \A p \in Paths :
                        congestionWindow'[p] # congestionWindow[p] =>
                           \/ beyond'[p]
                           \/ \E n \in calls.lost \ calls'.lost : calls.path = p /\ n > reducedAt[p]
<1>1. ASSUME CInv, [Next]_vars PROVE [Stands]_vars
  <2> SUFFICES ASSUME NEW q \in Paths, congestionWindow'[q] # congestionWindow[q]
               PROVE  \/ beyond'[q]
                      \/ \E n \in calls.lost \ calls'.lost : calls.path = q /\ n > reducedAt[q]
    BY Zenon
  <2>1. congestionWindow' # congestionWindow
    BY Zenon
  <2>2. Next
    BY <1>1, <2>1, Zenon DEF vars, window
  <2>3. CASE Calls
    <3>1. CASE \E n \in calls.acked : CallAcked(n)
      BY <1>1, <3>1, CallAckedStands, Zenon
    <3>2. CASE \E n \in calls.lost : CallLost(n)
      BY <1>1, <3>2, CallLostStands, Zenon
    <3>3. CASE CallTimeout
      BY <1>1, <3>3, CallTimeoutStands, Zenon
    <3> QED
      BY <2>3, <3>1, <3>2, <3>3, Zenon DEF Calls
  <2>4. ASSUME NEW p, NEW length, SentPacket(p, length) PROVE FALSE
    BY <2>1, <2>4, Zenon DEF SentPacket, OnPacketSent, window
  <2>5. ASSUME NEW p, NEW la, NEW acked, NEW old, NEW rtt, ReceivedAck(p, la, acked, old, rtt)
        PROVE  FALSE
    BY <2>1, <2>5, Zenon DEF ReceivedAck
  <2>6. ASSUME NEW p, NEW old, LossAlarm(p, old) PROVE FALSE
    BY <2>1, <2>6, Zenon DEF LossAlarm, window
  <2>7. ASSUME NEW p, TailLossProbe(p) PROVE FALSE
    BY <2>1, <2>7, Zenon DEF TailLossProbe, window
  <2>8. ASSUME NEW p, NEW all, RetransmissionTimeout(p, all) PROVE FALSE
    BY <2>1, <2>8, Zenon DEF RetransmissionTimeout, window
  <2>9. ASSUME Tick PROVE FALSE
    BY <2>1, <2>9, Zenon DEF Tick, window
  <2> QED
    BY <2>2, <2>3, <2>4, <2>5, <2>6, <2>7, <2>8, <2>9, Zenon DEF Next, Step
<1> QED
  BY <1>1, InitKeeps, NextKeeps, PTL DEF Spec, WindowStands

-----------------------------------------------------------------------------
(* The epoch of Cubic's curve.                                             *)

\* An application-limited period that is to shift the epoch began after it.
CurveAt(c, s, t) ==
    ~ s => /\ c.epoch <= t
           /\ c.epoch # Never /\ c.appLimited # Never => c.epoch <= c.appLimited

CurveOK ==
    /\ DOMAIN stale = Paths
    /\ \A p \in Cubic : CurveAt(cubic[p], stale[p], now)

\* What CongestionWindowAfterAck does to the epoch and to the period: nothing, a
\* new epoch, or a shift.
EpochMoved(c, x, t) ==
    \/ x.epoch = c.epoch /\ x.appLimited = c.appLimited
    \/ c.epoch = Never /\ x.epoch = t /\ x.appLimited = c.appLimited
    \/ /\ c.epoch # Never /\ c.appLimited # Never
       /\ x.epoch = c.epoch + (t - c.appLimited) /\ x.appLimited = Never

LEMMA EpochMoves ==
    ASSUME NEW c, CubicOK(c), NEW w, NEW delayMin, NEW t
    PROVE  EpochMoved(c, CubicAfterAck(c, w, delayMin, t), t)
<1> DEFINE d == [c EXCEPT !.acked = @ + 1]
           e == [d EXCEPT !.lastWindow = w, !.lastUpdate = t]
           f == IF c.epoch = Never THEN StartEpoch(e, w, t) ELSE ShiftEpoch(e, t)
           g == [f EXCEPT !.target = CubicTarget(f, t + delayMin - f.epoch),
                          !.estimate = @ + Increases(f.acked, f.estimate),
                          !.acked = @ - IncreaseCost(f.acked, f.estimate)]
           x == CubicAfterAck(c, w, delayMin, t)
<1>1. x = IF CubicUnchanged(c, w, t) THEN d ELSE g
  BY Zenon DEF CubicAfterAck
<1>2. DOMAIN d = CubicFields /\ d.epoch = c.epoch /\ d.appLimited = c.appLimited
  BY Zenon DEF CubicOK, CubicFields
<1> HIDE DEF d, x
<1>3. DOMAIN e = CubicFields /\ e.epoch = c.epoch /\ e.appLimited = c.appLimited
  BY <1>2, Zenon DEF CubicFields
<1> HIDE DEF e
<1>4. ASSUME c.epoch = Never
      PROVE  DOMAIN f = CubicFields /\ f.epoch = t /\ f.appLimited = c.appLimited
  BY <1>3, <1>4, Zenon DEF StartEpoch, CubicFields
<1>5. ASSUME c.epoch # Never
      PROVE  /\ DOMAIN f = CubicFields
             /\ \/ f.epoch = c.epoch /\ f.appLimited = c.appLimited
                \/ /\ c.appLimited # Never
                   /\ f.epoch = c.epoch + (t - c.appLimited) /\ f.appLimited = Never
  BY <1>3, <1>5, Zenon DEF ShiftEpoch, CubicFields
<1> HIDE DEF f
<1>6. g.epoch = f.epoch /\ g.appLimited = f.appLimited
  BY <1>4, <1>5, Zenon DEF CubicFields
<1> HIDE DEF g
<1>7. EpochMoved(c, x, t)
  BY <1>1, <1>2, <1>4, <1>5, <1>6, Zenon DEF EpochMoved
<1> QED
  BY <1>7, Zenon DEF x

LEMMA CurveStays ==
    ASSUME CInv, CurveOK, UNCHANGED <<cubic, stale>>, now' = now \/ now' = now + 1
    PROVE  CurveOK'
<1>1. ASSUME NEW p \in Cubic PROVE CurveAt(cubic[p], stale[p], now')
  <2>1. CubicOK(cubic[p]) /\ now \in Nat
    BY CongestionAssumption, Zenon DEF CInv, PartsOK, CubicsOK
  <2>2. cubic[p].epoch \in Int
    BY <2>1, Zenon DEF CubicOK
  <2>3. CurveAt(cubic[p], stale[p], now)
    BY Zenon DEF CurveOK
  <2> QED
    BY <2>1, <2>2, <2>3 DEF CurveAt
<1> QED
  BY <1>1, Zenon DEF CurveOK

\* One path's curve changes.
LEMMA OneCurve ==
    ASSUME CInv, CurveOK, NEW p \in Paths, NEW c, NEW s, cubic' = [cubic EXCEPT ![p] = c],
           stale' = [stale EXCEPT ![p] = s] \/ (stale' = stale /\ s = stale[p]),
           CurveAt(c, s, now), now' = now
    PROVE  CurveOK'
<1>1. DOMAIN cubic = Paths /\ DOMAIN stale = Paths
  BY Zenon DEF CInv, PartsOK, CubicsOK, CurveOK
<1>2. ASSUME NEW q \in Cubic PROVE CurveAt(cubic'[q], stale'[q], now)
  <2>1. q \in Paths
    BY CongestionAssumption, Zenon
  <2>2. CASE q = p
    <3>1. cubic'[q] = c /\ stale'[q] = s
      BY <1>1, <2>2, Zenon
    <3> QED
      BY <3>1, Zenon
  <2>3. CASE q # p
    <3>1. cubic'[q] = cubic[q] /\ stale'[q] = stale[q]
      BY <1>1, <2>1, <2>3, Zenon
    <3> QED
      BY <3>1, Zenon DEF CurveOK
  <2> QED
    BY <2>2, <2>3, Zenon
<1> QED
  BY <1>1, <1>2, Zenon DEF CurveOK

LEMMA AckedCurve ==
    ASSUME CInv, CurveOK, NEW p \in Paths, NEW n, NEW length, NEW b,
           OnPacketAcked(p, n, length, b), now' = now
    PROVE  CurveOK'
<1>1. /\ CubicOK(cubic[p]) /\ now \in Nat /\ DOMAIN cubic = Paths /\ DOMAIN stale = Paths
      /\ p \in Cubic => CurveAt(cubic[p], stale[p], now)
  BY Zenon DEF CInv, PartsOK, CubicsOK, CurveOK
<1>2. cubic[p].epoch \in Int /\ cubic[p].appLimited \in Int
  BY <1>1, Zenon DEF CubicOK
<1>3. CASE UNCHANGED <<cubic, stale>>
  BY <1>3, CurveStays, Zenon
<1>4. CASE p \in Cubic /\ StayLimited(p, olia)
  <2> DEFINE c == OnApplicationLimited(cubic[p], now)
  <2>1. /\ c.epoch = cubic[p].epoch
        /\ c.appLimited = IF cubic[p].appLimited = Never THEN now ELSE cubic[p].appLimited
    BY <1>1, Zenon DEF OnApplicationLimited, CubicOK, CubicFields
  <2>2. cubic' = [cubic EXCEPT ![p] = c] /\ stale' = stale
    BY <1>4, Zenon DEF StayLimited
  <2> HIDE DEF c
  <2>3. CurveAt(c, stale[p], now)
    BY <1>1, <1>2, <1>4, <2>1 DEF CurveAt
  <2> QED
    BY <2>2, <2>3, OneCurve, Zenon
<1>5. CASE p \in Cubic /\ GrowCubic(p)
  <2> DEFINE c == CubicAfterAck(cubic[p], congestionWindow[p], rttStats[p].min, now)
             s == IF cubic[p].epoch = Never /\ c.epoch # Never THEN c.appLimited # Never
                  ELSE stale[p]
  <2>1. EpochMoved(cubic[p], c, now)
    BY <1>1, EpochMoves, Zenon
  <2>2. cubic' = [cubic EXCEPT ![p] = c] /\ stale' = [stale EXCEPT ![p] = s]
    BY <1>1, <1>5, Zenon DEF GrowCubic
  <2> HIDE DEF c
  <2>3. ASSUME ~ s
        PROVE  /\ c.epoch <= now
               /\ c.epoch # Never /\ c.appLimited # Never => c.epoch <= c.appLimited
    <3>1. CASE c.epoch = cubic[p].epoch /\ c.appLimited = cubic[p].appLimited
      BY <1>1, <1>2, <1>5, <2>3, <3>1 DEF CurveAt
    <3>2. CASE cubic[p].epoch = Never /\ c.epoch = now /\ c.appLimited = cubic[p].appLimited
      BY <1>1, <2>3, <3>2 DEF Never
    <3>3. CASE /\ cubic[p].epoch # Never /\ cubic[p].appLimited # Never
               /\ c.epoch = cubic[p].epoch + (now - cubic[p].appLimited) /\ c.appLimited = Never
      BY <1>1, <1>2, <1>5, <2>3, <3>3 DEF CurveAt
    <3> QED
      BY <2>1, <3>1, <3>2, <3>3, Zenon DEF EpochMoved
  <2>4. CurveAt(c, s, now)
    <3> HIDE DEF s
    <3> QED
      BY <2>3, Zenon DEF CurveAt
  <2> HIDE DEF s
  <2> QED
    BY <2>2, <2>4, OneCurve, Zenon
<1>6. CASE p \in Cubic /\ CubicMaybeIncreaseCwnd(p, b)
  BY <1>3, <1>4, <1>5, <1>6, Zenon DEF CubicMaybeIncreaseCwnd, StayAtMax, GrowInSlowStart
<1>7. ASSUME NEW o, p \notin Cubic, OliaMaybeIncreaseCwnd(p, b, o) PROVE UNCHANGED <<cubic, stale>>
  BY <1>7, Zenon DEF OliaMaybeIncreaseCwnd, StayLimited, StayAtMax, GrowInSlowStart, GrowOlia
<1>8. CASE AckedInRecovery(p, length)
  BY <1>3, <1>8, Zenon DEF AckedInRecovery
<1> QED
  BY <1>3, <1>6, <1>7, <1>8, Zenon DEF OnPacketAcked, CubicOnPacketAcked, OliaOnPacketAcked

LEMMA LostCurve ==
    ASSUME CInv, CurveOK, NEW p \in Paths, NEW n, NEW b, now' = now,
           CubicOnPacketLost(p, n, b) \/ OliaOnPacketLost(p, n, b)
    PROVE  CurveOK'
<1>1. stale' = stale
  BY Zenon DEF CubicOnPacketLost, OliaOnPacketLost, Reduce, ghosts
<1>2. CASE cubic' = cubic
  BY <1>1, <1>2, CurveStays, Zenon
<1>3. CASE cubic' = [cubic EXCEPT ![p] = CubicAfterLoss(@, congestionWindow[p])]
  <2> DEFINE c == CubicAfterLoss(cubic[p], congestionWindow[p])
  <2>1. DOMAIN cubic = Paths /\ DOMAIN stale = Paths /\ now \in Nat /\ CubicOK(cubic[p])
    BY Zenon DEF CInv, PartsOK, CubicsOK, CurveOK
  <2>2. c.epoch = Never
    BY <2>1, Zenon DEF CubicAfterLoss, CubicOK, CubicFields
  <2>3. cubic' = [cubic EXCEPT ![p] = c]
    BY <1>3, <2>1, Zenon
  <2> HIDE DEF c
  <2>4. CurveAt(c, stale[p], now)
    BY <2>1, <2>2 DEF CurveAt, Never
  <2> QED
    BY <1>1, <2>3, <2>4, OneCurve, Zenon
<1> QED
  BY <1>2, <1>3, Zenon DEF CubicOnPacketLost, OliaOnPacketLost, parts

LEMMA TimeoutCurve ==
    ASSUME CInv, CurveOK, CallTimeout
    PROVE  CurveOK'
<1> DEFINE p == calls.path
<1>1. /\ p \in Paths /\ DOMAIN cubic = Paths /\ DOMAIN stale = Paths /\ now \in Nat
      /\ now' = now
  BY Zenon DEF CInv, PartsOK, CubicsOK, CurveOK, CallTimeout, FlightOK
<1>2. CASE p \in Cubic
  <2>1. cubic' = [cubic EXCEPT ![p] = NewCubic] /\ stale' = [stale EXCEPT ![p] = FALSE]
    BY <1>2, Zenon DEF CallTimeout, CubicOnRetransmissionTimeout, Restart
  <2>2. CurveAt(NewCubic, FALSE, now)
    BY <1>1 DEF CurveAt, NewCubic, Never
  <2> HIDE DEF p
  <2> QED
    BY <1>1, <2>1, <2>2, OneCurve, Zenon
<1>3. CASE p \notin Cubic
  <2>1. cubic' = cubic /\ stale' = [stale EXCEPT ![p] = FALSE]
    BY <1>3, Zenon DEF CallTimeout, OliaOnRetransmissionTimeout, Restart
  <2> HIDE DEF p
  <2>2. DOMAIN stale' = Paths /\ \A q \in Cubic : stale'[q] = stale[q]
    BY <1>1, <1>3, <2>1, CongestionAssumption, Zenon
  <2> QED
    BY <1>1, <2>1, <2>2, Zenon DEF CurveOK
<1> QED
  BY <1>2, <1>3, Zenon

LEMMA NextCurve == CInv /\ CurveOK /\ [Next]_vars => CurveOK'
<1> SUFFICES ASSUME CInv, CurveOK, [Next]_vars PROVE CurveOK'
  BY Zenon
<1>1. ASSUME UNCHANGED <<cubic, stale, now>> PROVE CurveOK'
  BY <1>1, CurveStays, Zenon
<1>2. ASSUME NEW n \in calls.acked, CallAcked(n) PROVE CurveOK'
  <2>1. calls.path \in Paths
    BY Zenon DEF CInv, FlightOK
  <2> QED
    BY <1>2, <2>1, AckedCurve, Zenon DEF CallAcked
<1>3. ASSUME NEW n \in calls.lost, CallLost(n) PROVE CurveOK'
  <2>1. calls.path \in Paths
    BY Zenon DEF CInv, FlightOK
  <2> QED
    BY <1>3, <2>1, LostCurve, Zenon DEF CallLost
<1>4. CASE Calls
  BY <1>2, <1>3, <1>4, TimeoutCurve, Zenon DEF Calls
<1>5. CASE Tick
  BY <1>5, CurveStays, Zenon DEF Tick, parts, ghosts
<1>6. ASSUME NEW p, NEW length, SentPacket(p, length) PROVE UNCHANGED <<cubic, stale, now>>
  BY <1>6, Zenon DEF SentPacket, OnPacketSent, ghosts
<1>7. ASSUME NEW p, NEW la, NEW acked, NEW old, NEW rtt, ReceivedAck(p, la, acked, old, rtt)
      PROVE  UNCHANGED <<cubic, stale, now>>
  BY <1>7, Zenon DEF ReceivedAck, ghosts
<1>8. ASSUME NEW p, NEW old, LossAlarm(p, old) PROVE UNCHANGED <<cubic, stale, now>>
  BY <1>8, Zenon DEF LossAlarm, parts, ghosts
<1>9. ASSUME NEW p, TailLossProbe(p) PROVE UNCHANGED <<cubic, stale, now>>
  BY <1>9, Zenon DEF TailLossProbe, parts, ghosts
<1>10. ASSUME NEW p, NEW all, RetransmissionTimeout(p, all) PROVE UNCHANGED <<cubic, stale, now>>
  BY <1>10, Zenon DEF RetransmissionTimeout, parts, ghosts
<1>11. CASE UNCHANGED vars
  BY <1>1, <1>11, Zenon DEF vars, parts, ghosts
<1> QED
  BY <1>1, <1>4, <1>5, <1>6, <1>7, <1>8, <1>9, <1>10, <1>11, Zenon DEF Next, Step

\* However many application-limited periods shift it, the epoch of Cubic's curve
\* is not in the future, unless it began with the start of an older period still
\* recorded (OnApplicationLimited, CongestionWindowAfterAck).
THEOREM EpochNeverAhead == Spec => []EpochNotAhead
<1>1. Init => CurveOK
  BY CongestionAssumption DEF Init, CurveOK, CurveAt, NewCubic, Never
<1>2. CurveOK => EpochNotAhead
  BY Zenon DEF CurveOK, CurveAt, EpochNotAhead
<1> QED
  BY <1>1, <1>2, InitKeeps, NextKeeps, NextCurve, PTL DEF Spec

=============================================================================
