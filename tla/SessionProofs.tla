--------------------------- MODULE SessionProofs ----------------------------
(***************************************************************************)
(* What a session may receive and how it ends, for every value of the      *)
(* constants.                                                              *)
(*                                                                         *)
(* Bytes: an honest sender is never accused, for any number of streams,    *)
(* any lengths and any windows (FlowControl).                              *)
(*                                                                         *)
(* Paths: a session that has ended has told all its paths to stop, for any *)
(* number of paths and failures at any point (SessionRun).                 *)
(***************************************************************************)
EXTENDS FlowControl, SessionRun, FiniteSetTheorems, WellFoundedInduction, TLAPS

\* A nonempty set of naturals has a least element.
LEMMA LeastNatural ==
    ASSUME NEW S \in SUBSET Nat, S # {}
    PROVE  \E m \in S : \A x \in S : m <= x
<1>1. PICK m \in S : \A y \in S : ~(<<y, m>> \in OpToRel(<, Nat))
  BY NatLessThanWellFounded, WFMin, Zenon
<1>2. ASSUME NEW x \in S
      PROVE  m <= x
  <2>1. m \in Nat /\ x \in Nat
    BY Zenon
  <2>2. ~(x < m)
    BY <1>1, <2>1, Zenon DEF OpToRel
  <2> QED
    BY <2>1, <2>2
<1> QED
  BY <1>2, Zenon

\* A nonempty set of naturals with an upper bound has a largest element, which
\* is its Max.
LEMMA MaxOfBounded ==
    ASSUME NEW S \in SUBSET Nat, S # {}, NEW b \in Nat, \A x \in S : x <= b
    PROVE  Max(S) \in S /\ \A x \in S : x <= Max(S)
<1> DEFINE T == {b - x : x \in S}
<1>1. T \in SUBSET Nat /\ T # {}
  <2>1. \A x \in S : b - x \in Nat
    OBVIOUS
  <2> QED
    BY <2>1, Zenon
<1>2. PICK m \in T : \A y \in T : m <= y
  <2> HIDE DEF T
  <2> QED
    BY <1>1, LeastNatural, Zenon
<1>3. PICK x \in S : m = b - x
  BY Zenon
<1>4. \A y \in S : x >= y
  BY <1>2, <1>3
<1>5. \E z \in S : \A y \in S : z >= y
  BY <1>4, Zenon
<1> QED
  BY <1>5, Zenon DEF Max

\* The values of a function to the naturals on a finite set have a bound.
LEMMA FiniteBounded ==
    ASSUME NEW S, IsFiniteSet(S), NEW f \in [S -> Nat]
    PROVE  \E b \in Nat : \A s \in S : f[s] <= b
<1> DEFINE n == Cardinality(S)
<1>1. n \in Nat /\ ExistsBijection(1 .. n, S)
  BY FS_CardinalityType, Zenon
<1>2. PICK g : g \in Surjection(1 .. n, S)
  BY <1>1, Zenon DEF ExistsBijection, Bijection
<1>3. g \in [1 .. n -> S] /\ \A s \in S : \E i \in 1 .. n : g[i] = s
  BY <1>2, Zenon DEF Surjection
<1> HIDE DEF n
<1> DEFINE Bounds(k, b) == \A i \in 1 .. k : f[g[i]] <= b
           Bad == {k \in 0 .. n : ~ \E b \in Nat : Bounds(k, b)}
<1>4. Bad = {}
  <2> SUFFICES ASSUME Bad # {} PROVE FALSE
    BY Zenon
  <2>1. Bad \in SUBSET Nat
    BY <1>1
  <2>2. PICK m \in Bad : \A k \in Bad : m <= k
    <3> HIDE DEF Bad
    <3> QED
      BY <2>1, LeastNatural, Zenon
  <2>3. m \in 0 .. n /\ ~ \E b \in Nat : Bounds(m, b)
    BY Zenon
  <2>4. m # 0
    <3>1. Bounds(0, 0)
      OBVIOUS
    <3> QED
      BY <2>3, <3>1, Zenon
  <2>5. m - 1 \in 0 .. n /\ m \in 1 .. n
    BY <1>1, <2>3, <2>4
  <2>6. PICK b \in Nat : Bounds(m - 1, b)
    <3>1. m - 1 \notin Bad
      <4>1. ~ (m <= m - 1)
        BY <2>5
      <4> HIDE DEF Bad
      <4> QED
        BY <2>2, <4>1, Zenon
    <3> HIDE DEF Bounds
    <3> QED
      BY <2>5, <3>1, Zenon
  <2>7. f[g[m]] \in Nat
    BY <1>3, <2>5, Zenon
  <2>8. Bounds(m, b + f[g[m]])
    <3> SUFFICES ASSUME NEW i \in 1 .. m
                 PROVE  f[g[i]] <= b + f[g[m]]
      BY Zenon
    <3>1. f[g[i]] \in Nat
      <4>1. i \in 1 .. n
        BY <1>1, <2>5
      <4> QED
        BY <1>3, <4>1, Zenon
    <3>2. CASE i = m
      BY <2>7, <3>2
    <3>3. CASE i # m
      <4>1. i \in 1 .. m - 1
        BY <2>5, <3>3
      <4> QED
        BY <2>6, <2>7, <3>1, <4>1
    <3> QED
      BY <3>2, <3>3, Zenon
  <2>9. b + f[g[m]] \in Nat
    BY <2>7
  <2> HIDE DEF Bounds
  <2> QED
    BY <2>3, <2>8, <2>9, Zenon
<1>5. PICK b \in Nat : Bounds(n, b)
  <2>1. n \in 0 .. n
    BY <1>1
  <2>2. n \notin Bad
    BY <1>4, Zenon
  <2> HIDE DEF Bounds
  <2> QED
    BY <2>1, <2>2, Zenon
<1>6. ASSUME NEW s \in S
      PROVE  f[s] <= b
  BY <1>3, <1>5, Zenon
<1> QED
  BY <1>6, Zenon

\* Max and Min of two integers.
LEMMA MaxOfTwo ==
    ASSUME NEW a \in Int, NEW b \in Int
    PROVE  Max({a, b}) = IF a >= b THEN a ELSE b
<1>1. CASE a >= b
  <2>1. \A x \in {a, b} : (\A y \in {a, b} : x >= y) <=> x = a
    BY <1>1
  <2> QED
    BY <1>1, <2>1 DEF Max
<1>2. CASE a < b
  <2>1. \A x \in {a, b} : (\A y \in {a, b} : x >= y) <=> x = b
    BY <1>2
  <2> QED
    BY <1>2, <2>1 DEF Max
<1> QED
  BY <1>1, <1>2

LEMMA MinOfTwo ==
    ASSUME NEW a \in Int, NEW b \in Int
    PROVE  Min({a, b}) = IF a <= b THEN a ELSE b
<1>1. CASE a <= b
  <2>1. \A x \in {a, b} : (\A y \in {a, b} : x <= y) <=> x = a
    BY <1>1
  <2> QED
    BY <1>1, <2>1 DEF Min
<1>2. CASE a > b
  <2>1. \A x \in {a, b} : (\A y \in {a, b} : x <= y) <=> x = b
    BY <1>2
  <2> QED
    BY <1>2, <2>1 DEF Min
<1> QED
  BY <1>1, <1>2

\* n bytes of s, from offset a, are n elements.
Run(s, a, n) == {<<s, k>> : k \in a .. a + n - 1}

LEMMA RunOfBytes ==
    ASSUME NEW s, NEW a \in Nat, NEW n \in Nat
    PROVE  IsFiniteSet(Run(s, a, n)) /\ Cardinality(Run(s, a, n)) = n
<1> DEFINE R == Run(s, a, n)
           I == a .. a + n - 1
           g == [k \in I |-> <<s, k>>]
<1>1. a \in Int /\ a + n - 1 \in Int
  OBVIOUS
<1>2. IsFiniteSet(I) /\ Cardinality(I) = IF a > a + n - 1 THEN 0 ELSE (a + n - 1) - a + 1
  BY <1>1, FS_Interval, Zenon
<1>3. Cardinality(I) = n
  BY <1>2
<1>4. g \in Bijection(I, R)
  <2>1. g \in [I -> R]
    BY Zenon DEF Run
  <2>2. \A x, y \in I : g[x] = g[y] => x = y
    BY Zenon
  <2>3. \A t \in R : \E x \in I : g[x] = t
    BY Zenon DEF Run
  <2> HIDE DEF g, I, R
  <2> QED
    BY <2>1, <2>2, <2>3, Zenon DEF Bijection, Injection, Surjection, IsInjective
<1>5. ExistsBijection(I, R)
  BY <1>4, Zenon DEF ExistsBijection
<1> QED
  BY <1>2, <1>3, <1>5, FS_Bijection, Zenon

-----------------------------------------------------------------------------
(* Flow control.                                                           *)

FlowTypeOK ==
    /\ bytesSent \in [Ids -> Nat] /\ sendWindow \in [Ids -> Nat]
    /\ bytesRead \in [Ids -> Nat] /\ highestReceived \in [Ids -> Nat]
    /\ receiveWindow \in [Ids -> Nat] /\ receiveWindowIncrement \in [Ids -> Nat]
    /\ frames \subseteq [stream : Streams, start : Nat, end : Nat]
    /\ updates \subseteq [id : Ids, offset : Nat]
    /\ resets \subseteq [stream : Streams, offset : Nat]

\* The receiver's window never shrinks, so what it advertised once stays allowed.
WindowsOK ==
    /\ \A i \in Ids :
          /\ ReceiveWindow[i] <= receiveWindow[i]
          /\ sendWindow[i] <= receiveWindow[i]
          /\ bytesSent[i] <= receiveWindow[i]
          /\ receiveWindowIncrement[i] <= MaxReceiveWindowIncrement[i]
    /\ \A u \in updates : u.offset <= receiveWindow[u.id]

\* Nothing on the way is beyond what was sent.
NetworkOK ==
    /\ \A f \in frames : f.end <= bytesSent[f.stream]
    /\ \A r \in resets : r.offset = bytesSent[r.stream]
    /\ \A s \in Streams : highestReceived[s] <= bytesSent[s]

\* The bytes below the offsets f of the streams that count for the connection.
Counted == {s \in Streams : ContributesToConnection(s)}
Bytes(f) == {p \in Counted \X Nat : p[2] < f[p[1]]}

\* The connection's totals are the sums over its streams, on both sides.
TotalOK(f) == IsFiniteSet(Bytes(f)) /\ f[0] = Cardinality(Bytes(f))

FInv == FlowTypeOK /\ WindowsOK /\ NetworkOK
        /\ TotalOK(bytesSent) /\ TotalOK(highestReceived)

-----------------------------------------------------------------------------
(* Sums over the streams.                                                  *)

LEMMA AddType ==
    ASSUME NEW f \in [Ids -> Nat], NEW s, NEW n \in Nat
    PROVE  AddBytes(f, s, n) \in [Ids -> Nat]
BY DEF AddBytes

\* What AddBytes does to the offset of a stream it does to the total.
LEMMA TotalKept ==
    ASSUME NEW f \in [Ids -> Nat], TotalOK(f), NEW s \in Streams, NEW n \in Nat
    PROVE  /\ AddBytes(f, s, n) \in [Ids -> Nat]
           /\ TotalOK(AddBytes(f, s, n))
           /\ \A t \in Streams :
                 AddBytes(f, s, n)[t] = IF t = s THEN f[t] + n ELSE f[t]
           /\ AddBytes(f, s, n)[0] = IF ContributesToConnection(s) THEN f[0] + n ELSE f[0]
<1> DEFINE g == AddBytes(f, s, n)
           R == Run(s, f[s], n)
<1>1. /\ g \in [Ids -> Nat]
      /\ \A t \in Streams : g[t] = IF t = s THEN f[t] + n ELSE f[t]
      /\ g[0] = IF ContributesToConnection(s) THEN f[0] + n ELSE f[0]
  BY FlowControlAssumption DEF AddBytes, Ids
<1>2. f[s] \in Nat
  BY Zenon DEF Ids
<1> HIDE DEF g
<1>3. ASSUME ~ ContributesToConnection(s)
      PROVE  TotalOK(g)
  <2>1. \A t \in Counted : g[t] = f[t]
    BY <1>1, <1>3, Zenon DEF Counted
  <2>2. Bytes(g) = Bytes(f)
    <3>1. \A p \in Counted \X Nat : g[p[1]] = f[p[1]]
      BY <2>1, Zenon
    <3> QED
      BY <3>1, Zenon DEF Bytes
  <2>3. g[0] = f[0]
    BY <1>1, <1>3, Zenon
  <2> QED
    BY <2>2, <2>3, Zenon DEF TotalOK
<1>4. ASSUME ContributesToConnection(s)
      PROVE  TotalOK(g)
  <2>1. IsFiniteSet(R) /\ Cardinality(R) = n
    BY <1>2, RunOfBytes, Zenon
  <2>2. Bytes(g) = Bytes(f) \cup R
    <3>1. ASSUME NEW t \in Counted, NEW k \in Nat
          PROVE  <<t, k>> \in Bytes(g) <=> <<t, k>> \in Bytes(f) \cup R
      <4>1. t \in Streams /\ f[t] \in Nat
        BY Zenon DEF Counted, Ids
      <4>2. <<t, k>> \in Bytes(g) <=> k < g[t]
        BY Zenon DEF Bytes
      <4>3. <<t, k>> \in Bytes(f) <=> k < f[t]
        BY Zenon DEF Bytes
      <4>4. <<t, k>> \in R <=> t = s /\ k \in f[s] .. f[s] + n - 1
        BY Zenon DEF Run
      <4> HIDE DEF R
      <4>5. k < g[t] <=> k < f[t] \/ (t = s /\ k \in f[s] .. f[s] + n - 1)
        BY <1>1, <1>2, <4>1
      <4> QED
        BY <4>2, <4>3, <4>4, <4>5, Zenon
    <3>2. Bytes(f) \subseteq Counted \X Nat /\ Bytes(g) \subseteq Counted \X Nat
      BY Zenon DEF Bytes
    <3>3. R \subseteq Counted \X Nat
      BY <1>2, <1>4 DEF Counted, Run
    <3> HIDE DEF R
    <3>4. ASSUME NEW p \in Counted \X Nat
          PROVE  p \in Bytes(g) <=> p \in Bytes(f) \cup R
      <4>1. p = <<p[1], p[2]>> /\ p[1] \in Counted /\ p[2] \in Nat
        OBVIOUS
      <4> QED
        BY <3>1, <4>1, Zenon
    <3> QED
      BY <3>2, <3>3, <3>4, Zenon
  <2>3. Bytes(f) \cap R = {}
    BY <1>2 DEF Bytes, Run
  <2> HIDE DEF R
  <2>4. /\ IsFiniteSet(Bytes(g))
        /\ Cardinality(Bytes(g)) = Cardinality(Bytes(f)) + Cardinality(R)
                                     - Cardinality({})
    BY <2>1, <2>2, <2>3, FS_Union DEF TotalOK
  <2>5. Cardinality({}) = 0 /\ Cardinality(Bytes(f)) \in Nat
    BY FS_EmptySet, FS_CardinalityType, Zenon DEF TotalOK
  <2> QED
    BY <1>1, <1>4, <2>1, <2>4, <2>5 DEF TotalOK
<1>5. TotalOK(g)
  BY <1>3, <1>4, Zenon
<1> QED
  BY <1>1, <1>5, Zenon DEF g

\* If no stream received more than was sent on it, neither did the connection.
LEMMA TotalsOrdered ==
    ASSUME FInv
    PROVE  highestReceived[0] <= bytesSent[0]
<1>1. Bytes(highestReceived) \in SUBSET Bytes(bytesSent)
  <2> SUFFICES ASSUME NEW p \in Bytes(highestReceived)
               PROVE  p \in Bytes(bytesSent)
    BY Zenon
  <2>1. /\ p \in Counted \X Nat /\ p[2] < highestReceived[p[1]]
        /\ p[1] \in Streams /\ p[2] \in Nat
    BY Zenon DEF Bytes, Counted
  <2>2. /\ highestReceived[p[1]] <= bytesSent[p[1]]
        /\ highestReceived[p[1]] \in Nat /\ bytesSent[p[1]] \in Nat
    BY <2>1, Zenon DEF FInv, NetworkOK, FlowTypeOK, Ids
  <2>3. p[2] < bytesSent[p[1]]
    BY <2>1, <2>2
  <2> QED
    BY <2>1, <2>3, Zenon DEF Bytes
<1> QED
  BY <1>1, FS_Subset, Zenon DEF FInv, TotalOK
-----------------------------------------------------------------------------
(* The windows of the sender and of the receiver.                          *)

\* A sender stays within what it may send, which the receiver advertised.
LEMMA SendWithinWindow ==
    ASSUME FInv, NEW s \in Streams, NEW n \in Nat, n <= SendWindowSize(s), n > 0
    PROVE  /\ bytesSent[s] + n <= receiveWindow[s]
           /\ ContributesToConnection(s) => bytesSent[0] + n <= receiveWindow[0]
<1>1. ASSUME NEW i \in Ids, n <= FlowSendWindowSize(i)
      PROVE  bytesSent[i] + n <= receiveWindow[i]
  <2>1. /\ bytesSent[i] \in Nat /\ receiveWindow[i] \in Nat /\ sendWindow[i] \in Nat
        /\ InitialSendWindow[i] \in Nat /\ ReceiveWindow[i] \in Nat
    BY FlowControlAssumption, Zenon DEF FInv, FlowTypeOK
  <2>2. getSendWindow(i) \in Nat /\ getSendWindow(i) <= receiveWindow[i]
    BY <2>1, FlowControlAssumption DEF getSendWindow, FInv, WindowsOK
  <2> QED
    BY <1>1, <2>1, <2>2 DEF FlowSendWindowSize
<1>2. \A i \in Ids : FlowSendWindowSize(i) \in Nat
  <2>1. \A i \in Ids : bytesSent[i] \in Nat /\ getSendWindow(i) \in Nat
    BY FlowControlAssumption, Zenon DEF FInv, FlowTypeOK, getSendWindow
  <2> QED
    BY <2>1 DEF FlowSendWindowSize
<1>3. s \in Ids /\ 0 \in Ids
  BY Zenon DEF Ids
<1>4. /\ n <= FlowSendWindowSize(s)
      /\ ContributesToConnection(s) => n <= FlowSendWindowSize(0)
  <2>1. /\ FlowSendWindowSize(s) \in Int /\ FlowSendWindowSize(0) \in Int
    BY <1>2, <1>3
  <2>2. Min({FlowSendWindowSize(s), FlowSendWindowSize(0)}) =
          IF FlowSendWindowSize(s) <= FlowSendWindowSize(0)
            THEN FlowSendWindowSize(s) ELSE FlowSendWindowSize(0)
    BY <2>1, MinOfTwo, Zenon
  <2> QED
    BY <2>1, <2>2 DEF SendWindowSize
<1> QED
  BY <1>1, <1>3, <1>4, Zenon

\* maybeAdjustWindowIncrement does not lower an increment that is within its limit.
LEMMA DoubledRises ==
    ASSUME NEW i \in Ids, NEW inc \in Nat, inc <= MaxReceiveWindowIncrement[i]
    PROVE  /\ Doubled(i, inc) \in Nat /\ inc <= Doubled(i, inc)
           /\ Doubled(i, inc) <= MaxReceiveWindowIncrement[i]
<1>1. 2 * inc \in Int /\ MaxReceiveWindowIncrement[i] \in Nat
  BY FlowControlAssumption
<1> QED
  BY <1>1, MinOfTwo DEF Doubled

\* MaybeUpdateWindow: a stream's increment only grows, up to its limit.
LEMMA StreamIncrementRises ==
    ASSUME FInv, NEW s \in Streams, NEW fast
    PROVE  /\ StreamIncrement(s, fast) \in Nat
           /\ receiveWindowIncrement[s] <= StreamIncrement(s, fast)
           /\ StreamIncrement(s, fast) <= MaxReceiveWindowIncrement[s]
<1>1. /\ s \in Ids /\ receiveWindowIncrement[s] \in Nat
      /\ receiveWindowIncrement[s] <= MaxReceiveWindowIncrement[s]
  BY Zenon DEF Ids, FInv, FlowTypeOK, WindowsOK
<1> QED
  BY <1>1, DoubledRises DEF StreamIncrement

\* The same for the connection, whose increment may be raised for a stream first.
LEMMA ConnectionIncrementRises ==
    ASSUME FInv, NEW force, NEW fast
    PROVE  /\ EnsuredIncrement(force, fast) \in Nat
           /\ ConnectionIncrement(force, fast) \in Nat
           /\ receiveWindowIncrement[0] <= EnsuredIncrement(force, fast)
           /\ EnsuredIncrement(force, fast) <= ConnectionIncrement(force, fast)
           /\ ConnectionIncrement(force, fast) <= MaxReceiveWindowIncrement[0]
<1>1. /\ 0 \in Ids /\ receiveWindowIncrement[0] \in Nat
      /\ receiveWindowIncrement[0] <= MaxReceiveWindowIncrement[0]
      /\ MaxReceiveWindowIncrement[0] \in Nat
  BY FlowControlAssumption, Zenon DEF Ids, FInv, FlowTypeOK, WindowsOK
<1> DEFINE f == [s \in Streams |-> (3 * StreamIncrement(s, fast)) \div 2]
           S == {(3 * n) \div 2 : n \in NewIncrements(force, fast)} \cup {0}
<1>2. f \in [Streams -> Nat]
  BY StreamIncrementRises
<1>3. PICK b \in Nat : \A s \in Streams : f[s] <= b
  <2> HIDE DEF f
  <2> QED
    BY <1>2, FlowControlAssumption, FiniteBounded, Zenon
<1>4. \A x \in S : x = 0 \/ \E s \in Streams : x = f[s]
  BY Zenon DEF NewIncrements
<1> HIDE DEF f
<1>5. S \in SUBSET Nat /\ S # {} /\ \A x \in S : x <= b
  <2>1. 0 \in S
    BY Zenon
  <2> HIDE DEF S
  <2> QED
    BY <1>2, <1>3, <1>4, <2>1
<1> HIDE DEF S
<1>6. Max(S) \in Nat
  BY <1>5, MaxOfBounded, Zenon
<1>7. EnsuredIncrement(force, fast) =
        IF Max(S) > receiveWindowIncrement[0]
          THEN Min({Max(S), MaxReceiveWindowIncrement[0]})
          ELSE receiveWindowIncrement[0]
  BY Zenon DEF EnsuredIncrement, S
<1>8. Min({Max(S), MaxReceiveWindowIncrement[0]}) =
        IF Max(S) <= MaxReceiveWindowIncrement[0]
          THEN Max(S) ELSE MaxReceiveWindowIncrement[0]
  BY <1>1, <1>6, MinOfTwo
<1>9. /\ EnsuredIncrement(force, fast) \in Nat
      /\ receiveWindowIncrement[0] <= EnsuredIncrement(force, fast)
      /\ EnsuredIncrement(force, fast) <= MaxReceiveWindowIncrement[0]
  BY <1>1, <1>6, <1>7, <1>8
<1> QED
  BY <1>1, <1>9, DoubledRises DEF ConnectionIncrement

\* A window that is moved is moved up: the test is made with an increment that
\* is at most the one that is added.
LEMMA WindowRises ==
    ASSUME FInv, NEW i \in Ids, NEW base \in Nat, NEW inc \in Nat, base <= inc,
           Necessary(i, base)
    PROVE  receiveWindow[i] <= bytesRead[i] + inc /\ bytesRead[i] + inc \in Nat
<1>1. receiveWindow[i] \in Nat /\ bytesRead[i] \in Nat
  BY Zenon DEF FInv, FlowTypeOK
<1>2. receiveWindow[i] - bytesRead[i] < base \div 2 /\ base \div 2 <= base
  BY DEF Necessary
<1>3. base \div 2 \in Nat
  OBVIOUS
<1> QED
  BY <1>1, <1>2, <1>3
-----------------------------------------------------------------------------
(* The steps.                                                              *)

LEMMA InitFInv == FlowInit => FInv
<1> SUFFICES ASSUME FlowInit PROVE FInv
  BY Zenon
<1>1. FlowTypeOK
  BY FlowControlAssumption, Zenon DEF FlowInit, FlowTypeOK
<1>2. WindowsOK /\ NetworkOK
  BY FlowControlAssumption DEF FlowInit, WindowsOK, NetworkOK, Ids
<1>3. ASSUME NEW f \in [Ids -> Nat], f = [i \in Ids |-> 0]
      PROVE  TotalOK(f)
  <2>1. \A p \in Counted \X Nat : ~ (p[2] < f[p[1]])
    BY <1>3 DEF Counted, Ids
  <2>2. Bytes(f) = {}
    BY <2>1, Zenon DEF Bytes
  <2> QED
    BY <1>3, <2>2, FS_EmptySet, Zenon DEF TotalOK, Ids
<1> QED
  BY <1>1, <1>2, <1>3, Zenon DEF FlowInit, FInv, FlowTypeOK

LEMMA SendDataKeeps ==
    ASSUME FInv, NEW s \in Streams, NEW n \in Nat, n > 0, SendData(s, n)
    PROVE  FInv'
<1> DEFINE frame == [stream |-> s, start |-> bytesSent[s], end |-> bytesSent[s] + n]
<1>1. /\ ~ WasReset(s) /\ n <= SendWindowSize(s)
      /\ bytesSent' = AddBytes(bytesSent, s, n)
      /\ frames' = frames \cup {frame}
      /\ UNCHANGED <<sendWindow, receiver, updates, resets>>
  BY Zenon DEF SendData
<1>2. /\ bytesSent' \in [Ids -> Nat]
      /\ TotalOK(bytesSent')
      /\ \A t \in Streams : bytesSent'[t] = IF t = s THEN bytesSent[t] + n ELSE bytesSent[t]
      /\ bytesSent'[0] = IF ContributesToConnection(s) THEN bytesSent[0] + n ELSE bytesSent[0]
  <2>1. bytesSent \in [Ids -> Nat] /\ TotalOK(bytesSent)
    BY Zenon DEF FInv, FlowTypeOK
  <2> QED
    BY <1>1, <2>1, TotalKept, Zenon
<1>3. /\ bytesSent[s] + n <= receiveWindow[s]
      /\ ContributesToConnection(s) => bytesSent[0] + n <= receiveWindow[0]
  BY <1>1, SendWithinWindow, Zenon
<1>4. \A t \in Streams : bytesSent[t] \in Nat
  BY Zenon DEF FInv, FlowTypeOK, Ids
<1>5. FlowTypeOK'
  <2>1. frame \in [stream : Streams, start : Nat, end : Nat]
    <3>1. bytesSent[s] \in Nat /\ bytesSent[s] + n \in Nat
      BY <1>4
    <3> QED
      BY <3>1, Zenon
  <2> QED
    BY <1>1, <1>2, <2>1, Zenon DEF FInv, FlowTypeOK, receiver
<1>6. WindowsOK'
  <2>1. \A i \in Ids : bytesSent'[i] <= receiveWindow[i]
    BY <1>2, <1>3, Zenon DEF FInv, WindowsOK, Ids
  <2> QED
    BY <1>1, <2>1, Zenon DEF FInv, WindowsOK, receiver
<1>7. NetworkOK'
  <2>1. \A t \in Streams : bytesSent[t] <= bytesSent'[t]
    BY <1>2, <1>4
  <2>2. ASSUME NEW f \in frames'
        PROVE  f.end <= bytesSent'[f.stream]
    <3>1. CASE f \in frames
      <4>1. f.stream \in Streams /\ f.end \in Nat /\ f.end <= bytesSent[f.stream]
        BY <3>1, Zenon DEF FInv, FlowTypeOK, NetworkOK
      <4>2. bytesSent'[f.stream] \in Nat
        BY <1>2, <4>1, Zenon DEF Ids
      <4> QED
        BY <1>4, <2>1, <4>1, <4>2
    <3>2. CASE f = frame
      BY <1>2, <1>4, <3>2
    <3> QED
      BY <1>1, <3>1, <3>2, Zenon
  <2>3. ASSUME NEW r \in resets
        PROVE  r.offset = bytesSent'[r.stream]
    <3>1. r.stream \in Streams /\ r.stream # s /\ r.offset = bytesSent[r.stream]
      BY <1>1, Zenon DEF WasReset, FInv, FlowTypeOK, NetworkOK
    <3> QED
      BY <1>2, <3>1, Zenon
  <2>4. ASSUME NEW t \in Streams
        PROVE  highestReceived[t] <= bytesSent'[t]
    <3>1. highestReceived[t] <= bytesSent[t] /\ highestReceived[t] \in Nat
      BY Zenon DEF FInv, FlowTypeOK, NetworkOK, Ids
    <3>2. bytesSent'[t] \in Nat
      BY <1>2, Zenon DEF Ids
    <3> QED
      BY <1>4, <2>1, <3>1, <3>2
  <2> QED
    BY <1>1, <2>2, <2>3, <2>4, Zenon DEF NetworkOK, receiver
<1> QED
  BY <1>1, <1>2, <1>5, <1>6, <1>7, Zenon DEF FInv, receiver, TotalOK

\* Of two offsets.
LEMMA Difference ==
    ASSUME NEW a \in Nat, NEW b \in Nat
    PROVE  a - b \in Int /\ 0 \in Int
OBVIOUS

\* Data and resets only raise the highest offset of their stream, up to an offset
\* that was sent.
LEMMA ReceivedKeeps ==
    ASSUME FInv, NEW s \in Streams, NEW offset \in Nat, offset <= bytesSent[s],
           UpdateHighestReceived(s, offset),
           UNCHANGED <<sender, bytesRead, receiveWindow, receiveWindowIncrement,
                       frames, updates, resets>>
    PROVE  FInv'
<1> DEFINE n == Max({offset - highestReceived[s], 0})
<1>1. highestReceived[s] \in Nat /\ bytesSent[s] \in Nat
  BY Zenon DEF FInv, FlowTypeOK, Ids
<1>2. n = IF offset - highestReceived[s] >= 0 THEN offset - highestReceived[s] ELSE 0
  <2> HIDE DEF n
  <2>1. offset - highestReceived[s] \in Int /\ 0 \in Int
    BY <1>1, Difference, Zenon
  <2> QED
    BY <2>1, MaxOfTwo, Zenon DEF n
<1>3. n \in Nat /\ highestReceived[s] + n <= bytesSent[s]
  <2>1. highestReceived[s] <= bytesSent[s]
    BY Zenon DEF FInv, NetworkOK
  <2> HIDE DEF n
  <2> QED
    BY <1>1, <1>2, <2>1
<1>4. highestReceived' = AddBytes(highestReceived, s, n)
  BY Zenon DEF UpdateHighestReceived
<1> HIDE DEF n
<1>5. /\ highestReceived' \in [Ids -> Nat]
      /\ TotalOK(highestReceived')
      /\ \A t \in Streams : highestReceived'[t] = IF t = s THEN highestReceived[t] + n
                                                           ELSE highestReceived[t]
  <2>1. highestReceived \in [Ids -> Nat] /\ TotalOK(highestReceived)
    BY Zenon DEF FInv, FlowTypeOK
  <2> QED
    BY <1>3, <1>4, <2>1, TotalKept
<1>6. \A t \in Streams : highestReceived'[t] <= bytesSent[t]
  BY <1>3, <1>5, Zenon DEF FInv, NetworkOK
<1> QED
  BY <1>5, <1>6, Zenon DEF FInv, FlowTypeOK, WindowsOK, NetworkOK, TotalOK, sender

LEMMA GetWindowUpdatesKeeps ==
    ASSUME FInv, NEW force \in BOOLEAN, NEW fast, GetWindowUpdates(force, fast)
    PROVE  FInv'
<1> DEFINE increment == [i \in Ids |-> IF i = 0 THEN ConnectionIncrement(force, fast)
                                                ELSE StreamIncrement(i, fast)]
           base(i) == IF i = 0 THEN EnsuredIncrement(force, fast)
                               ELSE receiveWindowIncrement[i]
           necessary == {i \in Ids : Necessary(i, base(i))}
           window == [i \in Ids |-> IF i \in necessary THEN bytesRead[i] + increment[i]
                                                       ELSE receiveWindow[i]]
<1>1. /\ receiveWindowIncrement' = increment
      /\ receiveWindow' = window
      /\ updates' = updates \cup {[id |-> i, offset |-> window[i]] :
                                     i \in IF force THEN Ids ELSE necessary}
      /\ UNCHANGED <<sender, bytesRead, highestReceived, frames, resets>>
  BY Zenon DEF GetWindowUpdates
<1>2. ASSUME NEW i \in Ids
      PROVE  /\ increment[i] \in Nat /\ base(i) \in Nat /\ base(i) <= increment[i]
             /\ increment[i] <= MaxReceiveWindowIncrement[i]
  <2>1. CASE i = 0
    BY <2>1, ConnectionIncrementRises, Zenon
  <2>2. CASE i # 0
    <3>1. i \in Streams /\ receiveWindowIncrement[i] \in Nat
      BY <2>2, Zenon DEF Ids, FInv, FlowTypeOK
    <3> QED
      BY <2>2, <3>1, StreamIncrementRises, Zenon
  <2> QED
    BY <2>1, <2>2, Zenon
<1> HIDE DEF increment, base
<1>3. ASSUME NEW i \in Ids
      PROVE  window[i] \in Nat /\ receiveWindow[i] <= window[i]
  <2>1. CASE i \in necessary
    <3>1. Necessary(i, base(i))
      BY <2>1, Zenon
    <3>2. window[i] = bytesRead[i] + increment[i]
      BY <2>1, Zenon
    <3> QED
      BY <1>2, <3>1, <3>2, WindowRises, Zenon
  <2>2. CASE i \notin necessary
    <3>1. window[i] = receiveWindow[i] /\ receiveWindow[i] \in Nat
      BY <2>2, Zenon DEF FInv, FlowTypeOK
    <3> QED
      BY <3>1
  <2> QED
    BY <2>1, <2>2, Zenon
<1>4. increment \in [Ids -> Nat] /\ window \in [Ids -> Nat]
  BY <1>2, <1>3, Zenon DEF increment
<1>5. necessary \subseteq Ids
  BY Zenon
<1> HIDE DEF window, necessary
<1>6. \A u \in updates' : u \in updates \/ \E i \in Ids : u = [id |-> i, offset |-> window[i]]
  BY <1>1, <1>5, Zenon
<1>7. FlowTypeOK'
  <2>1. updates' \subseteq [id : Ids, offset : Nat]
    BY <1>4, <1>6 DEF FInv, FlowTypeOK
  <2> QED
    BY <1>1, <1>4, <2>1, Zenon DEF FInv, FlowTypeOK, sender
<1>8. WindowsOK'
  <2>1. ASSUME NEW i \in Ids
        PROVE  /\ ReceiveWindow[i] <= window[i]
               /\ sendWindow[i] <= window[i]
               /\ bytesSent[i] <= window[i]
    <3>1. /\ ReceiveWindow[i] \in Nat /\ sendWindow[i] \in Nat /\ bytesSent[i] \in Nat
          /\ receiveWindow[i] \in Nat
      BY FlowControlAssumption, Zenon DEF FInv, FlowTypeOK
    <3> QED
      BY <1>3, <3>1 DEF FInv, WindowsOK
  <2>2. ASSUME NEW u \in updates'
        PROVE  u.offset <= window[u.id]
    <3>1. CASE u \in updates
      <4>1. /\ u.id \in Ids /\ u.offset \in Nat /\ u.offset <= receiveWindow[u.id]
            /\ receiveWindow[u.id] \in Nat
        BY <3>1, Zenon DEF FInv, FlowTypeOK, WindowsOK
      <4> QED
        BY <1>3, <4>1
    <3>2. ASSUME NEW i \in Ids, u = [id |-> i, offset |-> window[i]]
          PROVE  u.offset <= window[u.id]
      BY <1>3, <3>2
    <3> QED
      BY <1>6, <3>1, <3>2, Zenon
  <2> QED
    BY <1>1, <1>2, <2>1, <2>2, Zenon DEF WindowsOK, sender
<1> QED
  BY <1>1, <1>7, <1>8, Zenon DEF FInv, NetworkOK, TotalOK, sender

LEMMA StepFInv == FInv /\ [FlowNext]_flowVars => FInv'
<1> SUFFICES ASSUME FInv, [FlowNext]_flowVars
             PROVE  FInv'
  BY Zenon
<1>1. CASE UNCHANGED flowVars
  BY <1>1, Zenon DEF flowVars, sender, receiver, FInv, FlowTypeOK, WindowsOK, NetworkOK, TotalOK
<1>2. ASSUME NEW s \in Streams, NEW n \in 1 .. Length[s], SendData(s, n)
      PROVE  FInv'
  <2>1. n \in Nat /\ n > 0
    BY FlowControlAssumption
  <2> QED
    BY <1>2, <2>1, SendDataKeeps, Zenon
<1>3. ASSUME NEW s \in Streams, SendReset(s)
      PROVE  FInv'
  <2>1. /\ resets' = resets \cup {[stream |-> s, offset |-> bytesSent[s]]}
        /\ UNCHANGED <<bytesSent, sendWindow, bytesRead, highestReceived, receiveWindow,
                       receiveWindowIncrement, frames, updates>>
    BY <1>3, Zenon DEF SendReset, sender, receiver
  <2>2. bytesSent[s] \in Nat
    BY Zenon DEF FInv, FlowTypeOK, Ids
  <2> DEFINE x == [stream |-> s, offset |-> bytesSent[s]]
  <2>3. x \in [stream : Streams, offset : Nat] /\ x.offset = bytesSent[x.stream]
    BY <2>2, Zenon
  <2> HIDE DEF x
  <2>4. resets' = resets \cup {x}
    BY <2>1, Zenon DEF x
  <2>5. resets' \subseteq [stream : Streams, offset : Nat]
    BY <2>3, <2>4, Zenon DEF FInv, FlowTypeOK
  <2>6. \A r \in resets' : r.offset = bytesSent[r.stream]
    BY <2>3, <2>4, Zenon DEF FInv, NetworkOK
  <2> QED
    BY <2>1, <2>5, <2>6, Zenon DEF FInv, FlowTypeOK, WindowsOK, NetworkOK, TotalOK
<1>4. ASSUME NEW s \in Streams, ReadByte(s)
      PROVE  FInv'
  <2>1. bytesRead' \in [Ids -> Nat]
    <3>1. bytesRead' = AddBytes(bytesRead, s, 1) /\ bytesRead \in [Ids -> Nat]
      BY <1>4, Zenon DEF ReadByte, FInv, FlowTypeOK
    <3> QED
      BY <3>1, AddType, Zenon
  <2> QED
    BY <1>4, <2>1, Zenon DEF ReadByte, sender, FInv, FlowTypeOK, WindowsOK, NetworkOK, TotalOK
<1>5. ASSUME NEW u \in updates, UpdateWindow(u)
      PROVE  FInv'
  <2>1. u.id \in Ids /\ u.offset \in Nat /\ u.offset <= receiveWindow[u.id]
    <3>1. u \in [id : Ids, offset : Nat]
      BY Zenon DEF FInv, FlowTypeOK
    <3>2. u.offset <= receiveWindow[u.id]
      BY Zenon DEF FInv, WindowsOK
    <3> QED
      BY <3>1, <3>2, Zenon
  <2>2. /\ sendWindow' = [sendWindow EXCEPT ![u.id] = u.offset]
        /\ UNCHANGED <<bytesSent, receiver, frames, updates, resets>>
    BY <1>5, Zenon DEF UpdateWindow
  <2>3. /\ sendWindow' \in [Ids -> Nat]
        /\ \A i \in Ids : sendWindow'[i] <= receiveWindow[i]
    BY <2>1, <2>2, Zenon DEF FInv, FlowTypeOK, WindowsOK
  <2> QED
    BY <2>2, <2>3, Zenon DEF receiver, FInv, FlowTypeOK, WindowsOK, NetworkOK, TotalOK
<1>6. ASSUME NEW f \in frames, ReceiveData(f)
      PROVE  FInv'
  <2>1. f.stream \in Streams /\ f.end \in Nat /\ f.end <= bytesSent[f.stream]
    BY Zenon DEF FInv, FlowTypeOK, NetworkOK
  <2> QED
    BY <1>6, <2>1, ReceivedKeeps, Zenon DEF ReceiveData
<1>7. ASSUME NEW r \in resets, ReceiveReset(r)
      PROVE  FInv'
  <2>1. r.stream \in Streams /\ r.offset \in Nat /\ r.offset <= bytesSent[r.stream]
    BY DEF FInv, FlowTypeOK, NetworkOK
  <2> QED
    BY <1>7, <2>1, ReceivedKeeps, Zenon DEF ReceiveReset
<1>8. ASSUME NEW force \in BOOLEAN, NEW fast \in SUBSET Ids, GetWindowUpdates(force, fast)
      PROVE  FInv'
  BY <1>8, GetWindowUpdatesKeeps, Zenon
<1> QED
  BY <1>1, <1>2, <1>3, <1>4, <1>5, <1>6, <1>7, <1>8, Zenon DEF FlowNext

-----------------------------------------------------------------------------

\* In every behaviour a sender that respects its windows is never accused of a
\* violation by CheckFlowControlViolation, on a stream or on the connection, nor of
\* a reset below what it sent, however data, resets and updates are delayed,
\* repeated or reordered.
THEOREM HonestPeerIsAccepted == FlowSpec => []HonestPeerAccepted
<1>1. ASSUME FInv
      PROVE  HonestPeerAccepted
  <2>1. ASSUME NEW i \in Ids
        PROVE  ~ CheckFlowControlViolation(i)
    <3>1. /\ highestReceived[i] \in Nat /\ bytesSent[i] \in Nat /\ receiveWindow[i] \in Nat
          /\ bytesSent[i] <= receiveWindow[i]
      BY <1>1, Zenon DEF FInv, FlowTypeOK, WindowsOK
    <3>2. highestReceived[i] <= bytesSent[i]
      BY <1>1, TotalsOrdered, Zenon DEF FInv, NetworkOK, Ids
    <3> QED
      BY <3>1, <3>2 DEF CheckFlowControlViolation
  <2>2. ASSUME NEW r \in resets
        PROVE  r.offset >= highestReceived[r.stream]
    <3>1. /\ r.stream \in Streams /\ r.offset = bytesSent[r.stream]
          /\ highestReceived[r.stream] <= bytesSent[r.stream]
          /\ highestReceived[r.stream] \in Nat /\ bytesSent[r.stream] \in Nat
      BY <1>1, Zenon DEF FInv, FlowTypeOK, NetworkOK, Ids
    <3> QED
      BY <3>1, Zenon
  <2> QED
    BY <2>1, <2>2, Zenon DEF HonestPeerAccepted
<1> QED
  BY <1>1, InitFInv, StepFInv, PTL DEF FlowSpec

-----------------------------------------------------------------------------
(* The paths of a session.                                                 *)

PathFields == {"at", "open", "closeChan", "runClosed", "sentPacket"}

\* A path that has stopped or was told to.
Told(path) == path.at \in {"exiting", "stopped"} \/ path.closeChan

PathOK(path) ==
    /\ DOMAIN path = PathFields
    /\ path.at \in {"select", "timer", "exiting", "stopped"}
    /\ path.open \in BOOLEAN /\ path.closeChan \in BOOLEAN
    /\ path.runClosed \in BOOLEAN
    /\ ~ path.open => path.at = "stopped"
    /\ path.runClosed => path.at = "stopped"

CreateLabels == {"create", "pairs", "locking", "pinging"}

\* The shape of the state; a server creates no paths on its own.
ShapeOK ==
    /\ DOMAIN pth = paths
    /\ \A p \in paths : PathOK(pth[p])
    /\ DOMAIN at = Actor
    /\ perspective = "server" => \A a \in Actor : at[a] \notin CreateLabels

\* Once the session closes, only a path manager that has begun and not stopped
\* may have paths that were not told to stop.
ToldOK ==
    Closing /\ at.pathManager \in {"start", "stopped"} => \A p \in paths : Told(pth[p])

\* A server waits for the paths one by one.
AwaitedOK ==
    perspective = "server" =>
        /\ at.session = "wait" => \A p \in paths \ ranging : pth[p].at = "stopped"
        /\ at.session = "done" => \A p \in paths : pth[p].at = "stopped"

SInv == ShapeOK /\ ToldOK /\ AwaitedOK
-----------------------------------------------------------------------------

\* No path is added, and what was told to stop or has stopped stays so.
PathsKept ==
    /\ paths' = paths
    /\ DOMAIN pth' = paths
    /\ \A p \in paths : /\ PathOK(pth'[p])
                        /\ Told(pth[p]) => Told(pth'[p])
                        /\ pth[p].at = "stopped" => pth'[p].at = "stopped"

LEMMA InitSInv == Init => SInv
<1> SUFFICES ASSUME Init PROVE SInv
  BY Zenon
<1>1. PathOK(NewPath)
  BY Zenon DEF NewPath, PathOK, PathFields
<1>2. ShapeOK
  BY <1>1 DEF Init, ShapeOK, Actor, CreateLabels
<1>3. ToldOK /\ AwaitedOK
  BY Zenon DEF Init, ToldOK, AwaitedOK, Closing
<1> QED
  BY <1>2, <1>3, Zenon DEF SInv

\* One path is replaced.
LEMMA OnePathKept ==
    ASSUME ShapeOK, paths' = paths, NEW p, NEW x, pth' = [pth EXCEPT ![p] = x],
           p \in paths => /\ PathOK(x)
                          /\ Told(pth[p]) => Told(x)
                          /\ pth[p].at = "stopped" => x.at = "stopped"
    PROVE  PathsKept
<1>1. /\ DOMAIN pth' = paths
      /\ \A q \in paths : pth'[q] = IF q = p THEN x ELSE pth[q]
  BY Zenon DEF ShapeOK
<1> QED
  BY <1>1, Zenon DEF ShapeOK, PathsKept

LEMMA SamePathsKept ==
    ASSUME ShapeOK, UNCHANGED <<paths, pth>>
    PROVE  PathsKept
BY Zenon DEF ShapeOK, PathsKept

\* The paths of P are told to stop.
LEMMA SignalledKept ==
    ASSUME ShapeOK, paths' = paths, NEW P, pth' = Signalled(P)
    PROVE  PathsKept /\ \A p \in paths : p \in P => Told(pth'[p])
<1> DEFINE x(p) == [pth[p] EXCEPT !.closeChan = @ \/ p \in P]
<1>1. DOMAIN pth' = paths /\ \A p \in paths : pth'[p] = x(p)
  BY Zenon DEF Signalled
<1>2. ASSUME NEW p \in paths
      PROVE  /\ DOMAIN x(p) = PathFields
             /\ x(p).at = pth[p].at /\ x(p).open = pth[p].open
             /\ x(p).runClosed = pth[p].runClosed
             /\ x(p).closeChan = (pth[p].closeChan \/ p \in P)
  BY Zenon DEF ShapeOK, PathOK, PathFields
<1> HIDE DEF x
<1>3. ASSUME NEW p \in paths
      PROVE  PathOK(x(p)) /\ (Told(pth[p]) => Told(x(p))) /\ (p \in P => Told(x(p)))
  <2>1. PathOK(pth[p])
    BY Zenon DEF ShapeOK
  <2> QED
    BY <1>2, <2>1, Zenon DEF PathOK, Told
<1>4. \A p \in paths : pth[p].at = "stopped" => x(p).at = "stopped"
  BY <1>2, Zenon
<1> QED
  BY <1>1, <1>3, <1>4, Zenon DEF PathsKept

\* A path that is not open has stopped.
LEMMA OpenSignalled ==
    ASSUME ShapeOK, paths' = paths, pth' = Signalled(Open)
    PROVE  PathsKept /\ \A p \in paths : Told(pth'[p])
<1>1. PathsKept /\ \A p \in paths : p \in Open => Told(pth'[p])
  BY SignalledKept, Zenon
<1>2. \A p \in paths : p \notin Open => Told(pth[p])
  BY Zenon DEF Open, ShapeOK, PathOK, Told
<1> QED
  BY <1>1, <1>2, Zenon DEF PathsKept

-----------------------------------------------------------------------------

\* The steps that neither begin nor go on with the closing of the paths.
LEMMA StepKept ==
    ASSUME SInv, PathsKept, perspective' = perspective, ranging' = ranging,
           DOMAIN at' = Actor,
           perspective = "server" => \A a \in Actor : at'[a] \notin CreateLabels,
           Closing' => Closing,
           at'.session \in {"wait", "done"} => at'.session = at.session,
           at'.pathManager \in {"start", "stopped"} =>
              at.pathManager \in {"start", "stopped"}
    PROVE  SInv'
<1>1. ShapeOK'
  BY Zenon DEF SInv, ShapeOK, PathsKept
<1>2. ToldOK'
  BY Zenon DEF SInv, ToldOK, PathsKept
<1>3. AwaitedOK'
  BY Zenon DEF SInv, AwaitedOK, PathsKept
<1> QED
  BY <1>1, <1>2, <1>3, Zenon DEF SInv

\* The same, when only goroutine a moves on.
LEMMA MoveKept ==
    ASSUME SInv, PathsKept, perspective' = perspective, ranging' = ranging,
           NEW a \in Actor, NEW label, Goto(a, label),
           label \notin {"wait", "done", "stopped", "start"},
           label \in CreateLabels => perspective # "server",
           a = "session" /\ label \in {"close", "range"} => Closing
    PROVE  SInv'
<1>1. DOMAIN at = Actor
  BY Zenon DEF SInv, ShapeOK
<1>2. /\ DOMAIN at' = Actor
      /\ \A b \in Actor : at'[b] = IF b = a THEN label ELSE at[b]
  BY <1>1, Zenon DEF Goto
<1>3. "session" \in Actor /\ "pathManager" \in Actor
  BY Zenon DEF Actor
<1>4. perspective = "server" => \A b \in Actor : at'[b] \notin CreateLabels
  BY <1>2, Zenon DEF SInv, ShapeOK
<1>5. Closing' => Closing
  BY <1>2, <1>3, Zenon DEF Closing
<1>6. /\ at'.session \in {"wait", "done"} => at'.session = at.session
      /\ at'.pathManager \in {"start", "stopped"} =>
            at.pathManager \in {"start", "stopped"}
  BY <1>2, <1>3, Zenon
<1> QED
  BY <1>2, <1>4, <1>5, <1>6, StepKept, Zenon

-----------------------------------------------------------------------------
(* The run loop of a path.                                                 *)

\* A path whose fields but these two stay the same.
LEMMA PathMoved ==
    ASSUME NEW y, PathOK(y), NEW l \in {"select", "timer", "exiting"}, NEW b \in BOOLEAN,
           y.at # "stopped"
    PROVE  LET x == [y EXCEPT !.closeChan = b, !.at = l]
           IN  PathOK(x) /\ x.at = l /\ x.closeChan = b
<1> DEFINE x == [y EXCEPT !.closeChan = b, !.at = l]
<1>1. /\ DOMAIN x = PathFields /\ x.at = l /\ x.closeChan = b
      /\ x.open = y.open /\ x.runClosed = y.runClosed
  BY Zenon DEF PathOK, PathFields
<1> HIDE DEF x
<1>2. y.open = TRUE /\ y.runClosed = FALSE
  BY Zenon DEF PathOK
<1>3. PathOK(x) /\ x.at = l /\ x.closeChan = b
  BY <1>1, <1>2, Zenon DEF PathOK
<1> QED
  BY <1>3, Zenon DEF x

LEMMA NextTurnKeeps ==
    ASSUME NEW y, PathOK(y), y.at # "stopped"
    PROVE  PathOK(NextTurn(y)) /\ (y.closeChan => Told(NextTurn(y)))
<1>1. CASE y.closeChan
  <2>1. NextTurn(y) = [y EXCEPT !.closeChan = FALSE, !.at = "exiting"]
    BY <1>1, Zenon DEF NextTurn
  <2> DEFINE x == [y EXCEPT !.closeChan = FALSE, !.at = "exiting"]
  <2>2. PathOK(x) /\ x.at = "exiting"
    BY PathMoved, Zenon
  <2> QED
    BY <2>1, <2>2, Zenon DEF Told
<1>2. CASE ~ y.closeChan
  <2> DEFINE x == [y EXCEPT !.at = "select"]
  <2>1. NextTurn(y) = x
    BY <1>2, Zenon DEF NextTurn
  <2>2. /\ DOMAIN x = PathFields /\ x.at = "select" /\ x.closeChan = y.closeChan
        /\ x.open = y.open /\ x.runClosed = y.runClosed
    BY Zenon DEF PathOK, PathFields
  <2>3. y.open = TRUE /\ y.runClosed = FALSE /\ y.closeChan \in BOOLEAN
    BY Zenon DEF PathOK
  <2> HIDE DEF x
  <2>4. PathOK(x)
    BY <2>2, <2>3, Zenon DEF PathOK
  <2> QED
    BY <1>2, <2>1, <2>4, Zenon
<1> QED
  BY <1>1, <1>2, Zenon

LEMMA WokenKeeps ==
    ASSUME NEW y, PathOK(y), NEW b
    PROVE  LET x == [y EXCEPT !.sentPacket = b]
           IN  PathOK(x) /\ x.at = y.at /\ x.closeChan = y.closeChan
<1> DEFINE x == [y EXCEPT !.sentPacket = b]
<1>1. /\ DOMAIN x = PathFields /\ x.at = y.at /\ x.closeChan = y.closeChan
      /\ x.open = y.open /\ x.runClosed = y.runClosed
  BY Zenon DEF PathOK, PathFields
<1> HIDE DEF x
<1>2. PathOK(x) /\ x.at = y.at /\ x.closeChan = y.closeChan
  BY <1>1, Zenon DEF PathOK
<1> QED
  BY <1>2, Zenon DEF x

LEMMA PathRunKeeps ==
    ASSUME SInv, NEW p \in paths, PathRun(p)
    PROVE  SInv'
<1> DEFINE y == pth[p]
<1>1. UNCHANGED <<perspective, paths, at, ranging>>
  BY Zenon DEF PathRun, closing
<1>2. PathOK(y) /\ ShapeOK
  BY Zenon DEF SInv, ShapeOK
<1>3. PICK x : /\ pth' = [pth EXCEPT ![p] = x] /\ PathOK(x)
               /\ Told(y) => Told(x)
               /\ y.at = "stopped" => x.at = "stopped"
  <2>1. CASE RunExits(p)
    <3>1. /\ pth' = [pth EXCEPT ![p] = [y EXCEPT !.closeChan = FALSE, !.at = "exiting"]]
          /\ y.at \in {"select", "timer"}
      BY <2>1, Zenon DEF RunExits
    <3> QED
      BY <1>2, <3>1, PathMoved, Zenon DEF Told
  <2>2. CASE RunTimer(p)
    <3> DEFINE x == [y EXCEPT !.at = "timer"]
    <3>1. pth' = [pth EXCEPT ![p] = x] /\ y.at = "select"
      BY <2>2, Zenon DEF RunTimer
    <3>2. /\ DOMAIN x = PathFields /\ x.at = "timer" /\ x.closeChan = y.closeChan
          /\ x.open = y.open /\ x.runClosed = y.runClosed
      BY <1>2, Zenon DEF PathOK, PathFields
    <3>3. y.open = TRUE /\ y.runClosed = FALSE /\ y.closeChan \in BOOLEAN
      BY <1>2, <3>1, Zenon DEF PathOK
    <3> HIDE DEF x
    <3>4. PathOK(x)
      BY <3>2, <3>3, Zenon DEF PathOK
    <3>5. Told(y) => Told(x)
      BY <3>1, <3>2, Zenon DEF Told
    <3> QED
      BY <3>1, <3>4, <3>5, Zenon
  <2>3. CASE RunSentPacket(p)
    <3> DEFINE z == [y EXCEPT !.sentPacket = FALSE]
    <3>1. pth' = [pth EXCEPT ![p] = NextTurn(z)] /\ y.at \in {"select", "timer"}
      BY <2>3, Zenon DEF RunSentPacket
    <3>2. PathOK(z) /\ z.at = y.at /\ z.closeChan = y.closeChan
      BY <1>2, WokenKeeps, Zenon
    <3> HIDE DEF z
    <3>3. PathOK(NextTurn(z)) /\ (z.closeChan => Told(NextTurn(z)))
      BY <3>1, <3>2, NextTurnKeeps, Zenon
    <3> QED
      BY <3>1, <3>2, <3>3, Zenon DEF Told
  <2>4. CASE RunClosed(p)
    <3> DEFINE x == [y EXCEPT !.at = "stopped", !.open = FALSE, !.runClosed = TRUE]
    <3>1. pth' = [pth EXCEPT ![p] = x]
      BY <2>4, Zenon DEF RunClosed
    <3>2. /\ DOMAIN x = PathFields /\ x.at = "stopped" /\ x.closeChan = y.closeChan
          /\ x.open = FALSE /\ x.runClosed = TRUE
      BY <1>2, Zenon DEF PathOK, PathFields
    <3>3. y.closeChan \in BOOLEAN
      BY <1>2, Zenon DEF PathOK
    <3> HIDE DEF x
    <3>4. PathOK(x) /\ Told(x)
      BY <3>2, <3>3, Zenon DEF PathOK, Told
    <3> QED
      BY <3>1, <3>2, <3>4, Zenon
  <2> QED
    BY <2>1, <2>2, <2>3, <2>4, Zenon DEF PathRun
<1>4. PathsKept
  BY <1>1, <1>2, <1>3, OnePathKept, Zenon
<1>5. /\ DOMAIN at' = Actor
      /\ perspective = "server" => \A a \in Actor : at'[a] \notin CreateLabels
  BY <1>1, <1>2, Zenon DEF ShapeOK
<1>6. Closing' = Closing
  BY <1>1, Zenon DEF Closing
<1> QED
  BY <1>1, <1>4, <1>5, <1>6, StepKept, Zenon

-----------------------------------------------------------------------------
(* createPaths.                                                            *)

\* A new path: the goroutine that adds it is neither closing nor at an end.
LEMMA CreatedKeeps ==
    ASSUME SInv, NEW id, Created(id), perspective' = perspective, ranging' = ranging,
           NEW a \in Actor, NEW label, Goto(a, label),
           label \in {"send", "pinging"},
           label = "pinging" => perspective # "server",
           a = "session" \/ (perspective # "server" /\ a = "pathManager")
    PROVE  SInv'
<1>1. DOMAIN at = Actor /\ "session" \in Actor /\ "pathManager" \in Actor
  BY Zenon DEF SInv, ShapeOK, Actor
<1>2. /\ DOMAIN at' = Actor
      /\ \A b \in Actor : at'[b] = IF b = a THEN label ELSE at[b]
  BY <1>1, Zenon DEF Goto
<1>3. PathOK(NewPath)
  BY Zenon DEF NewPath, PathOK, PathFields
<1>4. /\ DOMAIN pth' = paths'
      /\ \A p \in paths' : pth'[p] = NewPath \/ (p \in paths /\ pth'[p] = pth[p])
  BY Zenon DEF Created
<1>5. ShapeOK'
  BY <1>2, <1>3, <1>4, Zenon DEF SInv, ShapeOK, CreateLabels
<1>6. ToldOK'
  BY <1>1, <1>2, Zenon DEF ToldOK, Closing
<1>7. AwaitedOK'
  BY <1>1, <1>2, Zenon DEF AwaitedOK
<1> QED
  BY <1>5, <1>6, <1>7, Zenon DEF SInv

\* All the paths that are there have been told: a goroutine may begin to close,
\* or the path manager end.
LEMMA AllToldKeeps ==
    ASSUME SInv, PathsKept, \A p \in paths : Told(pth'[p]),
           perspective' = perspective, ranging' = ranging,
           NEW a \in Actor, NEW label, Goto(a, label),
           \/ a = "session" /\ label \in {"close", "range"}
           \/ a = "pathManager" /\ label = "stopped"
    PROVE  SInv'
<1>1. DOMAIN at = Actor /\ "session" \in Actor /\ "pathManager" \in Actor
  BY Zenon DEF SInv, ShapeOK, Actor
<1>2. /\ DOMAIN at' = Actor
      /\ \A b \in Actor : at'[b] = IF b = a THEN label ELSE at[b]
  BY <1>1, Zenon DEF Goto
<1>3. ShapeOK'
  BY <1>2, Zenon DEF SInv, ShapeOK, PathsKept, CreateLabels
<1>4. ToldOK'
  BY Zenon DEF ToldOK, PathsKept
<1>5. AwaitedOK'
  BY <1>1, <1>2, Zenon DEF SInv, AwaitedOK, PathsKept
<1> QED
  BY <1>3, <1>4, <1>5, Zenon DEF SInv

LEMMA CreatePathsKeeps ==
    ASSUME SInv, NEW a \in Actor, createPaths(a), perspective' = perspective
    PROVE  SInv'
<1>1. ShapeOK
  BY Zenon DEF SInv
<1>2. at[a] \in CreateLabels /\ perspective # "server"
  BY <1>1, Zenon DEF createPaths, LockMutex, LockPaths, createPath, Pinged, PingFailed, AllPairs,
     CreateLabels, ShapeOK
<1>3. ranging' = ranging
  BY Zenon DEF createPaths, LockMutex, LockPaths, createPath, Pinged, PingFailed, AllPairs, closing
<1>4. CASE LockMutex(a) \/ LockPaths(a) \/ AllPairs(a)
  <2>1. UNCHANGED <<paths, pth>>
    BY <1>4, Zenon DEF LockMutex, LockPaths, AllPairs, pathVars
  <2>2. PICK label \in {"pairs", "locking", "send", "loop"} : Goto(a, label)
    BY <1>4, Zenon DEF LockMutex, LockPaths, AllPairs
  <2> QED
    BY <1>1, <1>2, <1>3, <2>1, <2>2, SamePathsKept, MoveKept, Zenon
<1>5. CASE createPath(a)
  <2>1. CASE Goto(a, "pairs") /\ UNCHANGED pathVars
    <3>1. UNCHANGED <<paths, pth>>
      BY <2>1, Zenon DEF pathVars
    <3> QED
      BY <1>1, <1>2, <1>3, <2>1, <3>1, SamePathsKept, MoveKept, Zenon
  <2>2. CASE Goto(a, "pinging") /\ Created(nxtPathID)
    <3>1. a = "session" \/ (perspective # "server" /\ a = "pathManager")
      BY <1>2, Zenon DEF Actor
    <3> QED
      BY <1>2, <1>3, <2>2, <3>1, CreatedKeeps, Zenon
  <2> QED
    BY <1>5, <2>1, <2>2, Zenon DEF createPath
<1>6. CASE Pinged(a)
  <2> DEFINE p == nxtPathID - 2
             x == [pth[p] EXCEPT !.sentPacket = TRUE]
  <2>1. pth' = [pth EXCEPT ![p] = x] /\ paths' = paths /\ Goto(a, "pairs")
    BY <1>6, Zenon DEF Pinged
  <2>2. p \in paths => PathOK(pth[p])
    BY <1>1, Zenon DEF ShapeOK
  <2>3. p \in paths => /\ PathOK(x) /\ x.at = pth[p].at
                       /\ x.closeChan = pth[p].closeChan
    BY <2>2, WokenKeeps, Zenon
  <2> HIDE DEF x, p
  <2>4. PathsKept
    BY <1>1, <2>1, <2>3, OnePathKept, Zenon DEF Told
  <2> QED
    BY <1>2, <1>3, <2>1, <2>4, MoveKept, Zenon
<1>7. CASE PingFailed(a)
  <2>1. paths' = paths
    BY <1>7, Zenon DEF PingFailed
  <2>2. CASE UNCHANGED pth /\ \E label \in {"top", "loop"} : Goto(a, label)
    BY <1>1, <1>2, <1>3, <2>1, <2>2, SamePathsKept, MoveKept, Zenon
  <2>3. CASE a = "pathManager" /\ Goto(a, "stopped") /\ pth' = Signalled(Open)
    BY <1>1, <1>3, <2>1, <2>3, OpenSignalled, AllToldKeeps, Zenon
  <2> QED
    BY <1>7, <2>2, <2>3, Zenon DEF PingFailed, Actor
<1> QED
  BY <1>4, <1>5, <1>6, <1>7, Zenon DEF createPaths

-----------------------------------------------------------------------------
(* The other goroutines.                                                   *)

LEMMA PathManagerKeeps ==
    ASSUME SInv, PathManager, perspective' = perspective
    PROVE  SInv'
<1>1. ShapeOK /\ "pathManager" \in Actor
  BY Zenon DEF SInv, Actor
<1>2. CASE PathManagerStops
  <2>1. paths' = paths /\ ranging' = ranging /\ Goto("pathManager", "stopped")
    BY <1>2, Zenon DEF PathManagerStops, closing
  <2>2. CASE at.pathManager = "start" /\ UNCHANGED pth
    <3>1. PathsKept
      BY <1>1, <2>1, <2>2, SamePathsKept, Zenon
    <3>2. /\ DOMAIN at' = Actor /\ at'.pathManager = "stopped"
          /\ at'.session = at.session
          /\ \A a \in Actor : at'[a] = at[a] \/ at'[a] = "stopped"
      BY <1>1, <2>1, Zenon DEF Goto, ShapeOK, Actor
    <3>3. perspective = "server" => \A a \in Actor : at'[a] \notin CreateLabels
      BY <1>1, <3>2, Zenon DEF ShapeOK, CreateLabels
    <3>4. Closing' = Closing
      BY <3>2, Zenon DEF Closing
    <3> QED
      BY <2>1, <2>2, <3>1, <3>2, <3>3, <3>4, StepKept, Zenon
  <2>3. CASE pth' = Signalled(Open)
    BY <1>1, <2>1, <2>3, OpenSignalled, AllToldKeeps, Zenon
  <2> QED
    BY <1>2, <2>2, <2>3, Zenon DEF PathManagerStops, FinalClosePaths
<1>3. CASE PathManagerCreates
  <2>1. UNCHANGED <<paths, pth, ranging>>
    BY <1>3, Zenon DEF PathManagerCreates, pathVars, closing
  <2>2. \/ Goto("pathManager", "create") /\ perspective # "server"
        \/ Goto("pathManager", "loop")
    BY <1>3, Zenon DEF PathManagerCreates
  <2>3. PathsKept
    BY <1>1, <2>1, SamePathsKept, Zenon
  <2>4. CASE Goto("pathManager", "create") /\ perspective # "server"
    BY <1>1, <2>1, <2>3, <2>4, MoveKept, Zenon
  <2>5. CASE Goto("pathManager", "loop")
    BY <1>1, <2>1, <2>3, <2>5, MoveKept, Zenon DEF CreateLabels
  <2> QED
    BY <2>2, <2>4, <2>5, Zenon
<1> QED
  BY <1>1, <1>2, <1>3, CreatePathsKeeps, Zenon DEF PathManager

\* Nothing changes that the invariant is about.
LEMMA UntouchedKeeps ==
    ASSUME SInv, UNCHANGED <<perspective, paths, pth, at, ranging>>
    PROVE  SInv'
BY Zenon DEF SInv, ShapeOK, ToldOK, AwaitedOK, Closing

\* The steps of the session that tell no path to stop.
LEMMA SessionMoves ==
    ASSUME SInv, perspective' = perspective,
           \/ SelectEvent \/ SelectHandshake \/ ReceiveClose \/ ReceiveAddAddress
           \/ AckRemainingPaths \/ EndOfTurn
           \/ \E p \in paths : ReceiveClosePath(p) \/ SelectPath(p)
    PROVE  SInv'
<1>1. ShapeOK /\ "session" \in Actor
  BY Zenon DEF SInv, Actor
<1>2. UNCHANGED <<paths, pth, ranging>>
  BY Zenon DEF SelectEvent, SelectHandshake, ReceiveClose, ReceiveAddAddress, AckRemainingPaths,
     EndOfTurn, ReceiveClosePath, SelectPath, pathVars, closing
<1>3. PathsKept
  BY <1>1, <1>2, SamePathsKept, Zenon
<1>4. CASE ReceiveAddAddress
  <2>1. Goto("session", "create") /\ perspective # "server"
    BY <1>4, Zenon DEF ReceiveAddAddress
  <2> QED
    BY <1>1, <1>2, <1>3, <2>1, MoveKept, Zenon
<1>5. CASE ~ ReceiveAddAddress
  <2>1. PICK label \in {"send", "top", "acking", "closePath", "packing"} :
          Goto("session", label)
    BY <1>5, Zenon DEF SelectEvent, SelectHandshake, ReceiveClose, AckRemainingPaths, EndOfTurn,
       ReceiveClosePath, SelectPath
  <2> QED
    BY <1>1, <1>2, <1>3, <2>1, MoveKept, Zenon DEF CreateLabels
<1> QED
  BY <1>4, <1>5, Zenon

\* The steps that wake one path or tell it to stop.
LEMMA SessionWakes ==
    ASSUME SInv, perspective' = perspective,
           \/ ClosePath \/ SendPackedPacket
           \/ \E p \in paths : SelectPathTimer(p) \/ SendAck(p)
    PROVE  SInv'
<1>1. ShapeOK /\ "session" \in Actor
  BY Zenon DEF SInv, Actor
<1>2. paths' = paths /\ ranging' = ranging
  BY Zenon DEF ClosePath, SendPackedPacket, SelectPathTimer, SendAck, closing
<1>3. PathsKept
  <2>1. ASSUME NEW p, pth' = [pth EXCEPT ![p].sentPacket = TRUE]
        PROVE  PathsKept
    <3> DEFINE x == [pth[p] EXCEPT !.sentPacket = TRUE]
    <3>1. pth' = [pth EXCEPT ![p] = x]
      BY <2>1, Zenon
    <3>2. p \in paths => PathOK(pth[p])
      BY <1>1, Zenon DEF ShapeOK
    <3>3. p \in paths => /\ PathOK(x) /\ x.at = pth[p].at
                         /\ x.closeChan = pth[p].closeChan
      BY <3>2, WokenKeeps, Zenon
    <3> HIDE DEF x
    <3> QED
      BY <1>1, <1>2, <3>1, <3>3, OnePathKept, Zenon DEF Told
  <2>2. CASE ClosePath
    <3> DEFINE p == target
               b == pth[p].closeChan \/ pth[p].open
               x == [pth[p] EXCEPT !.closeChan = b]
    <3>1. pth' = [pth EXCEPT ![p] = x]
      BY <2>2, Zenon DEF ClosePath
    <3>2. p \in paths => PathOK(pth[p])
      BY <1>1, Zenon DEF ShapeOK
    <3>3. ASSUME p \in paths
          PROVE  /\ PathOK(x) /\ x.at = pth[p].at
                 /\ Told(pth[p]) => Told(x)
      <4>1. /\ DOMAIN x = PathFields /\ x.at = pth[p].at /\ x.closeChan = b
            /\ x.open = pth[p].open /\ x.runClosed = pth[p].runClosed
        BY <3>2, <3>3, Zenon DEF PathOK, PathFields
      <4>2. b \in BOOLEAN /\ (pth[p].closeChan => b)
        BY Zenon
      <4> HIDE DEF x, b
      <4> QED
        BY <3>2, <3>3, <4>1, <4>2, Zenon DEF PathOK, Told
    <3> HIDE DEF x
    <3> QED
      BY <1>1, <1>2, <3>1, <3>3, OnePathKept, Zenon
  <2>3. ASSUME NEW p \in paths, SelectPathTimer(p)
        PROVE  PathsKept
    <3>1. pth' = [pth EXCEPT ![p] = NextTurn(pth[p])] /\ pth[p].at = "timer"
      BY <2>3, Zenon DEF SelectPathTimer
    <3>2. PathOK(pth[p])
      BY <1>1, Zenon DEF ShapeOK
    <3>3. /\ PathOK(NextTurn(pth[p]))
          /\ pth[p].closeChan => Told(NextTurn(pth[p]))
      BY <3>1, <3>2, NextTurnKeeps, Zenon
    <3>4. Told(pth[p]) => pth[p].closeChan
      BY <3>1, Zenon DEF Told
    <3> QED
      BY <1>1, <1>2, <3>1, <3>3, <3>4, OnePathKept, Zenon
  <2>4. CASE SendPackedPacket \/ \E p \in paths : SendAck(p)
    BY <2>1, <2>4, Zenon DEF SendPackedPacket, SendAck
  <2> QED
    BY <2>2, <2>3, <2>4, Zenon
<1>4. CASE at' = at
  <2>1. Closing' = Closing
    BY <1>4, Zenon DEF Closing
  <2> QED
    BY <1>1, <1>2, <1>3, <1>4, <2>1, StepKept, Zenon DEF ShapeOK
<1>5. CASE Goto("session", "send")
  BY <1>1, <1>2, <1>3, <1>5, MoveKept, Zenon DEF CreateLabels
<1> QED
  BY <1>4, <1>5, Zenon DEF ClosePath, SendPackedPacket, SelectPathTimer, SendAck

\* The session closes: every path that is there is told to stop.
LEMMA SessionCloses ==
    ASSUME SInv, perspective' = perspective, Top \/ SelectClose \/ ClosePaths
    PROVE  SInv'
<1>1. ShapeOK /\ "session" \in Actor
  BY Zenon DEF SInv, Actor
<1>2. paths' = paths /\ ranging' = ranging
  BY Zenon DEF Top, SelectClose, ClosePaths, closing
<1>3. CASE Goto("session", "select") /\ UNCHANGED pth
  BY <1>1, <1>2, <1>3, SamePathsKept, MoveKept, Zenon DEF CreateLabels
<1>4. CASE Goto("session", "close") /\ pth' = Signalled(paths)
  <2>1. PathsKept /\ \A p \in paths : Told(pth'[p])
    BY <1>1, <1>2, <1>4, SignalledKept, Zenon
  <2> QED
    BY <1>1, <1>2, <1>4, <2>1, AllToldKeeps, Zenon
<1>5. CASE (Goto("session", "close") \/ Goto("session", "range")) /\ pth' = Signalled(Open)
  <2>1. PathsKept /\ \A p \in paths : Told(pth'[p])
    BY <1>1, <1>2, <1>5, OpenSignalled, Zenon
  <2> QED
    BY <1>1, <1>2, <1>5, <2>1, AllToldKeeps, Zenon
<1> QED
  BY <1>3, <1>4, <1>5, Zenon DEF Top, SelectClose, ClosePaths

\* The session ends: it has waited for every path, unless the client tries
\* another version.
LEMMA SessionEnds ==
    ASSUME SInv, perspective' = perspective,
           \/ CloseForNewVersion \/ RangePaths \/ Done
           \/ \E p \in paths : AwaitPath(p)
    PROVE  SInv'
<1>1. /\ ShapeOK /\ "session" \in Actor /\ "pathManager" \in Actor
      /\ DOMAIN at = Actor
  BY Zenon DEF SInv, ShapeOK, Actor
<1>2. PathsKept
  <2>1. ASSUME NEW p \in paths, AwaitPath(p)
        PROVE  PathsKept
    <3> DEFINE x == [pth[p] EXCEPT !.runClosed = FALSE]
    <3>1. pth' = [pth EXCEPT ![p] = x] /\ paths' = paths
      BY <2>1, Zenon DEF AwaitPath, Awaited
    <3>2. PathOK(pth[p])
      BY <1>1, Zenon DEF ShapeOK
    <3>3. /\ DOMAIN x = PathFields /\ x.at = pth[p].at /\ x.closeChan = pth[p].closeChan
          /\ x.open = pth[p].open /\ x.runClosed = FALSE
      BY <3>2, Zenon DEF PathOK, PathFields
    <3> HIDE DEF x
    <3>4. PathOK(x) /\ (Told(pth[p]) => Told(x))
      BY <3>2, <3>3, Zenon DEF PathOK, Told
    <3> QED
      BY <1>1, <3>1, <3>3, <3>4, OnePathKept, Zenon
  <2>2. CASE CloseForNewVersion \/ RangePaths \/ Done
    <3>1. UNCHANGED <<paths, pth>>
      BY <2>2, Zenon DEF CloseForNewVersion, RangePaths, Done, pathVars
    <3> QED
      BY <1>1, <3>1, SamePathsKept, Zenon
  <2> QED
    BY <2>1, <2>2, Zenon
<1>3. /\ DOMAIN at' = Actor
      /\ \A b \in Actor : at'[b] = at[b] \/ at'[b] \in {"wait", "done"}
      /\ at'.pathManager = at.pathManager
      /\ Closing
  BY <1>1, Zenon DEF CloseForNewVersion, RangePaths, Done, AwaitPath, Goto, Closing
<1>4. ShapeOK'
  BY <1>1, <1>2, <1>3, Zenon DEF ShapeOK, PathsKept, CreateLabels
<1>5. ToldOK'
  BY <1>2, <1>3, Zenon DEF SInv, ToldOK, PathsKept
<1>6. AwaitedOK'
  <2> SUFFICES ASSUME perspective = "server" PROVE AwaitedOK'
    BY Zenon DEF AwaitedOK
  <2>1. CASE RangePaths
    <3>1. ranging' = paths' /\ at'.session = "wait"
      BY <1>1, <2>1, Zenon DEF RangePaths, Goto, pathVars
    <3> QED
      BY <3>1, Zenon DEF AwaitedOK
  <2>2. CASE Done
    <3>1. at.session = "wait" /\ ranging = {} /\ at'.session = "done"
      BY <1>1, <2>2, Zenon DEF Done, Goto
    <3> QED
      BY <1>2, <3>1, Zenon DEF SInv, AwaitedOK, PathsKept
  <2>3. ASSUME NEW p \in paths, AwaitPath(p)
        PROVE  AwaitedOK'
    <3>1. /\ at.session = "wait" /\ at' = at /\ ranging' = ranging \ {p}
          /\ pth[p].runClosed
      BY <2>3, Zenon DEF AwaitPath, Awaited
    <3>2. pth[p].at = "stopped"
      BY <1>1, <3>1, Zenon DEF ShapeOK, PathOK
    <3> QED
      BY <1>2, <3>1, <3>2, Zenon DEF SInv, AwaitedOK, PathsKept
  <2> QED
    BY <2>1, <2>2, <2>3, Zenon DEF CloseForNewVersion
<1> QED
  BY <1>4, <1>5, <1>6, Zenon DEF SInv

LEMMA SessionKeeps ==
    ASSUME SInv, Session, perspective' = perspective
    PROVE  SInv'
<1>1. "session" \in Actor
  BY Zenon DEF Actor
<1>2. ASSUME NEW id, ReceiveNewPath(id)
      PROVE  SInv'
  <2>1. Created(id) /\ Goto("session", "send") /\ ranging' = ranging
    BY <1>2, Zenon DEF ReceiveNewPath, closing
  <2> QED
    BY <1>1, <2>1, CreatedKeeps, Zenon
<1> QED
  BY <1>1, <1>2, SessionCloses, SessionEnds, SessionMoves, SessionWakes, CreatePathsKeeps, Zenon
     DEF Session

LEMMA NextKeepsSInv ==
    ASSUME SInv, [Next]_vars
    PROVE  SInv'
<1>1. CASE Session /\ UNCHANGED perspective
  BY <1>1, SessionKeeps, Zenon
<1>2. CASE PathManager /\ UNCHANGED perspective
  BY <1>2, PathManagerKeeps, Zenon
<1>3. CASE (PconnManager \/ CallClose) /\ UNCHANGED perspective
  <2>1. UNCHANGED <<perspective, paths, pth, at, ranging>>
    BY <1>3, Zenon DEF PconnManager, CallClose, pathVars, closing
  <2> QED
    BY <2>1, UntouchedKeeps, Zenon
<1>4. CASE \E p \in paths : PathRun(p)
  BY <1>4, PathRunKeeps, Zenon
<1>5. CASE UNCHANGED vars
  <2>1. UNCHANGED <<perspective, paths, pth, at, ranging>>
    BY <1>5, Zenon DEF vars, pathVars, closing
  <2> QED
    BY <2>1, UntouchedKeeps, Zenon
<1> QED
  BY <1>1, <1>2, <1>3, <1>4, <1>5, Zenon DEF Next

\* closePaths of session.go and of path_manager.go between them tell every path
\* to stop, whatever the other goroutines do meanwhile, and the session of a
\* server ends after the last goroutine of a path.
THEOREM PathsAlwaysStop == Spec => []PathsStopped
<1>1. SInv => PathsStopped
  BY Zenon DEF SInv, ToldOK, AwaitedOK, PathsStopped, Closing, Told
<1>2. SInv /\ [Next]_vars => SInv'
  BY NextKeepsSInv, Zenon
<1> QED
  BY <1>1, <1>2, InitSInv, PTL DEF Spec

=============================================================================
