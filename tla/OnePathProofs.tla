--------------------------- MODULE OnePathProofs ---------------------------
(***************************************************************************)
(* A path, for every number of packets and of ranges and every length of   *)
(* the numbers on the wire: the list of intervals implements the set of    *)
(* received numbers, and the receiver infers the packet number that the    *)
(* sender truncated.                                                       *)
(***************************************************************************)
EXTENDS OnePath, FiniteSetTheorems, WellFoundedInduction, TLAPS

\* A nonempty set of naturals has a least element.
LEMMA LeastNatural ==
    ASSUME NEW S \in SUBSET Nat, S # {}
    PROVE  \E m \in S : \A x \in S : m <= x
<1>1. PICK m \in S : \A y \in S : ~(<<y, m>> \in OpToRel(<, Nat))
  BY NatLessThanWellFounded, WFMin, Zenon
<1>2. ASSUME NEW x \in S
      PROVE  m <= x
  <2>1. m \in Nat /\ x \in Nat
    BY Zenon
  <2>2. ~(x < m)
    BY <1>1, <2>1, Zenon DEF OpToRel
  <2> QED
    BY <2>1, <2>2
<1> QED
  BY <1>2, Zenon

\* A nonempty set of naturals with an upper bound has a largest element, which
\* is its Max.
LEMMA MaxOfBounded ==
    ASSUME NEW S \in SUBSET Nat, S # {}, NEW b \in Nat, \A x \in S : x <= b
    PROVE  Max(S) \in S /\ \A x \in S : x <= Max(S)
<1> DEFINE T == {b - x : x \in S}
<1>1. T \in SUBSET Nat /\ T # {}
  <2>1. \A x \in S : b - x \in Nat
    OBVIOUS
  <2> QED
    BY <2>1, Zenon
<1>2. PICK m \in T : \A y \in T : m <= y
  <2> HIDE DEF T
  <2> QED
    BY <1>1, LeastNatural, Zenon
<1>3. PICK x \in S : m = b - x
  BY Zenon
<1>4. \A y \in S : x >= y
  BY <1>2, <1>3
<1>5. \E z \in S : \A y \in S : z >= y
  BY <1>4, Zenon
<1> QED
  BY <1>5, Zenon DEF Max

\* The larger of two integers.
LEMMA MaxOfTwo ==
    ASSUME NEW a \in Int, NEW b \in Int
    PROVE  Max({a, b}) = IF a >= b THEN a ELSE b
<1>1. CASE a >= b
  <2>1. \A x \in {a, b} : (\A y \in {a, b} : x >= y) <=> x = a
    BY <1>1
  <2> QED
    BY <1>1, <2>1 DEF Max
<1>2. CASE a < b
  <2>1. \A x \in {a, b} : (\A y \in {a, b} : x >= y) <=> x = b
    BY <1>2
  <2> QED
    BY <1>2, <2>1 DEF Max
<1> QED
  BY <1>1, <1>2

\* A bound passed on.
LEMMA LessThrough ==
    ASSUME NEW a \in Nat, NEW b \in Nat, NEW c \in Nat, a + 1 < b, b <= c
    PROVE  a + 1 < c
OBVIOUS

\* The elements of a list.
LEMMA Elements ==
    ASSUME NEW S, NEW s \in Seq(S)
    PROVE  /\ Len(s) \in Nat /\ DOMAIN s = 1 .. Len(s)
           /\ \A j \in 1 .. Len(s) : s[j] \in S
OBVIOUS

\* A list with one element replaced.
LEMMA Replaced ==
    ASSUME NEW S, NEW s \in Seq(S), NEW i \in 1 .. Len(s), NEW e \in S
    PROVE  LET t == [s EXCEPT ![i] = e]
           IN  /\ t \in Seq(S) /\ Len(t) = Len(s)
               /\ \A j \in 1 .. Len(s) : t[j] = IF j = i THEN e ELSE s[j]
OBVIOUS

\* The concatenation of two lists.
LEMMA Joined ==
    ASSUME NEW S, NEW a \in Seq(S), NEW b \in Seq(S)
    PROVE  /\ a \o b \in Seq(S) /\ Len(a \o b) = Len(a) + Len(b)
           /\ \A j \in 1 .. Len(a) + Len(b) :
                 (a \o b)[j] = IF j <= Len(a) THEN a[j] ELSE b[j - Len(a)]
OBVIOUS

\* The list with an element inserted, or removed.
LEMMA InsertedAt ==
    ASSUME NEW S, NEW s \in Seq(S), NEW e \in S, NEW i \in 1 .. Len(s) + 1
    PROVE  /\ InsertAt(s, i, e) \in Seq(S)
           /\ Len(InsertAt(s, i, e)) = Len(s) + 1
           /\ \A j \in 1 .. Len(s) + 1 :
                 InsertAt(s, i, e)[j] =
                     IF j < i THEN s[j] ELSE IF j = i THEN e ELSE s[j - 1]
<1> DEFINE a == SubSeq(s, 1, i - 1)
           b == SubSeq(s, i, Len(s))
<1>1. /\ a \in Seq(S) /\ Len(a) = i - 1
      /\ \A j \in 1 .. i - 1 : a[j] = s[j]
  <2>1. \A j \in 1 .. i - 1 : s[j] \in S
    BY Elements
  <2>2. 1 \in Int /\ i - 1 \in Int
    OBVIOUS
  <2> QED
    BY <2>1, <2>2
<1>2. /\ b \in Seq(S) /\ Len(b) = Len(s) + 1 - i
      /\ \A j \in 1 .. Len(s) + 1 - i : b[j] = s[i + j - 1]
  <2>1. \A j \in i .. Len(s) : s[j] \in S
    BY Elements
  <2>2. i \in Int /\ Len(s) \in Int
    OBVIOUS
  <2> QED
    BY <2>1, <2>2
<1>3. /\ <<e>> \in Seq(S) /\ Len(<<e>>) = 1 /\ <<e>>[1] = e
  OBVIOUS
<1> DEFINE c == a \o <<e>>
<1>4. /\ c \in Seq(S) /\ Len(c) = i
      /\ \A j \in 1 .. i : c[j] = IF j < i THEN s[j] ELSE e
  <2> HIDE DEF a, b
  <2>1. /\ c \in Seq(S) /\ Len(c) = Len(a) + 1
        /\ \A j \in 1 .. Len(a) + 1 : c[j] = IF j <= Len(a) THEN a[j] ELSE <<e>>[j - Len(a)]
    BY <1>1, <1>3
  <2> HIDE DEF c
  <2> QED
    BY <1>1, <1>3, <2>1
<1>5. InsertAt(s, i, e) = c \o b
  BY Zenon DEF InsertAt
<1> HIDE DEF a, b, c
<1>6. /\ c \o b \in Seq(S) /\ Len(c \o b) = Len(c) + Len(b)
      /\ \A j \in 1 .. Len(c) + Len(b) :
            (c \o b)[j] = IF j <= Len(c) THEN c[j] ELSE b[j - Len(c)]
  BY <1>2, <1>4, Joined, Zenon
<1> DEFINE d == c \o b
<1> HIDE DEF d
<1> QED
  BY <1>2, <1>4, <1>5, <1>6 DEF d

LEMMA RemovedAt ==
    ASSUME NEW S, NEW s \in Seq(S), NEW i \in 1 .. Len(s)
    PROVE  /\ RemoveAt(s, i) \in Seq(S)
           /\ Len(RemoveAt(s, i)) = Len(s) - 1
           /\ \A j \in 1 .. Len(s) - 1 :
                 RemoveAt(s, i)[j] = IF j < i THEN s[j] ELSE s[j + 1]
<1> DEFINE a == SubSeq(s, 1, i - 1)
           b == SubSeq(s, i + 1, Len(s))
<1>1. /\ a \in Seq(S) /\ Len(a) = i - 1
      /\ \A j \in 1 .. i - 1 : a[j] = s[j]
  <2>1. \A j \in 1 .. i - 1 : s[j] \in S
    BY Elements
  <2>2. 1 \in Int /\ i - 1 \in Int
    OBVIOUS
  <2> QED
    BY <2>1, <2>2
<1>2. /\ b \in Seq(S) /\ Len(b) = Len(s) - i
      /\ \A j \in 1 .. Len(s) - i : b[j] = s[i + j]
  <2>1. \A j \in i + 1 .. Len(s) : s[j] \in S
    BY Elements
  <2>2. i + 1 \in Int /\ Len(s) \in Int
    OBVIOUS
  <2> QED
    BY <2>1, <2>2
<1>3. RemoveAt(s, i) = a \o b
  BY Zenon DEF RemoveAt
<1> HIDE DEF a, b
<1>4. /\ a \o b \in Seq(S) /\ Len(a \o b) = Len(a) + Len(b)
      /\ \A j \in 1 .. Len(a) + Len(b) :
            (a \o b)[j] = IF j <= Len(a) THEN a[j] ELSE b[j - Len(a)]
  BY <1>1, <1>2, Joined, Zenon
<1> DEFINE c == a \o b
<1> HIDE DEF c
<1>5. Len(c) = Len(s) - 1 /\ Len(a) + Len(b) = Len(s) - 1
  BY <1>1, <1>2, <1>4 DEF c
<1>6. ASSUME NEW j \in 1 .. Len(s) - 1
      PROVE  c[j] = IF j < i THEN s[j] ELSE s[j + 1]
  <2>1. c[j] = IF j <= Len(a) THEN a[j] ELSE b[j - Len(a)]
    BY <1>4, <1>5, Zenon DEF c
  <2>2. CASE j < i
    <3>1. j <= Len(a) /\ j \in 1 .. i - 1
      BY <1>1, <2>2
    <3> QED
      BY <1>1, <2>1, <2>2, <3>1, Zenon
  <2>3. CASE ~ (j < i)
    <3>1. ~ (j <= Len(a)) /\ j - Len(a) \in 1 .. Len(s) - i /\ i + (j - Len(a)) = j + 1
      BY <1>1, <2>3
    <3>2. b[j - Len(a)] = s[i + (j - Len(a))]
      BY <1>2, <3>1, Zenon
    <3>3. b[j - Len(a)] = s[j + 1]
      BY <3>1, <3>2, Zenon
    <3> QED
      BY <2>1, <2>3, <3>1, <3>3, Zenon
  <2> QED
    BY <2>2, <2>3, Zenon
<1>7. RemoveAt(s, i) = c /\ c \in Seq(S)
  BY <1>3, <1>4, Zenon DEF c
<1> QED
  BY <1>5, <1>6, <1>7, Zenon

\* Intervals in order, with at least one number between two of them.
Ordered(rs) ==
    /\ rs \in Seq(Interval)
    /\ \A i \in 1 .. Len(rs) : 1 <= rs[i].Start /\ rs[i].Start <= rs[i].End
    /\ \A i, j \in 1 .. Len(rs) : i < j => rs[i].End + 1 < rs[j].Start

\* What is used of a list of intervals.
LEMMA OrderedIntervals ==
    ASSUME NEW rs, Ordered(rs)
    PROVE  /\ Len(rs) \in Nat
           /\ DOMAIN rs = 1 .. Len(rs)
           /\ \A i \in 1 .. Len(rs) : /\ rs[i] \in Interval
                                      /\ rs[i].Start \in Nat
                                      /\ rs[i].End \in Nat
<1>1. rs \in Seq(Interval)
  BY Zenon DEF Ordered
<1>2. \A i \in 1 .. Len(rs) : rs[i] \in Interval
  BY <1>1, Elements, Zenon
<1>3. \A r \in Interval : r.Start \in Nat /\ r.End \in Nat
  BY Zenon DEF Interval
<1> QED
  BY <1>1, <1>2, <1>3, Elements, Zenon

\* A number is covered when it lies in an interval.
LEMMA CoveredNumbers ==
    ASSUME NEW rs, Ordered(rs), NEW x
    PROVE  x \in Covered(rs)
           <=> x \in Nat /\ \E i \in 1 .. Len(rs) : rs[i].Start <= x /\ x <= rs[i].End
<1>1. DOMAIN rs = 1 .. Len(rs) /\ \A i \in 1 .. Len(rs) : rs[i].Start \in Nat /\ rs[i].End \in Nat
  BY OrderedIntervals, Zenon
<1>2. x \in Covered(rs) <=> \E i \in 1 .. Len(rs) : x \in rs[i].Start .. rs[i].End
  BY <1>1, Zenon DEF Covered
<1>3. ASSUME NEW i \in 1 .. Len(rs)
      PROVE  x \in rs[i].Start .. rs[i].End
             <=> x \in Nat /\ rs[i].Start <= x /\ x <= rs[i].End
  BY <1>1
<1> QED
  BY <1>2, <1>3, Zenon

\* The interval at which the loop of ReceivedPacket stops.
LEMMA LastStop ==
    ASSUME NEW rs, Ordered(rs), NEW p \in Nat,
           {i \in DOMAIN rs : StopsAt(rs[i], p)} # {}
    PROVE  LET i == Max({i \in DOMAIN rs : StopsAt(rs[i], p)})
           IN  /\ i \in 1 .. Len(rs)
               /\ StopsAt(rs[i], p)
               /\ \A j \in 1 .. Len(rs) : i < j => ~ StopsAt(rs[j], p)
<1> DEFINE T == {i \in DOMAIN rs : StopsAt(rs[i], p)}
<1>1. DOMAIN rs = 1 .. Len(rs) /\ Len(rs) \in Nat
  BY DEF Ordered
<1>2. T \in SUBSET Nat /\ T # {} /\ \A x \in T : x <= Len(rs)
  BY <1>1
<1>3. Max(T) \in T /\ \A x \in T : x <= Max(T)
  <2> HIDE DEF T
  <2> QED
    BY <1>1, <1>2, MaxOfBounded, Zenon
<1>4. Max(T) = Max(T)
  BY Zenon DEF Max, Max
<1> DEFINE i == Max(T)
<1>5. i \in 1 .. Len(rs) /\ StopsAt(rs[i], p)
  BY <1>1, <1>3, Zenon
<1>6. \A j \in 1 .. Len(rs) : i < j => ~ StopsAt(rs[j], p)
  <2> SUFFICES ASSUME NEW j \in 1 .. Len(rs), i < j, StopsAt(rs[j], p) PROVE FALSE
    BY Zenon
  <2>1. j \in T
    BY <1>1, Zenon
  <2>2. j <= i
    BY <1>3, <2>1, Zenon
  <2> HIDE DEF i
  <2> QED
    BY <1>5, <2>2
<1> QED
  BY <1>4, <1>5, <1>6, Zenon

\* The list t holds the numbers of rs and p.
Adds(t, rs, p) ==
    \A x \in Nat : (\E k \in 1 .. Len(t) : t[k].Start <= x /\ x <= t[k].End)
                   <=> x = p \/ \E k \in 1 .. Len(rs) : rs[k].Start <= x /\ x <= rs[k].End

LEMMA CoveredAdds ==
    ASSUME NEW rs, Ordered(rs), NEW t, Ordered(t), NEW p \in Nat, Adds(t, rs, p)
    PROVE  Covered(t) = Covered(rs) \cup {p}
<1> SUFFICES ASSUME NEW x PROVE x \in Covered(t) <=> x \in Covered(rs) \/ x = p
  BY Zenon
<1>1. x \in Covered(t)
      <=> x \in Nat /\ \E k \in 1 .. Len(t) : t[k].Start <= x /\ x <= t[k].End
  BY CoveredNumbers, Zenon
<1>2. x \in Covered(rs)
      <=> x \in Nat /\ \E k \in 1 .. Len(rs) : rs[k].Start <= x /\ x <= rs[k].End
  BY CoveredNumbers, Zenon
<1> QED
  BY <1>1, <1>2, Zenon DEF Adds

\* A new interval between two others, or at an end of the list.
LEMMA InsertAdds ==
    ASSUME NEW rs, Ordered(rs), NEW p \in Nat \ {0}, NEW i \in 0 .. Len(rs),
           \A k \in 1 .. Len(rs) : k <= i => rs[k].End + 1 < p,
           \A k \in 1 .. Len(rs) : i < k => p + 1 < rs[k].Start,
           NEW t, t = InsertAt(rs, i + 1, [Start |-> p, End |-> p])
    PROVE  Ordered(t) /\ Adds(t, rs, p)
<1> DEFINE new == [Start |-> p, End |-> p]
           n == Len(rs)
<1>1. /\ rs \in Seq(Interval) /\ n \in Nat
      /\ \A k \in 1 .. n : /\ rs[k].Start \in Nat /\ rs[k].End \in Nat
                           /\ 1 <= rs[k].Start /\ rs[k].Start <= rs[k].End
      /\ \A k, j \in 1 .. n : k < j => rs[k].End + 1 < rs[j].Start
  BY OrderedIntervals, Zenon DEF Ordered
<1>2. new \in Interval /\ new.Start = p /\ new.End = p
  BY Zenon DEF Interval
<1>3. /\ t \in Seq(Interval) /\ Len(t) = n + 1
      /\ \A k \in 1 .. n + 1 :
            t[k] = IF k < i + 1 THEN rs[k] ELSE IF k = i + 1 THEN new ELSE rs[k - 1]
  <2>1. i + 1 \in 1 .. n + 1
    BY <1>1
  <2>2. t = InsertAt(rs, i + 1, new)
    BY Zenon
  <2> HIDE DEF new
  <2>3. LET u == InsertAt(rs, i + 1, new)
        IN  /\ u \in Seq(Interval) /\ Len(u) = Len(rs) + 1
            /\ \A k \in 1 .. Len(rs) + 1 :
                  u[k] = IF k < i + 1 THEN rs[k] ELSE IF k = i + 1 THEN new ELSE rs[k - 1]
    BY <1>1, <1>2, <2>1, InsertedAt
  <2> QED
    BY <2>2, <2>3
<1> HIDE DEF new
<1>4. Ordered(t)
  <2>1. \A k \in 1 .. n + 1 :
           /\ t[k].Start = IF k < i + 1 THEN rs[k].Start
                           ELSE IF k = i + 1 THEN p ELSE rs[k - 1].Start
           /\ t[k].End = IF k < i + 1 THEN rs[k].End
                         ELSE IF k = i + 1 THEN p ELSE rs[k - 1].End
    BY <1>2, <1>3, Zenon
  <2>2. \A k \in 1 .. n + 1 : /\ k < i + 1 => k \in 1 .. n /\ k <= i
                              /\ k > i + 1 => k - 1 \in 1 .. n /\ i < k - 1
    BY <1>1
  <2>3. ASSUME NEW k \in 1 .. n + 1 PROVE 1 <= t[k].Start /\ t[k].Start <= t[k].End
    <3>1. \/ t[k].Start = p /\ t[k].End = p
          \/ k \in 1 .. n /\ t[k].Start = rs[k].Start /\ t[k].End = rs[k].End
          \/ k - 1 \in 1 .. n /\ t[k].Start = rs[k - 1].Start /\ t[k].End = rs[k - 1].End
      BY <2>1, <2>2
    <3> QED
      BY <1>1, <3>1
  <2>4. ASSUME NEW k \in 1 .. n + 1, NEW j \in 1 .. n + 1, k < j
        PROVE  t[k].End + 1 < t[j].Start
    <3>1. CASE j < i + 1
      BY <1>1, <2>1, <2>2, <2>4, <3>1
    <3>2. CASE j = i + 1
      BY <1>1, <2>1, <2>2, <2>4, <3>2, Zenon
    <3>3. CASE j > i + 1 /\ k < i + 1
      <4>1. /\ k \in 1 .. n /\ j - 1 \in 1 .. n /\ k < j - 1
            /\ t[k].End = rs[k].End /\ t[j].Start = rs[j - 1].Start
        BY <1>1, <2>1, <2>2, <3>3
      <4> QED
        BY <1>1, <4>1, Zenon
    <3>4. CASE j > i + 1 /\ k = i + 1
      <4>1. /\ j - 1 \in 1 .. n /\ i < j - 1
            /\ t[k].End = p /\ t[j].Start = rs[j - 1].Start
        BY <1>1, <2>1, <2>2, <3>4
      <4> QED
        BY <1>1, <4>1, Zenon
    <3>5. CASE k > i + 1
      <4>1. /\ k - 1 \in 1 .. n /\ j - 1 \in 1 .. n /\ k - 1 < j - 1
            /\ t[k].End = rs[k - 1].End /\ t[j].Start = rs[j - 1].Start
        BY <1>1, <2>1, <2>2, <2>4, <3>5
      <4> QED
        BY <1>1, <4>1, Zenon
    <3> QED
      BY <1>1, <3>1, <3>2, <3>3, <3>4, <3>5
  <2> QED
    BY <1>3, <2>3, <2>4, Zenon DEF Ordered
<1>5. ASSUME NEW x \in Nat
      PROVE  (\E k \in 1 .. Len(t) : t[k].Start <= x /\ x <= t[k].End)
             <=> x = p \/ \E k \in 1 .. n : rs[k].Start <= x /\ x <= rs[k].End
  <2>1. ASSUME NEW k \in 1 .. n, rs[k].Start <= x, x <= rs[k].End
        PROVE  \E m \in 1 .. Len(t) : t[m].Start <= x /\ x <= t[m].End
    <3>1. CASE k < i + 1
      <4>1. k \in 1 .. Len(t) /\ t[k] = rs[k]
        BY <1>1, <1>3, <3>1
      <4> QED
        BY <2>1, <4>1, Zenon
    <3>2. CASE ~ (k < i + 1)
      <4>1. k + 1 \in 1 .. Len(t) /\ t[k + 1] = rs[k]
        BY <1>1, <1>3, <3>2
      <4> QED
        BY <2>1, <4>1, Zenon
    <3> QED
      BY <3>1, <3>2, Zenon
  <2>2. ASSUME x = p
        PROVE  \E m \in 1 .. Len(t) : t[m].Start <= x /\ x <= t[m].End
    <3>1. i + 1 \in 1 .. Len(t) /\ t[i + 1] = new
      BY <1>1, <1>3
    <3> QED
      BY <1>2, <2>2, <3>1
  <2>3. ASSUME NEW k \in 1 .. Len(t), t[k].Start <= x, x <= t[k].End
        PROVE  x = p \/ \E m \in 1 .. n : rs[m].Start <= x /\ x <= rs[m].End
    <3>1. \/ k \in 1 .. n /\ t[k] = rs[k]
          \/ t[k] = new
          \/ k - 1 \in 1 .. n /\ t[k] = rs[k - 1]
      BY <1>1, <1>3
    <3>2. CASE t[k] = new
      BY <1>2, <2>3, <3>2
    <3> QED
      BY <2>3, <3>1, <3>2, Zenon
  <2> QED
    BY <2>1, <2>2, <2>3, Zenon
<1> QED
  BY <1>4, <1>5, Zenon DEF Adds

\* An interval extended by the number after its end or before its start, that
\* does not reach its neighbours.
LEMMA ExtendAdds ==
    ASSUME NEW rs, Ordered(rs), NEW p \in Nat \ {0}, NEW i \in 1 .. Len(rs),
           NEW e \in Interval, e.Start <= e.End, 1 <= e.Start,
           \A k \in 1 .. Len(rs) : k < i => rs[k].End + 1 < e.Start,
           \A k \in 1 .. Len(rs) : i < k => e.End + 1 < rs[k].Start,
           \A x \in Nat : e.Start <= x /\ x <= e.End
                          <=> x = p \/ (rs[i].Start <= x /\ x <= rs[i].End),
           NEW t, t = [rs EXCEPT ![i] = e]
    PROVE  Ordered(t) /\ Adds(t, rs, p)
<1> DEFINE n == Len(rs)
<1>1. /\ rs \in Seq(Interval) /\ n \in Nat
      /\ \A k \in 1 .. n : /\ rs[k].Start \in Nat /\ rs[k].End \in Nat
                           /\ 1 <= rs[k].Start /\ rs[k].Start <= rs[k].End
      /\ \A k, j \in 1 .. n : k < j => rs[k].End + 1 < rs[j].Start
  BY OrderedIntervals, Zenon DEF Ordered
<1>2. /\ t \in Seq(Interval) /\ Len(t) = n
      /\ \A k \in 1 .. n : t[k] = IF k = i THEN e ELSE rs[k]
  BY <1>1, Replaced
<1>3. e.Start \in Nat /\ e.End \in Nat
  BY Zenon DEF Interval
<1>4. Ordered(t)
  <2>1. \A k \in 1 .. n : /\ t[k].Start = IF k = i THEN e.Start ELSE rs[k].Start
                          /\ t[k].End = IF k = i THEN e.End ELSE rs[k].End
    BY <1>2
  <2>2. \A k \in 1 .. n : 1 <= t[k].Start /\ t[k].Start <= t[k].End
    BY <1>1, <1>3, <2>1, Zenon
  <2>3. \A k, j \in 1 .. n : k < j => t[k].End + 1 < t[j].Start
    BY <1>1, <1>3, <2>1
  <2> QED
    BY <1>2, <2>2, <2>3, Zenon DEF Ordered
<1>5. ASSUME NEW x \in Nat
      PROVE  (\E k \in 1 .. n : t[k].Start <= x /\ x <= t[k].End)
             <=> x = p \/ \E k \in 1 .. n : rs[k].Start <= x /\ x <= rs[k].End
  <2>1. t[i] = e /\ \A k \in 1 .. n : k # i => t[k] = rs[k]
    BY <1>2, Zenon
  <2>2. e.Start <= x /\ x <= e.End <=> x = p \/ (rs[i].Start <= x /\ x <= rs[i].End)
    BY Zenon
  <2> QED
    BY <2>1, <2>2, Zenon
<1> QED
  BY <1>2, <1>4, <1>5, Zenon DEF Adds

\* Two intervals that have become adjacent, merged into one.
MergedAt(rs, i) ==
    [RemoveAt(rs, i) EXCEPT ![i - 1] = [Start |-> rs[i - 1].Start, End |-> rs[i].End]]

LEMMA MergeAdds ==
    ASSUME NEW rs, Ordered(rs), NEW p \in Nat \ {0}, NEW i \in 2 .. Len(rs),
           rs[i - 1].End + 1 = p, rs[i].Start = p + 1,
           NEW t, t = MergedAt(rs, i)
    PROVE  Ordered(t) /\ Adds(t, rs, p)
<1> DEFINE n == Len(rs)
           e == [Start |-> rs[i - 1].Start, End |-> rs[i].End]
           u == RemoveAt(rs, i)
<1>1. /\ rs \in Seq(Interval) /\ n \in Nat
      /\ \A k \in 1 .. n : /\ rs[k].Start \in Nat /\ rs[k].End \in Nat
                           /\ 1 <= rs[k].Start /\ rs[k].Start <= rs[k].End
      /\ \A k, j \in 1 .. n : k < j => rs[k].End + 1 < rs[j].Start
  BY OrderedIntervals, Zenon DEF Ordered
<1>2. i \in 1 .. n /\ i - 1 \in 1 .. n /\ i - 1 \in 1 .. n - 1
  BY <1>1
<1>3. e \in Interval /\ e.Start = rs[i - 1].Start /\ e.End = rs[i].End
  BY <1>1, <1>2, Zenon DEF Interval
<1>4. /\ u \in Seq(Interval) /\ Len(u) = n - 1
      /\ \A k \in 1 .. n - 1 : u[k] = IF k < i THEN rs[k] ELSE rs[k + 1]
  <2>1. rs \in Seq(Interval) /\ i \in 1 .. Len(rs)
    BY <1>1, <1>2, Zenon
  <2> QED
    BY <2>1, RemovedAt, Zenon
<1> HIDE DEF e, u
<1>5. t = [u EXCEPT ![i - 1] = e]
  BY Zenon DEF MergedAt, e, u
<1>6. /\ t \in Seq(Interval) /\ Len(t) = n - 1
      /\ \A k \in 1 .. n - 1 : t[k] = IF k = i - 1 THEN e ELSE u[k]
  <2>1. i - 1 \in 1 .. Len(u)
    BY <1>2, <1>4, Zenon
  <2> DEFINE v == [u EXCEPT ![i - 1] = e]
  <2>2. /\ v \in Seq(Interval)
        /\ Len(v) = Len(u)
        /\ \A k \in 1 .. Len(u) : v[k] = IF k = i - 1 THEN e ELSE u[k]
    BY <1>3, <1>4, <2>1, Replaced
  <2>3. t = v
    BY <1>5, Zenon
  <2>4. Len(u) = n - 1
    BY <1>4, Zenon
  <2> HIDE DEF v
  <2> QED
    BY <2>2, <2>3, <2>4, SMTT(20)
<1>7. \A k \in 1 .. n - 1 :
         /\ t[k].Start = IF k < i THEN rs[k].Start ELSE rs[k + 1].Start
         /\ t[k].End = IF k < i - 1 THEN rs[k].End ELSE rs[k + 1].End
  <2> SUFFICES ASSUME NEW k \in 1 .. n - 1
               PROVE  /\ t[k].Start = IF k < i THEN rs[k].Start ELSE rs[k + 1].Start
                      /\ t[k].End = IF k < i - 1 THEN rs[k].End ELSE rs[k + 1].End
    BY Zenon
  <2>1. CASE k = i - 1
    <3>1. t[k] = e /\ k < i /\ ~ (k < i - 1) /\ k + 1 = i
      BY <1>2, <1>6, <2>1
    <3> QED
      BY <1>3, <2>1, <3>1, Zenon
  <2>2. CASE k < i - 1
    BY <1>4, <1>6, <2>2
  <2>3. CASE k > i - 1
    <3>1. ~ (k < i)
      BY <2>3
    <3> QED
      BY <1>4, <1>6, <2>3, <3>1
  <2> QED
    BY <1>1, <2>1, <2>2, <2>3
<1>8. \A k \in 1 .. n - 1 : k \in 1 .. n /\ k + 1 \in 1 .. n
  BY <1>1
<1>9. Ordered(t)
  <2>1. ASSUME NEW k \in 1 .. n - 1 PROVE 1 <= t[k].Start /\ t[k].Start <= t[k].End
    <3>1. CASE k = i - 1
      <4>1. t[k].Start = rs[i - 1].Start /\ t[k].End = rs[i].End
        BY <1>2, <1>7, <3>1
      <4> QED
        BY <1>1, <1>2, <4>1
    <3>2. CASE k < i - 1
      <4>1. t[k].Start = rs[k].Start /\ t[k].End = rs[k].End
        BY <1>2, <1>7, <3>2
      <4> QED
        BY <1>1, <1>8, <4>1, Zenon
    <3>3. CASE k > i - 1
      <4>1. t[k].Start = rs[k + 1].Start /\ t[k].End = rs[k + 1].End
        BY <1>2, <1>7, <3>3
      <4> QED
        BY <1>1, <1>8, <4>1, Zenon
    <3> QED
      BY <1>2, <3>1, <3>2, <3>3
  <2>2. ASSUME NEW k \in 1 .. n - 1, NEW j \in 1 .. n - 1, k < j
        PROVE  t[k].End + 1 < t[j].Start
    <3>1. CASE k < i - 1 /\ j < i
      <4>1. t[k].End = rs[k].End /\ t[j].Start = rs[j].Start
        BY <1>7, <2>2, <3>1, Zenon
      <4> QED
        BY <1>1, <1>8, <2>2, <4>1, Zenon
    <3>2. CASE k < i - 1 /\ ~ (j < i)
      <4>1. t[k].End = rs[k].End /\ t[j].Start = rs[j + 1].Start /\ k < j + 1
        BY <1>7, <2>2, <3>2
      <4> QED
        BY <1>1, <1>8, <4>1, Zenon
    <3>3. CASE ~ (k < i - 1)
      <4>1. t[k].End = rs[k + 1].End /\ t[j].Start = rs[j + 1].Start /\ k + 1 < j + 1
        BY <1>7, <2>2, <3>3
      <4> QED
        BY <1>1, <1>8, <4>1, Zenon
    <3> QED
      BY <3>1, <3>2, <3>3, Zenon
  <2> QED
    BY <1>6, <2>1, <2>2, Zenon DEF Ordered
<1>10. ASSUME NEW x \in Nat
       PROVE  (\E k \in 1 .. n - 1 : t[k].Start <= x /\ x <= t[k].End)
              <=> x = p \/ \E k \in 1 .. n : rs[k].Start <= x /\ x <= rs[k].End
  <2>1. ASSUME NEW k \in 1 .. n, rs[k].Start <= x, x <= rs[k].End
        PROVE  \E m \in 1 .. n - 1 : t[m].Start <= x /\ x <= t[m].End
    <3>1. CASE k < i
      <4>1. k \in 1 .. n - 1 /\ t[k].Start = rs[k].Start /\ rs[k].End <= t[k].End
        <5>1. CASE k < i - 1
          BY <1>1, <1>2, <1>7, <5>1
        <5>2. CASE k = i - 1
          <6>1. t[k].Start = rs[k].Start /\ t[k].End = rs[i].End
            BY <1>2, <1>7, <5>2
          <6> QED
            BY <1>1, <1>2, <5>2, <6>1
        <5> QED
          BY <3>1, <5>1, <5>2
      <4>2. t[k].End \in Nat
        BY <1>1, <1>7, <1>8, <4>1, Zenon
      <4>3. rs[k].Start \in Nat /\ rs[k].End \in Nat
        BY <1>1, Zenon
      <4>4. t[k].Start <= x /\ x <= t[k].End
        BY <2>1, <4>1, <4>2, <4>3
      <4> QED
        BY <4>1, <4>4, Zenon
    <3>2. CASE ~ (k < i)
      <4>1. k - 1 \in 1 .. n - 1 /\ t[k - 1].End = rs[k].End /\ t[k - 1].Start <= rs[k].Start
        <5>1. k - 1 \in 1 .. n - 1 /\ ~ (k - 1 < i - 1) /\ (k - 1) + 1 = k
          BY <1>1, <3>2
        <5>2. t[k - 1].End = rs[k].End
          BY <1>7, <5>1, Zenon
        <5>3. CASE k = i
          <6>1. t[k - 1].Start = rs[i - 1].Start
            BY <1>2, <1>7, <5>3
          <6> QED
            BY <1>1, <1>2, <5>1, <5>2, <5>3, <6>1
        <5>4. CASE k # i
          <6>1. ~ (k - 1 < i)
            BY <3>2, <5>4
          <6>2. t[k - 1].Start = rs[k].Start
            BY <1>7, <5>1, <6>1, Zenon
          <6> QED
            BY <1>1, <5>1, <5>2, <6>2
        <5> QED
          BY <5>3, <5>4, Zenon
      <4>2. t[k - 1].Start \in Nat
        BY <1>1, <1>7, <1>8, <4>1, Zenon
      <4>3. rs[k].Start \in Nat /\ rs[k].End \in Nat
        BY <1>1, Zenon
      <4>4. t[k - 1].Start <= x /\ x <= t[k - 1].End
        BY <2>1, <4>1, <4>2, <4>3
      <4> QED
        BY <4>1, <4>4, Zenon
    <3> QED
      BY <3>1, <3>2, Zenon
  <2>2. ASSUME x = p
        PROVE  \E m \in 1 .. n - 1 : t[m].Start <= x /\ x <= t[m].End
    <3>1. t[i - 1].Start = rs[i - 1].Start /\ t[i - 1].End = rs[i].End
      BY <1>2, <1>7
    <3>2. t[i - 1].Start <= x /\ x <= t[i - 1].End
      BY <1>1, <1>2, <2>2, <3>1
    <3> QED
      BY <1>2, <3>2, Zenon
  <2>3. ASSUME NEW k \in 1 .. n - 1, t[k].Start <= x, x <= t[k].End
        PROVE  x = p \/ \E m \in 1 .. n : rs[m].Start <= x /\ x <= rs[m].End
    <3>1. CASE k = i - 1
      <4>1. rs[i - 1].Start <= x /\ x <= rs[i].End
        BY <1>2, <1>7, <2>3, <3>1
      <4>2. x = p \/ x <= rs[i - 1].End \/ rs[i].Start <= x
        BY <1>1, <1>2
      <4> QED
        BY <1>2, <4>1, <4>2, Zenon
    <3>2. CASE k < i - 1
      <4>1. t[k].Start = rs[k].Start /\ t[k].End = rs[k].End
        BY <1>2, <1>7, <3>2
      <4> QED
        BY <1>8, <2>3, <4>1, Zenon
    <3>3. CASE k > i - 1
      <4>1. t[k].Start = rs[k + 1].Start /\ t[k].End = rs[k + 1].End
        BY <1>2, <1>7, <3>3
      <4> QED
        BY <1>8, <2>3, <4>1, Zenon
    <3> QED
      BY <1>2, <3>1, <3>2, <3>3
  <2> QED
    BY <2>1, <2>2, <2>3, Zenon
<1> QED
  BY <1>6, <1>9, <1>10, Zenon DEF Adds

\* ReceivedPacket keeps the intervals in order and adds exactly its number.
LEMMA ReceivedAdds ==
    ASSUME NEW rs, Ordered(rs), NEW p \in Nat \ {0}
    PROVE  /\ Ordered(Received(rs, p))
           /\ Covered(Received(rs, p)) = Covered(rs) \cup {p}
<1> DEFINE new == [Start |-> p, End |-> p]
           stopped == {i \in DOMAIN rs : StopsAt(rs[i], p)}
           t == Received(rs, p)
           n == Len(rs)
<1>1. /\ rs \in Seq(Interval) /\ n \in Nat /\ DOMAIN rs = 1 .. n
      /\ \A k \in 1 .. n : /\ rs[k] \in Interval
                           /\ rs[k].Start \in Nat /\ rs[k].End \in Nat
                           /\ 1 <= rs[k].Start /\ rs[k].Start <= rs[k].End
      /\ \A k, j \in 1 .. n : k < j => rs[k].End + 1 < rs[j].Start
  BY OrderedIntervals, Zenon DEF Ordered
<1>2. SUFFICES Ordered(t) /\ Adds(t, rs, p)
  <2> HIDE DEF t
  <2>1. ASSUME Ordered(t) /\ Adds(t, rs, p)
        PROVE  Covered(t) = Covered(rs) \cup {p}
    BY <2>1, CoveredAdds, Zenon
  <2> QED
    BY <1>2, <2>1, Zenon DEF t
<1>3. CASE stopped = {}
  <2>1. t = InsertAt(rs, 0 + 1, new)
    BY <1>3 DEF Received
  <2>2. ASSUME NEW k \in 1 .. n PROVE p + 1 < rs[k].Start
    <3>1. ~ StopsAt(rs[k], p)
      BY <1>1, <1>3, Zenon
    <3>2. rs[k].Start \in Nat /\ rs[k].End \in Nat
      BY <1>1, Zenon
    <3> QED
      BY <3>1, <3>2 DEF StopsAt
  <2>3. /\ 0 \in 0 .. n
        /\ \A k \in 1 .. n : k <= 0 => rs[k].End + 1 < p
        /\ \A k \in 1 .. n : 0 < k => p + 1 < rs[k].Start
    BY <1>1, <2>2
  <2> HIDE DEF t
  <2> QED
    BY <2>1, <2>3, InsertAdds, Zenon
<1>4. CASE stopped # {}
  <2>1. PICK i \in 1 .. n : /\ i = Max(stopped)
                            /\ StopsAt(rs[i], p)
                            /\ \A j \in 1 .. n : i < j => ~ StopsAt(rs[j], p)
    BY <1>4, LastStop, Zenon
  <2>2. ASSUME NEW j \in 1 .. n, i < j PROVE p + 1 < rs[j].Start
    <3>1. ~ StopsAt(rs[j], p)
      BY <2>1, <2>2, Zenon
    <3>2. rs[j].Start \in Nat /\ rs[j].End \in Nat
      BY <1>1, Zenon
    <3> QED
      BY <3>1, <3>2 DEF StopsAt
  <2> DEFINE r == rs[i]
             e == Extended(r, p)
  <2>3. t = IF p \in r.Start .. r.End THEN rs
            ELSE IF r.End = p - 1 \/ r.Start = p + 1 THEN Merged(rs, i, e)
            ELSE InsertAt(rs, i + 1, new)
    BY <1>4, <2>1 DEF Received
  <2>4. /\ r \in Interval /\ r.Start \in Nat /\ r.End \in Nat
        /\ 1 <= r.Start /\ r.Start <= r.End
        /\ \A k \in 1 .. n : k < i => rs[k].End + 1 < r.Start
        /\ \A k \in 1 .. n : i < k => r.End + 1 < rs[k].Start
    BY <1>1, Zenon
  <2> HIDE DEF t, stopped, new
  <2>5. CASE p \in r.Start .. r.End
    <3>1. t = rs
      BY <2>3, <2>5, Zenon
    <3>2. r.Start <= p /\ p <= r.End
      BY <2>4, <2>5
    <3> QED
      BY <3>1, <3>2, Zenon DEF Adds
  <2>6. CASE r.End = p - 1 \/ (r.Start = p + 1 /\ ~ (i > 1 /\ rs[i - 1].End + 1 = p))
    <3>1. /\ e \in Interval
          /\ e.Start = IF r.End = p - 1 THEN r.Start ELSE p
          /\ e.End = IF r.End = p - 1 THEN p ELSE r.End
      BY <2>4, Zenon DEF Extended, Interval
    <3> HIDE DEF e
    <3>2. ASSUME NEW k \in 1 .. n, k < i PROVE rs[k].End + 1 < e.Start
      <4>1. rs[k].End + 1 < r.Start /\ rs[k].End \in Nat
        BY <1>1, <2>4, <3>2, Zenon
      <4>2. CASE r.End = p - 1
        BY <3>1, <4>1, <4>2, Zenon
      <4>3. CASE r.End # p - 1
        <5>1. e.Start = p /\ r.Start = p + 1 /\ i - 1 \in 1 .. n /\ i > 1
          BY <1>1, <2>6, <3>1, <3>2, <4>3
        <5>2. rs[i - 1].End + 1 # p /\ rs[i - 1].End + 1 < r.Start /\ rs[i - 1].End \in Nat
          BY <1>1, <2>4, <2>6, <4>3, <5>1
        <5>3. k = i - 1 \/ rs[k].End + 1 < rs[i - 1].Start
          BY <1>1, <3>2, <5>1
        <5>4. rs[i - 1].Start <= rs[i - 1].End /\ rs[i - 1].Start \in Nat
          BY <1>1, <5>1, Zenon
        <5> HIDE DEF r
        <5>5. rs[i - 1].End + 1 < p
          BY <5>1, <5>2
        <5>6. CASE k = i - 1
          BY <5>1, <5>5, <5>6, Zenon
        <5>7. CASE rs[k].End + 1 < rs[i - 1].Start
          <6>1. rs[k].End + 1 < rs[i - 1].End
            BY <4>1, <5>2, <5>4, <5>7, LessThrough, Zenon
          <6>2. rs[i - 1].End <= p
            BY <5>2, <5>5
          <6>3. rs[k].End + 1 < p
            BY <4>1, <5>2, <6>1, <6>2, LessThrough, Zenon
          <6> QED
            BY <5>1, <6>3, Zenon
        <5> QED
          BY <5>3, <5>6, <5>7, Zenon
      <4> QED
        BY <4>2, <4>3, Zenon
    <3>3. ASSUME NEW k \in 1 .. n, i < k PROVE e.End + 1 < rs[k].Start
      <4>1. r.End + 1 < rs[k].Start /\ p + 1 < rs[k].Start
        BY <2>2, <2>4, <3>3, Zenon
      <4> QED
        BY <3>1, <4>1, Zenon
    <3>4. e.Start <= e.End /\ 1 <= e.Start
      BY <2>4, <2>6, <3>1
    <3>5. ASSUME NEW x \in Nat
          PROVE  e.Start <= x /\ x <= e.End <=> x = p \/ (r.Start <= x /\ x <= r.End)
      BY <2>4, <2>6, <3>1
    <3>6. t = [rs EXCEPT ![i] = e]
      <4>1. ~ (p \in r.Start .. r.End)
        BY <2>4, <2>6
      <4>2. t = Merged(rs, i, e)
        BY <2>3, <2>6, <4>1, Zenon
      <4>3. ~ (i > 1 /\ rs[i - 1].End + 1 = e.Start)
        <5>1. ASSUME i > 1, rs[i - 1].End + 1 = e.Start PROVE FALSE
          <6>1. i - 1 \in 1 .. n /\ i - 1 < i
            BY <1>1, <5>1
          <6>2. rs[i - 1].End + 1 < e.Start /\ rs[i - 1].End \in Nat
            BY <1>1, <3>2, <6>1, Zenon
          <6> QED
            BY <5>1, <6>2
        <5> QED
          BY <5>1, Zenon
      <4> QED
        BY <4>2, <4>3, Zenon DEF Merged
    <3> QED
      BY <3>1, <3>2, <3>3, <3>4, <3>5, <3>6, ExtendAdds, Zenon
  <2>7. CASE r.End # p - 1 /\ r.Start = p + 1 /\ i > 1 /\ rs[i - 1].End + 1 = p
    <3>1. i \in 2 .. n
      BY <1>1, <2>7
    <3>2. e.Start = p /\ e.End = r.End
      BY <2>4, <2>7, Zenon DEF Extended, Interval
    <3>3. t = MergedAt(rs, i)
      <4>1. ~ (p \in r.Start .. r.End)
        BY <2>4, <2>7
      <4>2. t = Merged(rs, i, e)
        BY <2>3, <2>7, <4>1, Zenon
      <4> HIDE DEF e, r
      <4> QED
        BY <2>7, <3>2, <4>2, Zenon DEF Merged, MergedAt, r
    <3> QED
      BY <2>7, <3>1, <3>3, MergeAdds, Zenon
  <2>8. CASE /\ ~ (p \in r.Start .. r.End)
             /\ ~ (r.End = p - 1 \/ r.Start = p + 1)
    <3>1. r.End + 1 < p
      BY <2>1, <2>4, <2>8 DEF StopsAt
    <3>2. t = InsertAt(rs, i + 1, [Start |-> p, End |-> p])
      BY <2>3, <2>8, Zenon DEF new
    <3>3. i \in 0 .. Len(rs)
      BY <1>1
    <3>4. ASSUME NEW k \in 1 .. n, k <= i PROVE rs[k].End + 1 < p
      <4>1. k = i \/ rs[k].End + 1 < r.Start
        BY <1>1, <2>4, <3>4
      <4>2. rs[k].End \in Nat
        BY <1>1, Zenon
      <4> QED
        BY <2>4, <3>1, <4>1, <4>2
    <3> QED
      BY <2>2, <3>2, <3>3, <3>4, InsertAdds, Zenon
  <2> QED
    BY <2>5, <2>6, <2>7, <2>8, Zenon
<1> QED
  BY <1>3, <1>4, Zenon

-----------------------------------------------------------------------------

\* The intervals that DeleteUpTo(p) removes whole are the first m.
LEMMA FirstRemoved ==
    ASSUME NEW rs, Ordered(rs), NEW p \in Nat
    PROVE  LET m == Max({0} \cup {i \in DOMAIN rs : \A j \in 1 .. i : rs[j].End <= p})
           IN  /\ m \in 0 .. Len(rs)
               /\ \A k \in 1 .. m : rs[k].End <= p
               /\ m < Len(rs) => rs[m + 1].End > p
<1> DEFINE T == {i \in DOMAIN rs : \A j \in 1 .. i : rs[j].End <= p}
           m == Max({0} \cup T)
           n == Len(rs)
<1>1. n \in Nat /\ DOMAIN rs = 1 .. n /\ \A k \in 1 .. n : rs[k].End \in Nat
  BY OrderedIntervals, Zenon
<1>2. {0} \cup T \in SUBSET Nat /\ \A x \in {0} \cup T : x <= n
  BY <1>1
<1>3. m \in {0} \cup T /\ \A x \in {0} \cup T : x <= m
  <2> DEFINE U == {0} \cup T
  <2>1. U # {}
    BY Zenon
  <2> HIDE DEF U
  <2> QED
    BY <1>1, <1>2, <2>1, MaxOfBounded, Zenon DEF U
<1> HIDE DEF m
<1>4. m \in 0 .. n
  BY <1>1, <1>2, <1>3
<1>5. \A k \in 1 .. m : rs[k].End <= p
  BY <1>3
<1>6. ASSUME m < n PROVE rs[m + 1].End > p
  <2>1. m + 1 \in 1 .. n
    BY <1>1, <1>4, <1>6
  <2>2. m + 1 \notin T
    <3>1. ~ (m + 1 <= m)
      BY <1>4
    <3> QED
      BY <1>3, <3>1, Zenon
  <2>3. PICK j \in 1 .. m + 1 : ~ (rs[j].End <= p)
    BY <1>1, <2>1, <2>2, Zenon
  <2>4. j = m + 1
    BY <1>4, <1>5, <2>3
  <2> QED
    BY <1>1, <2>1, <2>3, <2>4
<1> QED
  BY <1>4, <1>5, <1>6, Zenon DEF m

\* DeleteUpTo keeps the intervals in order and removes exactly the numbers up to
\* its argument.
LEMMA DeletedRemoves ==
    ASSUME NEW rs, Ordered(rs), NEW p \in Nat
    PROVE  /\ Ordered(Deleted(rs, p))
           /\ Covered(Deleted(rs, p)) = Covered(rs) \ (1 .. p)
<1> DEFINE n == Len(rs)
           t == Deleted(rs, p)
<1>1. /\ rs \in Seq(Interval) /\ n \in Nat
      /\ \A k \in 1 .. n : /\ rs[k] \in Interval
                           /\ rs[k].Start \in Nat /\ rs[k].End \in Nat
                           /\ 1 <= rs[k].Start /\ rs[k].Start <= rs[k].End
      /\ \A k, j \in 1 .. n : k < j => rs[k].End + 1 < rs[j].Start
  BY OrderedIntervals, Zenon DEF Ordered
<1>2. PICK m \in 0 .. n :
         /\ m = Max({0} \cup {i \in DOMAIN rs : \A j \in 1 .. i : rs[j].End <= p})
         /\ \A k \in 1 .. m : rs[k].End <= p
         /\ m < n => rs[m + 1].End > p
  BY FirstRemoved, Zenon
<1> DEFINE rest == SubSeq(rs, m + 1, n)
           cut == rest # <<>> /\ p \in rest[1].Start .. rest[1].End - 1
           e == [rest[1] EXCEPT !.Start = p + 1]
<1>3. t = IF cut THEN [rest EXCEPT ![1] = e] ELSE rest
  BY <1>2, Zenon DEF Deleted
<1>4. /\ rest \in Seq(Interval) /\ Len(rest) = n - m
      /\ \A k \in 1 .. n - m : rest[k] = rs[m + k] /\ m + k \in 1 .. n
  <2>1. \A k \in m + 1 .. n : rs[k] \in Interval
    BY <1>1, <1>2
  <2>2. m + 1 \in Int /\ n \in Int
    BY <1>1
  <2>3. /\ SubSeq(rs, m + 1, n) \in Seq(Interval)
        /\ Len(SubSeq(rs, m + 1, n)) = IF m + 1 <= n THEN n - (m + 1) + 1 ELSE 0
        /\ \A k \in 1 .. n - (m + 1) + 1 : SubSeq(rs, m + 1, n)[k] = rs[(m + 1) + k - 1]
    <3> HIDE DEF n
    <3> QED
      BY <2>1, <2>2
  <2> HIDE DEF n
  <2>6. n \in Nat
    BY <1>1, Zenon
  <2>4. /\ (m + 1 <= n <=> m < n) /\ n - (m + 1) + 1 = n - m /\ (~ (m < n) => n - m = 0)
        /\ \A k \in 1 .. n - m : (m + 1) + k - 1 = m + k /\ m + k \in 1 .. n
    BY <2>6
  <2>5. Len(rest) = n - m
    BY <2>3, <2>4, Zenon
  <2> QED
    BY <2>3, <2>4, <2>5, Zenon
<1> HIDE DEF rest, t
\* What is left of interval k of the rest.
<1> DEFINE First(k) == IF k = 1 /\ p >= rest[1].Start THEN p + 1 ELSE rest[k].Start
<1>5. /\ t \in Seq(Interval) /\ Len(t) = n - m
      /\ \A k \in 1 .. n - m : t[k].Start = First(k) /\ t[k].End = rs[m + k].End
  <2>1. CASE cut
    <3>1. 1 \in 1 .. Len(rest) /\ rest[1] \in Interval
      BY <1>4, <2>1, Elements
    <3>2. /\ rest[1].Start \in Nat /\ rest[1].End \in Nat
          /\ e \in Interval /\ e.Start = p + 1 /\ e.End = rest[1].End
      BY <3>1 DEF Interval
    <3>3. p >= rest[1].Start
      BY <2>1, <3>2
    <3> HIDE DEF e
    <3> DEFINE v == [rest EXCEPT ![1] = e]
    <3>4. /\ v \in Seq(Interval) /\ Len(v) = Len(rest)
          /\ \A k \in 1 .. Len(rest) : v[k] = IF k = 1 THEN e ELSE rest[k]
      BY <1>4, <3>1, <3>2, Replaced
    <3>5. t = v
      BY <1>3, <2>1, Zenon
    <3> HIDE DEF v
    <3> QED
      BY <1>4, <3>2, <3>3, <3>4, <3>5, Zenon
  <2>2. CASE ~ cut
    <3>1. t = rest
      BY <1>3, <2>2, Zenon
    <3>2. ASSUME 1 \in 1 .. n - m PROVE ~ (p >= rest[1].Start)
      <4>1. rest # <<>> /\ rest[1] = rs[m + 1] /\ m + 1 \in 1 .. n
        BY <1>4, <3>2
      <4>2. rs[m + 1].End > p
        BY <1>1, <1>2, <4>1
      <4> QED
        BY <1>1, <2>2, <4>1, <4>2
    <3> QED
      BY <1>4, <3>1, <3>2, Zenon
  <2> QED
    BY <2>1, <2>2, Zenon
<1>6. ASSUME NEW k \in 1 .. n - m
      PROVE  /\ t[k].Start \in Nat /\ t[k].End \in Nat /\ m + k \in 1 .. n
             /\ 1 <= t[k].Start /\ t[k].Start <= t[k].End /\ p < t[k].Start
             /\ rs[m + k].Start <= t[k].Start
             /\ t[k].Start = rs[m + k].Start \/ t[k].Start = p + 1
  <2>1. rest[k] = rs[m + k] /\ m + k \in 1 .. n
    BY <1>4, Zenon
  <2>2. CASE k = 1
    <3>1. m < n
      BY <1>1, <2>1, <2>2
    <3>2. rs[m + 1].End > p
      BY <1>2, <3>1, Zenon
    <3>3. /\ t[k].Start = IF p >= rs[m + k].Start THEN p + 1 ELSE rs[m + k].Start
          /\ t[k].End = rs[m + k].End
      BY <1>5, <2>1, <2>2, Zenon
    <3> QED
      BY <1>1, <2>1, <2>2, <3>2, <3>3
  <2>3. CASE k # 1
    <3>1. m + 1 \in 1 .. n /\ m + 1 < m + k /\ m < n
      BY <1>1, <2>1, <2>3
    <3>2. rs[m + 1].End + 1 < rs[m + k].Start /\ rs[m + 1].End > p
      BY <1>1, <1>2, <2>1, <3>1, Zenon
    <3>3. t[k].Start = rs[m + k].Start /\ t[k].End = rs[m + k].End
      BY <1>5, <2>1, <2>3, Zenon
    <3> QED
      BY <1>1, <2>1, <3>1, <3>2, <3>3
  <2> QED
    BY <2>2, <2>3, Zenon
<1> HIDE DEF First
<1>7. Ordered(t)
  <2>1. ASSUME NEW k \in 1 .. n - m, NEW j \in 1 .. n - m, k < j
        PROVE  t[k].End + 1 < t[j].Start
    <3>1. m + k < m + j /\ m + k \in 1 .. n /\ m + j \in 1 .. n
      BY <1>1, <1>2, <1>6, <2>1
    <3>2. rs[m + k].End + 1 < rs[m + j].Start /\ rs[m + j].Start <= t[j].Start
      BY <1>1, <1>6, <3>1, Zenon
    <3>3. t[k].End = rs[m + k].End /\ t[j].Start \in Nat
      BY <1>5, <1>6, Zenon
    <3>4. rs[m + k].End \in Nat /\ rs[m + j].Start \in Nat
      BY <1>1, <3>1, Zenon
    <3>5. rs[m + k].End + 1 < t[j].Start
      BY <3>2, <3>3, <3>4, LessThrough, Zenon
    <3> QED
      BY <3>3, <3>5, Zenon
  <2> QED
    BY <1>5, <1>6, <2>1, Zenon DEF Ordered
<1>8. ASSUME NEW x
      PROVE  x \in Covered(t) <=> x \in Covered(rs) /\ x \notin 1 .. p
  <2>1. x \in Covered(t)
        <=> x \in Nat /\ \E k \in 1 .. Len(t) : t[k].Start <= x /\ x <= t[k].End
    BY <1>7, CoveredNumbers, Zenon
  <2>2. x \in Covered(rs)
        <=> x \in Nat /\ \E k \in 1 .. n : rs[k].Start <= x /\ x <= rs[k].End
    BY CoveredNumbers, Zenon
  <2>3. ASSUME x \in Nat, NEW k \in 1 .. n - m, t[k].Start <= x, x <= t[k].End
        PROVE  x \notin 1 .. p /\ \E j \in 1 .. n : rs[j].Start <= x /\ x <= rs[j].End
    <3>1. /\ m + k \in 1 .. n /\ t[k].Start \in Nat /\ p < t[k].Start
          /\ rs[m + k].Start <= t[k].Start /\ t[k].End = rs[m + k].End
      BY <1>5, <1>6, Zenon
    <3>2. rs[m + k].Start \in Nat
      BY <1>1, <3>1, Zenon
    <3>3. rs[m + k].Start <= x /\ x <= rs[m + k].End /\ p < x
      BY <2>3, <3>1, <3>2
    <3> QED
      BY <3>1, <3>3
  <2>4. ASSUME x \in Nat, x \notin 1 .. p, NEW j \in 1 .. n, rs[j].Start <= x, x <= rs[j].End
        PROVE  \E k \in 1 .. n - m : t[k].Start <= x /\ x <= t[k].End
    <3>1. p < x
      BY <1>1, <2>4
    <3>2. ~ (j <= m)
      BY <1>1, <1>2, <2>4, <3>1
    <3>3. j - m \in 1 .. n - m /\ m + (j - m) = j
      BY <1>1, <1>2, <3>2
    <3>4. t[j - m].End = rs[m + (j - m)].End
      BY <1>5, <3>3, Zenon
    <3>5. t[j - m].Start = rs[m + (j - m)].Start \/ t[j - m].Start = p + 1
      BY <1>6, <3>3, Zenon
    <3>6. t[j - m].End = rs[j].End /\ t[j - m].Start <= x
      BY <1>1, <2>4, <3>1, <3>3, <3>4, <3>5
    <3> QED
      BY <2>4, <3>3, <3>6, Zenon
  <2>5. Len(t) = n - m
    BY <1>5, Zenon
  <2> QED
    BY <2>1, <2>2, <2>3, <2>4, <2>5, Zenon
<1> QED
  BY <1>7, <1>8, Zenon DEF t

-----------------------------------------------------------------------------

\* The maximal runs of the numbers covered start where the intervals do.
LEMMA StartsOfIntervals ==
    ASSUME NEW rs, Ordered(rs)
    PROVE  Packets!Starts(Covered(rs)) = {rs[k].Start : k \in 1 .. Len(rs)}
<1> DEFINE n == Len(rs)
<1>1. /\ n \in Nat
      /\ \A k \in 1 .. n : /\ rs[k].Start \in Nat /\ rs[k].End \in Nat
                           /\ 1 <= rs[k].Start /\ rs[k].Start <= rs[k].End
      /\ \A k, j \in 1 .. n : k < j => rs[k].End + 1 < rs[j].Start
  BY OrderedIntervals, Zenon DEF Ordered
<1>2. \A x : x \in Covered(rs)
             <=> x \in Nat /\ \E k \in 1 .. n : rs[k].Start <= x /\ x <= rs[k].End
  BY CoveredNumbers, Zenon
<1>3. ASSUME NEW k \in 1 .. n
      PROVE  rs[k].Start \in Covered(rs) /\ rs[k].Start - 1 \notin Covered(rs)
  <2>1. rs[k].Start \in Covered(rs)
    BY <1>1, <1>2
  <2>2. ASSUME NEW j \in 1 .. n, rs[j].Start <= rs[k].Start - 1, rs[k].Start - 1 <= rs[j].End
        PROVE  FALSE
    <3>1. CASE j = k
      BY <1>1, <2>2, <3>1
    <3>2. CASE j < k
      <4>1. rs[j].End + 1 < rs[k].Start
        BY <1>1, <3>2, Zenon
      <4> QED
        BY <1>1, <2>2, <4>1
    <3>3. CASE j > k
      <4>1. rs[k].End + 1 < rs[j].Start
        BY <1>1, <3>3, Zenon
      <4> QED
        BY <1>1, <2>2, <4>1
    <3> QED
      BY <3>1, <3>2, <3>3
  <2> QED
    BY <1>2, <2>1, <2>2, Zenon
<1>4. ASSUME NEW x \in Covered(rs), x - 1 \notin Covered(rs)
      PROVE  \E k \in 1 .. n : x = rs[k].Start
  <2>1. PICK k \in 1 .. n : rs[k].Start <= x /\ x <= rs[k].End
    BY <1>2, Zenon
  <2>2. x \in Nat
    BY <1>2, Zenon
  <2>3. ASSUME x # rs[k].Start PROVE FALSE
    <3>1. x - 1 \in Nat /\ rs[k].Start <= x - 1 /\ x - 1 <= rs[k].End
      BY <1>1, <2>1, <2>2, <2>3
    <3> QED
      BY <1>2, <1>4, <3>1, Zenon
  <2> QED
    BY <2>3, Zenon
<1> QED
  BY <1>3, <1>4, Zenon DEF Packets!Starts

\* There are as many intervals as maximal runs, and the last is the highest.
LEMMA OneIntervalPerRun ==
    ASSUME Ordered(ranges)
    PROVE  RangesAreMaximal
<1> DEFINE n == Len(ranges)
           S == Packets!Starts(Covered(ranges))
           g == [k \in 1 .. n |-> ranges[k].Start]
<1>1. /\ n \in Nat /\ ranges \in Seq(Interval)
      /\ \A k \in 1 .. n : /\ ranges[k].Start \in Nat /\ ranges[k].End \in Nat
                           /\ 1 <= ranges[k].Start /\ ranges[k].Start <= ranges[k].End
      /\ \A k, j \in 1 .. n : k < j => ranges[k].End + 1 < ranges[j].Start
  BY OrderedIntervals, Zenon DEF Ordered
<1>2. S = {ranges[k].Start : k \in 1 .. n}
  BY StartsOfIntervals, Zenon
<1>3. ASSUME NEW k \in 1 .. n, NEW j \in 1 .. n, k < j
      PROVE  ranges[k].Start < ranges[j].Start
  <2>1. ranges[k].End + 1 < ranges[j].Start /\ ranges[k].Start <= ranges[k].End
    BY <1>1, <1>3, Zenon
  <2> QED
    BY <1>1, <2>1
<1> HIDE DEF S
<1>4. n = Cardinality(S)
  <2>1. IsFiniteSet(1 .. n) /\ Cardinality(1 .. n) = n
    <3>1. IsFiniteSet(1 .. n) /\ Cardinality(1 .. n) = IF 1 > n THEN 0 ELSE n - 1 + 1
      BY <1>1, FS_Interval
    <3> QED
      BY <1>1, <3>1
  <2>2. g \in [1 .. n -> S]
    BY <1>2, Zenon
  <2>3. \A x, y \in 1 .. n : g[x] = g[y] => x = y
    <3> SUFFICES ASSUME NEW x \in 1 .. n, NEW y \in 1 .. n, x # y PROVE g[x] # g[y]
      BY Zenon
    <3>1. x < y \/ y < x
      BY <1>1
    <3>2. ranges[x].Start # ranges[y].Start
      BY <1>1, <1>3, <3>1
    <3> QED
      BY <3>2, Zenon
  <2>4. \A t \in S : \E x \in 1 .. n : g[x] = t
    BY <1>2, Zenon
  <2>5. ExistsBijection(1 .. n, S)
    <3> HIDE DEF g
    <3>1. g \in Bijection(1 .. n, S)
      BY <2>2, <2>3, <2>4, Zenon DEF Bijection, Injection, Surjection, IsInjective
    <3> QED
      BY <3>1, Zenon DEF ExistsBijection
  <2> HIDE DEF n
  <2> QED
    BY <2>1, <2>5, FS_Bijection, Zenon
<1>5. ASSUME ranges # <<>>
      PROVE  ranges[n].Start = Packets!HighestFirst(Covered(ranges))
  <2>1. n \in 1 .. n
    BY <1>1, <1>5
  <2>2. ranges[n].Start \in S /\ \A x \in S : x <= ranges[n].Start
    <3>1. ASSUME NEW k \in 1 .. n PROVE ranges[k].Start <= ranges[n].Start
      <4>1. k = n \/ k < n
        BY <1>1
      <4>2. ranges[k].Start \in Nat /\ ranges[n].Start \in Nat
        BY <1>1, <2>1, Zenon
      <4> QED
        BY <1>3, <2>1, <4>1, <4>2
    <3> QED
      BY <1>2, <2>1, <3>1, Zenon
  <2>3. S \in SUBSET Nat
    BY <1>1, <1>2, Zenon
  <2>4. Packets!Max(S) = ranges[n].Start
    <3>1. ASSUME NEW x \in S, \A y \in S : x >= y PROVE x = ranges[n].Start
      <4>1. x >= ranges[n].Start /\ x <= ranges[n].Start
        BY <2>2, <3>1, Zenon
      <4>2. x \in Nat /\ ranges[n].Start \in Nat
        BY <2>2, <2>3, Zenon
      <4> QED
        BY <4>1, <4>2
    <3>2. ranges[n].Start \in S /\ \A y \in S : ranges[n].Start >= y
      BY <2>2, <2>3, Zenon
    <3> QED
      BY <3>1, <3>2, Zenon DEF Packets!Max
  <2>5. Covered(ranges) # {}
    BY <2>2, Zenon DEF S, Packets!Starts
  <2> QED
    BY <2>4, <2>5, Zenon DEF Packets!HighestFirst, S
<1> QED
  BY <1>4, <1>5, Zenon DEF RangesAreMaximal, S

-----------------------------------------------------------------------------

\* Two numbers less than E apart lie in the same or in neighbouring epochs.
LEMMA NeighbouringEpochs ==
    ASSUME NEW E \in Nat \ {0}, NEW p \in Int, NEW q \in Int,
           NEW r \in 0 .. E - 1, NEW s \in 0 .. E - 1,
           E * p + r - (E * q + s) <= E, E * q + s - (E * p + r) <= E
    PROVE  E * p \in {E * q - E, E * q, E * q + E}
<1>1. CASE p >= q + 2
  <2>1. E * p >= E * (q + 2)
    BY <1>1
  <2>2. E * (q + 2) = E * q + 2 * E
    OBVIOUS
  <2> QED
    BY <2>1, <2>2
<1>2. CASE p <= q - 2
  <2>1. E * p <= E * (q - 2)
    BY <1>2
  <2>2. E * (q - 2) = E * q - 2 * E
    OBVIOUS
  <2> QED
    BY <2>1, <2>2
<1>3. CASE p = q + 1
  BY <1>3
<1>4. CASE p = q - 1
  BY <1>4
<1>5. CASE p = q
  BY <1>5, Zenon
<1> QED
  BY <1>1, <1>2, <1>3, <1>4, <1>5

LEMMA DivisionWithRemainder ==
    ASSUME NEW E \in Nat \ {0}, NEW n \in Nat
    PROVE  /\ n \div E \in Int
           /\ n % E \in 0 .. E - 1
           /\ n = E * (n \div E) + (n % E)
    OBVIOUS

\* InferPacketNumber gives back the number pn that was truncated to pn % E,
\* when pn is less than half an epoch away from the number expected next.
\* The candidate of the epoch before wraps around when there is none, and is
\* then too far away to be chosen.
LEMMA InferIsExact ==
    ASSUME NEW E \in Nat \ {0}, NEW last \in Nat, NEW pn \in Nat,
           Wrap \in Nat, last + 3 * E <= Wrap,
           pn < last + 1 + (E \div 2), last + 1 < pn + (E \div 2)
    PROVE  InferPacketNumber(E, last, pn % E) = pn
<1> DEFINE epoch == last - (last % E)
           wire == pn % E
           prev == (epoch - E) % Wrap
           nxt == (epoch + E) % Wrap
<1>1. /\ E \div 2 \in Nat
      /\ 2 * (E \div 2) <= E
  OBVIOUS
<1>2. /\ epoch \in Nat
      /\ epoch <= last
      /\ last < epoch + E
      /\ wire \in 0 .. E - 1
      /\ pn \in {epoch + wire - E, epoch + wire, epoch + wire + E}
  <2>1. /\ last % E \in 0 .. E - 1
        /\ last \div E \in Int
        /\ last = E * (last \div E) + (last % E)
    BY DivisionWithRemainder, Zenon
  <2>2. /\ wire \in 0 .. E - 1
        /\ pn \div E \in Int
        /\ pn = E * (pn \div E) + wire
    BY DivisionWithRemainder, Zenon
  <2>3. E * (pn \div E) \in {E * (last \div E) - E, E * (last \div E),
                            E * (last \div E) + E}
    BY <1>1, <2>1, <2>2, NeighbouringEpochs
  <2>4. /\ E * (last \div E) \in Int
        /\ E * (last \div E) = epoch
        /\ E * (pn \div E) \in Int
    BY <2>1, <2>2
  <2>5. epoch \in Nat
    BY <2>1, <2>4
  <2> QED
    BY <2>1, <2>2, <2>3, <2>4, <2>5
<1>3. nxt = epoch + E /\ (nxt + wire) % Wrap = epoch + E + wire
  <2>1. epoch + E \in 0 .. Wrap - 1 /\ epoch + E + wire \in 0 .. Wrap - 1
    BY <1>2
  <2> QED
    BY <1>2, <2>1
<1>4. CASE epoch >= E
  <2>1. prev = epoch - E
    BY <1>2, <1>4
  <2>2. (prev + wire) % Wrap = epoch - E + wire
    BY <1>2, <1>4, <2>1
  <2> HIDE DEF epoch, wire, prev, nxt
  <2>3. closestTo(last + 1, epoch + wire,
                  closestTo(last + 1, epoch - E + wire, epoch + E + wire)) = pn
    BY <1>1, <1>2, <1>4 DEF closestTo, delta
  <2> QED
    BY <1>3, <2>2, <2>3, Zenon DEF InferPacketNumber, epoch, wire, prev, nxt
<1>5. CASE epoch < E
  <2>1. epoch = 0
    <3>0. last \div E \in Int /\ last = E * (last \div E) + (last % E)
      BY DivisionWithRemainder, Zenon
    <3>1. PICK k \in Int : epoch = E * k
      <4>1. epoch = E * (last \div E)
        BY <3>0, DivisionWithRemainder
      <4> HIDE DEF epoch
      <4> QED
        BY <3>0, <4>1, Zenon
    <3>2. k < 1 /\ k > -1
      <4>1. ASSUME k >= 1 PROVE FALSE
        <5>1. E * k >= E
          BY <4>1
        <5> QED
          BY <1>2, <1>5, <3>1, <5>1
      <4>2. ASSUME k <= -1 PROVE FALSE
        <5>1. E * k <= -E
          BY <4>2
        <5> QED
          BY <1>2, <3>1, <5>1
      <4> QED
        BY <4>1, <4>2
    <3> QED
      BY <3>1, <3>2
  <2>2. prev = Wrap - E
    BY <2>1
  <2>3. (prev + wire) % Wrap = Wrap - E + wire
    BY <1>2, <2>2
  <2> HIDE DEF epoch, wire, prev, nxt
  <2>4. closestTo(last + 1, epoch + wire,
                  closestTo(last + 1, Wrap - E + wire, epoch + E + wire)) = pn
    BY <1>1, <1>2, <2>1 DEF closestTo, delta
  <2> QED
    BY <1>3, <2>3, <2>4, Zenon DEF InferPacketNumber, epoch, wire, prev, nxt
<1> QED
  BY <1>2, <1>4, <1>5


\* What a packet in the network says about its sender.
SentPacket(m) ==
    /\ m.number \in 1 .. MaxPacketNumber
    /\ m.len \in {2, 4, 6}
    /\ m.wire = m.number % Epoch[m.len]
    /\ m.leastUnacked \in 1 .. m.number
    /\ m.number - m.leastUnacked < Epoch[m.len] \div 2

\* The inductive invariant of a path.
PInv ==
    /\ next \in Nat \ {0}
    /\ nextToSkip = 0
    /\ lastSkipped = 0
    /\ largestRcvdPacketNumber \in 0 .. MaxPacketNumber
    /\ \A m \in packets : SentPacket(m)
    /\ Ordered(ranges)

LEMMA EpochIsPositive ==
    \A len \in {2, 4, 6} : Epoch[len] \in Nat \ {0} /\ Epoch[len] <= Epoch[6]
    BY PacketNumbersAssumption

\* The length chosen for a number covers the numbers since leastUnacked.
LEMMA LengthCovers ==
    ASSUME NEW n \in 1 .. MaxPacketNumber, NEW lu \in 1 .. n,
           NEW len, len = GetPacketNumberLengthForPublicHeader(n, lu)
    PROVE  len \in {2, 4, 6} /\ n - lu < Epoch[len] \div 2
<1>1. (n - lu) % Wrap = n - lu
  <2>1. n - lu \in 0 .. Wrap - 1
    <3>1. Epoch[6] \div 2 <= Epoch[6] /\ Epoch[6] \in Nat
      BY EpochIsPositive
    <3> QED
      BY <3>1, PacketNumbersAssumption
  <2> QED
    BY <2>1, PacketNumbersAssumption
<1>2. n - lu < Epoch[6] \div 2
  BY PacketNumbersAssumption, EpochIsPositive
<1> QED
  BY <1>1, <1>2, Zenon DEF GetPacketNumberLengthForPublicHeader

LEMMA PathInitHolds == PathInit => PInv
<1> SUFFICES ASSUME PathInit PROVE PInv
  BY Zenon
<1>1. ranges = <<>> /\ Ordered(<<>>)
  BY DEF PathInit, HistoryInit, Ordered
<1> QED
  BY <1>1, PacketNumbersAssumption DEF PathInit, Init, PInv

\* What the steps of a path do to the history of received packets.
LEMMA PathStep ==
    ASSUME PInv, [PathNext]_pathVars
    PROVE  /\ PInv'
           /\ \/ UNCHANGED ranges
              \/ \E p \in 1 .. MaxPacketNumber : ranges' = Received(ranges, p)
              \/ \E p \in 0 .. MaxPacketNumber : ranges' = Deleted(ranges, p)
<1>1. ASSUME NEW leastUnacked \in 1 .. next, NEW skip \in Skips,
             next <= MaxPacketNumber, Send(leastUnacked, skip), UNCHANGED ranges
      PROVE  PInv'
  <2> DEFINE len == GetPacketNumberLengthForPublicHeader(next, leastUnacked)
             m == [number |-> next, len |-> len, wire |-> next % Epoch[len],
                   leastUnacked |-> leastUnacked]
  <2>1. len \in {2, 4, 6} /\ next - leastUnacked < Epoch[len] \div 2
    <3>1. next \in 1 .. MaxPacketNumber
      BY <1>1, PacketNumbersAssumption DEF PInv
    <3> QED
      BY <3>1, LengthCovers, Zenon
  <2> HIDE DEF len
  <2>2. SentPacket(m)
    BY <1>1, <2>1, PacketNumbersAssumption DEF PInv, SentPacket
  <2>3. packets' = packets \cup {m} /\ largestRcvdPacketNumber' = largestRcvdPacketNumber
    BY <1>1, Zenon DEF Send, len
  <2> HIDE DEF m
  <2>4. \A x \in packets' : SentPacket(x)
    BY <2>2, <2>3, Zenon DEF PInv
  <2>5. next' \in Nat \ {0} /\ nextToSkip' = 0 /\ lastSkipped' = 0
    BY <1>1 DEF Send, Pop, PInv
  <2> QED
    BY <1>1, <2>3, <2>4, <2>5, Zenon DEF PInv, SentPacket
<1>2. ASSUME NEW m \in packets, Arrive(m)
      PROVE  /\ PInv'
             /\ UNCHANGED ranges
                \/ \E p \in 1 .. MaxPacketNumber : ranges' = Received(ranges, p)
  <2>1. m.number \in 1 .. MaxPacketNumber /\ m.number \in Nat \ {0}
    BY PacketNumbersAssumption DEF PInv, SentPacket
  <2>2. /\ UNCHANGED <<next, nextToSkip, packets, lastSkipped>>
        /\ largestRcvdPacketNumber' = Max({largestRcvdPacketNumber, m.number})
        /\ ranges' = Received(ranges, m.number) \/ UNCHANGED ranges
    BY <1>2, Zenon DEF Arrive, ReceivedPacket, ReceivedPacketRejected
  <2>3. largestRcvdPacketNumber' \in 0 .. MaxPacketNumber
    <3>1. largestRcvdPacketNumber \in Int /\ m.number \in Int
      BY <2>1, PacketNumbersAssumption DEF PInv
    <3> QED
      BY <2>1, <2>2, <3>1, MaxOfTwo DEF PInv
  <2>4. Ordered(ranges')
    BY <2>1, <2>2, ReceivedAdds DEF PInv
  <2> QED
    BY <2>1, <2>2, <2>3, <2>4, Zenon DEF PInv, SentPacket
<1>3. ASSUME NEW m \in packets, Drop(m), UNCHANGED ranges PROVE PInv'
  BY <1>3, Zenon DEF Drop, PInv, SentPacket
<1>4. ASSUME NEW leastUnacked \in 1 .. largestRcvdPacketNumber, StopWaiting(leastUnacked)
      PROVE  /\ PInv'
             /\ \E p \in 0 .. MaxPacketNumber : ranges' = Deleted(ranges, p)
  <2>1. leastUnacked - 1 \in 0 .. MaxPacketNumber /\ leastUnacked - 1 \in Nat
    BY PacketNumbersAssumption DEF PInv
  <2>2. ranges' = Deleted(ranges, leastUnacked - 1) /\ UNCHANGED vars
    BY <1>4, Zenon DEF StopWaiting, DeleteUpTo
  <2>3. Ordered(ranges')
    BY <2>1, <2>2, DeletedRemoves, Zenon DEF PInv
  <2> QED
    BY <2>1, <2>2, <2>3, Zenon DEF PInv, SentPacket, vars
<1>5. CASE UNCHANGED pathVars
  BY <1>5, Zenon DEF pathVars, vars, PInv, SentPacket
<1> QED
  BY <1>1, <1>2, <1>3, <1>4, <1>5, Zenon DEF PathNext, pathVars

\* Every state of a path satisfies the invariant.
LEMMA PathInvariant == PathSpec => []PInv
<1>1. PInv /\ [PathNext]_pathVars => PInv'
  BY PathStep, Zenon
<1> QED
  BY <1>1, PathInitHolds, PTL DEF PathSpec

\* In every state the length that the sender chose for a packet is enough for
\* the receiver, whatever the epochs, the order of arrival and the losses:
\* getPublicHeader and InferPacketNumber fit together.
THEOREM LengthAlwaysSuffices == PathSpec => []LengthSuffices
<1>1. PInv => LengthSuffices
  <2> SUFFICES ASSUME PInv, NEW m \in packets,
                      m.leastUnacked <= largestRcvdPacketNumber + 1,
                      largestRcvdPacketNumber + 1
                          < m.number + (Epoch[m.len] \div 2)
               PROVE  Inferred(m) = m.number
    BY Zenon DEF LengthSuffices
  <2>1. SentPacket(m)
    BY Zenon DEF PInv
  <2>2. Epoch[m.len] \in Nat \ {0} /\ Epoch[m.len] <= Epoch[6]
    BY <2>1, EpochIsPositive, Zenon DEF SentPacket
  <2>3. largestRcvdPacketNumber \in Nat /\ m.number \in Nat
    BY <2>1, PacketNumbersAssumption DEF PInv, SentPacket
  <2>4. largestRcvdPacketNumber + 3 * Epoch[m.len] <= Wrap /\ Wrap \in Nat
    BY <2>2, <2>3, PacketNumbersAssumption DEF PInv
  <2>5. m.number < largestRcvdPacketNumber + 1 + (Epoch[m.len] \div 2)
    BY <2>1, <2>2, <2>3 DEF SentPacket
  <2> QED
    BY <2>1, <2>2, <2>3, <2>4, <2>5, InferIsExact, Zenon DEF Inferred, SentPacket
<1> QED
  BY <1>1, PathInvariant, PTL

\* The list of intervals of receivedPacketHistory implements the set of received
\* numbers: an arrival adds exactly its number, a STOP_WAITING frame removes
\* exactly the numbers below its LeastUnacked, and there is one interval for each
\* maximal run of numbers, for any number of packets and of ranges.
THEOREM HistoryImplementsSet == PathSpec => ImplementsSet
<1>1. PathInit => Packets!Init
  <2>1. PathInit => ranges = <<>>
    BY Zenon DEF PathInit, HistoryInit
  <2>2. ranges = <<>> => Covered(ranges) = {}
    BY DEF Covered
  <2> QED
    BY <2>1, <2>2, Zenon DEF Packets!Init
<1>2. PInv /\ [PathNext]_pathVars => [Packets!Next]_(Covered(ranges))
  <2> SUFFICES ASSUME PInv, [PathNext]_pathVars
               PROVE  Packets!Next \/ Covered(ranges)' = Covered(ranges)
    BY Zenon
  <2>1. Ordered(ranges)
    BY Zenon DEF PInv
  <2>2. CASE UNCHANGED ranges
    BY <2>2, Zenon DEF Covered
  <2>3. ASSUME NEW p \in 1 .. MaxPacketNumber, ranges' = Received(ranges, p)
        PROVE  Packets!Next
    <3>1. p \in Nat \ {0}
      BY PacketNumbersAssumption
    <3>2. Covered(ranges') = Covered(ranges) \cup {p}
      BY <2>1, <2>3, <3>1, ReceivedAdds, Zenon
    <3>3. Packets!Add(p)
      BY <3>2, Zenon DEF Packets!Add
    <3> QED
      BY <3>3, Zenon DEF Packets!Next, Packets!PacketNumbers
  <2>4. ASSUME NEW p \in 0 .. MaxPacketNumber, ranges' = Deleted(ranges, p)
        PROVE  Packets!Next
    <3>1. p \in Nat
      BY PacketNumbersAssumption
    <3>2. Covered(ranges') = Covered(ranges) \ (1 .. p)
      BY <2>1, <2>4, <3>1, DeletedRemoves, Zenon
    <3>3. Packets!RemoveUpTo(p)
      BY <3>2, Zenon DEF Packets!RemoveUpTo
    <3> QED
      BY <3>3, Zenon DEF Packets!Next
  <2> QED
    BY <2>2, <2>3, <2>4, PathStep, Zenon
<1>3. PInv => RangesAreMaximal
  BY OneIntervalPerRun, Zenon DEF PInv
<1>4. PathSpec => Packets!Spec
  BY <1>1, <1>2, PathInvariant, PTL DEF PathSpec, Packets!Spec
<1>5. PathSpec => []RangesAreMaximal
  BY <1>3, PathInvariant, PTL
<1> QED
  BY <1>4, <1>5, PTL DEF ImplementsSet

\* packetNumberGenerator skips no number on any path: nextToSkip, which only a
\* skip sets, stays 0, and next never comes back to it.
THEOREM NoNumberIsSkipped == PathSpec => [](lastSkipped = 0)
<1>1. PInv => lastSkipped = 0
  BY Zenon DEF PInv
<1> QED
  BY <1>1, PathInvariant, PTL
=============================================================================
