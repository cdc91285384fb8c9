---------------------------- MODULE StreamProofs ----------------------------
(***************************************************************************)
(* A stream, for every value of the constants: what Write reports and the  *)
(* final offset (Stream), and the frames and gaps of the frame sorter,     *)
(* which implements ByteStream (StreamFrameSorter).                        *)
(***************************************************************************)
EXTENDS Stream, StreamFrameSorter,
        WellFoundedInduction, TLAPS

\* The part of the state that the writing half is about.
WriteTypeOK ==
    /\ dataForWriting \in Nat /\ writeOffset \in Nat
    /\ writeLen \in Nat /\ reported \in Nat
    /\ writer \in {"idle", "blocked", "woken"}
    /\ now \in Nat
    /\ writeDeadline \in WriteDeadlines \cup {0}

\* FIN is announced, or about to be, only when nothing is left and no Write can
\* add to it; RST_STREAM only with an error, which stops the framer.
FinalOK ==
    /\ finSent \/ framer = "sentFin" => finishedWriting /\ dataForWriting = 0
    /\ resets # {} => rstSent /\ err # "nil"

NoDeadlinePassed == \A t \in WriteDeadlines : now < t

\* What the Write calls returned, with what is already taken of the current one,
\* is what the framer took; between two calls nothing is left to be taken.
WriteOK ==
    /\ writer = "idle" =>
         /\ reported <= writeOffset
         /\ NoDeadlinePassed => /\ reported = writeOffset
                                /\ dataForWriting = 0 \/ err # "nil"
    /\ writer # "idle" =>
         /\ dataForWriting <= writeLen
         /\ reported + (writeLen - dataForWriting) <= writeOffset
         /\ NoDeadlinePassed =>
              reported + (writeLen - dataForWriting) = writeOffset

WInv == WriteTypeOK /\ FinalOK /\ WriteOK

-----------------------------------------------------------------------------

\* While no deadline has passed, a Write does not time out.
LEMMA NotExpired ==
    ASSUME WriteTypeOK, NoDeadlinePassed
    PROVE  ~ Expired(writeDeadline)
BY StreamAssumption DEF WriteTypeOK, NoDeadlinePassed, Expired

\* getDataForWriting takes at most what is there, and nothing after an error.
LEMMA TakenBounded ==
    ASSUME WriteTypeOK, NEW maxLen \in 1 .. MaxOffset
    PROVE  /\ Taken(maxLen) \in Nat
           /\ Taken(maxLen) <= dataForWriting
           /\ err # "nil" => Taken(maxLen) = 0
BY StreamAssumption DEF WriteTypeOK, Taken

\* The loop of Write keeps the balance of WriteOK, whether it returns or waits.
LEMMA WriteOrWaitKeeps ==
    ASSUME WriteTypeOK, NEW len \in Nat, NEW data \in Nat, data <= len,
           reported + (len - data) <= writeOffset,
           NoDeadlinePassed => reported + (len - data) = writeOffset,
           WriteOrWait(len, data), dataForWriting' = data,
           UNCHANGED <<writeOffset, err, now, writeDeadline>>
    PROVE  /\ writer' \in {"idle", "blocked"}
           /\ writeLen' \in Nat /\ reported' \in Nat
           /\ WriteOK'
<1>1. NoDeadlinePassed' <=> NoDeadlinePassed
  BY Zenon DEF NoDeadlinePassed
<1>2. CASE Expired(writeDeadline)
  <2>1. WriteReturns(0)
    BY <1>2, Zenon DEF WriteOrWait
  <2>2. ~ NoDeadlinePassed
    BY <1>2, NotExpired, Zenon
  <2> QED
    BY <1>1, <2>1, <2>2 DEF WriteReturns, WriteTypeOK, WriteOK
<1>3. CASE ~ Expired(writeDeadline) /\ (data = 0 \/ err # "nil")
  <2>1. WriteReturns(len - data)
    BY <1>3, Zenon DEF WriteOrWait
  <2> QED
    BY <1>1, <1>3, <2>1 DEF WriteReturns, WriteTypeOK, WriteOK
<1>4. CASE ~ Expired(writeDeadline) /\ ~ (data = 0 \/ err # "nil")
  <2>1. writer' = "blocked" /\ writeLen' = len /\ reported' = reported
    BY <1>4, Zenon DEF WriteOrWait
  <2> QED
    BY <1>1, <2>1, Zenon DEF WriteTypeOK, WriteOK
<1> QED
  BY <1>2, <1>3, <1>4, Zenon

-----------------------------------------------------------------------------

LEMMA InitWInv == Init => WInv
<1> SUFFICES ASSUME Init PROVE WInv
  BY Zenon
<1>1. WriteTypeOK
  BY Zenon DEF Init, WriteTypeOK
<1>2. FinalOK
  BY Zenon DEF Init, FinalOK
<1>3. WriteOK
  BY DEF Init, WriteOK
<1> QED
  BY <1>1, <1>2, <1>3, Zenon DEF WInv

\* The steps that change nothing the invariant is about.
LEMMA Untouched ==
    ASSUME WInv,
           UNCHANGED <<writing, writeCall, resetting, writeDeadline, now, framer>>,
           err # "nil" => err' # "nil"
    PROVE  WInv'
BY Zenon DEF WInv, WriteTypeOK, FinalOK, WriteOK, NoDeadlinePassed, writing, writeCall,
       resetting

\* A reset is announced once, and with an error that is already set.
LEMMA ResetKeeps ==
    ASSUME WInv, MaybeSendReset, err' # "nil",
           UNCHANGED <<writing, writeCall, writeDeadline, now, framer>>
    PROVE  WInv'
BY Zenon DEF WInv, WriteTypeOK, FinalOK, WriteOK, NoDeadlinePassed, writing, writeCall,
       resetting, MaybeSendReset

LEMMA StepWInv == WInv /\ [Next]_vars => WInv'
<1> SUFFICES ASSUME WInv, [Next]_vars
             PROVE  WInv'
  BY Zenon
<1> USE DEF failure, resetting, deadlines, chans
<1>1. CASE UNCHANGED vars
  BY <1>1, Untouched, Zenon DEF vars
<1>2. ASSUME NEW n \in 1 .. NumFrames, ReadCall(n)
      PROVE  WInv'
  BY <1>2, Untouched, Zenon DEF ReadCall
<1>3. ASSUME NEW n \in 1 .. MaxOffset - writeOffset, WriteCall(n)
      PROVE  WInv'
  <2>1. n \in Nat /\ n > 0
    BY <1>3
  <2>2. /\ reported + (n - n) <= writeOffset
        /\ NoDeadlinePassed => reported + (n - n) = writeOffset
    BY <1>3, <2>1 DEF WriteCall, WInv, WriteOK, WriteTypeOK
  <2>3. /\ writer' \in {"idle", "blocked"}
        /\ writeLen' \in Nat /\ reported' \in Nat
        /\ WriteOK'
    BY <1>3, <2>1, <2>2, WriteOrWaitKeeps DEF WriteCall, WInv
  <2>4. WriteTypeOK' /\ FinalOK'
    BY <1>3, <2>1, <2>3, Zenon DEF WriteCall, WInv, WriteTypeOK, FinalOK
  <2> QED
    BY <2>3, <2>4, Zenon DEF WInv
<1>4. CASE Close
  BY <1>4, Zenon DEF Close, WInv, WriteTypeOK, FinalOK, WriteOK, NoDeadlinePassed, writeCall
<1>5. CASE Reset
  BY <1>5, ResetKeeps, Zenon DEF Reset
<1>6. ASSUME NEW t \in ReadDeadlines, SetReadDeadline(t)
      PROVE  WInv'
  BY <1>6, Untouched, Zenon DEF SetReadDeadline
<1>7. ASSUME NEW t \in WriteDeadlines, SetWriteDeadline(t)
      PROVE  WInv'
  BY <1>7, Zenon DEF SetWriteDeadline, WInv, WriteTypeOK, FinalOK, WriteOK,
              NoDeadlinePassed, writing, writeCall
<1>8. CASE Reader
  BY <1>8, Untouched, Zenon DEF Reader, ReadHead, ReadWake, ReadAgain, ReadCopy
<1>9. CASE WriteWake
  BY <1>9, Zenon DEF WriteWake, WInv, WriteTypeOK, FinalOK, WriteOK, NoDeadlinePassed, writing
<1>10. CASE WriteAgain
  <2>1. /\ writer' \in {"idle", "blocked"}
        /\ writeLen' \in Nat /\ reported' \in Nat
        /\ WriteOK'
    <3>1. /\ writeLen \in Nat /\ dataForWriting \in Nat
          /\ dataForWriting <= writeLen
          /\ reported + (writeLen - dataForWriting) <= writeOffset
          /\ NoDeadlinePassed =>
               reported + (writeLen - dataForWriting) = writeOffset
      BY <1>10, Zenon DEF WriteAgain, WInv, WriteOK, WriteTypeOK
    <3> QED
      BY <1>10, <3>1, WriteOrWaitKeeps, Zenon DEF WriteAgain, WInv, writing
  <2> QED
    BY <1>10, <2>1, Zenon DEF WriteAgain, WInv, WriteTypeOK, FinalOK, writing
<1>11. CASE PopLen \/ PopFin
  BY <1>11 DEF PopLen, PopFin, shouldSendFin, WInv, WriteTypeOK, FinalOK, WriteOK,
               NoDeadlinePassed, writing, writeCall
<1>12. CASE sentFin
  BY <1>12, Zenon DEF sentFin, WInv, WriteTypeOK, FinalOK, WriteOK, NoDeadlinePassed, writeCall
<1>13. ASSUME NEW maxLen \in 1 .. MaxOffset, getDataForWriting(maxLen)
       PROVE  WInv'
  <2>1. /\ Taken(maxLen) \in Nat
        /\ Taken(maxLen) <= dataForWriting
        /\ err # "nil" => Taken(maxLen) = 0
    BY <1>13, TakenBounded, Zenon DEF WInv
  <2>2. /\ dataForWriting' = dataForWriting - Taken(maxLen)
        /\ writeOffset' = writeOffset + Taken(maxLen)
        /\ framer' = "fin"
        /\ UNCHANGED <<finishedWriting, finSent, err, writeCall, rstSent, resets,
                       writeDeadline, now>>
    BY <1>13, Zenon DEF getDataForWriting
  <2> QED
    BY <2>1, <2>2 DEF WInv, WriteTypeOK, FinalOK, WriteOK, NoDeadlinePassed, writeCall
<1>14. ASSUME NEW i \in 1 .. NumFrames, AddStreamFrame(i)
       PROVE  WInv'
  BY <1>14, Untouched, Zenon DEF AddStreamFrame
<1>15. CASE RegisterRemoteError
  BY <1>15, ResetKeeps, Zenon DEF RegisterRemoteError
<1>16. CASE Cancel
  BY <1>16, Untouched, Zenon DEF Cancel
<1>17. CASE Tick
  <2>1. NoDeadlinePassed' => NoDeadlinePassed
    BY <1>17, StreamAssumption DEF Tick, WInv, WriteTypeOK, NoDeadlinePassed
  <2> QED
    BY <1>17, <2>1 DEF Tick, WInv, WriteTypeOK, FinalOK, WriteOK, writing, writeCall
<1> QED
  BY <1>1, <1>2, <1>3, <1>4, <1>5, <1>6, <1>7, <1>8, <1>9, <1>10, <1>11, <1>12,
     <1>13, <1>14, <1>15, <1>16, <1>17, Zenon
     DEF Next, Application, Writer, Session

LEMMA Invariance == Spec => []WInv
BY InitWInv, StepWInv, PTL DEF Spec

-----------------------------------------------------------------------------

\* In every behaviour, what Write calls returned is what the framer took for
\* packets, until a write deadline passes, and never more than that.
THEOREM WriteAlwaysReportsSent == Spec => []WriteReportsSent
<1>1. WInv => WriteReportsSent
  BY Zenon DEF WInv, WriteOK, WriteReportsSent, NoDeadlinePassed
<1> QED
  BY <1>1, Invariance, PTL

\* In every behaviour, once FIN or RST_STREAM gave the stream its length, no step
\* of Write, Close, Reset, the framer or the session changes it or announces
\* another one.
THEOREM FinalOffsetAlwaysStands == Spec => FinalOffsetStands
<1> DEFINE Stands == finSent \/ resets # {} =>
                       /\ writeOffset' = writeOffset
                       /\ resets # {} => resets' = resets
<1>1. ASSUME WInv, [Next]_vars
      PROVE  [Stands]_vars
  <2> USE DEF failure, resetting, deadlines, chans
  <2>1. CASE UNCHANGED vars
    BY <2>1, Zenon
  <2>2. ASSUME NEW maxLen \in 1 .. MaxOffset, getDataForWriting(maxLen)
        PROVE  Stands
    <3>1. finSent \/ resets # {} => Taken(maxLen) = 0
      BY <1>1, TakenBounded DEF WInv, FinalOK, WriteTypeOK
    <3>2. writeOffset' = writeOffset + Taken(maxLen) /\ resets' = resets
      BY <2>2, Zenon DEF getDataForWriting
    <3> QED
      BY <1>1, <3>1, <3>2 DEF WInv, WriteTypeOK
  <2>3. CASE Reset \/ RegisterRemoteError
    BY <1>1, <2>3, Zenon DEF Reset, RegisterRemoteError, MaybeSendReset, WInv, FinalOK, writing
  <2>4. CASE Reader \/ Writer
    BY <2>4, Zenon DEF Reader, Writer, ReadHead, ReadWake, ReadAgain, ReadCopy, WriteWake,
                WriteAgain, writing
  <2>5. ASSUME NEW n, WriteCall(n) \/ ReadCall(n) \/ SetReadDeadline(n)
                      \/ SetWriteDeadline(n) \/ AddStreamFrame(n)
        PROVE  Stands
    BY <2>5, Zenon DEF WriteCall, ReadCall, SetReadDeadline, SetWriteDeadline,
                AddStreamFrame, writing
  <2>6. CASE Close \/ PopLen \/ PopFin \/ sentFin \/ Cancel \/ Tick
    BY <2>6, Zenon DEF Close, PopLen, PopFin, sentFin, Cancel, Tick, writing
  <2> QED
    BY <1>1, <2>1, <2>2, <2>3, <2>4, <2>5, <2>6, Zenon DEF Next, Application, Session
<1> QED
  BY <1>1, Invariance, PTL DEF Spec, FinalOffsetStands
-----------------------------------------------------------------------------
(* The frame sorter: lists of gaps.                                        *)

\* The concatenation of two lists.
LEMMA Joined ==
    ASSUME NEW S, NEW a \in Seq(S), NEW b \in Seq(S)
    PROVE  /\ a \o b \in Seq(S) /\ Len(a \o b) = Len(a) + Len(b)
           /\ \A j \in 1 .. Len(a) + Len(b) :
                 (a \o b)[j] = IF j <= Len(a) THEN a[j] ELSE b[j - Len(a)]
OBVIOUS

\* A nonempty set of natural numbers has a least element.
LEMMA LeastNatural ==
    ASSUME NEW S \in SUBSET Nat, S # {}
    PROVE  \E m \in S : \A x \in S : m <= x
<1>1. PICK m \in S : \A y \in S : ~(<<y, m>> \in OpToRel(<, Nat))
  BY NatLessThanWellFounded, WFMin, Zenon
<1>2. ASSUME NEW x \in S
      PROVE  m <= x
  <2>1. m \in Nat /\ x \in Nat
    BY Zenon
  <2>2. ~(x < m)
    BY <1>1, <2>1, Zenon DEF OpToRel
  <2> QED
    BY <2>1, <2>2
<1> QED
  BY <1>2, Zenon

Gap == [Start : Nat, End : Nat]

\* The gaps of a list are in order, with data between them.
Apart(q) ==
    /\ q \in Seq(Gap)
    /\ \A i \in 1 .. Len(q) : q[i].Start < q[i].End
    /\ \A i, j \in 1 .. Len(q) : i < j => q[i].End < q[j].Start

Before(p, q) == \A i \in 1 .. Len(p) : \A j \in 1 .. Len(q) : p[i].End < q[j].Start

InGaps(q, b) == \E i \in 1 .. Len(q) : q[i].Start <= b /\ b < q[i].End

\* The bounds of the gaps are numbers.
LEMMA ApartNaturals ==
    ASSUME NEW q, Apart(q)
    PROVE  \A k \in 1 .. Len(q) : q[k].Start \in Nat /\ q[k].End \in Nat
<1>1. q \in Seq(Gap)
  BY Zenon DEF Apart
<1>2. \A k \in 1 .. Len(q) : q[k] \in Gap
  BY <1>1
<1> QED
  BY <1>2, Zenon DEF Gap

\* The gaps rise with their index.
LEMMA ApartRises ==
    ASSUME NEW q, Apart(q), NEW i \in 1 .. Len(q), NEW j \in 1 .. Len(q), i <= j
    PROVE  q[i].Start <= q[j].Start /\ q[i].End <= q[j].End
<1>1. Len(q) \in Nat /\ i \in Int /\ j \in Int
  BY DEF Apart
<1>2. /\ q[i].Start \in Nat /\ q[i].End \in Nat
      /\ q[j].Start \in Nat /\ q[j].End \in Nat
  BY ApartNaturals, Zenon
<1>3. q[i].Start < q[i].End /\ q[j].Start < q[j].End /\ (i < j => q[i].End < q[j].Start)
  BY Zenon DEF Apart
<1>4. CASE i = j
  BY <1>2, <1>4
<1>5. CASE i < j
  BY <1>2, <1>3, <1>5
<1> QED
  BY <1>1, <1>4, <1>5

\* A list of gaps before another one.
LEMMA ApartJoined ==
    ASSUME NEW p, NEW q, Apart(p), Apart(q), Before(p, q)
    PROVE  /\ Apart(p \o q)
           /\ \A b : InGaps(p \o q, b) <=> InGaps(p, b) \/ InGaps(q, b)
<1> DEFINE r == p \o q
           m == Len(p)
           n == Len(q)
<1>1. p \in Seq(Gap) /\ q \in Seq(Gap) /\ m \in Nat /\ n \in Nat
  BY DEF Apart
<1>2. /\ r \in Seq(Gap) /\ Len(r) = m + n
      /\ \A j \in 1 .. m + n : r[j] = IF j <= m THEN p[j] ELSE q[j - m]
  BY <1>1, Joined, Zenon
<1> HIDE DEF r, m, n
<1>3. /\ \A i \in 1 .. m : i \in 1 .. m + n /\ r[i] = p[i]
      /\ \A j \in 1 .. n : m + j \in 1 .. m + n /\ r[m + j] = q[j]
      /\ \A k \in 1 .. m + n : k \in 1 .. m \/ (k - m \in 1 .. n /\ ~ (k <= m))
  BY <1>1, <1>2
<1>4. ASSUME NEW k \in 1 .. m + n PROVE r[k].Start < r[k].End
  <2>1. CASE k \in 1 .. m
    BY <1>3, <2>1, Zenon DEF Apart, m
  <2>2. CASE k - m \in 1 .. n /\ ~ (k <= m)
    <3>1. r[k] = q[k - m]
      BY <1>2, <2>2, Zenon
    <3> QED
      BY <2>2, <3>1, Zenon DEF Apart, n
  <2> QED
    BY <1>3, <2>1, <2>2, Zenon
<1>5. ASSUME NEW k \in 1 .. m + n, NEW l \in 1 .. m + n, k < l PROVE r[k].End < r[l].Start
  <2>1. CASE l \in 1 .. m
    <3>1. k \in 1 .. m /\ r[k] = p[k] /\ r[l] = p[l]
      BY <1>1, <1>2, <1>5, <2>1
    <3> QED
      BY <1>5, <2>1, <3>1, Zenon DEF Apart, m
  <2>2. CASE l - m \in 1 .. n /\ ~ (l <= m)
    <3>1. r[l] = q[l - m]
      BY <1>2, <2>2, Zenon
    <3>2. CASE k \in 1 .. m
      BY <1>3, <2>2, <3>1, <3>2, Zenon DEF Before, m, n
    <3>3. CASE k - m \in 1 .. n /\ ~ (k <= m)
      <4>1. r[k] = q[k - m]
        BY <1>2, <3>3, Zenon
      <4>2. k - m < l - m
        BY <1>1, <1>5
      <4> QED
        BY <2>2, <3>1, <3>3, <4>1, <4>2, Zenon DEF Apart, n
    <3> QED
      BY <1>3, <3>2, <3>3, Zenon
  <2> QED
    BY <1>3, <2>1, <2>2, Zenon
<1>6. Apart(r)
  BY <1>2, <1>4, <1>5, Zenon DEF Apart
<1>7. ASSUME NEW b PROVE InGaps(r, b) <=> InGaps(p, b) \/ InGaps(q, b)
  <2>1. ASSUME NEW i \in 1 .. m, p[i].Start <= b, b < p[i].End PROVE InGaps(r, b)
    BY <1>2, <1>3, <2>1, Zenon DEF InGaps
  <2>2. ASSUME NEW j \in 1 .. n, q[j].Start <= b, b < q[j].End PROVE InGaps(r, b)
    BY <1>2, <1>3, <2>2, Zenon DEF InGaps
  <2>3. ASSUME NEW k \in 1 .. m + n, r[k].Start <= b, b < r[k].End
        PROVE  InGaps(p, b) \/ InGaps(q, b)
    <3>1. CASE k \in 1 .. m
      BY <1>3, <2>3, <3>1, Zenon DEF InGaps, m
    <3>2. CASE k - m \in 1 .. n /\ ~ (k <= m)
      <4>1. r[k] = q[k - m]
        BY <1>2, <3>2, Zenon
      <4> QED
        BY <2>3, <3>2, <4>1, Zenon DEF InGaps, n
    <3> QED
      BY <1>3, <3>1, <3>2, Zenon
  <2> QED
    BY <1>2, <2>1, <2>2, <2>3, Zenon DEF InGaps, m, n
<1> QED
  BY <1>6, <1>7, Zenon DEF r

LEMMA BeforeJoined ==
    ASSUME NEW p, NEW q, NEW r, Apart(p), Apart(q), Before(p, r), Before(q, r)
    PROVE  Before(p \o q, r)
<1> DEFINE m == Len(p)
           n == Len(q)
           t == p \o q
<1>1. p \in Seq(Gap) /\ q \in Seq(Gap) /\ m \in Nat /\ n \in Nat
  BY DEF Apart
<1>2. /\ Len(t) = m + n
      /\ \A j \in 1 .. m + n : t[j] = IF j <= m THEN p[j] ELSE q[j - m]
  BY <1>1, Joined, Zenon
<1> HIDE DEF m, n, t
<1>3. ASSUME NEW k \in 1 .. m + n, NEW j \in 1 .. Len(r) PROVE t[k].End < r[j].Start
  <2>1. CASE k <= m
    <3>1. k \in 1 .. m /\ t[k] = p[k]
      BY <1>1, <1>2, <2>1
    <3> QED
      BY <1>3, <3>1, Zenon DEF Before, m
  <2>2. CASE ~ (k <= m)
    <3>1. k - m \in 1 .. n /\ t[k] = q[k - m]
      BY <1>1, <1>2, <2>2
    <3> QED
      BY <1>3, <3>1, Zenon DEF Before, n
  <2> QED
    BY <2>1, <2>2, Zenon
<1> QED
  BY <1>2, <1>3, Zenon DEF Before, t

\* A part of the list.
LEMMA ApartPart ==
    ASSUME NEW q, Apart(q), NEW m \in 1 .. Len(q) + 1, NEW n \in m - 1 .. Len(q)
    PROVE  LET t == SubSeq(q, m, n)
           IN  /\ Apart(t) /\ Len(t) = n - m + 1
               /\ \A k \in 1 .. n - m + 1 : t[k] = q[k + m - 1] /\ k + m - 1 \in m .. n
<1> DEFINE t == SubSeq(q, m, n)
<1>1. q \in Seq(Gap) /\ Len(q) \in Nat /\ DOMAIN q = 1 .. Len(q) /\ m \in Int /\ n \in Int
  BY DEF Apart
<1>2. \A k \in m .. n : k \in 1 .. Len(q) /\ q[k] \in Gap
  BY <1>1
<1>3. /\ t \in Seq(Gap) /\ Len(t) = n - m + 1
      /\ \A k \in 1 .. n - m + 1 : t[k] = q[m + k - 1]
  BY <1>1, <1>2
<1>4. \A k \in 1 .. n - m + 1 : m + k - 1 = k + m - 1 /\ k + m - 1 \in m .. n
  BY <1>1
<1> HIDE DEF t
<1>5. \A k \in 1 .. n - m + 1 : t[k] = q[k + m - 1]
  BY <1>3, <1>4, Zenon
<1>6. ASSUME NEW k \in 1 .. n - m + 1 PROVE t[k].Start < t[k].End
  <2>1. k + m - 1 \in 1 .. Len(q)
    BY <1>2, <1>4, Zenon
  <2>2. q[k + m - 1].Start < q[k + m - 1].End
    BY <2>1, Zenon DEF Apart
  <2> QED
    BY <1>5, <2>2, Zenon
<1>7. ASSUME NEW k \in 1 .. n - m + 1, NEW l \in 1 .. n - m + 1, k < l
      PROVE  t[k].End < t[l].Start
  <2>1. k + m - 1 < l + m - 1
    BY <1>1, <1>7
  <2>2. q[k + m - 1].End < q[l + m - 1].Start
    BY <1>2, <1>4, <1>7, <2>1, Zenon DEF Apart
  <2> QED
    BY <1>5, <1>7, <2>2, Zenon
<1>8. Apart(t)
  BY <1>3, <1>6, <1>7, Zenon DEF Apart
<1> QED
  BY <1>3, <1>4, <1>5, <1>8, Zenon DEF t

\* A list of at most one gap.
LEMMA ApartOne ==
    ASSUME NEW a \in Nat, NEW z \in Nat, a < z, NEW q,
           q = <<[Start |-> a, End |-> z]>>
    PROVE  /\ Apart(q) /\ Len(q) = 1 /\ q[1].Start = a /\ q[1].End = z
           /\ \A b : InGaps(q, b) <=> a <= b /\ b < z
<1>1. Len(q) = 1 /\ q[1] = [Start |-> a, End |-> z]
  BY Zenon
<1>2. q[1].Start = a /\ q[1].End = z
  BY <1>1, Zenon
<1>3. q \in Seq(Gap)
  <2>1. [Start |-> a, End |-> z] \in Gap
    BY Zenon DEF Gap
  <2> QED
    BY <2>1
<1>4. \A i \in 1 .. 1 : i = 1
  OBVIOUS
<1> QED
  BY <1>1, <1>2, <1>3, <1>4 DEF Apart, InGaps

LEMMA ApartNone ==
    ASSUME NEW q, q = << >>
    PROVE  Apart(q) /\ Len(q) = 0 /\ (\A b : ~ InGaps(q, b))
<1>1. Len(q) = 0 /\ q \in Seq(Gap)
  OBVIOUS
<1>2. 1 .. 0 = {}
  OBVIOUS
<1> QED
  BY <1>1, <1>2, Zenon DEF Apart, InGaps

-----------------------------------------------------------------------------
(* Taking the bytes of a frame out of the gaps.                            *)

\* What is left of the gaps g to e around the bytes from a to y.
LEMMA GapsCut ==
    ASSUME Apart(gaps), NEW g \in 1 .. Len(gaps), NEW e \in g .. Len(gaps),
           NEW a \in Nat, NEW y \in Nat,
           gaps[g].Start <= a, a <= gaps[g].End,
           gaps[e].Start < y, y <= gaps[e].End, a <= y, a < y \/ y = gaps[e].End
    PROVE  LET t == SubSeq(gaps, 1, g - 1) \o Remainder(g, e, a, y)
                    \o SubSeq(gaps, e + 1, Len(gaps))
           IN  /\ Apart(t)
               /\ \A b \in Nat : InGaps(t, b) <=> InGaps(gaps, b) /\ ~ (a <= b /\ b < y)
<1> DEFINE t == SubSeq(gaps, 1, g - 1) \o Remainder(g, e, a, y)
                \o SubSeq(gaps, e + 1, Len(gaps))
           n == Len(gaps)
           left == SubSeq(gaps, 1, g - 1)
           right == SubSeq(gaps, e + 1, n)
           A == IF a = gaps[g].Start THEN << >> ELSE <<[Start |-> gaps[g].Start, End |-> a]>>
           B == IF y = gaps[e].End THEN << >> ELSE <<[Start |-> y, End |-> gaps[e].End]>>
<1>1. /\ n \in Nat
      /\ \A i \in 1 .. n : /\ gaps[i].Start \in Nat /\ gaps[i].End \in Nat
                           /\ gaps[i].Start < gaps[i].End
      /\ \A i, j \in 1 .. n : i < j => gaps[i].End < gaps[j].Start
  <2>1. gaps \in Seq(Gap) /\ n \in Nat
    BY DEF Apart
  <2>2. \A i \in 1 .. n : gaps[i].Start \in Nat /\ gaps[i].End \in Nat
    BY ApartNaturals, Zenon
  <2> QED
    BY <2>1, <2>2, Zenon DEF Apart
<1>2. t = (left \o (A \o B)) \o right
  BY Zenon DEF Remainder
<1> HIDE DEF t
<1>3. g \in 1 .. n /\ e \in 1 .. n /\ g <= e
  BY <1>1
<1>4. /\ Apart(left) /\ Len(left) = g - 1
      /\ \A k \in 1 .. g - 1 : left[k] = gaps[k]
  <2>1. 1 \in 1 .. Len(gaps) + 1 /\ g - 1 \in 1 - 1 .. Len(gaps) /\ g - 1 - 1 + 1 = g - 1
    BY <1>1, <1>3
  <2>2. /\ Apart(left) /\ Len(left) = g - 1 - 1 + 1
        /\ \A k \in 1 .. g - 1 - 1 + 1 : left[k] = gaps[k + 1 - 1]
    BY <2>1, ApartPart, Zenon
  <2>3. \A k \in 1 .. g - 1 : k + 1 - 1 = k
    BY <1>3
  <2> HIDE DEF left
  <2> QED
    BY <2>1, <2>2, <2>3, Zenon
<1>5. /\ Apart(right) /\ Len(right) = n - e
      /\ \A k \in 1 .. n - e : right[k] = gaps[k + e] /\ k + e \in e + 1 .. n
  <2>1. e + 1 \in 1 .. Len(gaps) + 1 /\ n \in (e + 1) - 1 .. Len(gaps) /\ n - (e + 1) + 1 = n - e
    BY <1>1, <1>3
  <2>2. /\ Apart(right) /\ Len(right) = n - (e + 1) + 1
        /\ \A k \in 1 .. n - (e + 1) + 1 : right[k] = gaps[k + (e + 1) - 1]
                                          /\ k + (e + 1) - 1 \in e + 1 .. n
    BY <2>1, ApartPart, Zenon
  <2>3. n - (e + 1) + 1 = n - e /\ \A k \in 1 .. n - e : k + (e + 1) - 1 = k + e
    BY <1>1, <1>3
  <2> HIDE DEF right
  <2>4. /\ Apart(right) /\ Len(right) = n - e
        /\ \A k \in 1 .. n - e : right[k] = gaps[k + (e + 1) - 1]
                                 /\ k + (e + 1) - 1 \in e + 1 .. n
    BY <2>2, <2>3, Zenon
  <2> QED
    BY <2>3, <2>4, Zenon
<1>6. /\ Apart(A) /\ \A i \in 1 .. Len(A) : A[i].Start = gaps[g].Start /\ A[i].End = a
      /\ \A b : InGaps(A, b) <=> gaps[g].Start <= b /\ b < a /\ a # gaps[g].Start
      /\ a = gaps[g].Start => Len(A) = 0
  <2>1. CASE a = gaps[g].Start
    <3>1. A = << >>
      BY <2>1, Zenon
    <3> HIDE DEF A
    <3>2. Apart(A) /\ Len(A) = 0 /\ \A b : ~ InGaps(A, b)
      BY <3>1, ApartNone, Zenon
    <3>3. 1 .. 0 = {}
      OBVIOUS
    <3> QED
      BY <2>1, <3>2, <3>3, Zenon
  <2>2. CASE a # gaps[g].Start
    <3>1. A = <<[Start |-> gaps[g].Start, End |-> a]>>
      BY <2>2, Zenon
    <3> HIDE DEF A
    <3>2. gaps[g].Start \in Nat /\ gaps[g].Start < a
      BY <1>1, <1>3, <2>2
    <3>3. /\ Apart(A) /\ Len(A) = 1 /\ A[1].Start = gaps[g].Start /\ A[1].End = a
          /\ \A b : InGaps(A, b) <=> gaps[g].Start <= b /\ b < a
      BY <3>1, <3>2, ApartOne
    <3>4. \A i \in 1 .. 1 : i = 1
      OBVIOUS
    <3> QED
      BY <2>2, <3>3, <3>4, Zenon
  <2> QED
    BY <2>1, <2>2, Zenon
<1>7. /\ Apart(B) /\ \A i \in 1 .. Len(B) : B[i].Start = y /\ B[i].End = gaps[e].End
      /\ \A b : InGaps(B, b) <=> y <= b /\ b < gaps[e].End /\ y # gaps[e].End
      /\ y = gaps[e].End => Len(B) = 0
  <2>1. CASE y = gaps[e].End
    <3>1. B = << >>
      BY <2>1, Zenon
    <3> HIDE DEF B
    <3>2. Apart(B) /\ Len(B) = 0 /\ \A b : ~ InGaps(B, b)
      BY <3>1, ApartNone, Zenon
    <3>3. 1 .. 0 = {}
      OBVIOUS
    <3> QED
      BY <2>1, <3>2, <3>3, Zenon
  <2>2. CASE y # gaps[e].End
    <3>1. B = <<[Start |-> y, End |-> gaps[e].End]>>
      BY <2>2, Zenon
    <3> HIDE DEF B
    <3>2. gaps[e].End \in Nat /\ y < gaps[e].End
      BY <1>1, <1>3, <2>2
    <3>3. /\ Apart(B) /\ Len(B) = 1 /\ B[1].Start = y /\ B[1].End = gaps[e].End
          /\ \A b : InGaps(B, b) <=> y <= b /\ b < gaps[e].End
      BY <3>1, <3>2, ApartOne
    <3>4. \A i \in 1 .. 1 : i = 1
      OBVIOUS
    <3> QED
      BY <2>2, <3>3, <3>4, Zenon
  <2> QED
    BY <2>1, <2>2, Zenon
<1> HIDE DEF n, left, right, A, B
<1>8. /\ \A k \in 1 .. Len(left) : left[k].End < gaps[g].Start
      /\ \A k \in 1 .. Len(right) : gaps[e].End < right[k].Start
  <2>1. ASSUME NEW k \in 1 .. Len(left) PROVE left[k].End < gaps[g].Start
    <3>1. k \in 1 .. n /\ k < g /\ left[k] = gaps[k]
      BY <1>1, <1>3, <1>4, <2>1
    <3> QED
      BY <1>1, <1>3, <3>1, Zenon
  <2>2. ASSUME NEW k \in 1 .. Len(right) PROVE gaps[e].End < right[k].Start
    <3>1. k + e \in 1 .. n /\ e < k + e /\ right[k] = gaps[k + e]
      BY <1>1, <1>3, <1>5, <2>2
    <3> QED
      BY <1>1, <1>3, <3>1, Zenon
  <2> QED
    BY <2>1, <2>2, Zenon
<1>9. /\ gaps[g].Start \in Nat /\ gaps[g].End \in Nat /\ gaps[e].Start \in Nat /\ gaps[e].End \in Nat
      /\ g < e => gaps[g].End < gaps[e].Start
  BY <1>1, <1>3, Zenon
<1>10. gaps[g].Start < y /\ a <= gaps[e].End
  <2>1. CASE g = e
    BY <1>9, <2>1, Zenon
  <2>2. CASE g < e
    BY <1>9, <2>2
  <2> QED
    BY <1>3, <2>1, <2>2
<1>11. Before(A, B) /\ Before(left, A) /\ Before(left, B) /\ Before(A, right) /\ Before(B, right)
       /\ Before(left, right)
  <2>1. Before(A, B)
    <3>1. ASSUME NEW i \in 1 .. Len(A), NEW j \in 1 .. Len(B) PROVE A[i].End < B[j].Start
      <4>1. y # gaps[e].End
        BY <1>7, <3>1
      <4> QED
        BY <1>6, <1>7, <3>1, <4>1, Zenon
    <3> QED
      BY <3>1, Zenon DEF Before
  <2>2. Before(left, A)
    BY <1>6, <1>8, Zenon DEF Before
  <2>3. Before(left, B)
    <3>1. ASSUME NEW i \in 1 .. Len(left), NEW j \in 1 .. Len(B) PROVE left[i].End < B[j].Start
      <4>1. left[i].End < gaps[g].Start /\ B[j].Start = y
        BY <1>7, <1>8, <3>1, Zenon
      <4>2. left[i].End \in Nat
        BY <1>4, <3>1, ApartNaturals, Zenon
      <4> QED
        BY <1>9, <1>10, <4>1, <4>2, SMTT(20)
    <3> QED
      BY <3>1, Zenon DEF Before
  <2>4. Before(A, right)
    <3>1. ASSUME NEW i \in 1 .. Len(A), NEW j \in 1 .. Len(right) PROVE A[i].End < right[j].Start
      <4>1. gaps[e].End < right[j].Start /\ A[i].End = a
        BY <1>6, <1>8, <3>1, Zenon
      <4>2. right[j].Start \in Nat
        BY <1>5, <3>1, ApartNaturals, Zenon
      <4> QED
        BY <1>9, <1>10, <4>1, <4>2, SMTT(20)
    <3> QED
      BY <3>1, Zenon DEF Before
  <2>5. Before(B, right)
    BY <1>7, <1>8, Zenon DEF Before
  <2>6. Before(left, right)
    <3>1. ASSUME NEW i \in 1 .. Len(left), NEW j \in 1 .. Len(right) PROVE left[i].End < right[j].Start
      <4>1. left[i] = gaps[i] /\ i \in 1 .. n /\ right[j] = gaps[j + e] /\ j + e \in 1 .. n /\ i < j + e
        BY <1>1, <1>3, <1>4, <1>5, <3>1
      <4> QED
        BY <1>1, <4>1, Zenon
    <3> QED
      BY <3>1, Zenon DEF Before
  <2> QED
    BY <2>1, <2>2, <2>3, <2>4, <2>5, <2>6, Zenon
<1>12. /\ Apart(A \o B)
       /\ \A b : InGaps(A \o B, b) <=> InGaps(A, b) \/ InGaps(B, b)
       /\ Before(A \o B, right)
  BY <1>6, <1>7, <1>11, ApartJoined, BeforeJoined, Zenon
<1>13. Before(left, A \o B)
  <2>1. A \in Seq(Gap) /\ B \in Seq(Gap) /\ Len(A) \in Nat /\ Len(B) \in Nat
    BY <1>6, <1>7 DEF Apart
  <2>2. /\ Len(A \o B) = Len(A) + Len(B)
        /\ \A j \in 1 .. Len(A) + Len(B) : (A \o B)[j] = IF j <= Len(A) THEN A[j] ELSE B[j - Len(A)]
    BY <2>1, Joined, Zenon
  <2>3. ASSUME NEW i \in 1 .. Len(left), NEW j \in 1 .. Len(A) + Len(B)
        PROVE  left[i].End < (A \o B)[j].Start
    <3>1. CASE j <= Len(A)
      <4>1. j \in 1 .. Len(A) /\ (A \o B)[j] = A[j]
        BY <2>1, <2>2, <2>3, <3>1
      <4> QED
        BY <1>11, <2>3, <4>1, Zenon DEF Before
    <3>2. CASE ~ (j <= Len(A))
      <4>1. j - Len(A) \in 1 .. Len(B) /\ (A \o B)[j] = B[j - Len(A)]
        BY <2>1, <2>2, <2>3, <3>2, SMTT(20)
      <4> QED
        BY <1>11, <2>3, <4>1, Zenon DEF Before
    <3> QED
      BY <3>1, <3>2, Zenon
  <2> QED
    BY <2>2, <2>3, Zenon DEF Before
<1>14. /\ Apart(left \o (A \o B))
       /\ \A b : InGaps(left \o (A \o B), b) <=> InGaps(left, b) \/ InGaps(A \o B, b)
       /\ Before(left \o (A \o B), right)
  BY <1>4, <1>11, <1>12, <1>13, ApartJoined, BeforeJoined, Zenon
<1>15. /\ Apart(t)
       /\ \A b : InGaps(t, b) <=> \/ InGaps(left, b) \/ InGaps(A, b)
                                  \/ InGaps(B, b) \/ InGaps(right, b)
  <2>1. /\ Apart((left \o (A \o B)) \o right)
        /\ \A b : InGaps((left \o (A \o B)) \o right, b)
                    <=> InGaps(left \o (A \o B), b) \/ InGaps(right, b)
    BY <1>5, <1>14, ApartJoined, Zenon
  <2> QED
    BY <1>2, <1>12, <1>14, <2>1, Zenon
<1>16. ASSUME NEW b \in Nat, InGaps(t, b)
       PROVE  InGaps(gaps, b) /\ ~ (a <= b /\ b < y)
  <2>1. CASE InGaps(left, b)
    <3>1. PICK k \in 1 .. Len(left) : left[k].Start <= b /\ b < left[k].End
      BY <2>1, Zenon DEF InGaps
    <3>2. left[k] = gaps[k] /\ k \in 1 .. n /\ left[k].End < gaps[g].Start /\ left[k].End \in Nat
      BY <1>1, <1>3, <1>4, <1>8, <3>1
    <3>3. b < a
      BY <1>9, <1>16, <3>1, <3>2
    <3> QED
      BY <1>16, <3>1, <3>2, <3>3 DEF InGaps, n
  <2>2. CASE InGaps(A, b)
    <3>1. gaps[g].Start <= b /\ b < a
      BY <1>6, <2>2, Zenon
    <3>2. b < gaps[g].End
      BY <1>9, <1>16, <3>1
    <3> QED
      BY <1>16, <3>1, <3>2 DEF InGaps
  <2>3. CASE InGaps(B, b)
    <3>1. y <= b /\ b < gaps[e].End
      BY <1>7, <2>3, Zenon
    <3>2. gaps[e].Start <= b /\ e \in 1 .. Len(gaps)
      BY <1>3, <1>9, <1>16, <3>1 DEF n
    <3> QED
      BY <1>16, <3>1, <3>2 DEF InGaps
  <2>4. CASE InGaps(right, b)
    <3>1. PICK k \in 1 .. Len(right) : right[k].Start <= b /\ b < right[k].End
      BY <2>4, Zenon DEF InGaps
    <3>2. right[k] = gaps[k + e] /\ k + e \in 1 .. n /\ gaps[e].End < right[k].Start
          /\ right[k].Start \in Nat
      BY <1>1, <1>3, <1>5, <1>8, <3>1, SMTT(20)
    <3>3. y <= b
      BY <1>9, <1>16, <3>1, <3>2
    <3> QED
      BY <1>16, <3>1, <3>2, <3>3 DEF InGaps, n
  <2> QED
    BY <1>15, <1>16, <2>1, <2>2, <2>3, <2>4, Zenon
<1>17. ASSUME NEW b \in Nat, InGaps(gaps, b), ~ (a <= b /\ b < y)
       PROVE  InGaps(t, b)
  <2>1. PICK i \in 1 .. n : gaps[i].Start <= b /\ b < gaps[i].End
    BY <1>17, Zenon DEF InGaps, n
  <2>2. /\ gaps[i].Start \in Nat /\ gaps[i].End \in Nat
        /\ g < i => gaps[g].End < gaps[i].Start
        /\ i < e => gaps[i].End < gaps[e].Start
    BY <1>1, <1>3, Zenon
  <2>3. CASE i < g
    <3>0. i \in 1 .. g - 1
      BY <1>3, <2>3
    <3>1. i \in 1 .. Len(left) /\ left[i] = gaps[i]
      BY <1>4, <3>0, Zenon
    <3>2. InGaps(left, b)
      BY <2>1, <3>1, Zenon DEF InGaps
    <3> QED
      BY <1>15, <3>2, Zenon
  <2>4. CASE e < i
    <3>1. i - e \in 1 .. Len(right) /\ (i - e) + e = i
      BY <1>1, <1>3, <1>5, <2>4
    <3>2. i - e \in 1 .. n - e /\ right[i - e] = gaps[(i - e) + e]
      BY <1>5, <3>1, Zenon
    <3>3. right[i - e] = gaps[i]
      BY <3>1, <3>2, Zenon
    <3>4. InGaps(right, b)
      BY <2>1, <3>1, <3>3, Zenon DEF InGaps
    <3> QED
      BY <1>15, <3>4, Zenon
  <2>5. CASE g <= i /\ i <= e /\ b < a
    <3>1. ~ (g < i)
      BY <1>9, <1>17, <2>1, <2>2, <2>5
    <3>2. i = g
      BY <1>1, <1>3, <2>5, <3>1
    <3>3. a # gaps[g].Start
      BY <1>9, <1>17, <2>1, <2>5, <3>2
    <3>4. InGaps(A, b)
      BY <1>6, <2>1, <2>5, <3>2, <3>3, Zenon
    <3> QED
      BY <1>15, <3>4, Zenon
  <2>6. CASE g <= i /\ i <= e /\ y <= b
    <3>1. ~ (i < e)
      BY <1>9, <1>17, <2>1, <2>2, <2>6
    <3>2. i = e
      BY <1>1, <1>3, <2>6, <3>1
    <3>3. y # gaps[e].End
      BY <1>9, <1>17, <2>1, <2>6, <3>2
    <3>4. InGaps(B, b)
      BY <1>7, <2>1, <2>6, <3>2, <3>3, Zenon
    <3> QED
      BY <1>15, <3>4, Zenon
  <2>7. b < a \/ y <= b
    BY <1>17
  <2> QED
    BY <1>1, <1>3, <2>3, <2>4, <2>5, <2>6, <2>7
<1> QED
  BY <1>15, <1>16, <1>17, Zenon DEF t

-----------------------------------------------------------------------------
(* The invariant of the frame sorter.                                      *)

\* The byte after the last one of the stream lies in a gap too: the last gap
\* has no end, so that the searches of Push always find one.
Exact ==
    /\ received \subseteq 0 .. Length - 1
    /\ \A b \in 0 .. Length : b \in received <=> ~ InGaps(gaps, b)

QueueOK ==
    \A o \in DOMAIN queuedFrames :
        /\ o \in Nat
        /\ queuedFrames[o].Offset = o /\ queuedFrames[o].data = o
        /\ queuedFrames[o].len \in Nat
        /\ Bytes(o, o + queuedFrames[o].len) \subseteq received

GInv ==
    /\ Apart(gaps)
    /\ Exact
    /\ QueueOK
    /\ readPosition \in Nat
    /\ delivered \in Seq(Int)

LEMMA SorterInitially == SorterInit => GInv
<1> SUFFICES ASSUME SorterInit PROVE GInv
  BY Zenon
<1>1. /\ Apart(gaps)
      /\ \A b : InGaps(gaps, b) <=> 0 <= b /\ b < MaxByteCount
  <2>1. MaxByteCount \in Nat /\ 0 < MaxByteCount
    BY SorterAssumption, LengthAssumption
  <2>2. gaps = <<[Start |-> 0, End |-> MaxByteCount]>>
    BY Zenon DEF SorterInit
  <2> QED
    BY <2>1, <2>2, ApartOne
<1>2. Exact
  <2>1. \A b \in 0 .. Length : InGaps(gaps, b)
    BY <1>1, SorterAssumption, LengthAssumption
  <2> QED
    BY <2>1, Zenon DEF Exact, SorterInit, InitStream
<1>3. QueueOK
  <2>1. DOMAIN queuedFrames = {}
    BY DEF SorterInit
  <2> QED
    BY <2>1, Zenon DEF QueueOK
<1>4. readPosition \in Nat /\ delivered \in Seq(Int)
  BY DEF SorterInit, InitStream
<1> QED
  BY <1>1, <1>2, <1>3, <1>4, Zenon DEF GInv

\* The last gap ends behind the stream.
LEMMA GapWithoutEnd ==
    ASSUME GInv
    PROVE  \E k \in 1 .. Len(gaps) :
               /\ gaps[k].Start \in Nat /\ gaps[k].End \in Nat
               /\ gaps[k].Start <= Length /\ Length < gaps[k].End
<1>1. Length \in 0 .. Length /\ Length \notin 0 .. Length - 1
  BY LengthAssumption
<1>2. InGaps(gaps, Length)
  BY <1>1, Zenon DEF GInv, Exact
<1>3. PICK k \in 1 .. Len(gaps) : gaps[k].Start <= Length /\ Length < gaps[k].End
  BY <1>2, Zenon DEF InGaps
<1>4. gaps[k].Start \in Nat /\ gaps[k].End \in Nat
  BY ApartNaturals, Zenon DEF GInv
<1> QED
  BY <1>3, <1>4, Zenon

\* The searches of Push end at a gap.
LEMMA FirstGapFound ==
    ASSUME GInv, NEW f, f.Offset \in Nat, End(f) \in Nat, f.Offset <= Length
    PROVE  /\ FirstGap(f) \in 1 .. Len(gaps)
           /\ End(f) <= gaps[FirstGap(f)].Start \/ f.Offset <= gaps[FirstGap(f)].End
           /\ \A j \in 1 .. FirstGap(f) - 1 : f.Offset > gaps[j].End
<1> DEFINE F(i) == End(f) <= gaps[i].Start \/ f.Offset <= gaps[i].End
           S == {i \in 1 .. Len(gaps) : F(i)}
<1>1. /\ gaps \in Seq(Gap) /\ Len(gaps) \in Nat /\ DOMAIN gaps = 1 .. Len(gaps)
      /\ \A i \in 1 .. Len(gaps) : gaps[i].Start \in Nat /\ gaps[i].End \in Nat
  <2>1. gaps \in Seq(Gap)
    BY Zenon DEF GInv, Apart
  <2>2. \A i \in 1 .. Len(gaps) : gaps[i].Start \in Nat /\ gaps[i].End \in Nat
    BY ApartNaturals, Zenon DEF GInv
  <2> QED
    BY <2>1, <2>2
<1>2. S # {}
  <2>1. PICK k \in 1 .. Len(gaps) : /\ gaps[k].Start \in Nat /\ gaps[k].End \in Nat
                                    /\ gaps[k].Start <= Length /\ Length < gaps[k].End
    BY GapWithoutEnd, Zenon
  <2>2. f.Offset <= gaps[k].End
    BY <2>1, LengthAssumption
  <2> QED
    BY <2>2, Zenon
<1>3. PICK m \in S : \A x \in S : m <= x
  <2>1. S \in SUBSET Nat
    BY <1>1
  <2> HIDE DEF S
  <2> QED
    BY <1>2, <2>1, LeastNatural, Zenon
<1>4. m \in DOMAIN gaps /\ F(m)
  BY <1>1, <1>3, Zenon
<1>5. \A j \in 1 .. m - 1 : End(f) > gaps[j].Start /\ f.Offset > gaps[j].End
  <2>1. ASSUME NEW j \in 1 .. m - 1 PROVE End(f) > gaps[j].Start /\ f.Offset > gaps[j].End
    <3>1. j \in 1 .. Len(gaps) /\ ~ (m <= j)
      BY <1>1, <1>4
    <3>2. ~ F(j)
      BY <1>3, <3>1, Zenon
    <3> QED
      BY <1>1, <3>1, <3>2
  <2> QED
    BY <2>1, Zenon
<1> DEFINE P(i) == /\ F(i)
                   /\ \A j \in 1 .. i - 1 : End(f) > gaps[j].Start /\ f.Offset > gaps[j].End
<1>6. FirstGap(f) = CHOOSE i \in DOMAIN gaps : P(i)
  BY Zenon DEF FirstGap
<1>7. \E i \in DOMAIN gaps : P(i)
  BY <1>4, <1>5, Zenon
<1>8. FirstGap(f) \in DOMAIN gaps /\ P(FirstGap(f))
  <2> HIDE DEF P
  <2> QED
    BY <1>6, <1>7, Zenon
<1> QED
  BY <1>1, <1>8, Zenon

LEMMA EndGapFound ==
    ASSUME GInv, NEW f, f.Offset \in Nat, End(f) \in Nat, End(f) <= Length,
           NEW g \in 1 .. Len(gaps), NEW c \in Nat, c < End(f),
           \A j \in 1 .. g - 1 : c > gaps[j].End
    PROVE  LET e == EndGap(f, g)
           IN  /\ e \in g .. Len(gaps)
               /\ End(f) < gaps[e].End \/ End(f) <= gaps[e + 1].Start
               /\ \A j \in g .. e - 1 : End(f) > gaps[j + 1].Start
<1> DEFINE F(i) == End(f) < gaps[i].End \/ End(f) <= gaps[i + 1].Start
           S == {i \in g .. Len(gaps) : F(i)}
<1>1. /\ Len(gaps) \in Nat
      /\ \A i \in 1 .. Len(gaps) : gaps[i].Start \in Nat /\ gaps[i].End \in Nat
  <2>1. gaps \in Seq(Gap)
    BY Zenon DEF GInv, Apart
  <2>2. \A i \in 1 .. Len(gaps) : gaps[i].Start \in Nat /\ gaps[i].End \in Nat
    BY ApartNaturals, Zenon DEF GInv
  <2> QED
    BY <2>1, <2>2
<1>2. S # {}
  <2>1. PICK k \in 1 .. Len(gaps) : /\ gaps[k].Start \in Nat /\ gaps[k].End \in Nat
                                    /\ gaps[k].Start <= Length /\ Length < gaps[k].End
    BY GapWithoutEnd, Zenon
  <2>2. End(f) < gaps[k].End
    BY <2>1, LengthAssumption
  <2>3. ~ (k \in 1 .. g - 1)
    <3>1. SUFFICES ASSUME k \in 1 .. g - 1 PROVE FALSE
      BY Zenon
    <3>2. c > gaps[k].End
      BY <3>1, Zenon
    <3> QED
      BY <2>1, <2>2, <3>2
  <2>4. k \in g .. Len(gaps)
    BY <1>1, <2>3
  <2> QED
    BY <2>2, <2>4, Zenon
<1>3. PICK m \in S : \A x \in S : m <= x
  <2>1. S \in SUBSET Nat
    BY <1>1
  <2> HIDE DEF S
  <2> QED
    BY <1>2, <2>1, LeastNatural, Zenon
<1>4. m \in g .. Len(gaps) /\ F(m)
  BY <1>3, Zenon
<1>5. \A j \in g .. m - 1 : End(f) >= gaps[j].End /\ End(f) > gaps[j + 1].Start
  <2>1. ASSUME NEW j \in g .. m - 1 PROVE End(f) >= gaps[j].End /\ End(f) > gaps[j + 1].Start
    <3>1. j \in g .. Len(gaps) /\ ~ (m <= j) /\ j \in 1 .. Len(gaps) /\ j + 1 \in 1 .. Len(gaps)
      BY <1>1, <1>4
    <3>2. ~ F(j)
      BY <1>3, <3>1, Zenon
    <3> QED
      BY <1>1, <3>1, <3>2
  <2> QED
    BY <2>1, Zenon
<1> DEFINE P(i) == /\ F(i)
                   /\ \A j \in g .. i - 1 : End(f) >= gaps[j].End /\ End(f) > gaps[j + 1].Start
<1>6. EndGap(f, g) = CHOOSE i \in g .. Len(gaps) : P(i)
  BY Zenon DEF EndGap
<1>7. \E i \in g .. Len(gaps) : P(i)
  BY <1>4, <1>5, Zenon
<1>8. EndGap(f, g) \in g .. Len(gaps) /\ P(EndGap(f, g))
  <2> HIDE DEF P
  <2> QED
    BY <1>6, <1>7, Zenon
<1> QED
  BY <1>8, Zenon

\* Where the frame with the bytes from o to z is cut: c is where a queued
\* frame of the same offset ends.
Located(o, c, z, g, a, e, y) ==
    /\ o <= c /\ c < z /\ z <= Length
    /\ Bytes(o, c) \subseteq received
    /\ gaps[g].Start < z /\ c <= gaps[g].End
    /\ \A j \in 1 .. g - 1 : c > gaps[j].End
    /\ a = IF c < gaps[g].Start THEN gaps[g].Start ELSE c
    /\ z < gaps[e].End \/ z <= gaps[e + 1].Start
    /\ \A j \in g .. e - 1 : z > gaps[j + 1].Start
    /\ y = IF z > gaps[e].End THEN gaps[e].End ELSE z

\* The cut frame has the bytes from a to y: the other bytes of the frame had
\* arrived before.
Trimmed(o, z, g, a, e, y) ==
    /\ a \in Nat /\ y \in Nat
    /\ gaps[g].Start <= a /\ a <= gaps[g].End
    /\ gaps[e].Start < y /\ y <= gaps[e].End
    /\ a <= y /\ (a < y \/ y = gaps[e].End)
    /\ o <= a /\ y <= z
    /\ Bytes(o, z) \subseteq received \cup Bytes(a, y)

LEMMA CutsTakeDuplicates ==
    ASSUME GInv, NEW o \in Nat, NEW c \in Nat, NEW z \in Nat,
           NEW g \in 1 .. Len(gaps), NEW a, NEW e \in g .. Len(gaps), NEW y,
           Located(o, c, z, g, a, e, y)
    PROVE  Trimmed(o, z, g, a, e, y)
<1> DEFINE n == Len(gaps)
<1>1. /\ n \in Nat
      /\ \A i \in 1 .. n : /\ gaps[i].Start \in Nat /\ gaps[i].End \in Nat
                           /\ gaps[i].Start < gaps[i].End
      /\ \A i, j \in 1 .. n : i < j => gaps[i].End < gaps[j].Start
  <2>1. gaps \in Seq(Gap) /\ n \in Nat
    BY DEF GInv, Apart
  <2>2. \A i \in 1 .. n : gaps[i].Start \in Nat /\ gaps[i].End \in Nat
    BY ApartNaturals, Zenon DEF GInv
  <2> QED
    BY <2>1, <2>2, Zenon DEF GInv, Apart
<1>2. g \in 1 .. n /\ e \in 1 .. n /\ g <= e
  BY <1>1
<1> HIDE DEF n
<1>3. /\ gaps[g].Start \in Nat /\ gaps[g].End \in Nat /\ gaps[e].Start \in Nat /\ gaps[e].End \in Nat
      /\ gaps[g].Start < gaps[g].End /\ gaps[e].Start < gaps[e].End
      /\ gaps[g].End <= gaps[e].End
  <2>1. CASE g = e
    BY <1>1, <1>2, <2>1
  <2>2. CASE g < e
    <3>1. gaps[g].End < gaps[e].Start
      BY <1>1, <1>2, <2>2, Zenon
    <3> QED
      BY <1>1, <1>2, <3>1
  <2> QED
    BY <1>2, <2>1, <2>2
<1>4. /\ a \in Nat /\ gaps[g].Start <= a /\ a <= gaps[g].End /\ o <= a /\ a < z
      /\ c <= a
  BY <1>3 DEF Located
<1>5. gaps[e].Start < z
  <2>1. CASE g = e
    BY <2>1, Zenon DEF Located
  <2>2. CASE g < e
    <3>1. e - 1 \in g .. e - 1 /\ (e - 1) + 1 = e
      BY <1>2, <2>2
    <3>2. z > gaps[(e - 1) + 1].Start
      BY <3>1, Zenon DEF Located
    <3> QED
      BY <1>3, <3>1, <3>2, Zenon
  <2> QED
    BY <1>2, <2>1, <2>2
<1>6. /\ y \in Nat /\ gaps[e].Start < y /\ y <= gaps[e].End /\ a <= y
      /\ a < y \/ y = gaps[e].End
      /\ y <= z
  BY <1>3, <1>4, <1>5 DEF Located
<1>7. ASSUME NEW b \in Bytes(o, z), b \notin received
      PROVE  b \in Bytes(a, y)
  <2>1. b \in Nat /\ o <= b /\ b < z /\ b \in 0 .. Length
    BY <1>7, LengthAssumption DEF Bytes, Located
  <2>2. InGaps(gaps, b)
    BY <1>7, <2>1, Zenon DEF GInv, Exact
  <2>3. PICK i \in 1 .. n : gaps[i].Start <= b /\ b < gaps[i].End
    BY <2>2, Zenon DEF InGaps, n
  <2>4. gaps[i].Start \in Nat /\ gaps[i].End \in Nat
    BY <1>1, Zenon
  <2>5. c <= b
    <3>1. b \notin Bytes(o, c)
      BY <1>7, Zenon DEF Located
    <3> QED
      BY <2>1, <3>1 DEF Bytes
  <2>6. ~ (i < g)
    <3>1. SUFFICES ASSUME i < g PROVE FALSE
      BY Zenon
    <3>2. i \in 1 .. g - 1
      BY <1>1, <1>2, <3>1
    <3>3. c > gaps[i].End
      BY <3>2, Zenon DEF Located
    <3> QED
      BY <2>1, <2>3, <2>4, <2>5, <3>3
  <2>7. gaps[g].Start <= gaps[i].Start
    <3>1. g <= i /\ g \in 1 .. Len(gaps) /\ i \in 1 .. Len(gaps)
      BY <1>1, <1>2, <2>6 DEF n
    <3> QED
      BY <3>1, ApartRises, Zenon DEF GInv
  <2>8. a <= b
    <3>1. a = gaps[g].Start \/ a = c
      BY Zenon DEF Located
    <3> QED
      BY <1>3, <2>1, <2>3, <2>4, <2>5, <2>7, <3>1
  <2>9. b < y
    <3>1. CASE ~ (z > gaps[e].End)
      BY <2>1, <3>1, Zenon DEF Located
    <3>2. CASE z > gaps[e].End
      <4>1. y = gaps[e].End /\ z <= gaps[e + 1].Start
        BY <1>3, <3>2 DEF Located
      <4>2. e # n
        <5>1. SUFFICES ASSUME e = n PROVE FALSE
          BY Zenon
        <5>2. PICK k \in 1 .. n : /\ gaps[k].Start \in Nat /\ gaps[k].End \in Nat
                                  /\ gaps[k].Start <= Length /\ Length < gaps[k].End
          BY GapWithoutEnd, Zenon DEF n
        <5>3. gaps[k].End <= gaps[e].End
          <6>1. k <= e /\ k \in 1 .. Len(gaps) /\ e \in 1 .. Len(gaps)
            BY <1>1, <1>2, <5>1 DEF n
          <6> QED
            BY <6>1, ApartRises, Zenon DEF GInv
        <5>4. z <= Length
          BY Zenon DEF Located
        <5> QED
          BY <1>3, <3>2, <5>2, <5>3, <5>4, LengthAssumption
      <4>3. e + 1 \in 1 .. n
        BY <1>1, <1>2, <4>2
      <4>4. ~ (e < i)
        <5>1. SUFFICES ASSUME e < i PROVE FALSE
          BY Zenon
        <5>2. gaps[e + 1].Start <= gaps[i].Start
          <6>1. e + 1 <= i /\ e + 1 \in 1 .. Len(gaps) /\ i \in 1 .. Len(gaps)
            BY <1>1, <1>2, <4>3, <5>1 DEF n
          <6> QED
            BY <6>1, ApartRises, Zenon DEF GInv
        <5>3. gaps[e + 1].Start \in Nat
          BY <1>1, <4>3, Zenon
        <5>4. z <= b
          BY <2>1, <2>3, <2>4, <4>1, <5>2, <5>3, SMTT(20)
        <5> QED
          BY <2>1, <5>4
      <4>5. gaps[i].End <= gaps[e].End
        <5>1. i <= e /\ e \in 1 .. Len(gaps) /\ i \in 1 .. Len(gaps)
          BY <1>1, <1>2, <4>4 DEF n
        <5> QED
          BY <5>1, ApartRises, Zenon DEF GInv
      <4> QED
        BY <1>3, <2>1, <2>3, <2>4, <4>1, <4>5
    <3> QED
      BY <3>1, <3>2, Zenon
  <2> QED
    BY <1>4, <1>6, <2>1, <2>8, <2>9 DEF Bytes
<1> QED
  BY <1>4, <1>6, <1>7, Zenon DEF Trimmed

-----------------------------------------------------------------------------
(* The steps.                                                              *)

Fields == {"Offset", "data", "len", "FinBit"}

\* The cuts of a frame.
LEMMA CutFrontFields ==
    ASSUME NEW f, DOMAIN f = Fields, f.Offset \in Nat, f.len \in Nat, NEW n \in Int
    PROVE  LET t == CutFront(f, n)
           IN  /\ DOMAIN t = Fields /\ t.Offset = f.Offset + n /\ t.len = f.len - n
               /\ End(t) = End(f) /\ t.data = f.data + n /\ t.FinBit = f.FinBit
<1> DEFINE t == CutFront(f, n)
<1>1. DOMAIN t = Fields
  BY Zenon DEF CutFront, Fields
<1>2. t.Offset = f.Offset + n
  BY Zenon DEF CutFront, Fields
<1>3. t.len = f.len - n
  BY Zenon DEF CutFront, Fields
<1>5. t.data = f.data + n
  BY Zenon DEF CutFront, Fields
<1>6. t.FinBit = f.FinBit
  BY Zenon DEF CutFront, Fields
<1> HIDE DEF t
<1>4. End(t) = End(f)
  BY <1>2, <1>3 DEF End
<1> QED
  BY <1>1, <1>2, <1>3, <1>4, <1>5, <1>6, Zenon DEF t

LEMMA CutBackFields ==
    ASSUME NEW f, DOMAIN f = Fields, f.Offset \in Nat, NEW z \in Nat
    PROVE  LET t == CutBack(f, z)
           IN  /\ t.Offset = f.Offset /\ t.len = z - f.Offset /\ End(t) = z
               /\ t.data = f.data /\ t.FinBit = f.FinBit
<1> DEFINE t == CutBack(f, z)
<1>1. t.Offset = f.Offset
  BY Zenon DEF CutBack, Fields
<1>2. t.len = z - f.Offset
  BY Zenon DEF CutBack, Fields
<1>4. t.data = f.data /\ t.FinBit = f.FinBit
  BY Zenon DEF CutBack, Fields
<1> HIDE DEF t
<1>3. End(t) = z
  BY <1>1, <1>2 DEF End
<1> QED
  BY <1>1, <1>2, <1>3, <1>4, Zenon DEF t

LEMMA FrameFields ==
    ASSUME NEW f \in Frames
    PROVE  /\ DOMAIN f = Fields
           /\ f.Offset \in Nat /\ f.len \in Nat /\ End(f) \in Nat /\ End(f) <= Length
           /\ f.data = f.Offset /\ (f.FinBit => End(f) = Length)
           /\ f.len = 0 => f.Offset = Length
BY LengthAssumption DEF Frames, Fields, End

\* A frame with new bytes is put where the gaps say.
LEMMA PushedIsLocated ==
    ASSUME GInv, NEW f \in Frames, f.len > 0, ~ Duplicate(f)
    PROVE  LET behind == BehindSameOffset(f)
               g == FirstGap(behind)
               cut == IF behind.Offset < gaps[g].Start
                        THEN CutFront(behind, gaps[g].Start - behind.Offset)
                        ELSE behind
               e == EndGap(cut, g)
               frame == IF End(cut) > gaps[e].End THEN CutBack(cut, gaps[e].End)
                                                  ELSE cut
           IN  /\ g \in 1 .. Len(gaps) /\ e \in g .. Len(gaps) /\ behind.Offset \in Nat
               /\ Located(f.Offset, behind.Offset, End(f), g, frame.Offset, e, End(frame))
               /\ frame.len = End(frame) - frame.Offset
               /\ frame.data = frame.Offset /\ frame.FinBit = f.FinBit
               /\ behind.Offset = IF f.Offset \in DOMAIN queuedFrames
                                    THEN f.Offset + queuedFrames[f.Offset].len
                                    ELSE f.Offset
<1> DEFINE behind == BehindSameOffset(f)
           g == FirstGap(behind)
           cut == IF behind.Offset < gaps[g].Start
                    THEN CutFront(behind, gaps[g].Start - behind.Offset)
                    ELSE behind
           e == EndGap(cut, g)
           frame == IF End(cut) > gaps[e].End THEN CutBack(cut, gaps[e].End)
                                              ELSE cut
<1>1. /\ DOMAIN f = Fields
      /\ f.Offset \in Nat /\ f.len \in Nat /\ End(f) \in Nat /\ End(f) <= Length
      /\ f.Offset < End(f) /\ f.data = f.Offset
  BY FrameFields DEF End
<1>2. /\ DOMAIN behind = Fields /\ behind.Offset \in Nat /\ behind.len \in Nat
      /\ behind.data = behind.Offset /\ behind.FinBit = f.FinBit
      /\ behind.Offset = IF f.Offset \in DOMAIN queuedFrames
                           THEN f.Offset + queuedFrames[f.Offset].len
                           ELSE f.Offset
      /\ End(behind) = End(f) /\ f.Offset <= behind.Offset /\ behind.Offset < End(f)
      /\ Bytes(f.Offset, behind.Offset) \subseteq received
  <2>1. CASE f.Offset \notin DOMAIN queuedFrames
    <3>1. behind = f
      BY <2>1, Zenon DEF BehindSameOffset
    <3>2. Bytes(f.Offset, f.Offset) = {}
      BY <1>1 DEF Bytes
    <3> HIDE DEF behind
    <3> QED
      BY <1>1, <2>1, <3>1, <3>2
  <2>2. CASE f.Offset \in DOMAIN queuedFrames
    <3>1. behind = CutFront(f, queuedFrames[f.Offset].len)
      BY <2>2, Zenon DEF BehindSameOffset
    <3>2. /\ queuedFrames[f.Offset].len \in Nat /\ queuedFrames[f.Offset].len < f.len
          /\ Bytes(f.Offset, f.Offset + queuedFrames[f.Offset].len) \subseteq received
      BY <1>1, <2>2 DEF GInv, QueueOK, Duplicate
    <3> HIDE DEF behind
    <3>3. /\ DOMAIN behind = Fields /\ End(behind) = End(f)
          /\ behind.Offset = f.Offset + queuedFrames[f.Offset].len
          /\ behind.len = f.len - queuedFrames[f.Offset].len
          /\ behind.data = f.data + queuedFrames[f.Offset].len
          /\ behind.FinBit = f.FinBit
      <4>1. queuedFrames[f.Offset].len \in Int
        BY <3>2
      <4> QED
        BY <1>1, <3>1, <4>1, CutFrontFields, Zenon
    <3>4. End(f) = f.Offset + f.len
      BY Zenon DEF End
    <3> QED
      BY <1>1, <2>2, <3>2, <3>3, <3>4, SMTT(20)
  <2> QED
    BY <2>1, <2>2, Zenon
<1>3. /\ g \in 1 .. Len(gaps)
      /\ End(behind) <= gaps[g].Start \/ behind.Offset <= gaps[g].End
      /\ \A j \in 1 .. g - 1 : behind.Offset > gaps[j].End
  <2>1. behind.Offset \in Nat /\ End(behind) \in Nat /\ behind.Offset <= Length
    BY <1>1, <1>2, LengthAssumption
  <2> HIDE DEF behind
  <2> QED
    BY <2>1, FirstGapFound, Zenon
<1>4. ~ (End(behind) <= gaps[g].Start)
  BY Zenon DEF Duplicate
<1> HIDE DEF behind, g
<1>5. gaps[g].Start \in Nat /\ gaps[g].End \in Nat
  BY <1>3, ApartNaturals, Zenon DEF GInv
<1>6. /\ gaps[g].Start < End(f) /\ behind.Offset <= gaps[g].End
  BY <1>1, <1>2, <1>3, <1>4, <1>5
<1>7. /\ DOMAIN cut = Fields /\ End(cut) = End(f) /\ cut.Offset \in Nat
      /\ cut.data = cut.Offset /\ cut.FinBit = f.FinBit
      /\ cut.Offset = IF behind.Offset < gaps[g].Start THEN gaps[g].Start ELSE behind.Offset
  <2>1. CASE ~ (behind.Offset < gaps[g].Start)
    <3>1. cut = behind
      BY <2>1, Zenon
    <3> HIDE DEF cut
    <3> QED
      BY <1>2, <2>1, <3>1, Zenon
  <2>2. CASE behind.Offset < gaps[g].Start
    <3>1. cut = CutFront(behind, gaps[g].Start - behind.Offset)
      BY <2>2, Zenon
    <3> HIDE DEF cut
    <3>2. gaps[g].Start - behind.Offset \in Int
      BY <1>2, <1>5
    <3>3. /\ DOMAIN cut = Fields /\ End(cut) = End(behind)
          /\ cut.Offset = behind.Offset + (gaps[g].Start - behind.Offset)
          /\ cut.data = behind.data + (gaps[g].Start - behind.Offset)
          /\ cut.FinBit = behind.FinBit
      BY <1>2, <3>1, <3>2, CutFrontFields, Zenon
    <3> QED
      BY <1>2, <1>5, <2>2, <3>3, SMTT(20)
  <2> QED
    BY <2>1, <2>2, Zenon
<1>8. /\ e \in g .. Len(gaps)
      /\ End(f) < gaps[e].End \/ End(f) <= gaps[e + 1].Start
      /\ \A j \in g .. e - 1 : End(f) > gaps[j + 1].Start
  <2>1. End(cut) \in Nat /\ End(cut) <= Length /\ behind.Offset < End(cut)
    BY <1>1, <1>2, <1>7, Zenon
  <2> HIDE DEF cut
  <2>2. /\ e \in g .. Len(gaps)
        /\ End(cut) < gaps[e].End \/ End(cut) <= gaps[e + 1].Start
        /\ \A j \in g .. e - 1 : End(cut) > gaps[j + 1].Start
    BY <1>2, <1>3, <1>7, <2>1, EndGapFound, Zenon
  <2> HIDE DEF e
  <2> QED
    BY <1>7, <2>2, Zenon
<1> HIDE DEF cut, e
<1>9. gaps[e].End \in Nat
  <2>1. Len(gaps) \in Nat /\ e \in 1 .. Len(gaps)
    <3>1. Len(gaps) \in Nat
      BY DEF GInv, Apart
    <3>2. g \in 1 .. Len(gaps) /\ e \in g .. Len(gaps)
      BY <1>3, <1>8, Zenon
    <3> QED
      BY <3>1, <3>2
  <2> QED
    BY <2>1, ApartNaturals, Zenon DEF GInv
<1>10. /\ frame.Offset = cut.Offset
       /\ End(frame) = IF End(f) > gaps[e].End THEN gaps[e].End ELSE End(f)
       /\ frame.len = End(frame) - frame.Offset
       /\ frame.data = cut.data /\ frame.FinBit = cut.FinBit
  <2>1. CASE End(cut) > gaps[e].End
    <3>1. frame = CutBack(cut, gaps[e].End)
      BY <2>1, Zenon
    <3> HIDE DEF frame
    <3>2. frame.Offset = cut.Offset /\ frame.len = gaps[e].End - cut.Offset
          /\ End(frame) = gaps[e].End /\ frame.data = cut.data
          /\ frame.FinBit = cut.FinBit
      BY <1>7, <1>9, <3>1, CutBackFields, Zenon
    <3> QED
      BY <1>7, <2>1, <3>2, Zenon
  <2>2. CASE ~ (End(cut) > gaps[e].End)
    <3>1. frame = cut
      BY <2>2, Zenon
    <3> HIDE DEF frame
    <3>2. cut.len = End(cut) - cut.Offset
      <4>1. CASE ~ (behind.Offset < gaps[g].Start)
        BY <1>2, <4>1 DEF cut, End
      <4>2. CASE behind.Offset < gaps[g].Start
        <5>1. cut = CutFront(behind, gaps[g].Start - behind.Offset)
          BY <4>2, Zenon DEF cut
        <5>2. gaps[g].Start - behind.Offset \in Int
          BY <1>2, <1>5
        <5>3. cut.len = behind.len - (gaps[g].Start - behind.Offset)
          BY <1>2, <5>1, <5>2, CutFrontFields, Zenon
        <5> HIDE DEF cut
        <5> QED
          <6>1. End(cut) = behind.Offset + behind.len
            BY <1>2, <1>7, Zenon DEF End
          <6>2. cut.Offset = gaps[g].Start
            BY <1>7, <4>2, Zenon
          <6> QED
            BY <1>2, <1>5, <5>3, <6>1, <6>2
      <4> QED
        BY <4>1, <4>2, Zenon
    <3> QED
      BY <1>7, <2>2, <3>1, <3>2, Zenon
  <2> QED
    BY <2>1, <2>2, Zenon
<1> HIDE DEF frame
<1>11. Located(f.Offset, behind.Offset, End(f), g, frame.Offset, e, End(frame))
  BY <1>1, <1>2, <1>3, <1>6, <1>7, <1>8, <1>10, Zenon DEF Located
<1>12. frame.data = frame.Offset /\ frame.FinBit = f.FinBit
  BY <1>7, <1>10, Zenon
<1> QED
  BY <1>2, <1>3, <1>8, <1>10, <1>11, <1>12, Zenon DEF behind, g, cut, e, frame

\* Push of a frame with data: what is cut from the frame had arrived, and what
\* is left of it is taken out of the gaps.
LEMMA PushDataKeeps ==
    ASSUME GInv, NEW f \in Frames, PushData(f)
    PROVE  GInv'
<1> DEFINE behind == BehindSameOffset(f)
           g == FirstGap(behind)
           cut == IF behind.Offset < gaps[g].Start
                    THEN CutFront(behind, gaps[g].Start - behind.Offset)
                    ELSE behind
           e == EndGap(cut, g)
           frame == IF End(cut) > gaps[e].End THEN CutBack(cut, gaps[e].End)
                                              ELSE cut
           kept == [o \in DOMAIN queuedFrames \ Deleted(g, e) |-> queuedFrames[o]]
           a == frame.Offset
           y == End(frame)
<1>1. /\ g \in 1 .. Len(gaps) /\ e \in g .. Len(gaps) /\ behind.Offset \in Nat
      /\ Located(f.Offset, behind.Offset, End(f), g, a, e, y)
      /\ frame.len = y - a /\ frame.data = a
  <2>1. f.len > 0 /\ ~ Duplicate(f)
    BY Zenon DEF PushData
  <2> QED
    BY <2>1, PushedIsLocated, Zenon
<1>2. /\ gaps' = SubSeq(gaps, 1, g - 1) \o Remainder(g, e, a, y) \o SubSeq(gaps, e + 1, Len(gaps))
      /\ queuedFrames' = kept \/ queuedFrames' = Enqueue(kept, frame)
      /\ received' = received \cup Bytes(f.Offset, End(f))
      /\ readPosition' = readPosition /\ delivered' = delivered
  BY Zenon DEF PushData, Arrive
<1> HIDE DEF behind, g, cut, e, frame, kept, a, y
<1>3. f.Offset \in Nat /\ f.len \in Nat /\ End(f) \in Nat /\ End(f) <= Length
  BY FrameFields, Zenon
<1>4. /\ a \in Nat /\ y \in Nat
      /\ gaps[g].Start <= a /\ a <= gaps[g].End
      /\ gaps[e].Start < y /\ y <= gaps[e].End
      /\ a <= y /\ (a < y \/ y = gaps[e].End)
      /\ f.Offset <= a /\ y <= End(f)
      /\ Bytes(f.Offset, End(f)) \subseteq received \cup Bytes(a, y)
  <2>1. Trimmed(f.Offset, End(f), g, a, e, y)
    BY <1>1, <1>3, CutsTakeDuplicates, Zenon
  <2> QED
    BY <2>1, Zenon DEF Trimmed
<1>5. /\ Apart(gaps')
      /\ \A b \in Nat : InGaps(gaps', b) <=> InGaps(gaps, b) /\ ~ (a <= b /\ b < y)
  <2>1. Apart(gaps)
    BY Zenon DEF GInv
  <2> QED
    BY <1>1, <1>2, <1>4, <2>1, GapsCut, Zenon
<1>6. Bytes(a, y) \subseteq Bytes(f.Offset, End(f))
  BY <1>3, <1>4 DEF Bytes
<1>7. received' = received \cup Bytes(a, y)
  BY <1>2, <1>4, <1>6, Zenon
<1>8. Exact'
  <2>1. received' \subseteq 0 .. Length - 1
    <3>1. Bytes(f.Offset, End(f)) \subseteq 0 .. Length - 1
      BY <1>3, LengthAssumption DEF Bytes
    <3>2. received \subseteq 0 .. Length - 1
      BY Zenon DEF GInv, Exact
    <3>3. received' = received \cup Bytes(f.Offset, End(f))
      BY <1>2, Zenon
    <3> QED
      BY <3>1, <3>2, <3>3, Zenon
  <2>2. ASSUME NEW b \in 0 .. Length PROVE b \in received' <=> ~ InGaps(gaps', b)
    <3>1. b \in Nat /\ (b \in received <=> ~ InGaps(gaps, b))
      BY LengthAssumption DEF GInv, Exact
    <3>2. b \in Bytes(a, y) <=> a <= b /\ b < y
      BY <1>4, <3>1 DEF Bytes
    <3>3. b \in received' <=> b \in received \/ b \in Bytes(a, y)
      BY <1>7, Zenon
    <3> QED
      BY <1>5, <3>1, <3>2, <3>3, Zenon
  <2> QED
    BY <2>1, <2>2, Zenon DEF Exact
<1>9. ASSUME NEW o \in DOMAIN kept
      PROVE  /\ o \in Nat /\ kept[o].Offset = o /\ kept[o].data = o /\ kept[o].len \in Nat
             /\ Bytes(o, o + kept[o].len) \subseteq received'
  <2>1. o \in DOMAIN queuedFrames /\ kept[o] = queuedFrames[o]
    BY <1>9, Zenon DEF kept
  <2>2. /\ o \in Nat /\ queuedFrames[o].Offset = o /\ queuedFrames[o].data = o /\ queuedFrames[o].len \in Nat
        /\ Bytes(o, o + queuedFrames[o].len) \subseteq received
    BY <2>1, Zenon DEF GInv, QueueOK
  <2> QED
    BY <1>2, <2>1, <2>2, Zenon
<1>10. QueueOK'
  <2>1. CASE queuedFrames' = kept
    BY <1>9, <2>1, Zenon DEF QueueOK
  <2>2. CASE queuedFrames' = Enqueue(kept, frame)
    <3>1. /\ DOMAIN queuedFrames' = DOMAIN kept \cup {a}
          /\ queuedFrames'[a] = frame
          /\ \A o \in DOMAIN kept : o # a => queuedFrames'[o] = kept[o]
      BY <2>2, Zenon DEF Enqueue, a
    <3>2. frame.Offset = a /\ frame.data = a /\ frame.len = y - a
      BY <1>1, Zenon DEF a
    <3>3. ASSUME NEW o \in DOMAIN queuedFrames'
          PROVE  /\ o \in Nat /\ queuedFrames'[o].Offset = o /\ queuedFrames'[o].data = o /\ queuedFrames'[o].len \in Nat
                 /\ Bytes(o, o + queuedFrames'[o].len) \subseteq received'
      <4>1. CASE o = a
        <5>1. queuedFrames'[o] = frame /\ a + frame.len = y /\ frame.len \in Nat
          BY <1>4, <3>1, <3>2, <4>1
        <5> QED
          BY <1>4, <1>7, <3>2, <4>1, <5>1, Zenon
      <4>2. CASE o # a
        <5>1. o \in DOMAIN kept /\ queuedFrames'[o] = kept[o]
          BY <3>1, <3>3, <4>2, Zenon
        <5> QED
          BY <1>9, <5>1, Zenon
      <4> QED
        BY <4>1, <4>2, Zenon
    <3> QED
      BY <3>3, Zenon DEF QueueOK
  <2> QED
    BY <1>2, <2>1, <2>2, Zenon
<1> QED
  BY <1>2, <1>5, <1>8, <1>10, Zenon DEF GInv

\* Push of an empty frame with FIN.
LEMMA PushFinKeeps ==
    ASSUME GInv, NEW f \in Frames, PushFin(f)
    PROVE  GInv' /\ UNCHANGED streamVars
<1>1. /\ UNCHANGED <<received, readPosition, delivered, gaps>> /\ f.len = 0
      /\ queuedFrames' = Enqueue(queuedFrames, f)
  BY Zenon DEF PushFin, streamVars
<1>2. /\ DOMAIN queuedFrames' = DOMAIN queuedFrames \cup {f.Offset}
      /\ queuedFrames'[f.Offset] = f
      /\ \A o \in DOMAIN queuedFrames : o # f.Offset => queuedFrames'[o] = queuedFrames[o]
  BY <1>1, Zenon DEF Enqueue
<1>3. f.Offset \in Nat /\ f.data = f.Offset
  BY FrameFields, Zenon
<1>4. ASSUME NEW o \in DOMAIN queuedFrames'
      PROVE  /\ o \in Nat /\ queuedFrames'[o].Offset = o /\ queuedFrames'[o].data = o /\ queuedFrames'[o].len \in Nat
             /\ Bytes(o, o + queuedFrames'[o].len) \subseteq received'
  <2>1. CASE o = f.Offset
    <3>1. Bytes(f.Offset, f.Offset + f.len) = {}
      BY <1>1, <1>3 DEF Bytes
    <3> QED
      BY <1>1, <1>2, <1>3, <2>1, <3>1
  <2>2. CASE o # f.Offset
    <3>1. o \in DOMAIN queuedFrames /\ queuedFrames'[o] = queuedFrames[o]
      BY <1>2, <1>4, <2>2, Zenon
    <3> QED
      BY <1>1, <3>1, Zenon DEF GInv, QueueOK
  <2> QED
    BY <2>1, <2>2, Zenon
<1>5. QueueOK'
  BY <1>4, Zenon DEF QueueOK
<1>6. Apart(gaps)' /\ Exact'
  BY <1>1, Zenon DEF GInv, Exact, Apart, InGaps
<1> QED
  BY <1>1, <1>5, <1>6, Zenon DEF GInv, streamVars

\* The reader takes a frame: its bytes had arrived.
LEMMA PopKeeps ==
    ASSUME GInv, Pop
    PROVE  GInv' /\ (UNCHANGED streamVars \/ \E n \in 1 .. Length : Deliver(n))
<1> DEFINE frame == queuedFrames[readPosition]
<1>1. /\ readPosition \in DOMAIN queuedFrames
      /\ readPosition' = readPosition + frame.len
      /\ delivered' = delivered \o Content(frame.data, frame.len)
      /\ queuedFrames' = [o \in DOMAIN queuedFrames \ {frame.Offset} |-> queuedFrames[o]]
      /\ UNCHANGED <<received, gaps>>
  BY Zenon DEF Pop
<1>2. /\ readPosition \in Nat /\ frame.len \in Nat /\ frame.data = readPosition
      /\ Bytes(readPosition, readPosition + frame.len) \subseteq received
  BY <1>1, Zenon DEF GInv, QueueOK
<1>3. DOMAIN queuedFrames' \subseteq DOMAIN queuedFrames
      /\ \A o \in DOMAIN queuedFrames' : queuedFrames'[o] = queuedFrames[o]
  BY <1>1, Zenon
<1> HIDE DEF frame
<1>4. QueueOK'
  <2>1. ASSUME NEW o \in DOMAIN queuedFrames'
        PROVE  /\ o \in Nat /\ queuedFrames'[o].Offset = o /\ queuedFrames'[o].data = o /\ queuedFrames'[o].len \in Nat
               /\ Bytes(o, o + queuedFrames'[o].len) \subseteq received'
    BY <1>1, <1>3, <2>1, Zenon DEF GInv, QueueOK
  <2> QED
    BY <2>1, Zenon DEF QueueOK
<1>5. Apart(gaps)' /\ Exact'
  BY <1>1, Zenon DEF GInv, Exact, Apart, InGaps
<1>6. readPosition' \in Nat
  BY <1>1, <1>2
<1>9. /\ delivered \in Seq(Int) /\ delivered' \in Seq(Int)
      /\ frame.len = 0 => delivered' = delivered
  <2>1. delivered \in Seq(Int)
    BY Zenon DEF GInv
  <2>2. Content(frame.data, frame.len) \in Seq(Int)
    BY <1>2 DEF Content
  <2>3. frame.len = 0 => Content(frame.data, frame.len) = << >>
    BY <1>2 DEF Content
  <2> QED
    BY <1>1, <2>1, <2>2, <2>3
<1>7. CASE frame.len = 0
  BY <1>1, <1>2, <1>4, <1>5, <1>6, <1>7, <1>9 DEF GInv, streamVars
<1>8. CASE frame.len # 0
  <2>1. readPosition + frame.len - 1 \in Bytes(readPosition, readPosition + frame.len)
    BY <1>2, <1>8 DEF Bytes
  <2>2. readPosition + frame.len - 1 \in 0 .. Length - 1
    BY <1>2, <2>1, Zenon DEF GInv, Exact
  <2>3. frame.len \in 1 .. Length
    BY <1>2, <1>8, <2>2, LengthAssumption
  <2>4. Deliver(frame.len)
    BY <1>1, <1>2, Zenon DEF Deliver
  <2> QED
    BY <1>4, <1>5, <1>6, <1>9, <2>3, <2>4, Zenon DEF GInv
<1> QED
  BY <1>7, <1>8, Zenon

LEMMA SorterStep == GInv /\ [SorterNext]_sorterVars => GInv' /\ [NextStream]_streamVars
<1> SUFFICES ASSUME GInv, [SorterNext]_sorterVars PROVE GInv' /\ [NextStream]_streamVars
  BY Zenon
<1>1. CASE UNCHANGED sorterVars
  <2>1. UNCHANGED <<received, readPosition, delivered, queuedFrames, gaps>>
    BY <1>1, Zenon DEF sorterVars
  <2> QED
    BY <2>1, Zenon DEF GInv, Exact, Apart, InGaps, QueueOK, streamVars
<1>2. ASSUME NEW f \in Frames, PushFin(f) PROVE GInv' /\ [NextStream]_streamVars
  BY <1>2, PushFinKeeps, Zenon
<1>3. ASSUME NEW f \in Frames, PushData(f) PROVE GInv' /\ [NextStream]_streamVars
  <2>1. GInv'
    BY <1>3, PushDataKeeps, Zenon
  <2>2. Arrive(f.Offset, End(f)) /\ f.len > 0
    BY <1>3, Zenon DEF PushData
  <2>3. f.Offset \in 0 .. Length - 1 /\ End(f) \in f.Offset + 1 .. Length
    BY <2>2, FrameFields, LengthAssumption DEF End
  <2> QED
    BY <2>1, <2>2, <2>3, Zenon DEF NextStream
<1>4. CASE Pop
  BY <1>4, PopKeeps, Zenon DEF NextStream
<1>5. CASE SorterNext
  BY <1>2, <1>3, <1>4, <1>5, Zenon DEF SorterNext
<1> QED
  BY <1>1, <1>5, Zenon

LEMMA SorterInvariant == SorterSpec => []GInv
<1> QED
  BY SorterInitially, SorterStep, PTL DEF SorterSpec

LEMMA ExactGaps == GInv => GapsAreExact
<1> SUFFICES ASSUME GInv PROVE GapsAreExact
  BY Zenon
<1>1. gaps \in Seq(Gap) /\ Len(gaps) \in Nat /\ DOMAIN gaps = 1 .. Len(gaps)
  BY DEF GInv, Apart
<1>2. \A i \in DOMAIN gaps : gaps[i].Start < gaps[i].End
  BY <1>1, Zenon DEF GInv, Apart
<1>3. ASSUME NEW i \in 1 .. Len(gaps) - 1 PROVE gaps[i].End < gaps[i + 1].Start
  <2>1. i \in 1 .. Len(gaps) /\ i + 1 \in 1 .. Len(gaps) /\ i < i + 1
    BY <1>1
  <2> QED
    BY <2>1, Zenon DEF GInv, Apart
<1>4. ASSUME NEW b \in 0 .. Length - 1
      PROVE  b \in received <=> \A i \in DOMAIN gaps : b \notin Bytes(gaps[i].Start, gaps[i].End)
  <2>1. b \in 0 .. Length /\ b \in Nat
    BY LengthAssumption
  <2>2. b \in received <=> ~ InGaps(gaps, b)
    BY <2>1, Zenon DEF GInv, Exact
  <2>3. \A i \in 1 .. Len(gaps) :
            b \in Bytes(gaps[i].Start, gaps[i].End) <=> gaps[i].Start <= b /\ b < gaps[i].End
    <3>1. \A i \in 1 .. Len(gaps) : gaps[i].Start \in Nat /\ gaps[i].End \in Nat
      BY ApartNaturals, Zenon DEF GInv
    <3> QED
      BY <2>1, <3>1 DEF Bytes
  <2> QED
    BY <1>1, <2>2, <2>3, Zenon DEF InGaps
<1> QED
  BY <1>2, <1>3, <1>4, Zenon DEF GapsAreExact

\* Whatever frames arrive, in any order, cut anywhere and as often as the peer
\* likes, the gaps that streamFrameSorter.Push keeps are in order, apart from
\* each other, and hold exactly the bytes that did not arrive.
THEOREM GapsStayExact == SorterSpec => []GapsAreExact
<1> QED
  BY SorterInvariant, ExactGaps, PTL

\* The frame sorter implements ByteStream: a Push is the arrival of the bytes of
\* its frame, and a Pop gives the reader the next bytes of the stream, each in
\* its place in spite of the cuts, once, and only after it arrived.
THEOREM SorterIsAByteStream == SorterSpec => InOrder
<1>1. SorterInit => InitStream
  BY Zenon DEF SorterInit
<1> QED
  BY <1>1, SorterInvariant, SorterStep, PTL DEF SorterSpec, InOrder
-----------------------------------------------------------------------------
(***************************************************************************)
(* Nothing is held back from the reader.  Push leaves some frames in the   *)
(* queue that a later one covers, so that the queue is no chain of frames: *)
(* what holds is that no two frames cross, and that every byte that waits  *)
(* for the reader is in a frame that begins where the reader is, or later. *)
(***************************************************************************)

\* Where a queued frame ends.
Until(o) == o + queuedFrames[o].len

NoCrossing ==
    \A o, p \in DOMAIN queuedFrames : o < p /\ p < Until(o) => Until(p) <= Until(o)

Covered ==
    \A b \in received : readPosition <= b =>
        \E o \in DOMAIN queuedFrames : readPosition <= o /\ o <= b /\ b < Until(o)

\* What follows a frame with FIN has arrived: only its end can have been cut.
FinOK ==
    /\ \A o \in DOMAIN queuedFrames :
           queuedFrames[o].FinBit => Bytes(Until(o), Length) \subseteq received
    /\ finRead => Bytes(0, Length) \subseteq received

HInv ==
    /\ GInv
    /\ Bytes(0, readPosition) \subseteq received
    /\ NoCrossing
    /\ FinOK
    /\ ~ pushErr => Covered

\* What a queued frame is.
LEMMA QueuedFrame ==
    ASSUME GInv, NEW o \in DOMAIN queuedFrames
    PROVE  /\ o \in Nat /\ queuedFrames[o].len \in Nat /\ Until(o) \in Nat
           /\ \A b \in Nat : o <= b /\ b < Until(o) => b \in received
<1>1. /\ o \in Nat /\ queuedFrames[o].len \in Nat
      /\ Bytes(o, o + queuedFrames[o].len) \subseteq received
  BY Zenon DEF GInv, QueueOK
<1>2. Until(o) \in Nat
  BY <1>1 DEF Until
<1>3. ASSUME NEW b \in Nat, o <= b, b < Until(o) PROVE b \in received
  <2>1. b \in Bytes(o, o + queuedFrames[o].len)
    BY <1>1, <1>3 DEF Bytes, Until
  <2> QED
    BY <1>1, <2>1, Zenon
<1> QED
  BY <1>1, <1>2, <1>3, Zenon

\* A byte in a gap has not arrived, and the byte behind a gap has.
LEMMA GapBytes ==
    ASSUME GInv, NEW g \in 1 .. Len(gaps), NEW b \in Nat, b <= Length
    PROVE  /\ gaps[g].Start <= b /\ b < gaps[g].End => b \notin received
           /\ b = gaps[g].End => b \in received
<1>1. b \in 0 .. Length
  BY LengthAssumption
<1>2. b \in received <=> ~ InGaps(gaps, b)
  BY <1>1, Zenon DEF GInv, Exact
<1>3. ASSUME gaps[g].Start <= b, b < gaps[g].End PROVE b \notin received
  BY <1>2, <1>3, Zenon DEF InGaps
<1>4. ASSUME b = gaps[g].End, b \notin received PROVE FALSE
  <2>1. PICK i \in 1 .. Len(gaps) : gaps[i].Start <= b /\ b < gaps[i].End
    BY <1>2, <1>4, Zenon DEF InGaps
  <2>2. /\ Len(gaps) \in Nat
        /\ gaps[i].Start \in Nat /\ gaps[i].End \in Nat
        /\ gaps[g].Start \in Nat /\ gaps[g].End \in Nat
    <3>1. Len(gaps) \in Nat
      BY DEF GInv, Apart
    <3> QED
      BY <3>1, ApartNaturals, Zenon DEF GInv
  <2>3. ~ (g < i)
    <3>1. g < i => gaps[g].End < gaps[i].Start
      BY Zenon DEF GInv, Apart
    <3> QED
      BY <1>4, <2>1, <2>2, <3>1
  <2>4. i <= g
    BY <2>2, <2>3
  <2>5. gaps[i].End <= gaps[g].End
    BY <2>4, ApartRises, Zenon DEF GInv
  <2> QED
    BY <1>4, <2>1, <2>2, <2>5
<1> QED
  BY <1>3, <1>4, Zenon

\* The frame that begins behind a gap is in the queue.
LEMMA FrameBehindGap ==
    ASSUME HInv, ~ pushErr, NEW g \in 1 .. Len(gaps), gaps[g].End < Length
    PROVE  /\ gaps[g].End \in DOMAIN queuedFrames
           /\ gaps[g].End < Until(gaps[g].End)
           /\ gaps[g].End - 1 \notin received
<1> DEFINE c == gaps[g].End
<1>1. GInv
  BY Zenon DEF HInv
<1>2. c \in Nat /\ gaps[g].Start \in Nat /\ gaps[g].Start < c
  <2>1. c \in Nat /\ gaps[g].Start \in Nat
    BY <1>1, ApartNaturals, Zenon DEF GInv
  <2> QED
    BY <1>1, <2>1, Zenon DEF GInv, Apart
<1>3. /\ c - 1 \in Nat /\ c - 1 <= Length /\ c <= Length
      /\ gaps[g].Start <= c - 1 /\ c - 1 < c
  BY <1>2, LengthAssumption
<1>4. c \in received /\ c - 1 \notin received
  <2> HIDE DEF c
  <2>1. c = gaps[g].End
    BY Zenon DEF c
  <2> QED
    BY <1>1, <1>2, <1>3, <2>1, GapBytes, Zenon
<1> HIDE DEF c
<1>5. readPosition \in Nat /\ readPosition <= c
  <2>1. readPosition \in Nat /\ c - 1 \notin Bytes(0, readPosition)
    BY <1>1, <1>4, Zenon DEF HInv, GInv
  <2> QED
    BY <1>2, <1>3, <2>1 DEF Bytes
<1>6. PICK o \in DOMAIN queuedFrames : o <= c /\ c < Until(o)
  BY <1>4, <1>5, Zenon DEF HInv, Covered
<1>7. /\ o \in Nat /\ Until(o) \in Nat
      /\ o <= c - 1 /\ c - 1 < Until(o) => c - 1 \in received
  BY <1>1, <1>3, QueuedFrame, Zenon
<1>8. o = c
  BY <1>2, <1>4, <1>6, <1>7
<1> QED
  BY <1>4, <1>6, <1>8, Zenon DEF c

\* What PushData does to the queue: the frame that is left of f is put at a,
\* behind the reader and where nothing had arrived, and the frames that go are
\* inside it.
LEMMA PushDataEffect ==
    ASSUME HInv, ~ pushErr, NEW f \in Frames, PushData(f)
    PROVE  \E a, y \in Nat, K \in SUBSET DOMAIN queuedFrames :
              /\ a < y /\ readPosition <= a
              /\ a \notin received /\ y - 1 \notin received
              /\ received' = received \cup Bytes(a, y)
              /\ \A o \in DOMAIN queuedFrames \ K : a <= o /\ Until(o) <= y
              /\ \A o \in K : o # a \/ pushErr' => queuedFrames'[o] = queuedFrames[o]
              /\ pushErr' => DOMAIN queuedFrames' = K
              /\ ~ pushErr' => /\ DOMAIN queuedFrames' = K \cup {a}
                               /\ queuedFrames'[a].len = y - a
                               /\ queuedFrames'[a].FinBit = f.FinBit
              /\ f.FinBit => Bytes(y, Length) \subseteq received'
<1> DEFINE behind == BehindSameOffset(f)
           g == FirstGap(behind)
           cut == IF behind.Offset < gaps[g].Start
                    THEN CutFront(behind, gaps[g].Start - behind.Offset)
                    ELSE behind
           e == EndGap(cut, g)
           frame == IF End(cut) > gaps[e].End THEN CutBack(cut, gaps[e].End)
                                              ELSE cut
           K == DOMAIN queuedFrames \ Deleted(g, e)
           kept == [o \in K |-> queuedFrames[o]]
           a == frame.Offset
           y == End(frame)
           c == behind.Offset
<1>0. GInv
  BY Zenon DEF HInv
<1>1. /\ g \in 1 .. Len(gaps) /\ e \in g .. Len(gaps) /\ c \in Nat
      /\ Located(f.Offset, c, End(f), g, a, e, y)
      /\ frame.len = y - a /\ frame.FinBit = f.FinBit
      /\ c = IF f.Offset \in DOMAIN queuedFrames
               THEN f.Offset + queuedFrames[f.Offset].len ELSE f.Offset
  <2>1. f.len > 0 /\ ~ Duplicate(f)
    BY Zenon DEF PushData
  <2> QED
    BY <1>0, <2>1, PushedIsLocated, Zenon
<1>2. /\ queuedFrames' = IF pushErr' THEN kept ELSE Enqueue(kept, frame)
      /\ received' = received \cup Bytes(f.Offset, End(f))
  BY Zenon DEF PushData, Arrive
<1>3. /\ (pushErr' => queuedFrames' = kept)
      /\ (~ pushErr' => /\ DOMAIN queuedFrames' = K \cup {a}
                        /\ queuedFrames'[a] = frame
                        /\ \A o \in K : o # a => queuedFrames'[o] = queuedFrames[o])
  BY <1>2, Zenon DEF Enqueue
<1>4. K \in SUBSET DOMAIN queuedFrames /\ \A o \in DOMAIN queuedFrames \ K : o \in Deleted(g, e)
  BY Zenon
<1>5. pushErr' => /\ DOMAIN queuedFrames' = K
                  /\ \A o \in K : queuedFrames'[o] = queuedFrames[o]
  BY <1>3, Zenon
<1> HIDE DEF behind, g, cut, e, frame, K, kept, a, y, c
<1>6. /\ f.Offset \in Nat /\ f.len \in Nat /\ End(f) \in Nat /\ End(f) <= Length
      /\ (f.FinBit => End(f) = Length)
  BY FrameFields, Zenon
<1>7. /\ a \in Nat /\ y \in Nat
      /\ gaps[g].Start <= a /\ a <= gaps[g].End
      /\ gaps[e].Start < y /\ y <= gaps[e].End
      /\ a <= y /\ (a < y \/ y = gaps[e].End)
      /\ f.Offset <= a /\ y <= End(f)
      /\ Bytes(f.Offset, End(f)) \subseteq received \cup Bytes(a, y)
  <2>1. Trimmed(f.Offset, End(f), g, a, e, y)
    BY <1>0, <1>1, <1>6, CutsTakeDuplicates, Zenon
  <2> QED
    BY <2>1, Zenon DEF Trimmed
<1>8. /\ Len(gaps) \in Nat /\ e \in 1 .. Len(gaps) /\ g <= e /\ g \in Int /\ e \in Int
      /\ gaps[g].Start \in Nat /\ gaps[g].End \in Nat
      /\ gaps[e].Start \in Nat /\ gaps[e].End \in Nat
      /\ gaps[g].Start < gaps[g].End /\ gaps[g].End <= gaps[e].End
  <2>1. Len(gaps) \in Nat
    BY <1>0 DEF GInv, Apart
  <2>2. e \in 1 .. Len(gaps) /\ g <= e /\ g \in Int /\ e \in Int
    BY <1>1, <2>1
  <2>3. /\ gaps[g].Start \in Nat /\ gaps[g].End \in Nat
        /\ gaps[e].Start \in Nat /\ gaps[e].End \in Nat
    BY <1>0, <1>1, <2>2, ApartNaturals, Zenon DEF GInv
  <2>4. gaps[g].Start < gaps[g].End
    BY <1>0, <1>1, Zenon DEF GInv, Apart
  <2>5. gaps[g].End <= gaps[e].End
    BY <1>0, <1>1, <2>2, ApartRises, Zenon DEF GInv
  <2> QED
    BY <2>1, <2>2, <2>3, <2>4, <2>5, Zenon
<1>9. a < gaps[g].End
  <2>1. SUFFICES ASSUME a = gaps[g].End PROVE FALSE
    BY <1>7, <1>8
  <2>2. c = gaps[g].End /\ c < End(f)
    BY <1>1, <1>8, <2>1 DEF Located
  <2>3. gaps[g].End < Length
    BY <1>1, <1>6, <1>8, <2>2, LengthAssumption
  <2>4. c \in DOMAIN queuedFrames /\ c < Until(c) /\ c - 1 \notin received
    BY <1>1, <2>2, <2>3, FrameBehindGap, Zenon
  <2>5. CASE f.Offset \notin DOMAIN queuedFrames
    BY <1>1, <2>4, <2>5, Zenon
  <2>6. CASE f.Offset \in DOMAIN queuedFrames
    <3>1. /\ queuedFrames[f.Offset].len \in Nat
          /\ \A b \in Nat : f.Offset <= b /\ b < Until(f.Offset) => b \in received
      BY <1>0, <2>6, QueuedFrame, Zenon
    <3>2. c = f.Offset + queuedFrames[f.Offset].len
      BY <1>1, <2>6, Zenon
    <3>3. CASE queuedFrames[f.Offset].len = 0
      <4>1. c = f.Offset
        BY <1>6, <3>2, <3>3
      <4>2. c < c + queuedFrames[f.Offset].len
        BY <2>4, <4>1, Zenon DEF Until
      <4> QED
        BY <1>1, <3>3, <4>2
    <3>4. CASE queuedFrames[f.Offset].len # 0
      <4>1. c - 1 \in Nat /\ f.Offset <= c - 1 /\ c - 1 < Until(f.Offset)
        BY <1>6, <3>1, <3>2, <3>4 DEF Until
      <4> QED
        BY <2>4, <3>1, <4>1, Zenon
    <3> QED
      BY <3>3, <3>4, Zenon
  <2> QED
    BY <2>5, <2>6, Zenon
<1>10. a < y /\ y - 1 \in Nat /\ y - 1 <= Length /\ a <= Length
       /\ gaps[e].Start <= y - 1 /\ y - 1 < gaps[e].End
  <2>1. /\ a \in Nat /\ y \in Nat /\ gaps[e].Start < y /\ y <= gaps[e].End
        /\ a <= y /\ (a < y \/ y = gaps[e].End) /\ y <= End(f)
    BY <1>7, Zenon
  <2>2. /\ gaps[g].End \in Nat /\ gaps[e].Start \in Nat /\ gaps[e].End \in Nat
        /\ gaps[g].End <= gaps[e].End
    BY <1>8, Zenon
  <2>3. a < y
    BY <1>9, <2>1, <2>2
  <2>4. y <= Length
    BY <1>6, <2>1, LengthAssumption
  <2> QED
    BY <2>1, <2>2, <2>3, <2>4, LengthAssumption
<1>11. a \notin received /\ y - 1 \notin received
  <2>1. a \notin received
    BY <1>0, <1>1, <1>7, <1>9, <1>10, GapBytes, Zenon
  <2>2. y - 1 \notin received
    BY <1>0, <1>8, <1>10, GapBytes, Zenon
  <2> QED
    BY <2>1, <2>2, Zenon
<1>12. readPosition <= a
  <2>1. readPosition \in Nat /\ a \notin Bytes(0, readPosition)
    BY <1>0, <1>11, Zenon DEF HInv, GInv
  <2> QED
    BY <1>7, <2>1 DEF Bytes
<1>13. received' = received \cup Bytes(a, y)
  <2>1. Bytes(a, y) \subseteq Bytes(f.Offset, End(f))
    BY <1>6, <1>7 DEF Bytes
  <2> QED
    BY <1>2, <1>7, <2>1, Zenon
<1>14. ASSUME NEW o \in DOMAIN queuedFrames \ K
       PROVE  a <= o /\ Until(o) <= y
  <2>1. PICK i \in g .. e - 1 : o = gaps[i].End
    BY <1>4, Zenon DEF Deleted
  <2>2. /\ i \in 1 .. Len(gaps) /\ g <= i /\ i < e
    BY <1>1, <1>8, <2>1
  <2>3. gaps[g].End <= gaps[i].End /\ gaps[i].End < gaps[e].Start /\ gaps[i].End \in Nat
    <3>1. gaps[g].End <= gaps[i].End
      BY <1>0, <1>1, <2>2, ApartRises, Zenon DEF GInv
    <3>2. gaps[i].End < gaps[e].Start
      BY <1>0, <1>8, <2>2, Zenon DEF GInv, Apart
    <3>3. gaps[i].End \in Nat
      BY <1>0, <2>2, ApartNaturals, Zenon DEF GInv
    <3> QED
      BY <3>1, <3>2, <3>3, Zenon
  <2>4. /\ Until(o) \in Nat /\ o \in Nat
        /\ o <= y - 1 /\ y - 1 < Until(o) => y - 1 \in received
    BY <1>0, <1>10, QueuedFrame, Zenon
  <2> QED
    <3>1. /\ a \in Nat /\ y \in Nat /\ gaps[e].Start < y /\ gaps[e].Start \in Nat
          /\ gaps[g].End \in Nat
      BY <1>7, <1>8, Zenon
    <3>2. a <= o /\ o <= y - 1
      BY <1>9, <2>1, <2>3, <3>1
    <3>3. ~ (y - 1 < Until(o))
      BY <1>11, <2>4, <3>2, Zenon
    <3> QED
      BY <2>4, <3>1, <3>2, <3>3
<1>15. f.FinBit => Bytes(y, Length) \subseteq received'
  <2>1. f.FinBit => Bytes(y, Length) \subseteq Bytes(f.Offset, End(f))
    BY <1>6, <1>7, LengthAssumption DEF Bytes
  <2> QED
    BY <1>2, <2>1, Zenon
<1>16. ~ pushErr' => /\ queuedFrames'[a].len = y - a
                     /\ queuedFrames'[a].FinBit = f.FinBit
  BY <1>1, <1>3, Zenon
<1>17. a \in Nat /\ y \in Nat /\ a < y
  BY <1>7, <1>10, Zenon
<1>18. \A o \in K : o # a \/ pushErr' => queuedFrames'[o] = queuedFrames[o]
  BY <1>3, <1>5, Zenon
<1>19. /\ pushErr' => DOMAIN queuedFrames' = K
       /\ ~ pushErr' => DOMAIN queuedFrames' = K \cup {a}
  BY <1>3, <1>5, Zenon
<1>20. K \in SUBSET DOMAIN queuedFrames
  BY <1>4, Zenon
<1>21. /\ a < y /\ readPosition <= a
       /\ a \notin received /\ y - 1 \notin received
       /\ received' = received \cup Bytes(a, y)
       /\ \A o \in DOMAIN queuedFrames \ K : a <= o /\ Until(o) <= y
       /\ \A o \in K : o # a \/ pushErr' => queuedFrames'[o] = queuedFrames[o]
       /\ pushErr' => DOMAIN queuedFrames' = K
       /\ ~ pushErr' => /\ DOMAIN queuedFrames' = K \cup {a}
                        /\ queuedFrames'[a].len = y - a
                        /\ queuedFrames'[a].FinBit = f.FinBit
       /\ f.FinBit => Bytes(y, Length) \subseteq received'
  BY <1>11, <1>12, <1>13, <1>14, <1>15, <1>16, <1>17, <1>18, <1>19, Zenon
<1> QED
  BY <1>17, <1>20, <1>21, Zenon

LEMMA PushDataHolds ==
    ASSUME HInv, ~ pushErr, NEW f \in Frames, PushData(f)
    PROVE  HInv'
<1>1. PICK a, y \in Nat, K \in SUBSET DOMAIN queuedFrames :
          /\ a < y /\ readPosition <= a
          /\ a \notin received /\ y - 1 \notin received
          /\ received' = received \cup Bytes(a, y)
          /\ \A o \in DOMAIN queuedFrames \ K : a <= o /\ Until(o) <= y
          /\ \A o \in K : o # a \/ pushErr' => queuedFrames'[o] = queuedFrames[o]
          /\ pushErr' => DOMAIN queuedFrames' = K
          /\ ~ pushErr' => /\ DOMAIN queuedFrames' = K \cup {a}
                           /\ queuedFrames'[a].len = y - a
                           /\ queuedFrames'[a].FinBit = f.FinBit
          /\ f.FinBit => Bytes(y, Length) \subseteq received'
  BY PushDataEffect, Zenon
<1>2. GInv /\ GInv'
  BY PushDataKeeps, Zenon DEF HInv
<1>3. readPosition' = readPosition /\ finRead' = finRead /\ readPosition \in Nat
  BY <1>2, Zenon DEF PushData, Arrive, GInv
<1>4. ASSUME NEW o \in DOMAIN queuedFrames'
      PROVE  \/ o = a /\ ~ pushErr' /\ (Until(o))' = y
             \/ /\ o \in DOMAIN queuedFrames /\ queuedFrames'[o] = queuedFrames[o]
                /\ (Until(o))' = Until(o)
  <2>1. CASE o = a /\ ~ pushErr'
    <3>1. queuedFrames'[o].len = y - a
      BY <1>1, <2>1, Zenon
    <3> QED
      BY <1>1, <2>1, <3>1 DEF Until
  <2>2. CASE ~ (o = a /\ ~ pushErr')
    <3>1. o \in K /\ queuedFrames'[o] = queuedFrames[o]
      BY <1>1, <1>4, <2>2, Zenon
    <3> QED
      BY <3>1, Zenon DEF Until
  <2> QED
    BY <2>1, <2>2, Zenon
<1>5. NoCrossing'
  <2>1. SUFFICES ASSUME NEW o \in DOMAIN queuedFrames', NEW p \in DOMAIN queuedFrames',
                        o < p, p < (Until(o))'
                 PROVE  (Until(p))' <= (Until(o))'
    BY Zenon DEF NoCrossing
  <2>2. CASE o = a /\ p = a
    BY <1>1, <2>1, <2>2
  <2>3. CASE o = a /\ p # a
    <3>1. p \in DOMAIN queuedFrames /\ (Until(p))' = Until(p)
      BY <1>4, <2>3, Zenon
    <3>2. /\ p \in Nat /\ Until(p) \in Nat
          /\ \A b \in Nat : p <= b /\ b < Until(p) => b \in received
      BY <1>2, <3>1, QueuedFrame, Zenon
    <3>3. CASE (Until(o))' = y
      <4>1. y - 1 \in Nat /\ p <= y - 1
        BY <1>1, <2>1, <3>2, <3>3
      <4>2. ~ (y - 1 < Until(p))
        BY <1>1, <3>2, <4>1, Zenon
      <4> QED
        BY <1>1, <3>1, <3>2, <3>3, <4>2
    <3>4. CASE o \in DOMAIN queuedFrames /\ (Until(o))' = Until(o)
      BY <2>1, <3>1, <3>4, Zenon DEF HInv, NoCrossing
    <3> QED
      BY <1>4, <3>3, <3>4, Zenon
  <2>4. CASE o # a
    <3>1. o \in DOMAIN queuedFrames /\ (Until(o))' = Until(o)
      BY <1>4, <2>4, Zenon
    <3>2. /\ o \in Nat /\ Until(o) \in Nat
          /\ \A b \in Nat : o <= b /\ b < Until(o) => b \in received
      BY <1>2, <3>1, QueuedFrame, Zenon
    <3>3. CASE p = a
      <4>1. o <= a /\ a < Until(o)
        BY <1>1, <2>1, <3>1, <3>2, <3>3
      <4> QED
        BY <1>1, <3>2, <4>1, Zenon
    <3>4. CASE p # a
      BY <1>4, <2>1, <3>1, <3>4, Zenon DEF HInv, NoCrossing
    <3> QED
      BY <3>3, <3>4, Zenon
  <2> QED
    BY <2>2, <2>3, <2>4, Zenon
<1>6. FinOK'
  <2>1. ASSUME NEW o \in DOMAIN queuedFrames', queuedFrames'[o].FinBit
        PROVE  Bytes((Until(o))', Length) \subseteq received'
    <3>1. CASE o = a /\ ~ pushErr' /\ (Until(o))' = y
      BY <1>1, <2>1, <3>1, Zenon
    <3>2. CASE /\ o \in DOMAIN queuedFrames /\ queuedFrames'[o] = queuedFrames[o]
               /\ (Until(o))' = Until(o)
      BY <1>1, <2>1, <3>2, Zenon DEF HInv, FinOK
    <3> QED
      BY <1>4, <3>1, <3>2, Zenon
  <2>2. finRead' => Bytes(0, Length) \subseteq received'
    BY <1>1, <1>3, Zenon DEF HInv, FinOK
  <2> QED
    BY <2>1, <2>2, Zenon DEF FinOK
<1>7. ASSUME ~ pushErr' PROVE Covered'
  <2>1. SUFFICES ASSUME NEW b \in received', readPosition <= b
                 PROVE  \E o \in DOMAIN queuedFrames' :
                            readPosition <= o /\ o <= b /\ b < (Until(o))'
    BY <1>3, Zenon DEF Covered
  <2>2. b \in Nat
    <3>1. received' \subseteq 0 .. Length - 1
      BY <1>2, Zenon DEF GInv, Exact
    <3> QED
      BY <3>1, LengthAssumption
  <2>3. a \in DOMAIN queuedFrames' /\ (Until(a))' = y
    <3>1. a \in DOMAIN queuedFrames' /\ queuedFrames'[a].len = y - a
      BY <1>1, <1>7, Zenon
    <3> QED
      BY <3>1, <1>1 DEF Until
  <2>4. CASE a <= b /\ b < y
    BY <1>1, <2>3, <2>4, Zenon
  <2>5. CASE ~ (a <= b /\ b < y)
    <3>1. b \in received
      <4>1. b \notin Bytes(a, y)
        BY <1>1, <2>2, <2>5 DEF Bytes
      <4> QED
        BY <1>1, <2>1, <4>1, Zenon
    <3>2. PICK o \in DOMAIN queuedFrames : readPosition <= o /\ o <= b /\ b < Until(o)
      BY <2>1, <3>1, Zenon DEF HInv, Covered
    <3>3. /\ o \in Nat /\ Until(o) \in Nat
          /\ \A x \in Nat : o <= x /\ x < Until(o) => x \in received
      BY <1>2, QueuedFrame, Zenon
    <3>4. o # a
      <4>1. o < Until(o) /\ o <= o
        BY <2>2, <3>2, <3>3
      <4> QED
        BY <1>1, <3>3, <4>1, Zenon
    <3>5. o \in K
      <4>1. SUFFICES ASSUME o \notin K PROVE FALSE
        BY Zenon
      <4>2. a <= o /\ Until(o) <= y
        BY <1>1, <4>1, Zenon
      <4> QED
        BY <1>1, <2>2, <2>5, <3>2, <3>3, <4>2
    <3>6. o \in DOMAIN queuedFrames' /\ queuedFrames'[o] = queuedFrames[o]
      BY <1>1, <1>7, <3>4, <3>5, Zenon
    <3> QED
      BY <3>2, <3>6, Zenon DEF Until
  <2> QED
    BY <2>4, <2>5, Zenon
<1>8. Bytes(0, readPosition)' \subseteq received'
  BY <1>1, <1>3, Zenon DEF HInv, Bytes
<1> QED
  BY <1>2, <1>5, <1>6, <1>7, <1>8, Zenon DEF HInv

LEMMA PushFinHolds ==
    ASSUME HInv, ~ pushErr, NEW f \in Frames, PushFin(f)
    PROVE  HInv'
<1>1. GInv /\ GInv'
  BY PushFinKeeps, Zenon DEF HInv
<1>2. /\ UNCHANGED <<received, readPosition, pushErr, finRead>> /\ f.len = 0
      /\ queuedFrames' = Enqueue(queuedFrames, f)
  BY Zenon DEF PushFin, streamVars
<1>3. f.Offset \in Nat /\ f.Offset = Length
  BY <1>2, FrameFields, Zenon
<1>4. /\ DOMAIN queuedFrames' = DOMAIN queuedFrames \cup {Length}
      /\ queuedFrames'[Length] = f
      /\ \A o \in DOMAIN queuedFrames : o # Length => queuedFrames'[o] = queuedFrames[o]
  BY <1>2, <1>3, Zenon DEF Enqueue
<1>5. (Until(Length))' = Length
  BY <1>2, <1>4, LengthAssumption DEF Until
<1>6. ASSUME NEW o \in DOMAIN queuedFrames'
      PROVE  \/ o = Length
             \/ /\ o \in DOMAIN queuedFrames /\ o # Length
                /\ queuedFrames'[o] = queuedFrames[o] /\ (Until(o))' = Until(o)
  BY <1>4, <1>6, Zenon DEF Until
<1>7. \A b \in received : b \in Nat /\ b < Length
  <2>1. received \subseteq 0 .. Length - 1
    BY <1>1, Zenon DEF GInv, Exact
  <2> QED
    BY <2>1, LengthAssumption
<1>8. ASSUME NEW o \in DOMAIN queuedFrames
      PROVE  /\ o \in Nat /\ Until(o) \in Nat
             /\ ~ (o < Length /\ Length < Until(o))
  <2>1. /\ o \in Nat /\ Until(o) \in Nat
        /\ \A b \in Nat : o <= b /\ b < Until(o) => b \in received
    BY <1>1, QueuedFrame, Zenon
  <2>2. o < Length /\ Length < Until(o) => Length \in received
    BY <2>1, LengthAssumption
  <2>3. Length \notin received
    BY <1>7, LengthAssumption
  <2> QED
    BY <2>1, <2>2, <2>3, Zenon
<1>9. NoCrossing'
  <2>1. SUFFICES ASSUME NEW o \in DOMAIN queuedFrames', NEW p \in DOMAIN queuedFrames',
                        o < p, p < (Until(o))'
                 PROVE  (Until(p))' <= (Until(o))'
    BY Zenon DEF NoCrossing
  <2>2. o # Length
    <3>1. SUFFICES ASSUME o = Length PROVE FALSE
      BY Zenon
    <3>2. Length < p /\ p < Length
      BY <1>5, <2>1, <3>1, Zenon
    <3>3. p \in Nat
      BY <1>4, <1>8, LengthAssumption, Zenon
    <3> QED
      BY <3>2, <3>3, LengthAssumption
  <2>3. o \in DOMAIN queuedFrames /\ (Until(o))' = Until(o)
    BY <1>6, <2>2, Zenon
  <2>4. p # Length
    BY <1>8, <2>1, <2>3, Zenon
  <2> QED
    BY <1>6, <2>1, <2>3, <2>4, Zenon DEF HInv, NoCrossing
<1>10. FinOK'
  <2>1. ASSUME NEW o \in DOMAIN queuedFrames', queuedFrames'[o].FinBit
        PROVE  Bytes((Until(o))', Length) \subseteq received'
    <3>1. CASE o = Length
      <4>1. Bytes(Length, Length) = {}
        BY LengthAssumption DEF Bytes
      <4> QED
        BY <1>5, <3>1, <4>1, Zenon
    <3>2. CASE o # Length
      BY <1>2, <1>6, <2>1, <3>2, Zenon DEF HInv, FinOK
    <3> QED
      BY <3>1, <3>2, Zenon
  <2> QED
    BY <1>2, <2>1, Zenon DEF HInv, FinOK
<1>11. Covered'
  <2>1. SUFFICES ASSUME NEW b \in received, readPosition <= b
                 PROVE  \E o \in DOMAIN queuedFrames' :
                            readPosition <= o /\ o <= b /\ b < (Until(o))'
    BY <1>2, Zenon DEF Covered
  <2>2. PICK o \in DOMAIN queuedFrames : readPosition <= o /\ o <= b /\ b < Until(o)
    BY <2>1, Zenon DEF HInv, Covered
  <2>3. o # Length
    BY <1>7, <1>8, <2>2, LengthAssumption
  <2>4. o \in DOMAIN queuedFrames' /\ (Until(o))' = Until(o)
    BY <1>4, <1>6, <2>3, Zenon
  <2> QED
    BY <2>2, <2>4, Zenon
<1> QED
  BY <1>1, <1>2, <1>9, <1>10, <1>11, Zenon DEF HInv, Bytes

LEMMA PopHolds ==
    ASSUME HInv, ~ pushErr, Pop
    PROVE  HInv'
<1> DEFINE frame == queuedFrames[readPosition]
           end == Until(readPosition)
<1>1. GInv /\ GInv'
  BY PopKeeps, Zenon DEF HInv
<1>2. /\ readPosition \in DOMAIN queuedFrames
      /\ readPosition' = end
      /\ queuedFrames' = [o \in DOMAIN queuedFrames \ {frame.Offset} |-> queuedFrames[o]]
      /\ finRead' = frame.FinBit
      /\ UNCHANGED <<received, pushErr>>
  BY Zenon DEF Pop, Until
<1>3. /\ readPosition \in Nat /\ end \in Nat /\ frame.Offset = readPosition
      /\ \A b \in Nat : readPosition <= b /\ b < end => b \in received
  BY <1>1, <1>2, QueuedFrame, Zenon DEF GInv, QueueOK
<1>4. readPosition <= end
  BY <1>1, <1>2, <1>3 DEF GInv, QueueOK, Until
<1>5. /\ DOMAIN queuedFrames' = DOMAIN queuedFrames \ {readPosition}
      /\ \A o \in DOMAIN queuedFrames' :
             queuedFrames'[o] = queuedFrames[o] /\ (Until(o))' = Until(o)
  BY <1>2, <1>3, Zenon DEF Until
<1>6. NoCrossing'
  BY <1>5, Zenon DEF HInv, NoCrossing
<1>7. Bytes(0, end) \subseteq received
  <2>1. ASSUME NEW b \in Bytes(0, end) PROVE b \in received
    <3>1. b \in Nat /\ b < end
      BY <1>3 DEF Bytes
    <3>2. CASE b < readPosition
      <4>1. b \in Bytes(0, readPosition)
        BY <1>3, <3>1, <3>2 DEF Bytes
      <4> QED
        BY <4>1, Zenon DEF HInv
    <3>3. CASE ~ (b < readPosition)
      BY <1>3, <3>1, <3>3
    <3> QED
      BY <3>2, <3>3, Zenon
  <2> QED
    BY <2>1, Zenon
<1>8. FinOK'
  <2>1. ASSUME frame.FinBit PROVE Bytes(0, Length) \subseteq received
    <3>1. Bytes(end, Length) \subseteq received
      BY <1>2, <2>1, Zenon DEF HInv, FinOK
    <3>2. Bytes(0, Length) \subseteq Bytes(0, end) \cup Bytes(end, Length)
      BY <1>3, LengthAssumption DEF Bytes
    <3> QED
      BY <1>7, <3>1, <3>2, Zenon
  <2> QED
    BY <1>2, <1>5, <2>1, Zenon DEF HInv, FinOK
<1>9. Covered'
  <2>1. SUFFICES ASSUME NEW b \in received, end <= b
                 PROVE  \E o \in DOMAIN queuedFrames' :
                            end <= o /\ o <= b /\ b < (Until(o))'
    BY <1>2, Zenon DEF Covered
  <2>2. b \in Nat
    <3>1. received \subseteq 0 .. Length - 1
      BY <1>1, Zenon DEF GInv, Exact
    <3> QED
      BY <3>1, LengthAssumption
  <2>3. PICK o \in DOMAIN queuedFrames : readPosition <= o /\ o <= b /\ b < Until(o)
    <3>1. readPosition <= b
      BY <1>3, <1>4, <2>1, <2>2
    <3> QED
      BY <3>1, Zenon DEF HInv, Covered
  <2>4. o \in Nat /\ Until(o) \in Nat
    BY <1>1, QueuedFrame, Zenon
  <2>5. o # readPosition
    BY <1>3, <2>1, <2>2, <2>3 DEF end
  <2>6. readPosition < o /\ o < end => Until(o) <= end
    BY <1>2, Zenon DEF HInv, NoCrossing
  <2>7. end <= o
    BY <1>3, <2>1, <2>2, <2>3, <2>4, <2>5, <2>6
  <2> QED
    BY <1>5, <2>3, <2>5, <2>7, Zenon
<1> QED
  BY <1>1, <1>2, <1>6, <1>7, <1>8, <1>9, Zenon DEF HInv, Bytes

LEMMA ReaderInvariant == SorterSpec => []HInv
<1>1. SorterInit => HInv
  <2>1. SUFFICES ASSUME SorterInit PROVE HInv
    BY Zenon
  <2>2. DOMAIN queuedFrames = {} /\ received = {} /\ readPosition = 0 /\ ~ finRead
    <3>1. DOMAIN queuedFrames = {}
      BY <2>1 DEF SorterInit
    <3> QED
      BY <2>1, <3>1, Zenon DEF SorterInit, InitStream
  <2>3. Bytes(0, readPosition) = {}
    BY <2>2 DEF Bytes
  <2> QED
    BY <2>1, <2>2, <2>3, SorterInitially, Zenon DEF HInv, NoCrossing, FinOK, Covered
<1>2. HInv /\ [SorterNext]_sorterVars => HInv'
  <2>1. SUFFICES ASSUME HInv, [SorterNext]_sorterVars PROVE HInv'
    BY Zenon
  <2>2. CASE SorterNext
    BY <2>1, <2>2, PushDataHolds, PushFinHolds, PopHolds, Zenon DEF SorterNext
  <2>3. CASE UNCHANGED sorterVars
    <3>1. GInv'
      BY <2>1, SorterStep, Zenon DEF HInv
    <3>2. UNCHANGED <<received, readPosition, queuedFrames, pushErr, finRead>>
      BY <2>3, Zenon DEF sorterVars
    <3> QED
      BY <2>1, <3>1, <3>2, Zenon DEF HInv, NoCrossing, FinOK, Covered, Until, Bytes
  <2> QED
    BY <2>1, <2>2, <2>3, Zenon
<1> QED
  BY <1>1, <1>2, PTL DEF SorterSpec

\* The reader is never kept waiting for a byte that has arrived, and gets io.EOF
\* only when all of the stream has arrived, for a stream of any length and any
\* frames of it, in any order and cut anywhere, although Push leaves frames in
\* the queue that others cover.
THEOREM NothingIsHeldBack == SorterSpec => []NothingHeldBack
<1>1. HInv => NothingHeldBack
  <2>1. SUFFICES ASSUME HInv PROVE NothingHeldBack
    BY Zenon
  <2>2. ASSUME readPosition \in received, ~ pushErr
        PROVE  /\ readPosition \in DOMAIN queuedFrames
               /\ queuedFrames[readPosition].len > 0
    <3>1. readPosition \in Nat /\ readPosition <= readPosition
      BY <2>1 DEF HInv, GInv
    <3>2. PICK o \in DOMAIN queuedFrames :
              readPosition <= o /\ o <= readPosition /\ readPosition < Until(o)
      BY <2>1, <2>2, <3>1, Zenon DEF HInv, Covered
    <3>3. o \in Nat /\ queuedFrames[o].len \in Nat
      BY <2>1, QueuedFrame, Zenon DEF HInv
    <3>4. o = readPosition
      BY <3>1, <3>2, <3>3
    <3> QED
      BY <3>1, <3>2, <3>3, <3>4 DEF Until
  <2> QED
    BY <2>1, <2>2, Zenon DEF HInv, FinOK, NothingHeldBack
<1> QED
  BY <1>1, ReaderInvariant, PTL

=============================================================================
