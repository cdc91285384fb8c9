----------------------- MODULE ReceivedPacketHistory -----------------------
(***************************************************************************)
(* ackhandler/received_packet_history.go: the received packet numbers as a *)
(* list of disjoint intervals, oldest first.  The loop of ReceivedPacket   *)
(* runs from the back of the list and stops at the first interval that     *)
(* StopsAt; the loop of DeleteUpTo runs from the front and returns at the  *)
(* first interval it does not touch.  lowestInReceivedPacketNumbers, which *)
(* nothing reads, is left out.                                             *)
(***************************************************************************)
EXTENDS Integers, Sequences, FiniteSetsExt

CONSTANTS
    MaxTrackedReceivedAckRanges

VARIABLE ranges

Interval == [Start : Nat, End : Nat]

Covered(rs) == UNION {rs[i].Start .. rs[i].End : i \in DOMAIN rs}

\* The list with element e as its i-th, and without its i-th.
InsertAt(rs, i, e) == SubSeq(rs, 1, i - 1) \o <<e>> \o SubSeq(rs, i, Len(rs))
RemoveAt(rs, i) == SubSeq(rs, 1, i - 1) \o SubSeq(rs, i + 1, Len(rs))

-----------------------------------------------------------------------------

\* The loop of ReceivedPacket returns at interval r.
StopsAt(r, p) ==
    \/ p >= r.Start /\ p <= r.End
    \/ r.End = p - 1
    \/ r.Start = p + 1
    \/ p > r.End

\* Mutant: the interval shrinks to the number received.
ExtendedToNumber(r, p) == [Start |-> p, End |-> p]

\* r extended by the adjacent number p.
Extended(r, p) ==
    IF r.End = p - 1 THEN [r EXCEPT !.End = p] ELSE [r EXCEPT !.Start = p]

\* The list with interval i replaced by r, merged with the interval before it
\* when the two have become adjacent.
Merged(rs, i, r) ==
    IF i > 1 /\ rs[i - 1].End + 1 = r.Start
      THEN [RemoveAt(rs, i) EXCEPT ![i - 1] =
               [Start |-> rs[i - 1].Start, End |-> r.End]]
      ELSE [rs EXCEPT ![i] = r]

\* The list after ReceivedPacket(p).
Received(rs, p) ==
    LET new     == [Start |-> p, End |-> p]
        stopped == {i \in DOMAIN rs : StopsAt(rs[i], p)}
        i       == Max(stopped)
        r       == rs[i]
    IN  CASE stopped = {}                     -> InsertAt(rs, 1, new)
          [] stopped # {} /\ p \in r.Start .. r.End -> rs
          [] stopped # {} /\ (r.End = p - 1 \/ r.Start = p + 1) ->
                 Merged(rs, i, Extended(r, p))
          [] OTHER                            -> InsertAt(rs, i + 1, new)

\* The list after DeleteUpTo(p): the intervals that end at p or before are
\* removed from the front, and p cuts the one after them.  The list is in order,
\* so that the loop does nothing more.
Deleted(rs, p) ==
    LET removed == {i \in DOMAIN rs : \A j \in 1 .. i : rs[j].End <= p}
        rest    == SubSeq(rs, Max({0} \cup removed) + 1, Len(rs))
    IN  IF rest # <<>> /\ p \in rest[1].Start .. rest[1].End - 1
          THEN [rest EXCEPT ![1] = [rest[1] EXCEPT !.Start = p + 1]]
          ELSE rest

-----------------------------------------------------------------------------

HistoryInit == ranges = <<>>

ReceivedPacket(p) ==
    /\ Len(ranges) < MaxTrackedReceivedAckRanges
    /\ ranges' = Received(ranges, p)

\* errTooManyOutstandingReceivedAckRanges, whether or not p needs a new range.
ReceivedPacketRejected(p) ==
    /\ Len(ranges) >= MaxTrackedReceivedAckRanges
    /\ UNCHANGED ranges

DeleteUpTo(p) == ranges' = Deleted(ranges, p)

=============================================================================
