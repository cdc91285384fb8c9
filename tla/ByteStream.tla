----------------------------- MODULE ByteStream -----------------------------
(***************************************************************************)
(* What the receiving half of a stream promises: bytes arrive in any order *)
(* and more than once, and what the reader is given is the stream itself:  *)
(* each byte once, in its place, and only after it arrived.                *)
(***************************************************************************)
EXTENDS Integers, Sequences

CONSTANT Length               \* the stream has the bytes 0 .. Length - 1

ASSUME LengthAssumption == Length \in Nat

VARIABLES
    received,                 \* the bytes that arrived
    readPosition,             \* the next byte for the reader
    delivered                 \* what the reader was given, byte by byte

streamVars == <<received, readPosition, delivered>>

-----------------------------------------------------------------------------

InitStream ==
    /\ received = {}
    /\ readPosition = 0
    /\ delivered = << >>

\* The bytes from first up to, but without, end.
Bytes(first, end) == first .. end - 1

Arrive(first, end) ==
    /\ received' = received \cup Bytes(first, end)
    /\ UNCHANGED <<readPosition, delivered>>

\* The n bytes of the stream from first on, one after the other.
Content(first, n) == [i \in 1 .. n |-> first + i - 1]

Deliver(n) ==
    /\ Bytes(readPosition, readPosition + n) \subseteq received
    /\ readPosition' = readPosition + n
    /\ delivered' = delivered \o Content(readPosition, n)
    /\ UNCHANGED received

NextStream ==
    \/ \E first \in 0 .. Length - 1 : \E end \in first + 1 .. Length :
           Arrive(first, end)
    \/ \E n \in 1 .. Length : Deliver(n)

InOrder == InitStream /\ [][NextStream]_streamVars
=============================================================================
