----------------------------- MODULE StreamsMap -----------------------------
(***************************************************************************)
(* streams_map.go: the open streams of a session.  Goroutines of the       *)
(* application open streams (and wait for room in OpenStreamSync) and      *)
(* accept the peer's; the session opens streams for the frames it          *)
(* receives, lets the streams take turns to fill packets, removes finished *)
(* streams and cancels the others when it is closed.                       *)
(*                                                                         *)
(* Odd ids are the client's, even ones the server's.  A goroutine in Wait  *)
(* of a condition variable is "waiting" until Signal or Broadcast.         *)
(***************************************************************************)
EXTENDS Integers, Sequences, FiniteSetsExt, Functions

CONSTANTS
    Perspectives,             \* those that a run looks at
    Openers,                  \* goroutines that call OpenStreamSync
    MaxOutgoingStreams, MaxIncomingStreams,
    MaxID                     \* bound: largest id

ASSUME StreamsMapAssumption ==
    /\ Perspectives \subseteq {"server", "client"}
    /\ MaxOutgoingStreams \in Nat /\ MaxIncomingStreams \in Nat
    /\ MaxID \in Nat

VARIABLES
    perspective,              \* never changes
    streams, openStreams, roundRobinIndex,
    nextStream, highestStreamOpenedByPeer, nextStreamToAccept,
    numOutgoingStreams, numIncomingStreams,
    closeErr,
    opener, acceptor,         \* where the goroutines are
    waits                     \* history: the iterations that gave turns, since a
                              \* stream had its last one or the set of streams changed

streamCounts == <<numOutgoingStreams, numIncomingStreams>>
ids == <<nextStream, highestStreamOpenedByPeer, nextStreamToAccept>>
table == <<streams, openStreams, roundRobinIndex, waits>>
mapVars == <<perspective, table, ids, streamCounts, closeErr, opener, acceptor>>

Mine(id) == (id % 2 = 1) = (perspective = "client")

Priority == {1, 3}

\* After setup of the session, which opens the crypto stream, stream 1, and on
\* the server accepts it.
MapInit ==
    /\ perspective \in Perspectives
    /\ streams = {1} /\ openStreams = <<1>> /\ roundRobinIndex = 0
    /\ nextStream = IF perspective = "client" THEN 3 ELSE 2
    /\ nextStreamToAccept = IF perspective = "client" THEN 2 ELSE 3
    /\ highestStreamOpenedByPeer = IF perspective = "client" THEN 0 ELSE 1
    /\ numOutgoingStreams = 0 /\ numIncomingStreams = 1
    /\ closeErr = FALSE
    /\ opener = [o \in Openers |-> "idle"]
    /\ acceptor = "idle"
    /\ waits = << >>

\* The history variable for the set of open streams open.
NoWaits(open) == [id \in open \ Priority |-> 0]

\* Broadcast on a condition variable, and the waiting goroutines of a map.
Woken(state) == IF state = "waiting" THEN "woken" ELSE state
AllWoken(states) == [g \in DOMAIN states |-> Woken(states[g])]

-----------------------------------------------------------------------------

Room == numOutgoingStreams < MaxOutgoingStreams

\* openStreamImpl, in OpenStream and OpenStreamSync.
openStreamImpl ==
    /\ Room
    /\ IF perspective = "server"
         THEN numOutgoingStreams' = numOutgoingStreams + 1 /\ UNCHANGED numIncomingStreams
         ELSE numIncomingStreams' = numIncomingStreams + 1 /\ UNCHANGED numOutgoingStreams
    /\ nextStream' = nextStream + 2
    /\ streams' = streams \cup {nextStream}
    /\ openStreams' = Append(openStreams, nextStream)
    /\ waits' = NoWaits(streams')
    /\ UNCHANGED <<roundRobinIndex, highestStreamOpenedByPeer, nextStreamToAccept,
                   closeErr, acceptor>>

OpenStream ==
    /\ ~ closeErr
    /\ openStreamImpl
    /\ UNCHANGED opener

OpenStreamSync(o) ==
    /\ opener[o] \in {"idle", "woken"}
    /\ \/ /\ closeErr
          /\ opener[o] = "woken"
          /\ opener' = [opener EXCEPT ![o] = "idle"]
          /\ UNCHANGED <<table, ids, streamCounts, closeErr, acceptor>>
       \/ /\ ~ closeErr
          /\ openStreamImpl
          /\ opener' = [opener EXCEPT ![o] = "idle"]
       \/ /\ ~ closeErr
          /\ ~ Room
          /\ opener' = [opener EXCEPT ![o] = "waiting"]
          /\ UNCHANGED <<table, ids, streamCounts, closeErr, acceptor>>

AcceptStream ==
    /\ acceptor \in {"idle", "woken"}
    /\ CASE closeErr -> acceptor' = "idle" /\ UNCHANGED nextStreamToAccept
         [] ~ closeErr /\ nextStreamToAccept \in streams ->
               /\ acceptor' = "idle"
               /\ nextStreamToAccept' = nextStreamToAccept + 2
         [] OTHER -> acceptor' = "waiting" /\ UNCHANGED nextStreamToAccept
    /\ UNCHANGED <<table, nextStream, highestStreamOpenedByPeer, streamCounts,
                   closeErr, opener>>

\* CloseWithError; Cancel makes every stream finished.
CloseWithError ==
    /\ closeErr' = TRUE
    /\ acceptor' = Woken(acceptor)
    /\ opener' = AllWoken(opener)
    /\ UNCHANGED <<table, ids, streamCounts>>

\* The streams that GetOrOpenStream opens for a frame of the peer's stream id, in
\* order: those that were skipped too.
Opened(id) ==
    [k \in 1 .. (id - highestStreamOpenedByPeer) \div 2 |->
        highestStreamOpenedByPeer + 2 * k]

\* GetOrOpenStream for a stream of the peer that is not open and was not closed;
\* with too many streams open the session is closed.
GetOrOpenStream(id) ==
    /\ ~ closeErr
    /\ ~ Mine(id)
    /\ id > highestStreamOpenedByPeer
    /\ IF numIncomingStreams + (IF perspective = "server"
                                  THEN Len(Opened(id)) - 1 ELSE 0)
          < MaxIncomingStreams
         THEN /\ IF perspective = "server"
                   THEN /\ numIncomingStreams' = numIncomingStreams + Len(Opened(id))
                        /\ UNCHANGED numOutgoingStreams
                   ELSE /\ numOutgoingStreams' = numOutgoingStreams + Len(Opened(id))
                        /\ UNCHANGED numIncomingStreams
              /\ highestStreamOpenedByPeer' = id
              /\ streams' = streams \cup Range(Opened(id))
              /\ openStreams' = openStreams \o Opened(id)
              /\ waits' = NoWaits(streams')
              /\ acceptor' = Woken(acceptor)
              /\ UNCHANGED <<roundRobinIndex, nextStream, nextStreamToAccept,
                             closeErr, opener>>
         ELSE CloseWithError

\* The number that the round-robin index has after the removal of position i.
AdjustedIndex(i) == IF i < roundRobinIndex THEN roundRobinIndex - 1 ELSE roundRobinIndex

\* A stream finishes when the application is done with it, or when the peer resets
\* it, perhaps before the application accepted it.  The crypto stream stays.
Finished(id) == id # 1

\* Mutant: the counters by who opened the stream.
DecrementedByRole(id) ==
    IF Mine(id)
      THEN numOutgoingStreams' = numOutgoingStreams - 1 /\ UNCHANGED numIncomingStreams
      ELSE numIncomingStreams' = numIncomingStreams - 1 /\ UNCHANGED numOutgoingStreams

Decremented(id) ==
    IF id % 2 = 0
      THEN numOutgoingStreams' = numOutgoingStreams - 1 /\ UNCHANGED numIncomingStreams
      ELSE numIncomingStreams' = numIncomingStreams - 1 /\ UNCHANGED numOutgoingStreams

\* Mutant: a removed stream makes room without a signal.
NotSignalled == UNCHANGED opener

\* Signal wakes one of the waiting goroutines, if there is one.
SignalOpener ==
    IF \E o \in Openers : opener[o] = "waiting"
      THEN \E o \in Openers : /\ opener[o] = "waiting"
                              /\ opener' = [opener EXCEPT ![o] = "woken"]
      ELSE UNCHANGED opener

\* The slice without its i-th element.
RemoveAt(q, i) == SubSeq(q, 1, i - 1) \o SubSeq(q, i + 1, Len(q))

\* garbageCollectStreams and RemoveStream for one stream.
RemoveStream(id) ==
    /\ ~ closeErr
    /\ id \in streams
    /\ Finished(id)
    /\ Decremented(id)
    /\ LET i == CHOOSE i \in DOMAIN openStreams : openStreams[i] = id
       IN  /\ openStreams' = RemoveAt(openStreams, i)
           /\ roundRobinIndex' = AdjustedIndex(i - 1)
    /\ streams' = streams \ {id}
    /\ waits' = NoWaits(streams')
    /\ SignalOpener
    /\ UNCHANGED <<ids, closeErr, acceptor>>

\* The stream that RoundRobinIterate comes to at step i of its loop.
StreamAt(i) == openStreams[((i + roundRobinIndex) % Cardinality(streams)) + 1]

\* The turns up to that step: the streams of Priority are served before and get
\* none.
Turns(i) == Cardinality({j \in 0 .. i : StreamAt(j) \notin Priority})

\* Mutant: every packet starts with the same stream.
IndexUnmoved(n) == roundRobinIndex

IndexAfter(n) == (roundRobinIndex + n) % Cardinality(streams)

\* RoundRobinIterate until the packet is full: after n turns, or before the first
\* one when a stream of Priority fills it, and then the index stays.
RoundRobinIterate(n) ==
    /\ ~ closeErr
    /\ \/ /\ n = 0
          /\ streams \cap Priority # {}
          /\ UNCHANGED <<roundRobinIndex, waits>>
       \/ /\ n \in 1 .. Cardinality(streams \ Priority)
          /\ roundRobinIndex' = IndexAfter(n)
          /\ waits' = [id \in DOMAIN waits |->
                          IF \E i \in 0 .. Cardinality(streams) - 1 :
                                StreamAt(i) = id /\ Turns(i) <= n
                            THEN 0 ELSE waits[id] + 1]
    /\ UNCHANGED <<streams, openStreams, ids, streamCounts, closeErr, opener, acceptor>>

\* Within the bound on the ids; a caller that opens no stream is not bounded.
SyncStep(o) ==
    /\ nextStream <= MaxID \/ closeErr \/ ~ Room
    /\ OpenStreamSync(o)

MapNext ==
    /\ \/ nextStream <= MaxID /\ OpenStream
       \/ \E o \in Openers : SyncStep(o)
       \/ AcceptStream
       \/ \E id \in 1 .. MaxID : GetOrOpenStream(id) \/ RemoveStream(id)
       \/ \E n \in 0 .. MaxID : RoundRobinIterate(n)
       \/ ~ closeErr /\ CloseWithError
    /\ UNCHANGED perspective

\* A goroutine that was woken runs.
MapFairness ==
    /\ \A o \in Openers :
           WF_mapVars(opener[o] = "woken" /\ SyncStep(o) /\ UNCHANGED perspective)
    /\ WF_mapVars(acceptor = "woken" /\ AcceptStream /\ UNCHANGED perspective)

MapSpec == MapInit /\ [][MapNext]_mapVars /\ MapFairness

-----------------------------------------------------------------------------

\* The slice and the map of streams hold the same ids, which RoundRobinIterate
\* relies on when it indexes one with the length of the other, and the counters
\* count the even and the odd ids: none ever goes below 0 (a uint32 would wrap).
TableConsistent ==
    /\ streams = {openStreams[i] : i \in DOMAIN openStreams}
    /\ Len(openStreams) = Cardinality(streams)
    /\ numOutgoingStreams = Cardinality({id \in streams : id % 2 = 0})
    /\ numIncomingStreams = Cardinality({id \in streams : id % 2 = 1})

\* No stream starves behind the others: while the same streams are open, each is
\* considered within as many iterations that come to the rotation at all as there
\* are positions in the slice.  Streams 1 and 3 go first by design and may fill
\* every packet; the iterations that they end are not counted.
NoStarvation == \A id \in DOMAIN waits : waits[id] < Len(openStreams)

\* The stream to accept next was opened, and reset by the peer and removed before
\* AcceptStream came to it.
ResetBeforeAccept ==
    nextStreamToAccept <= highestStreamOpenedByPeer /\ nextStreamToAccept \notin streams

\* The room is for a goroutine that was woken and that only MaxID holds back.
HeldByBound == nextStream > MaxID /\ \E o \in Openers : opener[o] = "woken"

\* The goroutines of the application return.  When the session is closed all of
\* them do.  On the server one that waits in OpenStreamSync goes on when there is
\* room, unless others take the room first; on the client, whose own streams do
\* not use up the room that openStreamImpl compares with the limit, one removal
\* makes room for all who wait and wakes one.  AcceptStream returns a stream that
\* is open, unless that is reset before the goroutine runs: then it waits for ever,
\* whatever else the peer opens.
WaitersReturn ==
    /\ closeErr ~> (acceptor = "idle" /\ \A o \in Openers : opener[o] = "idle")
    /\ \A o \in Openers :
          (opener[o] = "waiting" /\ perspective = "server" /\ Room)
              ~> (opener[o] # "waiting" \/ ~ Room \/ HeldByBound)
    /\ (acceptor # "idle" /\ nextStreamToAccept \in streams)
          ~> (acceptor = "idle" \/ ResetBeforeAccept)

\* "OpenStream opens a new QUIC stream, returning a special error when the
\* peer's concurrent stream limit is reached" (interface.go).  The client counts
\* its streams in one counter and compares the other with the limit.
OwnStreamsLimited ==
    perspective = "server" =>
      Cardinality({id \in streams \ {1} : Mine(id)}) <= MaxOutgoingStreams

\* "It uses a round-robin-like scheduling to ensure that every stream is
\* considered fairly."
TurnsFair == \A id \in DOMAIN waits : waits[id] < Cardinality(DOMAIN waits)
=============================================================================
