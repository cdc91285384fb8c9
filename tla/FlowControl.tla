---------------------------- MODULE FlowControl ----------------------------
(***************************************************************************)
(* internal/flowcontrol: the flow control of one direction of a session,   *)
(* with the flow controllers of its sender and of its receiver.  Id 0 is   *)
(* the connection-level controller; the streams of Uncounted (the crypto   *)
(* stream and the header stream) do not contribute to it.                  *)
(*                                                                         *)
(* What was sent stays in the network and may be delivered at any time and *)
(* more than once: a lost frame is retransmitted.  Whether an update comes *)
(* soon after the last one, which doubles the increment, depends on        *)
(* measured times and is a free choice.                                    *)
(***************************************************************************)
EXTENDS Integers, FiniteSetsExt

CONSTANTS
    Streams, Uncounted,
    Length,                   \* the bytes that each stream has to send
    InitialSendWindow,        \* what a sender may send without an update
    ReceiveWindow,            \* the receiver's first window, by id
    MaxReceiveWindowIncrement,
    Resettable                \* streams that the sender may reset

Ids == Streams \cup {0}

ASSUME FlowControlAssumption ==
    /\ IsFiniteSet(Streams) /\ 0 \notin Streams
    /\ Uncounted \subseteq Streams /\ Resettable \subseteq Streams
    /\ Length \in [Streams -> Nat]
    /\ InitialSendWindow \in [Ids -> Nat]
    /\ ReceiveWindow \in [Ids -> Nat]
    /\ MaxReceiveWindowIncrement \in [Ids -> Nat]
    /\ \A i \in Ids : /\ InitialSendWindow[i] <= ReceiveWindow[i]
                      /\ ReceiveWindow[i] <= MaxReceiveWindowIncrement[i]

VARIABLES
    bytesSent, sendWindow,                            \* at the sender
    bytesRead, highestReceived, receiveWindow, receiveWindowIncrement,
    arrivedBytes,             \* the bytes of a stream that arrived
    resetRemotely,            \* streams whose RST_STREAM was received
    frames, updates, resets   \* in the network

sender == <<bytesSent, sendWindow>>
receiver == <<bytesRead, highestReceived, receiveWindow, receiveWindowIncrement,
              arrivedBytes, resetRemotely>>
flowVars == <<sender, receiver, frames, updates, resets>>

FlowInit ==
    /\ bytesSent = [i \in Ids |-> 0]
    /\ sendWindow = [i \in Ids |-> 0]
    /\ bytesRead = [i \in Ids |-> 0]
    /\ highestReceived = [i \in Ids |-> 0]
    /\ receiveWindow = ReceiveWindow
    /\ receiveWindowIncrement = ReceiveWindow
    /\ arrivedBytes = [s \in Streams |-> {}]
    /\ resetRemotely = {}
    /\ frames = {} /\ updates = {} /\ resets = {}

ContributesToConnection(s) == s \notin Uncounted

\* The value f with n added for stream s, and for the connection if s counts.
AddBytes(f, s, n) ==
    [i \in Ids |-> IF i = s \/ (i = 0 /\ ContributesToConnection(s))
                     THEN f[i] + n ELSE f[i]]

-----------------------------------------------------------------------------
(* The sender.                                                             *)

getSendWindow(i) == IF sendWindow[i] = 0 THEN InitialSendWindow[i] ELSE sendWindow[i]

FlowSendWindowSize(i) ==
    IF bytesSent[i] > getSendWindow(i) THEN 0 ELSE getSendWindow(i) - bytesSent[i]

\* Mutant: only the stream's own window limits it.
StreamWindowOnly(s) == FlowSendWindowSize(s)

SendWindowSize(s) ==
    IF ContributesToConnection(s)
      THEN Min({FlowSendWindowSize(s), FlowSendWindowSize(0)})
      ELSE FlowSendWindowSize(s)

WasReset(s) == \E r \in resets : r.stream = s

\* maybePopNormalFrames takes n bytes of stream s; AddBytesSent.
SendData(s, n) ==
    /\ ~ WasReset(s)
    /\ n <= SendWindowSize(s)
    /\ bytesSent[s] + n <= Length[s]
    /\ bytesSent' = AddBytes(bytesSent, s, n)
    /\ frames' = frames \cup {[stream |-> s, start |-> bytesSent[s],
                               end |-> bytesSent[s] + n]}
    /\ UNCHANGED <<sendWindow, receiver, updates, resets>>

\* The sender resets the stream at what it sent so far.
SendReset(s) ==
    /\ s \in Resettable
    /\ ~ WasReset(s)
    /\ resets' = resets \cup {[stream |-> s, offset |-> bytesSent[s]]}
    /\ UNCHANGED <<sender, receiver, frames, updates>>

\* handleWindowUpdateFrame.
UpdateWindow(u) ==
    /\ u.offset > sendWindow[u.id]
    /\ sendWindow' = [sendWindow EXCEPT ![u.id] = u.offset]
    /\ UNCHANGED <<bytesSent, receiver, frames, updates, resets>>

-----------------------------------------------------------------------------
(* The receiver.                                                           *)

CheckFlowControlViolation(i) == highestReceived[i] > receiveWindow[i]

\* UpdateHighestReceived of the manager, for stream s at byteOffset.
UpdateHighestReceived(s, byteOffset) ==
    highestReceived' =
        AddBytes(highestReceived, s, Max({byteOffset - highestReceived[s], 0}))

\* AddStreamFrame.
ReceiveData(f) ==
    /\ UpdateHighestReceived(f.stream, f.end)
    /\ arrivedBytes' = [arrivedBytes EXCEPT ![f.stream] = @ \cup f.start .. f.end - 1]
    /\ UNCHANGED <<sender, bytesRead, receiveWindow, receiveWindowIncrement,
                   resetRemotely, frames, updates, resets>>

\* handleRstStreamFrame: RegisterRemoteError, then ResetStream.
ReceiveReset(r) ==
    /\ UpdateHighestReceived(r.stream, r.offset)
    /\ resetRemotely' = resetRemotely \cup {r.stream}
    /\ UNCHANGED <<sender, bytesRead, receiveWindow, receiveWindowIncrement,
                   arrivedBytes, frames, updates, resets>>

\* The application reads the next byte of s.  Of a stream that was reset it can
\* read what arrived, without effect on flow control.
ReadByte(s) ==
    /\ s \notin resetRemotely
    /\ bytesRead[s] \in arrivedBytes[s]
    /\ bytesRead' = AddBytes(bytesRead, s, 1)
    /\ UNCHANGED <<sender, highestReceived, receiveWindow,
                   receiveWindowIncrement, arrivedBytes, resetRemotely, frames,
                   updates, resets>>

\* Mutant: the threshold is a quarter, which a small window never reaches.
NecessaryAtQuarter(i, increment) ==
    receiveWindow[i] - bytesRead[i] < increment \div 4

\* MaybeUpdateWindow: less than half of the increment is left.
Necessary(i, increment) == receiveWindow[i] - bytesRead[i] < increment \div 2

\* maybeAdjustWindowIncrement.
Doubled(i, increment) == Min({2 * increment, MaxReceiveWindowIncrement[i]})

\* The increment of stream s after MaybeUpdateWindow, for the streams and the
\* connection in fast, whose last update was less than two RTTs ago.
StreamIncrement(s, fast) ==
    IF Necessary(s, receiveWindowIncrement[s]) /\ s \in fast
      THEN Doubled(s, receiveWindowIncrement[s])
      ELSE receiveWindowIncrement[s]

\* The increments that MaybeUpdateWindow of streams returns and that are not 0.
NewIncrements(force, fast) ==
    {StreamIncrement(s, fast) : s \in {t \in Streams :
        /\ ContributesToConnection(t)
        /\ \/ StreamIncrement(t, fast) # receiveWindowIncrement[t]
           \/ force /\ ~ Necessary(t, receiveWindowIncrement[t])}}

\* EnsureMinimumWindowIncrement, with ConnectionFlowControlMultiplier = 1.5.
EnsuredIncrement(force, fast) ==
    LET inc == Max({(3 * n) \div 2 : n \in NewIncrements(force, fast)} \cup {0})
    IN  IF inc > receiveWindowIncrement[0]
          THEN Min({inc, MaxReceiveWindowIncrement[0]})
          ELSE receiveWindowIncrement[0]

\* The connection's increment; one that was just raised for a stream is not
\* doubled.
ConnectionIncrement(force, fast) ==
    LET inc == EnsuredIncrement(force, fast)
    IN  IF /\ inc = receiveWindowIncrement[0]
           /\ Necessary(0, inc) /\ 0 \in fast
          THEN Doubled(0, inc)
          ELSE inc

GetWindowUpdates(force, fast) ==
    LET increment == [i \in Ids |-> IF i = 0 THEN ConnectionIncrement(force, fast)
                                             ELSE StreamIncrement(i, fast)]
        necessary == {i \in Ids : Necessary(i, IF i = 0 THEN EnsuredIncrement(force, fast)
                                               ELSE receiveWindowIncrement[i])}
        window == [i \in Ids |-> IF i \in necessary THEN bytesRead[i] + increment[i]
                                                    ELSE receiveWindow[i]]
    IN  /\ receiveWindowIncrement' = increment
        /\ receiveWindow' = window
        /\ updates' = updates \cup
               {[id |-> i, offset |-> window[i]] :
                   i \in IF force THEN Ids ELSE necessary}
        /\ UNCHANGED <<sender, bytesRead, highestReceived, arrivedBytes,
                       resetRemotely, frames, resets>>

FlowNext ==
    \/ \E s \in Streams : \/ \E n \in 1 .. Length[s] : SendData(s, n)
                          \/ SendReset(s)
                          \/ ReadByte(s)
    \/ \E u \in updates : UpdateWindow(u)
    \/ \E f \in frames : ReceiveData(f)
    \/ \E r \in resets : ReceiveReset(r)
    \/ \E force \in BOOLEAN, fast \in SUBSET Ids : GetWindowUpdates(force, fast)

\* Every frame gets through in the end, both sides go on sending and the
\* application reads on.
FlowFairness ==
    /\ \A s \in Streams :
           /\ WF_flowVars(\E n \in 1 .. Length[s] : SendData(s, n))
           /\ WF_flowVars(ReadByte(s))
    /\ WF_flowVars(\E f \in frames : ReceiveData(f))
    /\ WF_flowVars(\E r \in resets : ReceiveReset(r))
    /\ \A i \in Ids : WF_flowVars(\E u \in updates : u.id = i /\ UpdateWindow(u))
    /\ WF_flowVars(\E fast \in SUBSET Ids : GetWindowUpdates(FALSE, fast))

FlowSpec == FlowInit /\ [][FlowNext]_flowVars /\ FlowFairness

-----------------------------------------------------------------------------

\* A peer that respects its windows is never accused of a violation, which
\* would close the session: however frames and updates overtake each other, the
\* sum of what the streams send stays below the connection's window.
HonestPeerAccepted ==
    /\ \A i \in Ids : ~ CheckFlowControlViolation(i)
    /\ \A r \in resets : r.offset >= highestReceived[r.stream]

\* Nobody waits for a window update that never comes: unless a stream is reset,
\* every stream is read to its end.
StreamsComplete ==
    <>(\/ \A s \in Streams : bytesRead[s] = Length[s]
       \/ \E s \in Streams : WasReset(s))

\* "when a RST_STREAM was received, the [flow controller] was already informed
\* about the final byteOffset for this stream" (stream.go): the bytes of a
\* stream that was reset are given back to the connection.
ResetReturnsCredit ==
    (\A s \in Streams \ Uncounted :
        s \in resetRemotely \/ bytesRead[s] = highestReceived[s])
    => bytesRead[0] = highestReceived[0]
=============================================================================
