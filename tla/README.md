# Verification of mpquic-drl

TLA+ models of the multipath QUIC implementation under `src/quic-go`, checked with TLC on small
instances and, for loss recovery, acknowledgement, packet numbers, streams, the frame sorter, flow control,
congestion control, the handshake, the end of a session and the two endpoints, proved with TLAPS for every
value of the constants.
Paths below are relative to `src/quic-go` unless they begin with `src/`.

1. [The system](#1-the-system): inventory, interactions, what makes each part correct
2. [Modules](#2-modules): which module models what, and how
3. [Runs](#3-runs): what each run checks, bounds, fairness
4. [Proofs](#4-proofs): theorems, assumptions, inductive invariants
5. [Divergences](#5-divergences): where the code does not do what its comments say
6. [Not modelled](#6-not-modelled)

`PROJECT.json` lists components, runs, mutants, the source lines of every definition, and the
hazards the properties are aimed at.

## 1. The system

A *session*, one per connection, runs one goroutine, `session.run`, which owns most of the protocol
state. Around it run one goroutine per *path* (`path.run`, a timer), the *path manager*
(`pathManager.run`), the *connection manager* (`pconnManager.run`, and one `listen` per UDP socket),
the handshake (`HandleCryptoStream`), and application goroutines that read, write, open and accept
streams. A *client* adds the goroutines that dial and listen, a *server* the loop `serve`, a goroutine
per session that announces it to `Accept`, and one per ended session that removes it from the table.
They meet in channels (`receivedPackets`, `sendingScheduled`, `pathTimers`, `closeChan`,
`path.sentPacket`, `path.closeChan`, `path.runClosed`, `aeadChanged`, `handshakeChan`,
`handshakeCompleted`, `changePaths`, `sessionQueue`, `closeConns`) and under locks (`pathsLock`,
`pconnMgr.mutex`, the mutexes of streams, streams map, flow controllers and crypto setup).

| component | state | operations | what is hard | what makes it correct |
|---|---|---|---|---|
| sent packet handler (`ackhandler/sent_packet_handler.go`, `stop_waiting_manager.go`) | packet history, retransmission queue, bytes in flight, alarm, probe and timeout counts, least unacked | SentPacket, ReceivedAck, ReceivedClosePath, OnAlarm, DequeuePacketForRetransmission, GetStopWaitingFrame, DuplicatePacket | ACKs, losses, timeouts and CLOSE_PATH in any order | every packet acked or requeued exactly once; alarm armed; byte count exact |
| received packet history | list of intervals | ReceivedPacket, DeleteUpTo | arrivals in any order merge, extend and cut intervals | it is a set |
| received packet handler | largest observed, lower limit, ACK counters, alarm, last ACK | ReceivedPacket, SetLowerLimit, GetAckFrame | reordering, duplicates, late STOP_WAITING | everything owed is acked; no index out of range |
| packet numbering (`packet_number_generator.go`, `internal/protocol/packet_number.go`) | next number, next skip, largest received | Pop, truncation, inference | first epoch, wrap, late packets | sender's length and receiver's inference agree |
| ACK and CLOSE_PATH frames (`internal/wire`) | none | Write, Parse, MinLength | gaps longer than a byte, more ranges than fit | what is read back is what was received |
| stream frame sorter | queued frames, gaps | Push, Pop | arbitrary overlaps | every byte delivered once, in its place, as soon as possible |
| stream | read and write state, error flags, deadlines, two channels | Read, Write, Close, Reset, Cancel, RegisterRemoteError, SetDeadline, AddStreamFrame, getDataForWriting | four goroutines, signals that may be dropped | no lost wake-up; one final offset; Write reports what was sent |
| flow control (`internal/flowcontrol`) | windows, bytes sent, read and received, at two levels | AddBytesSent, UpdateWindow, UpdateHighestReceived, AddBytesRead, ResetStream, GetWindowUpdates | updates late, repeated, overtaken | no false violation; no mutual wait |
| streams map | map and slice of streams, counters, next ids | GetOrOpenStream, OpenStream(Sync), AcceptStream, Iterate, RoundRobinIterate, RemoveStream, CloseWithError | condition variables, three places that count | tables agree; no stream starves; nobody sleeps on |
| session run loop, path, path manager, connection manager | paths, timers, close state, sockets, advertised addresses | run, handlePacket, Close, closePaths, createPaths, createPathFromRemote, closePath, listen | two selects, locks, goroutines that wait for each other | never stuck; every path ends; every pair of addresses gets one path |
| scheduler (`scheduler.go`, `multiclients`) | quotas, learned tables, choice of the last state | selectPath (low latency, BLEST, ECF, Peekaboo, random, Q-learning, DQN, SAC), sendPacket, ackRemainingPaths | duplicates on other paths, answers of the learning server at any time | windows respected and used; nothing lost on the way |
| packer and framer (`packet_packer.go`, `stream_framer.go`) | queued control frames, STOP_WAITING and ACK per path, retransmissions | PackPacket, PackHandshakeRetransmission, PopStreamFrames | frames shared between packets, split frames, full packets | nothing taken is lost; packets fit and can be parsed |
| congestion control (`congestion`) | window, threshold, recovery, PRR, hybrid slow start, Cubic's curve, OLIA's counters | OnPacketSent, OnPacketAcked, OnPacketLost, OnRetransmissionTimeout | unsigned arithmetic, several losses of one flight | window within bounds; one reduction per flight; curve and counters do not wrap |
| handshake (`internal/handshake`) | keys of three levels, messages sent and received, parameters, the client's cache | HandleCryptoStream, Open, GetSealer, SetDiversificationNonce, SetParams | order of keys and packets, session and crypto goroutine wait for each other | same keys on both sides; both reach forward security |
| client, server (`client.go`, `server.go`) | session(s), version negotiation, table by connection ID, accept queue | Dial, Listen, Accept, Close, serve, handlePacket, removeConnection | version change, closed sessions, late packets, restart | best version; every running session in the table; every goroutine ends |

Interactions. A packet from a socket reaches `session.handlePacket` (a bounded channel), then
`path.handlePacketImpl` (number inference, decryption, `ReceivedPacket`), then `handleFrames`, which
calls the sent packet handler (ACK, CLOSE_PATH), received packet handler (STOP_WAITING), streams and
sorter (STREAM, RST_STREAM), flow control (WINDOW_UPDATE) and path manager (ADD_ADDRESS, CLOSE_PATH).
Each turn of the loop ends in `sendPacket`, where the scheduler picks a path and the packer collects
ACKs, STOP_WAITING, window updates, retransmissions and stream data for it; `SentPacket` arms the alarm,
and `path.sentPacket` tells the path's goroutine to reset its timer, which later comes back through
`pathTimers` as `OnAlarm` or as a late ACK.

Hard behaviours, and where they are met: interleaved goroutines (Stream, StreamsMap, SessionRun,
CryptoHandshake, Endpoints); loss, duplication and reordering (SentPacketHandler, ReceivedPacketHandler,
OnePath, FlowControl, StreamFrameSorter, SendLoop, CryptoHandshake, Endpoints); timeouts racing late
answers (SentPacketHandler, Congestion, SendLoop); deadlines racing data (Stream); limits and numeric
edges (OnePath, StreamFrameSorter, Congestion); waiting in a circle (SessionRun, FlowControl,
CryptoHandshake); a server that is restarted (Endpoints) and a cache that a stopped client left
incomplete or that a new server made stale (CryptoHandshake). The individual hazards are in
`PROJECT.json`.

## 2. Modules

```
SentPacketHandler           <- SentPacketHandlerProofs
ReceivedPackets             abstract: a set of numbers
  <- ReceivedPacketHandler  <- TableProofs
OnePath                     = PacketNumbers + ReceivedPacketHistory + AckFrames
  <= ReceivedPackets        refined by the intervals; <- OnePathProofs
ByteStream                  abstract: the receiving half of a stream
  <= StreamFrameSorter      refines ByteStream; <- StreamProofs
Stream                      <- StreamProofs
StreamsMap                  <- TableProofs
FlowControl                 <- SessionProofs
SendLoop                    = Schedulers + PacketPacker + the loop of sendPacket
Congestion                  on CongestionAlgorithms; <- CongestionProofs
SessionRun                  <- SessionProofs
CryptoHandshake             <- CryptoProofs
Endpoints                   <- EndpointsProofs
```

The `MC*` modules only add definitions and model values for TLC. Variables, constants and actions have
the names of the source's fields, constants and functions. Definitions that a comment calls *Mutant*
are plausible bugs of the code: replacing the definition after them by the mutant must break the property that
`PROJECT.json` names. Variables called *history* only observe the run: no guard but a bound
reads them.

**SentPacketHandler** (one path). State: every field of `sentPacketHandler` that decides something,
the `stopWaitingManager`, and the STOP_WAITING frame that the packer holds for the path. The linked
list `packetHistory` is a set of packets ordered by number. A packet has a set of frame kinds; those of
`ProbedFrame` are the ones that `Packet.IsRetransmittable` recognises, a smaller set than the frames
that make a packet enter the history. Time is abstracted: `alarm` and `lossTime` say whether an instant is
set, and which packets are old enough to be lost is a prefix chosen freely. RTT and congestion
callbacks have no influence on this state and are in Congestion. Errors that the session answers by closing
are in `sessionError`. `runLoop` is the goroutine that drives the path's timer: a CLOSE_PATH frame ends it,
after at most one more alarm. The model allows the gaps between numbers of which the handler keeps track
(`skippedPackets`), bounded by `MaxGap`, although the generator never produces one (section 5).

**ReceivedPackets**, **ReceivedPacketHistory**, **ReceivedPacketHandler** (one path). The first is the
abstract set of numbers. The second translates the two loops of `received_packet_history.go` over the
list of intervals; OnePath states that it refines the first with `received <- Covered(ranges)`. The third is built on the
abstract set: a packet's arrival, its entry into the history, `maybeQueueAck`, and a STOP_WAITING frame
in the same packet are one action, as they are one call of the session's goroutine. Whether `ackAlarm`
has passed is a choice.

**PacketNumbers** (one path). `packet_number_generator.go`, the length chosen by the packer and the
inference at the receiver; the network loses, repeats and reorders. `Epoch` and `Wrap` are parameters:
256^len and 2^64 in the code.

**AckFrames**, **OnePath**. AckFrames has `Write`, `Parse`, `MinLength` and the validation of ACK and
CLOSE_PATH frames as operators between lists of ranges and records of wire fields; the limits of one
byte on a gap and on the number of blocks are parameters. OnePath puts the numbering, the interval list
and the frames one behind the other: in every state that arrivals and STOP_WAITING frames can produce,
the frame that `GetAckFrame` would build is written and parsed.

**ByteStream**, **StreamFrameSorter**. The abstract receiving half of a stream, and the sorter with all
of its cuts. A frame's data is identified by the position of its first byte, which the cuts move apart from
the frame's offset if they are wrong; `delivered` is what the reader was given, byte by byte. The sorter
refines ByteStream.

**Stream**. Read, Write (each cut at the points where the mutex is released), Close, Reset, Cancel,
RegisterRemoteError, deadlines, AddStreamFrame, and the framer's four looks at a stream. The two
channels of capacity 1 are bits.

**FlowControl** (one direction). Sender, network and receiver with connection and stream level,
including the automatic tuning: whether an update came within two RTTs of the one before is a choice.

**StreamsMap**. The table of streams with goroutines in `OpenStreamSync` and `AcceptStream`. Opening
several streams for one frame is one action; streams opened before `TooManyOpenStreams` is hit are not
kept, since the session closes then. A turn of the round robin is one call of the function passed to it:
the stream is considered, also when less than a frame header is left in the packet. Streams 1 and 3 come
first and may fill the packet before any turn. The peer may reset a stream before it is accepted.

**Schedulers**. One operator for each select function of `scheduler.go`: the set of paths it may return
for what it reads (paths, windows, RTTs, quotas, its own state) and for the packet it is asked about. The
order of a map, rand, measured rates and the values that a learning server trained are choices; an
unanswered request, a late answer and a failed one are steps of SendLoop. Rewards are left out but for the
entry they make in a Q-table: what is summed up and posted to the learning server changes no later choice.

**PacketPacker**. `packet_packer.go` and `stream_framer.go`. Stream frames are objects on a heap, because
queues and packets of several paths hold pointers to the same frame: splitting it, or clearing its
`DataLenPresent`, shows in all of them. Lengths are in units of a control frame.

**SendLoop**. `scheduler.sendPacket` and what it calls, step by step: retransmissions are collected from
every path, a path is selected, control frames are queued, a packet is packed, sent, duplicated on
other paths, and at the end `ackRemainingPaths` looks at each path. Between two calls there are ACKs,
losses, timeouts, keep-alive, window updates, blocked frames, resets, addresses and the steps of the
handshake; the application's Write and CancelWrite and `createPath` with its PING interleave with the steps of the
loop. A path is cut down to what the loop reads of it; its `inflight` is what SentPacketHandler models.

**CongestionAlgorithms**, **Congestion**. The first has `rtt_stats.go`, `prr_sender.go`,
`hybrid_slow_start.go`, `cubic.go` and `olia.go` as operators on records, with the code's integer
divisions, its clamps, its unsigned subtractions modulo `Wrap` and its signed products folded into the range of
an int64 (`Int64`). The second has the two senders and
the calls that the sent packet handler makes: an ACK or a timeout is a list of `OnPacketAcked` and
`OnPacketLost` calls, the oldest packet first. The history variable `stale` says that the epoch of Cubic's
curve began while an older application-limited period was still recorded (section 5).

**SessionRun**. The session's loop with its two selects and its sends, all path loops, path manager,
connection manager and another goroutine that calls Close. `pathsLock` follows `sync.RWMutex`: a waiting writer holds
off new readers. A stretch of a goroutine that neither waits nor lets go of anything in between is one
step; the RLock of `schedulePathsFrame` at the end of a turn is folded into it. Go's iteration over a
map that grows may or may not see the new entry (`RangePaths`). What packets hold is a choice. The
addresses are reduced to the number of pairs. Paths created by the server (even ids) and a server's
ADD_ADDRESS are not modelled.

**CryptoHandshake**. Client and server, each with its crypto goroutine and its run loop. A key is the
record of the messages and the nonce it is derived from, so that two sides have the same key exactly if
they derived it from the same things; opening a packet is having its key. The client starts from one of
several caches of certificate and server configuration. Packets that cannot be opened yet are kept up
to `MaxUndecryptablePackets` and retried when a level is announced. Packets arrive in any order, also after
the side that sent them has ended.

**Endpoints**. `client.go`, `server.go` and the sockets of `pconn_manager.go`: version negotiation, the
table of sessions with the timer that deletes a closed entry, the queue of Accept, goroutines in Close,
sockets and sessions that fail, and a restart of the server with other versions. A handshake is two
answers of the server. Dial waits twice, for a secure session (`DialHandshake`) and for the complete handshake
(`DialComplete`). `Close` ranges over the table while other goroutines change it: an entry that was there at the
beginning is visited unless it is deleted or replaced first, one that was put there later may be visited
(Go's rule for maps). A packet for which `newSession` fails is dropped, as one for an unsupported version
(`ServeDrops`).

## 3. Runs

Twelve runs, all of which pass; the number of distinct states is in brackets.

| run | module, config | checks |
|---|---|---|
| sent_packet_handler | MCSentPacketHandler | BytesInFlightExact, NothingForgotten, LossRecoveryArmed, StopWaitingPassesLost, InFlightResolved [731,239] |
| received_packet_handler | MCReceivedPacketHandler | GetAckFrameSafe, AckPromise, AckedEventually [75,080] |
| one_path | MCOnePath | LengthSuffices, FramesRoundTrip, and the refinement ImplementsSet [31,733] |
| frame_sorter | StreamFrameSorter, MCStreamFrameSorter.cfg | GapsAreExact, NothingHeldBack, and the refinement InOrder [6,315] |
| stream | Stream, MCStream.cfg | WriteReportsSent, FinalOffsetStands, CallersWake [628,401] |
| flow_control | MCFlowControl | HonestPeerAccepted, StreamsComplete [32,727] |
| streams_map | StreamsMap, MCStreamsMap.cfg | TableConsistent, NoStarvation, WaitersReturn [175,460] |
| send_loop | MCSendLoop | NothingLost, PacketWellFormed, ErrorCause, WindowsUsed [571,854] |
| congestion | MCCongestion | WindowBounds, NoWrap, WindowStands [1,325,939] |
| session_run | SessionRun, MCSessionRun.cfg | PathsStopped, NeverStuck, AddressesUsed [491,460] |
| crypto_handshake | MCCryptoHandshake | KeysAgree, HonestNeverFails, NoLostWakeup, HandshakeEnds [81,835] |
| endpoints | MCEndpoints | LiveInTable, DialsBestVersion, NoSessionAfterServe, GoroutinesEnd [184,937] |

What they show:

- *sent_packet_handler*: in every order of sends, ACKs, CLOSE_PATH frames, probes and timeouts, a
  packet with retransmittable frames is in the history, acked or requeued, and only one of the three;
  `bytesInFlight` is the sum of the history; a packet that the alarm would retransmit has an alarm;
  the STOP_WAITING frame for a retransmission exists and lies beyond every number that the path queued for
  retransmission; and what is in flight is resolved in the end, as long as the path is not closed.
- *received_packet_handler*: `GetAckFrame` never indexes an empty list, an unacked packet has an ACK or
  an alarm pending, everything owed is acked in the end.
- *one_path*: a packet, early or late, gets its own number back; the interval list is a set with one
  interval per maximal run of numbers; the ACK and CLOSE_PATH frames built from it read back as what was
  received, with the lowest ranges left out when there are too many, and take the space that the packer
  was told.
- *frame_sorter*: whatever the overlaps, what the reader gets is the stream, no byte lost, invented, moved or
  given twice; the next byte is at the head of the queue as soon as it has arrived; io.EOF does not come
  before everything has arrived.
- *stream*: no lost wake-up, one final offset, and Write returns what the framer took. The equality
  holds until a write deadline passes; after that only the inequality (section 5).
- *flow_control*: a peer that respects its windows is never accused, and nobody waits for ever.
- *streams_map*: map, slice and counters agree on both sides, the round robin considers every stream
  unless streams 1 and 3 fill all packets, and callers that wait return: all of them when the session is closed,
  and AcceptStream unless the stream it waits for was reset before it was accepted (section 5).
  What concerns a limit on the client's own streams is about the server
  only: the client compares the wrong counter (section 5).
- *send_loop*: under each scheduler, what was taken from the application is acked, in flight or queued,
  however frames are split, shared and duplicated; packets fit and can be parsed; each error that ends
  the loop has the one cause that `ErrorCause` names; windows are respected and used. The exceptions
  that the properties name are the behaviours of section 5.
- *congestion*: windows keep their bounds; from a reduction to the ACK of a newer packet the window
  stands; the epoch of Cubic's curve is never in the future and the curve does not wrap, unless an older
  application-limited period was recorded when the epoch began (section 5); OLIA's counters stay in order.
- *session_run*: no goroutine is stuck except in the three situations that `BlockedAtEndedPath`,
  `LockedOut` and `WaitsForNewPath` describe (section 5); on the server all path goroutines have ended
  when Close returns; known addresses get their path.
- *crypto_handshake*: both sides derive the same keys, packets of a lower level are not accepted after
  one of a higher level, no kept packet is forgotten when its key is there, and from every usable cache
  the handshake completes without an error, whatever the network does.
- *endpoints*: the version is the best that both have, also when the list in the version negotiation
  packet was that of another server; a running session is in the table; none runs after `serve` has
  returned; Dial, listen, Close and the announcing goroutines end, with the exceptions that
  `GoroutinesEnd` names.

### Bounds

- SentPacketHandler: 3 packet numbers with gaps of 1, two tracked packets at most, two lengths, a
  probed and an unprobed frame kind, 2 ACK-carrying packets. Two packets suffice to have one acked and
  one lost in any order; the third exceeds the tracking limit, and DuplicatePacket exceeds it by one.
- ReceivedPacketHandler: numbers up to 4 with 2 ranges; an ACK after 3 packets (20 in the code) or 2
  retransmittable ones (2), so that each of the reasons for an ACK is met alone. `Version39` is FALSE,
  where all of them apply.
- OnePath: bytes of one bit, so lengths of 2, 4 and 6 bytes stand for 4, 16 and 64 numbers, and 7
  numbers cross epochs; 4 ranges, which 7 numbers reach; gaps of at most 2 per block and 2 blocks per
  frame, so that a gap needs two blocks, a frame is cut, and Write fails.
- StreamFrameSorter: 7 bytes leave up to 4 gaps, one more than the limit.
- Stream: one frame, two bytes, two instants: the races are about one wake-up each.
- FlowControl: two streams of 3 bytes, windows of 2 and 3, so that either level can be the limit; one
  of the streams may be reset.
- StreamsMap: two openers, ids up to 7, one outgoing and three incoming streams.
- SendLoop: paths 0, 1 and 3; a window of one packet, a payload of 5 units. `MCScenarios` lists what
  happens: every scheduler with two and three paths, RTTs known and unknown, and data of one byte and of
  more than a packet; longer histories of losses for the default scheduler; every control frame; early
  data and new paths during a handshake. A scenario has 2 to 4 events.
- Congestion: windows from 2 to 8 packets and three `Bounds`. Cubic's clock and curve, with 7 packets and a window
  that begins at 7: a loss takes it to 5, the cube root of the distance rounds, and the curve is met below
  and above its origin, with and without a shift of the epoch. The delays of hybrid slow start, with 4
  packets in flight. Three paths under OLIA, one without traffic, the
  others with 3 packets and a timeout each.
- SessionRun: paths 0 and 1, one packet in a turn, one fault (a failed PING or a CLOSE_PATH frame), on
  either side.
- CryptoHandshake: three CHLOs (as in the code), one kept packet (10 in the code) so that the limit is
  met, four caches, idle timeouts of whole and half seconds.
- Endpoints: a queue of one (5 in the code), ten situations with at most two sessions per
  connection ID, in one of them three: combinations of versions, failures, restarts and callers of Close.

### Fairness

- SentPacketHandler: `WF(TimerFires)` while the path's run loop runs: its timer resets itself. Nothing is
  assumed once the path is closed. Every packet sent, however, pushes the alarm back
  (`ackhandler/sent_packet_handler.go:160-161`): the assumption holds because the packets of a run are
  finitely many, as for an application that pauses.
- ReceivedPacketHandler: `WF(GetAckFrame)`; every turn of the loop asks every path
  (`sendPacket`, `ackRemainingPaths`), and the timer wakes it for `ackAlarm`.
- Stream, StreamsMap, SessionRun, SendLoop: weak fairness of each goroutine that is not blocked, the Go
  scheduler's promise. None is assumed for the application or the network.
- Endpoints: the same for all goroutines of client and server together; each takes finitely many steps,
  so none of them can keep another from its turn. The handshake timer is among them, the network is not.
- FlowControl: frames get through in the end (retransmission), the application reads, and both sides
  keep sending; nothing is assumed of forced window updates.
- CryptoHandshake: weak fairness of the goroutines; strong fairness of the cases of `select`, which
  chooses at random among those that are ready; strong fairness of the arrival of a crypto message that
  is still needed and of forward-secure data, both of which are retransmitted.

Congestion and OnePath have no liveness property. Deadlock checking is off where the system may really
stop: a closed session, a finished stream, the end of the bounded input. Liveness properties say instead
who must not stop. SendLoop, which can always go on or is over, is checked for deadlock.

## 4. Proofs

The theorems hold for every value of the constants that the named assumptions allow, so for any number
of packets, streams, connection IDs or goroutines, any limit and any window; the bounds of the runs are
constants like the others.

| theorem | states | in |
|---|---|---|
| BytesInFlightIsExact, NothingIsForgotten, LossRecoveryIsArmed, StopWaitingAlwaysPassesLost, and TypeCorrect, StopWaitingIsNeverAhead, TrackedIsBounded | `Spec => []P` for the invariants of SentPacketHandler, those of the run and three more | SentPacketHandlerProofs |
| GetAckFrameIsSafe, AckIsPromised, and HandlerTypeCorrect, GapIsReported | `HandlerSpec => []P` for the invariants of ReceivedPacketHandler | TableProofs |
| HonestPeerIsAccepted | `FlowSpec => []HonestPeerAccepted` | SessionProofs |
| LengthAlwaysSuffices, HistoryImplementsSet, NoNumberIsSkipped | `PathSpec => []LengthSuffices`; the refinement `PathSpec => ImplementsSet`; `PathSpec => [](lastSkipped = 0)` | OnePathProofs |
| WriteAlwaysReportsSent, FinalOffsetAlwaysStands | `Spec => []WriteReportsSent`, and the action property `Spec => FinalOffsetStands` | StreamProofs |
| TableIsConsistent, OwnStreamsAreLimited, NoStreamStarves | `MapSpec => []P` for TableConsistent, OwnStreamsLimited and NoStarvation | TableProofs |
| GapsStayExact, NothingIsHeldBack, SorterIsAByteStream | `SorterSpec => []P` for GapsAreExact and NothingHeldBack, and the refinement `SorterSpec => InOrder` | StreamProofs |
| WindowAlwaysBounded, WindowAlwaysStands, EpochNeverAhead, LossesStayInOrder | `Spec => []P` for WindowBounds, EpochNotAhead and LossesInOrder (two of the three conjuncts of NoWrap), and the action property `Spec => WindowStands` | CongestionProofs |
| KeysAlwaysAgree, HonestNeverFail, NoWakeupIsLost | `Spec => []P` for KeysAgree, HonestNeverFails and NoLostWakeup | CryptoProofs |
| PathsAlwaysStop | `Spec => []PathsStopped` | SessionProofs |
| LiveAlwaysInTable, NeverSessionAfterServe, AlwaysBestVersion | `Spec => []P` for LiveInTable, NoSessionAfterServe and DialsBestVersion | EndpointsProofs |

**SentPacketHandlerProofs.** Assumption: `SentPacketHandlerAssumption` (sets and naturals; at least one
tracked packet). The inductive invariant `IInv` adds to the invariants themselves

- `HistoryOK`: the history is finite and has one packet per number. Without it "queued for
  retransmission" could leave another packet of the same number behind, and NothingForgotten would not
  survive the step; finiteness is what makes the counts of TrackedBounded meaningful.
- `StopWaitingOK`: the frame kept is the largest one sent, which is at most the least unacked number, and every
  requeued packet is below that. StopWaitingPassesLost is not inductive alone: it depends on what
  earlier calls of `GetStopWaitingFrame` left in the manager.

ACKs, CLOSE_PATH and the three kinds of timeout all take packets out of the history through `Requeue`;
`RequeuePreserves` and `LossStepPreserves` prove this once, and each of the steps shows that it is of
that shape. `LeastUnackedAdvances` is about the least unacked number, `InOrderIsSequence` about the walk
over the history. BytesInFlightExact comes on top, with `BytesOK`. A sum over a set would need induction;
`Bytes` counts instead the pairs of a packet and one of its bytes, so that `BytesOfUnion` follows from the
cardinality of a disjoint union, and `SentPacketCounts` and `RequeueCounts` from it.

**TableProofs**, acknowledgement. `HInv` adds `ObservedOK` (a lower limit stays below the largest number
observed, because a STOP_WAITING frame names at most the number of its own packet: so the largest
observed is always tracked, and there is a range for `GetAckFrame` to index) and `PromiseOK` (the packets
owed are at most as many as the counter that `maybeQueueAck` compares). `HighestFirstAbove` connects the
code's test for a new gap, on the first number of the highest range, with the numbers that are missing.

**SessionProofs**, flow control. `FInv`: windows only rise (`WindowsOK`, with the automatic tuning in
`WindowRises`), nothing on the way is beyond what was sent (`NetworkOK`), and the connection's totals are
the sums over its streams (`TotalOK`), again as the number of pairs of a stream and one of its bytes.
`TotalsOrdered` then compares the two ends: received at most sent, stream by stream and hence in total.
Assumption `FlowControlAssumption`: finitely many streams, the sender's first window at most the
receiver's, and an initial window within the largest increment, without which a window could shrink.

**OnePathProofs**, intervals. `Ordered` says of a list of intervals that there is a gap of at least one
number between one and the next; it is inductive for both loops. `ReceivedAdds` goes through the places
where the loop of `ReceivedPacket` may stop (inside an interval, at one of its ends with or without a
merge, behind one, in front of all: `LastStop` is about the choice, `InsertAdds`, `ExtendAdds` and `MergeAdds`
about the results) and shows that the numbers covered grow by exactly the new one. `DeletedRemoves` does the same
for `DeleteUpTo`, and `OneIntervalPerRun` shows that the starts of the intervals are the numbers whose
predecessor is missing. HistoryImplementsSet is the refinement: `PathInit` maps to the empty set, and every
step of `PathNext` to `Add`, `RemoveUpTo` or a stutter.

**OnePathProofs**, numbers. `InferIsExact`: the inference returns the number when it is less than half an
epoch from the expected one; the candidate of the previous epoch, which wraps around in the first epoch,
is then too far away to be chosen. `LengthCovers`: the length chosen by the sender spans the numbers
since its least unacked. The invariant `PInv` records what is known of each packet in the network, and that
`nextToSkip` stays 0, from which NoNumberIsSkipped follows (section 5). `PacketNumbersAssumption`
bounds numbers by half of the largest epoch, 2^47 in the code.

**StreamProofs**, streams. `WInv` says of a Write in progress how much of its data was taken already
(`WriteOK`: what was reported, plus what is gone of the current call, is the offset), and of the end of the
stream that FIN is announced only when nothing is left and RST_STREAM only with an error that stops the
framer (`FinalOK`). FinalOffsetStands is an action property: it follows from `WInv` in the state before the step.

**StreamProofs**, the frame sorter. `GInv`: the gaps are in order with data between them (`Apart`), they hold
exactly the bytes that did not arrive (`Exact`), and a queued frame is filed under its own offset and has
only bytes that arrived (`QueueOK`). Push cuts a frame up to four times, and each cut is about another part of
the state: `PushedIsLocated` says where the loops over the gaps stop and what is left of the frame, as the
relation `Located` between numbers; `CutsTakeDuplicates` concludes from it that only bytes were cut which had
arrived (`Trimmed`); `GapsCut` shows that replacing the gaps between the first and the last one touched by what
remains of the two takes exactly these bytes out. The cases in which the frame covers whole gaps, or ends at the
border of one, are cases of the same three lemmas. InOrder is the refinement of ByteStream: Push maps
to the arrival of the bytes of the frame, and Pop reads only from a frame that is filed under the
position of the reader, so by `QueueOK` only bytes that arrived, each from its place in the data.
NothingHeldBack needs more, `HInv`: frames that the sorter should have deleted may stay in the queue, so the
reader may step over the offset of one, and a byte could then be in no frame that is still to be read. What
prevents it is that a frame which begins inside another one also ends inside it (`NoCrossing`); hence each byte that
arrived and was not read is in a frame that begins at or behind the reader (`Covered`), also after Pop. What
follows a frame with FIN has arrived, because only duplicates are cut off its end (`FinOK`).
Assumptions `LengthAssumption` and
`SorterAssumption`: a stream has a length, below MaxByteCount, the end of the last gap.

**TableProofs**, streams. `TInv`: the slice enumerates the map without repetition and the counters are the
cardinalities by parity (`TableOK`); the next id of either side was never open (`IdsOK`), which is what
keeps `openStreams` free of duplicates; `ServerLimited`. The lemmas `ConcatEnumerates` and
`RemoveAtEnumerates` are about sequences without repetition. NoStarvation needs to know where a stream
stands: `TurnsOK` says that the packets for which a stream has waited and its distance from the index, in
the order of the rotation, are together less than the length of the slice. An iteration that gives it no
turn brings the index closer (`EveryPositionIsReached` and the lemmas about remainders); opening and
removing begin the count again, also when RemoveStream leaves the index behind the last position.

**CryptoProofs.** The invariant `KInv` follows the exchange of messages, with the network holding all that was
ever sent. Until the server accepts a CHLO the client sends the next one only after an answer to the one
before (`TurnsOK`); so a CHLO with the client's latest number was made from the state that the client still has
(`HelloOK`), and an answer names a CHLO that the server has read (`AnswerOK`). This is what AgreedOK needs: when
the server derives its keys from the CHLO it reads, the client still has the configuration, key pair and
nonce of that CHLO and cannot change them any more, whatever REJs arrive late. KeysAgree follows with
`KeysOK`. HonestNeverFails has an invariant of its own, `UInv`: from a usable cache every REJ brings the
client one step further, the token and the configuration first, the certificate with its proof then
(`ProgressOK`), so the third CHLO is accepted (`UsefulOK`), and what has to be encrypted is (`EncryptedOK`).
NoLostWakeup is inductive with the shape of the queues alone (`WInv`): a key is set and its level
announced in one step under the mutex, a packet is queued only if no key opens it, and the queue is emptied when
a level is taken. Assumption `CryptoHandshakeAssumption`: at least three CHLOs (three in the code), and caches with
a configuration and a certificate that are none, an earlier server's or the server's.

**EndpointsProofs.** `EInv` consists of the shape of the server's state (`ServerOK`), the life of an entry
(`EntriesOK`) and what serve's own Close has still before it (`ClosingOK`). LiveInTable is not inductive:
the timer deletes by connection ID, and only because there is at most one timer for an ID, while its entry
is the empty one, can it not hit a newer session. NoSessionAfterServe needs, for every position of Close
in its loop over the table, which sessions may still run: `serve` adds none any more, and those that were
there are still to be visited. DialsBestVersion has an invariant of its own, `DInv`, on top of `EInv`. A session of
the client speaks its first version or the best one of a list that some server sent (`VersionOK`), and that
server may have been replaced since; a session of the server speaks the version of the client's
session, which its own list has (`AgreeOK`); no list that is offered has VersionUnsupported in it
(`OfferedOK`). At the SHLO the two meet: a list that `validateVersionList` accepts has the versions of the negotiated one
(`AcceptedList`), so the choice is the same (`SameVersionsSameChoice`), and without a negotiation the first version, which the
server has, is the best (`FirstIsBest`). Assumption
`EndpointsAssumption`: a queue with room, any positive number of sessions per connection ID, and no version tag that
stands for VersionUnsupported.

**CongestionProofs.** `CInv` has three parts.
- `PartsOK`: windows within their bounds, and what keeps them there. For Cubic it is the estimate of Reno's
  window: `CongestionWindowAfterAck` returns at least that, and once it was set at the start of an epoch
  it is never below the smallest window (`CubicOK`); nothing is used of the curve but that it is a
  natural number, which is why its exact value, and whether it wraps, does not matter for the bounds.
  For OLIA a window shrinks by one only when the counter runs over downwards, which takes a
  negative increment (`OliaOK`, `OliaWindowOK`); `EpsilonOK` shows that only a path with the largest window
  gets one, and only when another path has less, so that its window is above the smallest.
- `NumbersOK`: the sender's numbers are those of the handler, and an ACK beyond the last reduction is
  recorded (`beyond`). This is what makes WindowStands an action property of one step: in recovery, by
  the sender's own numbers, is the same as not acked beyond the reduction.
- `FlightOK`: a call to come, `OnPacketAcked` or `OnPacketLost`, is about a packet that is still in flight, and
  no packet has both.

EpochNeverAhead has `CurveOK` on top: unless the epoch is stale, an application-limited period that will
shift it began after it (`CurveAt`). CongestionWindowAfterAck leaves the two alone, begins an epoch, or shifts it by the
length of the period (`EpochMoves`), and a period that began after the epoch moves it at most to now.

Assumption `CongestionAssumption`: finitely many paths, bounds of the window in their order, round-trip
times above zero. `Wrap` may be any positive number: none of these theorems needs products that do not wrap.

**SessionProofs**, paths. `SInv`: the shape of paths and program counters, with the fact that a server's
goroutines never come to the labels of `createPaths` (`ShapeOK`); once the session closes, only a path manager
that has begun and not stopped may leave a path that was not told to stop (`ToldOK`); and the server's
session waits for its paths one by one (`AwaitedOK`). PathsStopped alone is not inductive: a path created
between the signals of the session and those of the path manager is told by the second only.

Only model-checked:
- FramesRoundTrip (what the two loops over blocks compute for every list of ranges needs
  induction over data);
- the conjunct of NoWrap that is about the value of Cubic's curve, which grows with the cube of the time: that it
  stays in range depends on the bound of the clock;
- SendLoop, whose loop over frames and paths computes on queues step by step: what it
  packs for every list of frames needs induction as well;
- every liveness property (temporal reasoning with fairness and ENABLED is outside the prover's reach).

## 5. Divergences

Where the code does something else than its comments, tests or names say, or than one would expect. A
name in brackets is a formula of the module that states the expectation; TLC finds it violated, and no run lists
it. The others are exceptions that a property names, or facts met while translating.

Loss recovery and acknowledgement
- A CLOSE_PATH frame requeues only what is below its LargestAcked; later packets stay in the history of
  a path without timer [ClosePathRequeuesUnacked]. No code outside the tests sends CLOSE_PATH.
- A STOP_WAITING frame that arrives late lowers the lower limit [LimitNeverAcked]. LeastUnacked is the
  largest number acked plus one, not the least number unacked.
- Duplicates are not filtered before `maybeQueueAck`, although its comment says so
  [SmallerWasReportedMissing].
- The generator skips no number: the first skip is armed only by an earlier one [SkipsOften].
- An ACK frame cannot be written at all when the gap below its highest range needs 255 blocks.
- `ackRemainingPaths` bypasses MaxNonRetransmittablePackets.

Streams and flow control
- The late original of a frame whose tail has already arrived is shortened but keeps its FIN; Read then
  returns io.EOF before the end of the stream (`stream_frame_sorter.go:100`) [EOFAtEnd]. Frames covered by a
  larger one may stay queued [NoCoveredFrame].
- `RegisterRemoteError` sets the error and signals only the writer; the Cancel or Reset that follows
  sees the error set and signals nobody. A waiting Read stays (`stream.go:404`) [CancelEndsRead].
- A deadline set while Read waits may not end it [DeadlineEndsRead]; the data of a Write that timed out
  is still sent.
- The bytes of a stream that the peer reset are never given back to the connection's window
  [ResetReturnsCredit].
- The client counts its streams in one counter and compares the other with the limit, so that
  OwnStreamsLimited is about the server. A stream that the peer resets before it is accepted is
  removed, and AcceptStream waits for it for ever, whatever else the peer opens (`ResetBeforeAccept`).
  Round robin counts streams 1 and 3 as turns
  [TurnsFair].

Sending
- While a path's RTT is unknown every packet sent on it is queued again for another path; with a
  potentially failed path that has sent less this goes on until the limit on tracked packets closes
  the session (`scheduler.go:1944`) [StopsAtWindow, which quotes `scheduler.go:1785`].
- A PING packed together with a STOP_WAITING frame and nothing else yields no packet: the PING is lost,
  and `ackRemainingPaths` uses the nil packet (`scheduler.go:1758`).
- A handshake packet that is retransmitted on another path than its own finds no STOP_WAITING frame
  there, which closes the session (`packet_packer.go:108`).
- A packet with the same stream frame twice has one without length that is not the last
  (`packet_packer.go:262`). An ACK that is due is discarded by a packet with a PING only. A window update
  that was forced stays queued if no packet takes it.
- Data that a client sent before forward security is given up when the handshake completes, and
  retransmitted behind a STOP_WAITING frame it makes a packet that is too large.
- The learning schedulers do not look at SendingAllowed of the only path beside the initial one; DQN
  sends no new data with three paths or more; ECF never waits; `list_State_DQN` is never pruned.
- createPath packs and sends its PING beside the session's loop [SafeToSend].

Congestion control
- An application-limited period that is recorded when an epoch of Cubic's curve begins is not cleared; the next ACK
  shifts the epoch by all of it, into the future (`congestion/cubic.go:176`) [EpochInPast]. The elapsed time
  is then negative and the curve may wrap. This is the case `stale` that NoWrap leaves out.
- OLIA compares paths by products of int64, bytes times a squared RTT in nanoseconds, which pass 2^63 at ordinary
  RTTs; which path counts as the best is then arbitrary (`getEpsilon`). The bounds of the window do not depend on it.
- Once an increasing delay was found, the next ACK ends slow start without looking at the window, which may
  be below 16 packets [LowWindowStaysInSlowStart]. After two timeouts in a row the threshold is 1, below the
  smallest window (`congestion/cubic_sender.go:268`). A timeout forgets largestSentAtLastCutback, so packets sent
  before it may reduce the window again.
- PRR takes no part in sending: `SendingAllowed` compares with the window, nothing calls TimeUntilSend.

Session
- A close found by the first select of the loop does not tell the path manager to stop. A path created
  after the paths were signalled is waited for by nobody who closes it, and Close does not return
  (`session.go:333`) [CloseReturns]. The path manager may outlive its session [PathManagerStopped].
- `session.closePath` holds pathsLock for reading and takes it again in `pathManager.closePath`
  (`session.go:702`, `path_manager.go:251`): with a writer waiting in between, both are stuck.
- `ackRemainingPaths` and the PING for a retransmission's path send on closed paths
  (`scheduler.go:1758`, `1950-1956`), whose goroutine has ended; the second send blocks the session.
- A failed first PING makes the path manager close all paths while the session runs on
  (`path_manager.go:89-92`).
- The path manager is signalled before a late interface is in the table, and not again
  (`pconn_manager.go:190` and `233`).
- The map of paths is read without its lock (`session.go:503`, `643`, `744`; `scheduler.go:1938`).
- The comment on path ids in `path_manager.go:36-37` has client and server the other way round.

Handshake
- The time at which too many undecryptable packets were received is never cleared, so that a Public Reset
  may be sent long after the handshake (`session.go:426`) [ResetOnlyInHandshake].
- A cache whose server configuration is another server's, or that has the certificate but not the
  configuration because the client stopped between the two files, makes every handshake fail.
- Each session has its own key for source address tokens, so that a token of an earlier connection is
  never valid and 0-RTT does not happen (`internal/handshake/crypto_setup_server.go:78`).
- The client's run loop waits in SetDiversificationNonce for the crypto goroutine, and stays there if that
  goroutine has ended with an error.
- Idle timeouts below one second are sent as 0. A server whose forward-secure ACK is all it gets from
  the client, and which is lost, times out. A session is announced before its handshake is complete.

Client and server
- A version that the client does not know in the version negotiation packet makes every handshake fail as
  a downgrade, although `internal/handshake/crypto_setup_client_test.go:218` "doesn't care about unsupported
  versions": the list has lost it when it is compared. The client's VER tag is the version it speaks now, so
  the server's test for a downgrade never applies (`internal/handshake/crypto_setup_client.go:561`).
- A session that was made for a new version while the old one closes for another reason is never run, and
  listen waits for it. `client.closeListen` is nil, and the client's `pconnManager.run` never ends.
- Of two Close calls of the application and serve's own, the third blocks on `closeConns`
  (`server.go:263`).
- The goroutine that announces a session stays for ever if the session is closed with a nil error before
  it is forward-secure, or if the queue is full and nobody calls Accept. WaitUntilHandshakeComplete returns
  nil after Close(nil) although the handshake was not completed, and so does Dial.
- A new connection from an address without a dotted number before the port, an IPv6 address for one, makes
  `handlePacket` index a nil slice, and the panic ends the server (`server.go:367-369`). The model has IPv4
  addresses only.

## 6. Not modelled

- *Codecs* of the public header and of the frames other than ACK and CLOSE_PATH, and the *unpacker*: fields
  of fixed length one after the other, without state. What has arithmetic is modelled: the length of packet
  numbers in PacketNumbers, the length field of stream frames in PacketPacker.
- *Data races* as such: the models take each access of the Go maps and fields as atomic.
- *Sockets, buffer pools* (`conn.go`, `buffer_pool.go`): I/O without a protocol of their own.
- *Cryptographic primitives*: perfect, for a model. The layout of handshake messages, and the window
  sizes and stream limits among the connection parameters, are constants of other modules.
- *TLS handshake* (`internal/handshake/crypto_setup_tls.go`): no endpoint offers its version.
- *Values learned* by schedulers, their training (`scheduler_dl.go`) and the *learning servers*
  (`src/serverdrl`): floating-point functions of measurements. The transport sees their answers only,
  which are choices.
- *h2quic, examples, simulations*: users of the transport.
- *Statistics* of all components; the idle timer of the session.
- Except in Congestion, Stream and CryptoHandshake's timeouts, time is not measured: an instant is set or
  not, and whether it has passed is a choice. So `rto << rtoCount`, which overflows after some 35
  timeouts in a row (`ackhandler/sent_packet_handler.go:612`), is outside.
- Paths that a server creates, and the ADD_ADDRESS frames of a server.
