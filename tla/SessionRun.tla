----------------------------- MODULE SessionRun -----------------------------
(***************************************************************************)
(* The goroutines of one session and what they wait for: the session's run *)
(* loop (session.go, with the sending of scheduler.go), the run loop of    *)
(* every path (path.go), the path manager (path_manager.go), the           *)
(* connection manager (pconn_manager.go) and a caller of Close.  They      *)
(* share the map of paths, pathsLock (a sync.RWMutex: a waiting writer     *)
(* holds off new readers), the mutex of the connection manager and         *)
(* channels of capacity 1.                                                 *)
(*                                                                         *)
(* What packets hold and how many are sent is a choice.  A part of a       *)
(* goroutine that neither waits nor releases anything in between is one    *)
(* step, even if it takes and releases pathsLock.                          *)
(***************************************************************************)
EXTENDS Integers, FiniteSetsExt

CONSTANTS
    Perspectives,             \* those that a run looks at
    MaxPathID,                \* bound: largest path id
    MaxSends,                 \* bound: packets sent in one turn of the loop
    GetsClosePath,            \* the perspectives whose peer sends CLOSE_PATH
    MaxFaults                 \* bound: those frames and the PINGs that fail

ASSUME SessionRunAssumption ==
    /\ Perspectives \subseteq {"server", "client"}
    /\ GetsClosePath \subseteq Perspectives
    /\ MaxPathID \in Nat /\ MaxSends \in Nat /\ MaxFaults \in Nat

VARIABLES
    perspective,              \* never changes
    paths, nxtPathID, pth,    \* the map of paths; pth: their fields
    at,                       \* where the goroutines of Actor are
    target, toAck, sends,     \* inside sendPacket and closePath
    ranging,                  \* inside closePaths: still to be waited for
    closedPaths,
    closeChan, closeOnce,
    handshake,                \* "no", "completed", or "used" by the path manager
    runClosed,                \* of the path manager
    pairs, left,              \* the number of address pairs; those not looked at
    changePaths, pcm,         \* the connection manager; a server's is shared by
                              \* its sessions and has found its addresses
    lock, mutex,              \* pathsLock and pconnMgr.mutex
    pingFailed                \* history: the first PING of a path failed

pathVars == <<paths, nxtPathID, pth>>
sending == <<target, toAck, sends>>
closing == <<ranging, closedPaths, closeChan, closeOnce>>
managing == <<handshake, runClosed, pairs, left, changePaths, pcm, pingFailed>>
locks == <<lock, mutex>>
vars ==
    <<perspective, pathVars, at, sending, closing, managing, locks>>

Actor == {"session", "pathManager"}
PathIDs == {0} \cup {id \in 1 .. MaxPathID : id % 2 = 1}
Free == "free"

NewPath == [at |-> "select", open |-> TRUE, closeChan |-> FALSE,
            runClosed |-> FALSE, sentPacket |-> FALSE]

Init ==
    /\ perspective \in Perspectives
    /\ paths = {0}
    /\ nxtPathID = IF perspective = "client" THEN 1 ELSE 2
    /\ pth = [p \in {0} |-> NewPath]
    /\ at = [session |-> "top", pathManager |-> "start"]
    /\ target = 0 /\ toAck = {} /\ sends = 0
    /\ ranging = {} /\ closedPaths = {}
    /\ closeChan = FALSE /\ closeOnce = FALSE
    /\ handshake = "no" /\ runClosed = FALSE
    /\ pairs = 0 /\ left = {}
    /\ changePaths \in {FALSE, perspective = "server"}
    /\ pcm = IF perspective = "client" THEN "new" ELSE "idle"
    /\ lock = [readers |-> 0, writer |-> Free, waiting |-> Free]
    /\ mutex = Free
    /\ pingFailed = FALSE

\* RLock does not wait.
CanRLock == lock.writer = Free /\ lock.waiting = Free

Faults == Cardinality(closedPaths) + (IF pingFailed THEN 1 ELSE 0)

Goto(a, label) == at' = [at EXCEPT ![a] = label]

\* A send to closeChan that does not block, for the paths of P.
Signalled(P) == [p \in paths |-> [pth[p] EXCEPT !.closeChan = @ \/ p \in P]]

Open == {p \in paths : pth[p].open}

\* setup of a path, and its entry in the map.
Created(id) ==
    /\ paths' = paths \cup {id}
    /\ pth' = [p \in paths' |-> IF p = id THEN NewPath ELSE pth[p]]

-----------------------------------------------------------------------------
(***************************************************************************)
(* The run loop of path p.                                                 *)
(***************************************************************************)

\* The first select of a turn: closeChan is looked at before anything else.
NextTurn(path) ==
    IF path.closeChan THEN [path EXCEPT !.closeChan = FALSE, !.at = "exiting"]
    ELSE [path EXCEPT !.at = "select"]

RunExits(p) ==
    /\ pth[p].at \in {"select", "timer"}
    /\ pth[p].closeChan
    /\ pth' = [pth EXCEPT ![p].closeChan = FALSE, ![p].at = "exiting"]

RunTimer(p) ==
    /\ pth[p].at = "select"
    /\ pth' = [pth EXCEPT ![p].at = "timer"]

\* Mutant: a path that waits to report its timer does not look at sentPacket.
RunSentPacketStuck(p) ==
    /\ pth[p].at = "select"
    /\ pth[p].sentPacket
    /\ pth' = [pth EXCEPT ![p] = NextTurn([@ EXCEPT !.sentPacket = FALSE])]

RunSentPacket(p) ==
    /\ pth[p].at \in {"select", "timer"}
    /\ pth[p].sentPacket
    /\ pth' = [pth EXCEPT ![p] = NextTurn([@ EXCEPT !.sentPacket = FALSE])]

\* After the loop: close and runClosed.
RunClosed(p) ==
    /\ pth[p].at = "exiting"
    /\ pth' = [pth EXCEPT ![p].at = "stopped", ![p].open = FALSE,
                          ![p].runClosed = TRUE]

PathRun(p) ==
    /\ RunExits(p) \/ RunTimer(p) \/ RunSentPacket(p) \/ RunClosed(p)
    /\ UNCHANGED <<perspective, paths, nxtPathID, at, sending, closing, managing,
                   locks>>

-----------------------------------------------------------------------------
(***************************************************************************)
(* createPaths, which the path manager and, for ADD_ADDRESS frames, the    *)
(* session run.  The path of pair i is the i-th that was created.          *)
(***************************************************************************)

LockMutex(a) ==
    /\ at[a] = "create"
    /\ mutex = Free
    /\ mutex' = a
    /\ left' = 1 .. pairs
    /\ Goto(a, "pairs")
    /\ UNCHANGED <<pathVars, sending, closing, handshake, runClosed, pairs,
                   changePaths, pcm, pingFailed, lock>>

\* Lock of pathsLock announces the writer, then waits for the readers.
LockPaths(a) ==
    /\ at[a] = "pairs"
    /\ left # {}
    /\ CanRLock
    /\ lock' = [lock EXCEPT !.waiting = a]
    /\ Goto(a, "locking")
    /\ UNCHANGED <<pathVars, sending, closing, managing, mutex>>

\* Mutant: the path of the pair before is taken for this one's.
PathExistsForAddress(i) == i <= Cardinality(paths)

PathExists(i) == i < Cardinality(paths)

createPath(a) ==
    /\ at[a] = "locking"
    /\ lock.readers = 0
    /\ IF PathExists(Min(left))
         THEN /\ lock' = [lock EXCEPT !.waiting = Free]
              /\ left' = left \ {Min(left)}
              /\ Goto(a, "pairs")
              /\ UNCHANGED pathVars
         ELSE /\ lock' = [lock EXCEPT !.waiting = Free, !.writer = a]
              /\ Created(nxtPathID)
              /\ nxtPathID' = nxtPathID + 2
              /\ Goto(a, "pinging")
              /\ UNCHANGED left
    /\ UNCHANGED <<sending, closing, handshake, runClosed, pairs, changePaths,
                   pcm, pingFailed, mutex>>

\* sendPing on the new path succeeds.
Pinged(a) ==
    LET new == nxtPathID - 2
    IN  /\ at[a] = "pinging"
        /\ ~ pth[new].sentPacket
        /\ pth' = [pth EXCEPT ![new].sentPacket = TRUE]
        /\ lock' = [lock EXCEPT !.writer = Free]
        /\ left' = left \ {Min(left)}
        /\ Goto(a, "pairs")
        /\ UNCHANGED <<paths, nxtPathID, sending, closing, handshake, runClosed,
                       pairs, changePaths, pcm, pingFailed, mutex>>

\* closeLocal and closeRemote: only the first error is put in the channel.
Close ==
    /\ closeOnce' = TRUE
    /\ closeChan' = (closeChan \/ ~ closeOnce)

\* sendPing fails and createPaths with it: the session closes; the path manager
\* gives up when it is the first time, and goes on otherwise.
PingFailed(a) ==
    /\ Faults < MaxFaults
    /\ at[a] = "pinging"
    /\ pingFailed' = TRUE
    /\ mutex' = Free
    /\ lock' = [lock EXCEPT !.writer = Free]
    /\ left' = {}
    /\ IF a = "session"
         THEN /\ Close
              /\ Goto(a, "top")
              /\ UNCHANGED pth
         ELSE /\ IF handshake = "used"
                   THEN Goto(a, "loop") /\ UNCHANGED pth
                   ELSE Goto(a, "stopped") /\ pth' = Signalled(Open)
              /\ UNCHANGED <<closeChan, closeOnce>>
    /\ UNCHANGED <<paths, nxtPathID, sending, ranging, closedPaths, handshake,
                   runClosed, pairs, changePaths, pcm>>

\* The end of createPaths, with schedulePathsFrame.
AllPairs(a) ==
    /\ at[a] = "pairs"
    /\ left = {}
    /\ CanRLock
    /\ mutex' = Free
    /\ handshake' = IF a = "pathManager" THEN "used" ELSE handshake
    /\ Goto(a, IF a = "session" THEN "send" ELSE "loop")
    /\ UNCHANGED <<pathVars, sending, closing, runClosed, pairs, left,
                   changePaths, pcm, pingFailed, lock>>

createPaths(a) ==
    \/ LockMutex(a) \/ LockPaths(a) \/ createPath(a) \/ Pinged(a) \/ PingFailed(a)
    \/ AllPairs(a)

-----------------------------------------------------------------------------
(***************************************************************************)
(* The path manager and the connection manager.                            *)
(***************************************************************************)

\* closePaths at the end of the path manager.
FinalClosePaths == CanRLock /\ pth' = Signalled(Open)

PathManagerStops ==
    /\ runClosed
    /\ runClosed' = FALSE
    /\ \/ at.pathManager = "start" /\ UNCHANGED pth
       \/ at.pathManager = "loop" /\ FinalClosePaths
    /\ Goto("pathManager", "stopped")
    /\ UNCHANGED <<paths, nxtPathID, sending, closing, handshake, pairs, left,
                   changePaths, pcm, pingFailed, locks>>

\* The server's createPaths only advertises its addresses.
PathManagerCreates ==
    /\ \/ at.pathManager = "start" /\ handshake = "completed" /\ UNCHANGED changePaths
       \/ at.pathManager = "loop" /\ changePaths /\ changePaths' = FALSE
    /\ IF perspective = "client"
         THEN Goto("pathManager", "create") /\ UNCHANGED handshake
         ELSE Goto("pathManager", "loop") /\ handshake' = "used"
    /\ UNCHANGED <<pathVars, sending, closing, runClosed, pairs, left, pcm,
                   pingFailed, locks>>

PathManager == PathManagerStops \/ PathManagerCreates \/ createPaths("pathManager")

\* createPconn for an interface, found at the start ("new") or later ("idle"):
\* the path manager is signalled before the address is appended.
createPconn ==
    /\ perspective = "client"
    /\ \/ pcm = "new" /\ pcm' = "append"
       \/ pcm = "idle" /\ pcm' = "append late"
    /\ pairs < Cardinality(PathIDs) - 1
    /\ mutex = Free
    /\ changePaths' = TRUE
    /\ UNCHANGED pairs

AppendLocalAddr ==
    /\ \/ pcm = "append" /\ pcm' = "new"
       \/ pcm = "append late" /\ pcm' = "idle"
    /\ pairs' = Min({pairs + 1, Cardinality(PathIDs) - 1})
    /\ UNCHANGED changePaths

\* The signal after the first createPconns.
PconnsCreated ==
    /\ pcm = "new"
    /\ pcm' = "idle"
    /\ changePaths' = TRUE
    /\ UNCHANGED pairs

PconnManager ==
    /\ createPconn \/ AppendLocalAddr \/ PconnsCreated
    /\ UNCHANGED <<pathVars, at, sending, closing, handshake, runClosed, left,
                   pingFailed, locks>>

-----------------------------------------------------------------------------
(***************************************************************************)
(* The session's run loop.                                                 *)
(***************************************************************************)

\* The first select: a close requested before is handled here, and the path
\* manager is not told.
Top ==
    /\ at.session = "top"
    /\ IF ~ closeChan
         THEN Goto("session", "select") /\ UNCHANGED <<pth, closeChan>>
         ELSE /\ CanRLock
              /\ pth' = Signalled(paths)
              /\ closeChan' = FALSE
              /\ Goto("session", "close")
    /\ UNCHANGED <<paths, nxtPathID, sending, ranging, closedPaths, closeOnce,
                   managing, locks>>

SelectClose ==
    /\ at.session = "select"
    /\ closeChan
    /\ CanRLock
    /\ pth' = Signalled(Open)
    /\ runClosed' = TRUE
    /\ closeChan' = FALSE
    /\ Goto("session", "close")
    /\ UNCHANGED <<paths, nxtPathID, sending, ranging, closedPaths, closeOnce,
                   handshake, pairs, left, changePaths, pcm, pingFailed, locks>>

\* The session's timer, sendingScheduled, or a packet that changes none of the
\* state here.
SelectEvent ==
    /\ at.session = "select"
    /\ Goto("session", "send")
    /\ UNCHANGED <<pathVars, sending, closing, managing, locks>>

\* pathTimers has no buffer: the path goes on too.
SelectPathTimer(p) ==
    /\ at.session = "select"
    /\ pth[p].at = "timer"
    /\ pth' = [pth EXCEPT ![p] = NextTurn(@)]
    /\ Goto("session", "send")
    /\ UNCHANGED <<paths, nxtPathID, sending, closing, managing, locks>>

\* aeadChanged is closed.
SelectHandshake ==
    /\ at.session = "select"
    /\ handshake = "no"
    /\ handshake' = "completed"
    /\ Goto("session", "send")
    /\ UNCHANGED <<pathVars, sending, closing, runClosed, pairs, left,
                   changePaths, pcm, pingFailed, locks>>

\* A packet that cannot be handled, or a CONNECTION_CLOSE frame.
ReceiveClose ==
    /\ at.session = "select"
    /\ \/ Close /\ Goto("session", "top")
       \/ Close /\ Goto("session", "send")
    /\ UNCHANGED <<pathVars, sending, ranging, closedPaths, managing, locks>>

\* A packet on a new path: createPathFromRemote.
ReceiveNewPath(id) ==
    /\ at.session = "select"
    /\ perspective = "server"
    /\ id \in PathIDs \ paths
    /\ CanRLock               \* nobody else keeps it for reading
    /\ Created(id)
    /\ Goto("session", "send")
    /\ UNCHANGED <<nxtPathID, sending, closing, managing, locks>>

\* An ADD_ADDRESS frame; without a local address of its version there is no new
\* pair.
ReceiveAddAddress ==
    /\ at.session = "select"
    /\ perspective = "client"
    /\ pairs' \in {pairs, Min({pairs + 1, Cardinality(PathIDs) - 1})}
    /\ Goto("session", "create")
    /\ UNCHANGED <<pathVars, sending, closing, handshake, runClosed, left,
                   changePaths, pcm, pingFailed, locks>>

\* A CLOSE_PATH frame: closePath of the session takes pathsLock for reading,
\* and closePath of the path manager takes it again.
ReceiveClosePath(id) ==
    /\ perspective \in GetsClosePath
    /\ Faults < MaxFaults
    /\ at.session = "select"
    /\ id \in paths \ closedPaths
    /\ CanRLock
    /\ lock' = [lock EXCEPT !.readers = 1]
    /\ target' = id
    /\ Goto("session", "closePath")
    /\ UNCHANGED <<pathVars, toAck, sends, closing, managing, mutex>>

ClosePath ==
    /\ at.session = "closePath"
    /\ CanRLock
    /\ pth[target].open => ~ pth[target].closeChan
    /\ pth' = [pth EXCEPT ![target].closeChan = @ \/ pth[target].open]
    /\ closedPaths' = closedPaths \cup {target}
    /\ lock' = [lock EXCEPT !.readers = 0]
    /\ target' = 0
    /\ Goto("session", "send")
    /\ UNCHANGED <<paths, nxtPathID, toAck, sends, ranging, closeChan, closeOnce,
                   managing, mutex>>

-----------------------------------------------------------------------------

\* sendPacket: a path that may send gets a packet.  After it (the second
\* disjunct, bound: after the last packet of the turn) a potentially failed path
\* that a retransmission comes from is sent a PING, also if it is closed.
SelectPath(p) ==
    /\ at.session = "send"
    /\ \/ sends < MaxSends /\ pth[p].open
       \/ sends = MaxSends /\ ~ pth[p].open
    /\ CanRLock
    /\ sends' = sends + 1
    /\ target' = p
    /\ Goto("session", "packing")
    /\ UNCHANGED <<pathVars, toAck, closing, managing, locks>>

\* PackPacket and sendPackedPacket, which wakes the path's run loop.
SendPackedPacket ==
    /\ at.session = "packing"
    /\ ~ pth[target].sentPacket
    /\ pth' = [pth EXCEPT ![target].sentPacket = TRUE]
    /\ target' = 0
    /\ Goto("session", "send")
    /\ UNCHANGED <<paths, nxtPathID, toAck, sends, closing, managing, locks>>

\* ackRemainingPaths, which holds pathsLock while it sends: on the paths with an
\* ACK and, when there are window updates, on all but the initial one.
AckRemainingPaths ==
    /\ at.session = "send"
    /\ CanRLock
    /\ lock' = [lock EXCEPT !.readers = 1]
    /\ toAck' \in SUBSET paths
    /\ sends' = 0
    /\ Goto("session", "acking")
    /\ UNCHANGED <<pathVars, target, closing, managing, mutex>>

SendAck(p) ==
    /\ at.session = "acking"
    /\ p \in toAck
    /\ ~ pth[p].sentPacket
    /\ pth' = [pth EXCEPT ![p].sentPacket = TRUE]
    /\ toAck' = toAck \ {p}
    /\ UNCHANGED <<paths, nxtPathID, at, target, sends, closing, managing, locks>>

\* The rest of the turn, in which timeouts may close the session.
EndOfTurn ==
    /\ at.session = "acking"
    /\ toAck = {}
    /\ lock' = [lock EXCEPT !.readers = 0]
    /\ \/ Close
       \/ UNCHANGED <<closeOnce, closeChan>>
    /\ Goto("session", "top")
    /\ UNCHANGED <<pathVars, sending, ranging, closedPaths, managing, mutex>>

\* handleCloseError: the streams are cancelled, the paths told to stop.
ClosePaths ==
    /\ at.session = "close"
    /\ CanRLock
    /\ pth' = Signalled(Open)
    /\ Goto("session", "range")
    /\ UNCHANGED <<paths, nxtPathID, sending, closing, managing, locks>>

\* The client closes a session to try another version: nothing is waited for.
CloseForNewVersion ==
    /\ at.session = "close"
    /\ perspective = "client"
    /\ handshake = "no"
    /\ Goto("session", "done")
    /\ UNCHANGED <<pathVars, sending, closing, managing, locks>>

\* The loop over the map of paths; pathsLock is not held, and a path that is
\* added while the loop runs may be missed.
RangePaths ==
    /\ at.session = "range"
    /\ ranging' = paths
    /\ Goto("session", "wait")
    /\ UNCHANGED <<pathVars, sending, closedPaths, closeChan, closeOnce, managing,
                   locks>>

\* Mutant: a path is not waited for.
NotAwaited(p) ==
    /\ ranging' = ranging \ {p}
    /\ UNCHANGED pth

\* A receive from runClosed.
Awaited(p) ==
    /\ pth[p].runClosed
    /\ pth' = [pth EXCEPT ![p].runClosed = FALSE]
    /\ ranging' = ranging \ {p}

AwaitPath(p) ==
    /\ at.session = "wait"
    /\ p \in ranging
    /\ Awaited(p)
    /\ UNCHANGED <<paths, nxtPathID, at, sending, closedPaths, closeChan,
                   closeOnce, managing, locks>>

\* CONNECTION_CLOSE is sent unless the peer closed, and ctx is done.
Done ==
    /\ at.session = "wait"
    /\ ranging = {}
    /\ Goto("session", "done")
    /\ UNCHANGED <<pathVars, sending, closing, managing, locks>>

Session ==
    \/ Top \/ SelectClose \/ SelectEvent \/ SelectHandshake \/ ReceiveClose
    \/ ReceiveAddAddress \/ ClosePath \/ createPaths("session")
    \/ \E id \in PathIDs : ReceiveNewPath(id)
    \/ \E p \in paths : \/ SelectPathTimer(p) \/ ReceiveClosePath(p)
                       \/ SelectPath(p) \/ SendAck(p) \/ AwaitPath(p)
    \/ SendPackedPacket \/ AckRemainingPaths \/ EndOfTurn
    \/ ClosePaths \/ CloseForNewVersion \/ RangePaths \/ Done

\* Another goroutine: Close of the application or of the crypto setup.  It
\* returns when the run loop is done, also if somebody else closed before.
CallClose ==
    /\ ~ closeOnce
    /\ Close
    /\ UNCHANGED <<pathVars, at, sending, ranging, closedPaths, managing, locks>>

Next ==
    \/ /\ Session \/ PathManager \/ PconnManager \/ CallClose
       /\ UNCHANGED perspective
    \/ \E p \in paths : PathRun(p)

\* A goroutine that can go on does so.
Fairness ==
    /\ WF_vars(Session /\ UNCHANGED perspective)
    /\ WF_vars(PathManager /\ UNCHANGED perspective)
    /\ \A p \in PathIDs : WF_vars(p \in paths /\ PathRun(p))

Spec == Init /\ [][Next]_vars /\ Fairness

-----------------------------------------------------------------------------

\* The session waits at sentPacket of a path whose run loop has ended: the peer
\* closed the path, or the path manager did after an error, and the session went
\* on sending there (ackRemainingPaths, or the PING to a potentially failed path).
BlockedAtEndedPath ==
    \E p \in paths :
        /\ pth[p].at \in {"exiting", "stopped"} /\ pth[p].sentPacket
        /\ \/ at.session = "packing" /\ p = target
           \/ at.session = "acking" /\ p \in toAck

\* closePath takes pathsLock for reading a second time, behind a writer that came
\* in between.
LockedOut == at.session = "closePath" /\ lock.waiting # Free

\* closePaths waits for a path that was added after the others were told to stop.
WaitsForNewPath ==
    /\ at.session = "wait"
    /\ \E p \in ranging : pth[p].at \notin {"exiting", "stopped"} /\ ~ pth[p].closeChan

Closing == at.session \in {"close", "range", "wait", "done"}

\* When the session and the path manager are both done, every path has stopped
\* or was told to: also one that the path manager creates while the session
\* closes.  On the server, where only the session creates paths, all goroutines of
\* paths have ended when Close returns: "wait for the run loops of path to finish"
\* (closePaths of session.go).
PathsStopped ==
    /\ at.session = "done" /\ at.pathManager = "stopped" =>
          \A p \in paths : \/ pth[p].at \in {"exiting", "stopped"}
                          \/ pth[p].closeChan
    /\ perspective = "server" /\ at.session = "done" =>
          \A p \in paths : pth[p].at = "stopped"

\* The goroutines do not wait for each other for ever: path run loops that wait for
\* the session, the session that waits for their run loops, and a path manager that
\* sends while it holds the lock for writing let each other go on, and Close
\* returns, whatever the paths are doing.  There are three exceptions, named above:
\* scheduler.go:1758, session.go:702 and session.go:744.
NeverStuck ==
    /\ []<>(at.session = "top" \/ Closing \/ BlockedAtEndedPath \/ LockedOut)
    /\ closeOnce ~>
          (at.session = "done" \/ BlockedAtEndedPath \/ LockedOut \/ WaitsForNewPath)

\* Every pair of addresses that is known when the path manager is signalled
\* gets its path.
AddressesUsed ==
    \A n \in 1 .. Cardinality(PathIDs) - 1 :
        (handshake # "no" /\ changePaths /\ pairs >= n) ~>
            (Cardinality(paths) > n \/ closeOnce \/ BlockedAtEndedPath \/ LockedOut \/ pingFailed)

\* "Close the connection. [...] It waits until the run loop has stopped before
\* returning" (session.go).
CloseReturns == closeOnce ~> at.session = "done"

\* "We stop running the path manager, which will close paths" (session.go).
PathManagerStopped == at.session = "done" ~> at.pathManager = "stopped"

\* "Because we hold pathsLock, it is safe to send packet now"
\* (path_manager.go): the session does not use the packer at the same time.
SafeToSend == ~ (at.session = "packing" /\ at.pathManager = "pinging")
=============================================================================
