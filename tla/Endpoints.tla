------------------------------ MODULE Endpoints ------------------------------
(***************************************************************************)
(* A dialling client (client.go) and a server (server.go) with the sockets *)
(* they read from (pconn_manager.go): version negotiation, the table of    *)
(* the server's sessions, the queue of Accept, and the order in which all  *)
(* the goroutines come to an end.                                          *)
(*                                                                         *)
(* A session is its run loop: created, running, ended, closed at most once *)
(* for a reason (closeOnce).  Its handshake (see CryptoHandshake) is cut   *)
(* down to two answers of the server: after the first one, the REJ, the    *)
(* client has secure keys, after the second one, the SHLO, it is           *)
(* forward-secure and sends no version flag any more.  Dial has session 1, *)
(* and session 2 after a version negotiation, each with a connection ID of *)
(* its own, its number; other clients have the IDs in start.others.        *)
(*                                                                         *)
(* The network delivers a packet at any time, again or never.  Whatever a  *)
(* session has sent follows from how far its handshake has got, so only    *)
(* the packets that the server sends without a session are kept, in        *)
(* replies.                                                                *)
(***************************************************************************)
EXTENDS Integers, Sequences, FiniteSets, FiniteSetsExt, Functions

CONSTANTS
    Starts,              \* the situations to look at, see start
    SupportedVersions,   \* protocol.SupportedVersions
    QueueSize            \* of sessionQueue (5 in the code)

ASSUME EndpointsAssumption ==
    /\ QueueSize \in Nat \ {0}
    /\ \A s \in Starts :
          /\ s.maxSessions \in Nat \ {0} /\ "serve" \notin s.users
          /\ s.others \cap 0..2 = {}
          /\ s.client \in Seq(Int)
          \* No version tag stands for VersionUnsupported (-1).
          /\ s.server \in Seq(Nat) /\ s.restart \in Seq(Nat)

VARIABLES
    start,           \* never changed: the config.Versions of the client (<<>>:
                     \* nobody dials) and of the server, those of a server that
                     \* is restarted (or <<>>), the other clients' IDs, the
                     \* goroutines that call Close, what may fail, and a bound:
                     \* the sessions of one connection ID at the server
    replies,         \* version negotiation packets and public resets sent
    \* the client
    session,         \* c.session, c.connectionID
    receivedVN,      \* c.receivedVersionNegotiationPacket
    versionNegotiated,
    sessions,        \* of the client
    runner,          \* the goroutine that runs the sessions: first, second, done
    dial, dialOn,    \* Dial, the session it waits for
    listen,          \* client.listen
    clientSocket,    \* open, closed, error: errorConn has a value, drained
    \* the server
    versions,        \* s.config.Versions
    table,           \* s.sessions: 0 no entry, -1 nil, n the n-th session
    served,          \* served[id]: the sessions there were with that ID
    timers,          \* of removeConnection
    sessionQueue, accepting,
    serve, closers,  \* the goroutine of serve; closers[g]: where g is in Close
    closeConns, pcmClosed, serverSocket   \* the server's pconnManager

clientVars == <<session, receivedVN, versionNegotiated, sessions, runner, dial,
                dialOn, listen, clientSocket>>
serverVars == <<versions, table, served, timers, sessionQueue, accepting>>
closeVars  == <<serve, closers, closeConns, pcmClosed, serverSocket>>
vars == <<start, replies, clientVars, serverVars, closeVars>>

ConnIDs == (IF start.client = <<>> THEN {} ELSE {1, 2}) \cup start.others
Closers == start.users \cup {"serve"}

-----------------------------------------------------------------------------
(***************************************************************************)
(* Versions (protocol/version.go, and the check of the client's SHLO).     *)
(***************************************************************************)

VersionUnsupported == -1

IsSupportedVersion(supported, v) == v \in Range(supported)

\* The first of our versions that is one of theirs.
ChooseSupportedVersion(ours, theirs) ==
    LET common == {i \in DOMAIN ours : IsSupportedVersion(theirs, ours[i])}
    IN  IF common = {} THEN VersionUnsupported ELSE ours[Min(common)]

\* Mutant: only the number of versions is compared.
ValidateLength(negotiated, verTags) ==
    negotiated = <<>> \/ Len(negotiated) = Len(verTags)

\* The versions of the SHLO that the library does not know count as
\* VersionUnsupported, those of a version negotiation packet (negotiated) are
\* as they were in the packet.
validateVersionList(negotiated, verTags) ==
    \/ negotiated = <<>>
    \/ negotiated = [i \in DOMAIN verTags |->
                        IF IsSupportedVersion(SupportedVersions, verTags[i])
                          THEN verTags[i] ELSE VersionUnsupported]

-----------------------------------------------------------------------------

\* newClientSession; peer is the list of the SHLO that was accepted.
newClientSession(version, negotiated) ==
    [version |-> version, negotiated |-> negotiated, peer |-> <<>>,
     state |-> "created", reason |-> "none", handshake |-> 0]

Init ==
    /\ start \in Starts
    /\ replies = {}
    /\ receivedVN = FALSE
    /\ versionNegotiated = FALSE
    /\ sessions = IF start.client = <<>> THEN <<>>
                    ELSE <<newClientSession(Head(start.client), <<>>)>>
    /\ session = Len(sessions)
    /\ runner = "first"
    /\ dial = IF start.client = <<>> THEN "none" ELSE "version"
    /\ dialOn = 0
    /\ listen = "loop"
    /\ clientSocket = "open"
    /\ versions = start.server
    /\ table = [id \in ConnIDs |-> 0]
    /\ served = [id \in ConnIDs |-> <<>>]
    /\ timers = {}
    /\ sessionQueue = <<>>
    /\ accepting = TRUE
    /\ serve = "loop"
    /\ closers = [g \in Closers |-> [at |-> "none"]]
    /\ closeConns = 0
    /\ pcmClosed = FALSE
    /\ serverSocket = "open"

\* closeLocal and closeRemote: only the first one has an effect.
Closed(s, reason) == IF s.reason = "none" THEN [s EXCEPT !.reason = reason] ELSE s

Live(s) == s.state = "running" /\ s.reason = "none"

\* Every variable has its type; the queue of Accept is not longer than its
\* limit, and an entry of the table is a session that there was.
TypeOK ==
    /\ start \in Starts
    /\ \A r \in replies : r.id \in ConnIDs /\ r.kind \in {"VN", "reset"}
    /\ session \in 0..Len(sessions) /\ dialOn \in 0..Len(sessions)
    /\ receivedVN \in BOOLEAN /\ versionNegotiated \in BOOLEAN
    /\ \A i \in DOMAIN sessions :
          /\ sessions[i].state \in {"created", "running", "ended"}
          /\ sessions[i].handshake \in 0..2
    /\ runner \in {"first", "second", "done"}
    /\ dial \in {"none", "version", "handshake", "complete", "ok", "error"}
    /\ listen \in {"loop", "switching", "refusing", "closing", "ended"}
    /\ clientSocket \in {"open", "closed", "error", "drained"}
    /\ versions \in {start.server, start.restart}
    /\ DOMAIN table = ConnIDs /\ DOMAIN served = ConnIDs
    /\ \A id \in ConnIDs : table[id] \in -1..Len(served[id])
    /\ Len(sessionQueue) <= QueueSize
    /\ accepting \in BOOLEAN
    /\ serve \in {"loop", "closing", "done"}
    /\ closeConns \in 0..1
    /\ serverSocket \in {"open", "holds", "empty", "error", "drained"}

-----------------------------------------------------------------------------
(***************************************************************************)
(* The client.                                                             *)
(***************************************************************************)

\* The goroutine of establishSecureConnection runs c.session, once more when
\* the first run has returned because of a new version.
Run ==
    /\ dial # "none" /\ runner # "done"
    /\ \A i \in DOMAIN sessions : sessions[i].state # "running"
    /\ sessions[session].state = "created"
    /\ sessions' = [sessions EXCEPT ![session].state = "running"]
    /\ UNCHANGED <<start, replies, session, receivedVN, versionNegotiated, runner,
                   dial, dialOn, listen, clientSocket, serverVars, closeVars>>

\* Run returns; the sockets are closed after the last session.
RunReturns(i) ==
    /\ sessions[i].state = "running" /\ sessions[i].reason # "none"
    /\ sessions' = [sessions EXCEPT ![i].state = "ended"]
    /\ IF runner = "first" /\ sessions[i].reason = "NewVersion"
         THEN runner' = "second" /\ UNCHANGED clientSocket
         ELSE /\ runner' = "done"
              /\ clientSocket' = IF clientSocket = "open" THEN "closed" ELSE clientSocket
    /\ UNCHANGED <<start, replies, session, receivedVN, versionNegotiated, dial,
                   dialOn, listen, serverVars, closeVars>>

ClientSessionCloses(i, reason) ==
    /\ Live(sessions[i])
    /\ sessions' = [sessions EXCEPT ![i] = Closed(@, reason)]
    /\ UNCHANGED <<start, replies, session, receivedVN, versionNegotiated, runner,
                   dial, dialOn, listen, clientSocket, serverVars, closeVars>>

HandshakeTimeout(i) == sessions[i].handshake < 2 /\ ClientSessionCloses(i, "timeout")

\* The idle timeout, an error, the peer's CONNECTION_CLOSE.
ClientSessionFails(i) == sessions[i].handshake = 2 /\ ClientSessionCloses(i, "failure")

\* The application closes the session that Dial has returned, or, before it is
\* forward-secure, DialNonFWSecure.
UserCloses == dial \in {"complete", "ok"} /\ ClientSessionCloses(session, "user")

\* Mutant: only the negotiation is waited for.
DialVersionOnly ==
    /\ dial = "version" /\ versionNegotiated
    /\ dial' = "handshake"
    /\ dialOn' = session
    /\ UNCHANGED <<start, replies, session, receivedVN, versionNegotiated, sessions,
                   runner, listen, clientSocket, serverVars, closeVars>>

\* The first select of establishSecureConnection.
DialVersion ==
    /\ dial = "version"
    /\ \/ runner = "done" /\ dial' = "error" /\ UNCHANGED dialOn
       \/ versionNegotiated /\ dial' = "handshake" /\ dialOn' = session
    /\ UNCHANGED <<start, replies, session, receivedVN, versionNegotiated, sessions,
                   runner, listen, clientSocket, serverVars, closeVars>>

\* The second one: the session's handshakeChan has an event once it has secure
\* keys, and another one when it ends before it is forward-secure.
DialHandshake ==
    /\ dial = "handshake"
    /\ \/ runner = "done" /\ dial' = "error"
       \/ sessions[dialOn].handshake >= 1 /\ dial' = "complete"
       \/ /\ sessions[dialOn].handshake = 0 /\ sessions[dialOn].state = "ended"
          /\ dial' = "error"
    /\ UNCHANGED <<start, replies, session, receivedVN, versionNegotiated, sessions,
                   runner, dialOn, listen, clientSocket, serverVars, closeVars>>

\* WaitUntilHandshakeComplete: it returns the error that the session was closed
\* with, and the application's is nil.
DialComplete ==
    /\ dial = "complete"
    /\ \/ sessions[dialOn].handshake = 2 /\ dial' = "ok"
       \/ /\ sessions[dialOn].handshake < 2 /\ sessions[dialOn].state = "ended"
          /\ dial' = IF sessions[dialOn].reason = "user" THEN "ok" ELSE "error"
    /\ UNCHANGED <<start, replies, session, receivedVN, versionNegotiated, sessions,
                   runner, dialOn, listen, clientSocket, serverVars, closeVars>>

-----------------------------------------------------------------------------

\* listen, with a packet.
ClientHandles ==
    /\ listen = "loop"
    /\ UNCHANGED <<start, replies, runner, dial, dialOn, clientSocket, serverVars,
                   closeVars>>

\* A public reset for the connection.
ClientReset ==
    /\ \E r \in replies : r.kind = "reset" /\ r.id = session
    /\ sessions' = [sessions EXCEPT ![session] = Closed(@, "PublicReset")]
    /\ UNCHANGED <<session, receivedVN, versionNegotiated, listen>>
    /\ ClientHandles

\* handlePacketWithVersionFlag, for a list of versions without ours: a new
\* session with a new connection ID, then listen waits for the old one to end.
SwitchVersion(offered) ==
    LET newVersion == ChooseSupportedVersion(start.client, offered)
    IN  /\ receivedVN' = TRUE
        /\ IF newVersion = VersionUnsupported
             THEN /\ sessions' = [sessions EXCEPT ![session] = Closed(@, "InvalidVersion")]
                  /\ listen' = "refusing"
                  /\ UNCHANGED session
             ELSE /\ sessions' = Append([sessions EXCEPT ![session] = Closed(@, "NewVersion")],
                                        newClientSession(newVersion, offered))
                  /\ session' = Len(sessions')
                  /\ listen' = "switching"

\* A version negotiation packet that is not ignored.
VersionNegotiation(r) ==
    /\ r \in replies /\ r.kind = "VN" /\ r.id = session
    /\ ~receivedVN /\ ~versionNegotiated
    /\ ~IsSupportedVersion(r.versions, sessions[session].version)
    /\ SwitchVersion(r.versions)
    /\ UNCHANGED versionNegotiated
    /\ ClientHandles

\* The session's run loop gets the REJ, or the SHLO s.
HandshakeMessage(cs, answer, s) ==
    CASE Live(cs) /\ cs.handshake < 2 /\ answer = 1 -> [cs EXCEPT !.handshake = 1]
      [] Live(cs) /\ cs.handshake = 1 /\ answer = 2 ->
            IF validateVersionList(cs.negotiated, s.versions)
              THEN [cs EXCEPT !.handshake = 2, !.peer = s.versions]
              ELSE Closed([cs EXCEPT !.peer = s.versions], "downgrade")
      [] OTHER -> cs

\* A packet with one of the answers of the n-th session that the server had for
\* the connection: the server speaks our version.
RegularPacket(n, answer) ==
    /\ served[session][n].handshake >= answer
    /\ versionNegotiated' = TRUE
    /\ sessions' = [sessions EXCEPT ![session] =
                       HandshakeMessage(@, answer, served[session][n])]
    /\ UNCHANGED <<session, receivedVN, listen>>
    /\ ClientHandles

\* oldSession.Close and c.session.Close return once the run loop has ended.
ListenResumes ==
    /\ \/ /\ listen = "switching" /\ sessions[1].state = "ended" /\ listen' = "loop"
       \/ /\ listen = "refusing" /\ sessions[session].state = "ended" /\ listen' = "loop"
       \/ /\ listen = "closing" /\ sessions[session].state = "ended" /\ listen' = "ended"
    /\ UNCHANGED <<start, replies, session, receivedVN, versionNegotiated, sessions,
                   runner, dial, dialOn, clientSocket, serverVars, closeVars>>

\* listen reads errorConn.
ListenError ==
    /\ listen = "loop" /\ clientSocket = "error"
    /\ clientSocket' = "drained"
    /\ sessions' = [sessions EXCEPT ![session] = Closed(@, "socket")]
    /\ listen' = "closing"
    /\ UNCHANGED <<start, replies, session, receivedVN, versionNegotiated, runner,
                   dial, dialOn, serverVars, closeVars>>

\* A read from a socket fails, for any reason or because it is closed.
ClientSocketFails ==
    /\ clientSocket \in {"open", "closed"}
    /\ clientSocket' = "error"
    /\ UNCHANGED <<start, replies, session, receivedVN, versionNegotiated, sessions,
                   runner, dial, dialOn, listen, serverVars, closeVars>>

-----------------------------------------------------------------------------
(***************************************************************************)
(* The server.                                                             *)
(***************************************************************************)

VersionFlag(h) == h < 2

\* What a client that has got to handshake h has sent under connection ID id.
\* Of other clients, the packets that a session can begin with.
Sent(id, h) ==
    IF id \in start.others
      THEN VersionFlag(h)
      ELSE /\ id \in DOMAIN sessions
           /\ sessions[id].state # "created" /\ sessions[id].handshake >= h

PacketVersion(id) ==
    IF id \in start.others THEN Head(start.server) ELSE sessions[id].version

ServerSession(v) ==
    [version |-> v, versions |-> versions, state |-> "running", reason |-> "none",
     handshake |-> 0, announce |-> "wait"]

\* session.handlePacket, and what the run loop does with the packet: a CHLO is
\* answered by a REJ, a complete one by the SHLO.
HandlePacket(s, h) ==
    IF ~Live(s) \/ h = 2 \/ s.handshake > h THEN s ELSE [s EXCEPT !.handshake = h + 1]

Reply(r) == replies' = replies \cup {r} /\ UNCHANGED <<table, served>>

\* handlePacket.  The entry it has looked up can only become nil meanwhile.
handlePacket(id, h) ==
    LET entry == table[id]
        v     == PacketVersion(id)
    IN  /\ entry # -1
        /\ \/ /\ entry = 0 /\ ~VersionFlag(h)
              /\ Reply([kind |-> "reset", id |-> id])
           \/ /\ entry = 0 /\ VersionFlag(h) /\ ~IsSupportedVersion(versions, v)
              /\ Reply([kind |-> "VN", id |-> id, versions |-> versions])
           \/ /\ entry = 0 /\ VersionFlag(h) /\ IsSupportedVersion(versions, v)
              /\ Len(served[id]) < start.maxSessions
              /\ served' = [served EXCEPT ![id] = Append(@, HandlePacket(ServerSession(v), h))]
              /\ table' = [table EXCEPT ![id] = Len(served'[id])]
              /\ UNCHANGED replies
           \/ /\ entry > 0 /\ (VersionFlag(h) => IsSupportedVersion(versions, v))
              /\ served' = [served EXCEPT ![id][entry] = HandlePacket(@, h)]
              /\ UNCHANGED <<replies, table>>

\* serve, with a packet; one may be left from before the socket was closed.
ServePacket(id, h) ==
    /\ serve = "loop"
    /\ serverSocket \in {"open", "holds"}
    /\ Sent(id, h)
    /\ handlePacket(id, h)
    /\ serverSocket' = IF serverSocket = "holds" THEN "empty" ELSE serverSocket
    /\ UNCHANGED <<start, clientVars, versions, timers, sessionQueue, accepting, serve,
                   closers, closeConns, pcmClosed>>

\* handlePacket of a packet that is dropped: it cannot be parsed, its session is
\* closed, it is from before the version was negotiated, or newSession fails.
ServeDrops ==
    /\ serve = "loop" /\ serverSocket = "holds"
    /\ serverSocket' = "empty"
    /\ UNCHANGED <<start, replies, clientVars, serverVars, serve, closers, closeConns,
                   pcmClosed>>

\* A timeout, an error, the peer's CONNECTION_CLOSE.
ServerSessionCloses(id, n) ==
    /\ Live(served[id][n])
    /\ served' = [served EXCEPT ![id][n] = Closed(@, "failure")]
    /\ UNCHANGED <<start, replies, clientVars, versions, table, timers, sessionQueue,
                   accepting, closeVars>>

ServerRunReturns(id, n) ==
    /\ served[id][n].state = "running" /\ served[id][n].reason # "none"
    /\ served' = [served EXCEPT ![id][n].state = "ended"]
    /\ UNCHANGED <<start, replies, clientVars, versions, table, timers, sessionQueue,
                   accepting, closeVars>>

\* Mutant: the entry is deleted at once, not only by the timer.
removeAtOnce(id, n) ==
    /\ served[id][n].state = "ended"
    /\ served' = [served EXCEPT ![id][n].state = "removed"]
    /\ table' = [table EXCEPT ![id] = 0]
    /\ timers' = timers \cup {<<id, n>>}
    /\ UNCHANGED <<start, replies, clientVars, versions, sessionQueue, accepting, closeVars>>

\* A nil entry is left, for the packets that are still under way.
removeConnection(id, n) ==
    /\ served[id][n].state = "ended"
    /\ served' = [served EXCEPT ![id][n].state = "removed"]
    /\ table' = [table EXCEPT ![id] = -1]
    /\ timers' = timers \cup {<<id, n>>}
    /\ UNCHANGED <<start, replies, clientVars, versions, sessionQueue, accepting, closeVars>>

\* The timer of removeConnection: ClosedSessionDeleteTimeout.
DeleteEntry(id, n) ==
    /\ <<id, n>> \in timers
    /\ table' = [table EXCEPT ![id] = 0]
    /\ timers' = timers \ {<<id, n>>}
    /\ UNCHANGED <<start, replies, clientVars, versions, served, sessionQueue, accepting,
                   closeVars>>

\* The goroutine that waits for the session to be forward-secure.  When the
\* session ends before that, it gets the error, but a nil error, that of
\* server.Close, is none to it.
AwaitForwardSecure(id, n) ==
    LET s == served[id][n]
    IN  /\ s.announce = "wait"
        /\ \/ s.handshake = 2 /\ served' = [served EXCEPT ![id][n].announce = "queue"]
           \/ /\ s.handshake < 2 /\ s.state # "running" /\ s.reason # "nil"
              /\ served' = [served EXCEPT ![id][n].announce = "done"]
        /\ UNCHANGED <<start, replies, clientVars, versions, table, timers, sessionQueue,
                       accepting, closeVars>>

\* s.sessionQueue <- session
Enqueue(id, n) ==
    /\ served[id][n].announce = "queue"
    /\ Len(sessionQueue) < QueueSize
    /\ sessionQueue' = Append(sessionQueue, id)
    /\ served' = [served EXCEPT ![id][n].announce = "done"]
    /\ UNCHANGED <<start, replies, clientVars, versions, table, timers, accepting, closeVars>>

\* The application calls Accept until it fails.
Accept ==
    /\ accepting
    /\ \/ /\ sessionQueue # <<>>
          /\ sessionQueue' = Tail(sessionQueue) /\ UNCHANGED accepting
       \/ /\ serve # "loop"
          /\ accepting' = FALSE /\ UNCHANGED sessionQueue
    /\ UNCHANGED <<start, replies, clientVars, versions, table, served, timers, closeVars>>

-----------------------------------------------------------------------------
(***************************************************************************)
(* The end of the server: Close, called by the application's goroutines    *)
(* and by serve, and the goroutines of the pconnManager.                   *)
(***************************************************************************)

\* Close begins to range over the sessions.
CloseBegins ==
    [at |-> "range", seen |-> {},
     first |-> {<<id, table[id]>> : id \in {i \in ConnIDs : table[i] > 0}}]

UserClose(g) ==
    /\ g \in start.users /\ closers[g].at = "none"
    /\ closers' = [closers EXCEPT ![g] = CloseBegins]
    /\ UNCHANGED <<start, replies, clientVars, serverVars, serve, closeConns, pcmClosed,
                   serverSocket>>

\* session.Close(nil), the table unlocked.  An entry that is made meanwhile may
\* be visited or not.
CloseSession(g, id) ==
    /\ closers[g].at = "range" /\ table[id] > 0
    /\ <<id, table[id]>> \notin closers[g].seen
    /\ served' = [served EXCEPT ![id][table[id]] = Closed(@, "nil")]
    /\ closers' = [closers EXCEPT ![g] = [at |-> "wait", id |-> id, n |-> table[id],
                                          first |-> @.first,
                                          seen |-> @.seen \cup {<<id, table[id]>>}]]
    /\ UNCHANGED <<start, replies, clientVars, versions, table, timers, sessionQueue,
                   accepting, serve, closeConns, pcmClosed, serverSocket>>

\* session.Close returns.
CloseContinues(g) ==
    LET c == closers[g]
    IN  /\ c.at = "wait" /\ served[c.id][c.n].state # "running"
        /\ closers' = [closers EXCEPT ![g] = [at |-> "range", first |-> c.first,
                                              seen |-> c.seen]]
        /\ UNCHANGED <<start, replies, clientVars, serverVars, serve, closeConns,
                       pcmClosed, serverSocket>>

\* Mutant: not all the entries are visited.
CloseRangedEarly(g) ==
    /\ closers[g].at = "range"
    /\ closers' = [closers EXCEPT ![g] = [at |-> "send"]]
    /\ UNCHANGED <<start, replies, clientVars, serverVars, serve, closeConns, pcmClosed,
                   serverSocket>>

\* The sessions that were there were visited, or have left the table: the range
\* may pass an entry that was nil, or was made for an ID deleted meanwhile.
CloseRanged(g) ==
    /\ closers[g].at = "range"
    /\ \A e \in closers[g].first \ closers[g].seen : table[e[1]] # e[2]
    /\ closers' = [closers EXCEPT ![g] = [at |-> "send"]]
    /\ UNCHANGED <<start, replies, clientVars, serverVars, serve, closeConns, pcmClosed,
                   serverSocket>>

\* s.pconnMgr.closeConns <- struct{}{}, a channel for one element
CloseSends(g) ==
    /\ closers[g].at = "send" /\ closeConns = 0
    /\ closeConns' = 1
    /\ closers' = [closers EXCEPT ![g] = [at |-> "sent"]]
    /\ UNCHANGED <<start, replies, clientVars, serverVars, serve, pcmClosed, serverSocket>>

\* <-s.pconnMgr.closed
CloseReturns(g) ==
    /\ closers[g].at = "sent" /\ pcmClosed
    /\ closers' = [closers EXCEPT ![g] = [at |-> "returned"]]
    /\ serve' = IF g = "serve" THEN "done" ELSE serve
    /\ UNCHANGED <<start, replies, clientVars, serverVars, closeConns, pcmClosed,
                   serverSocket>>

\* pconnManager.run: the socket is closed, while its listen may hold a packet
\* that it has read.
ClosePconns ==
    /\ closeConns = 1 /\ ~pcmClosed
    /\ closeConns' = 0
    /\ pcmClosed' = TRUE
    /\ IF serverSocket = "open" THEN serverSocket' \in {"holds", "empty"}
                                ELSE UNCHANGED serverSocket
    /\ UNCHANGED <<start, replies, clientVars, serverVars, serve, closers>>

\* pconnManager.listen: a read fails, for any reason or because of closePconns.
ServerSocketFails ==
    /\ serverSocket \in {"open", "empty"}
    /\ serverSocket' = "error"
    /\ UNCHANGED <<start, replies, clientVars, serverVars, serve, closers, closeConns,
                   pcmClosed>>

\* serve reads errorConn, closes errorChan and calls Close.
ServeError ==
    /\ serve = "loop" /\ serverSocket = "error"
    /\ serverSocket' = "drained"
    /\ serve' = "closing"
    /\ closers' = [closers EXCEPT !["serve"] = CloseBegins]
    /\ UNCHANGED <<start, replies, clientVars, serverVars, closeConns, pcmClosed>>

\* The server's process dies, and another one is started in its place.
Restart ==
    /\ start.restart # <<>> /\ versions = start.server
    /\ versions' = start.restart
    /\ table' = [id \in ConnIDs |-> 0]
    /\ served' = [id \in ConnIDs |-> [n \in DOMAIN served[id] |->
                     [served[id][n] EXCEPT !.state = "removed", !.reason = "crash",
                                           !.announce = "done"]]]
    /\ timers' = {}
    /\ sessionQueue' = <<>>
    /\ accepting' = TRUE
    /\ serve' = "loop"
    /\ closers' = [g \in Closers |-> [at |-> "none"]]
    /\ closeConns' = 0
    /\ pcmClosed' = FALSE
    /\ serverSocket' = "open"
    /\ UNCHANGED <<start, replies, clientVars>>

-----------------------------------------------------------------------------

\* What a goroutine that is ready does without waiting for the network, the
\* application's choice or the tombstone's timer.
Goroutines ==
    \/ Run \/ DialVersion \/ DialHandshake \/ DialComplete \/ ListenResumes \/ ListenError
    \/ \E i \in DOMAIN sessions : RunReturns(i) \/ HandshakeTimeout(i)
    \/ clientSocket = "closed" /\ ClientSocketFails
    \/ \E id \in ConnIDs : \E n \in DOMAIN served[id] :
          \/ ServerRunReturns(id, n) \/ removeConnection(id, n)
          \/ AwaitForwardSecure(id, n) \/ Enqueue(id, n)
    \/ Accept
    \/ \E g \in Closers :
          \/ \E id \in ConnIDs : CloseSession(g, id)
          \/ CloseContinues(g) \/ CloseRanged(g) \/ CloseSends(g) \/ CloseReturns(g)
    \/ ClosePconns \/ ServeError \/ ServeDrops
    \/ serverSocket = "empty" /\ ServerSocketFails

Environment ==
    \/ \E i \in DOMAIN sessions : ClientSessionFails(i)
    \/ UserCloses
    \/ ClientReset
    \/ \E r \in replies : VersionNegotiation(r)
    \/ /\ dial # "none"
       /\ \E n \in DOMAIN served[session], answer \in 1..2 : RegularPacket(n, answer)
    \/ "client" \in start.faults /\ clientSocket = "open" /\ ClientSocketFails
    \/ \E id \in ConnIDs, h \in 0..2 : ServePacket(id, h)
    \/ \E id \in ConnIDs : \E n \in DOMAIN served[id] :
          \/ "sessions" \in start.faults /\ ServerSessionCloses(id, n)
          \/ DeleteEntry(id, n)
    \/ \E g \in Closers : UserClose(g)
    \/ "server" \in start.faults /\ serverSocket = "open" /\ ServerSocketFails
    \/ Restart

Next == Goroutines \/ Environment

\* Each goroutine takes finitely many steps, so that fairness for their union is
\* fairness for each: one that stays ready has its turn.
Spec == Init /\ [][Next]_vars /\ WF_vars(Goroutines)

-----------------------------------------------------------------------------

\* The server's table has every session that still runs, under its connection
\* ID: no packet for it makes another session, no public reset is sent for it,
\* and Close finds it.  The timer of removeConnection (server.go:447) deletes an
\* entry by its ID, whatever the entry is by then.
LiveInTable ==
    \A id \in ConnIDs : \A n \in DOMAIN served[id] :
        served[id][n].state = "running" => table[id] = n

\* Dial waits for the handshake of the session that it returns: c.handshakeChan
\* and c.session are not replaced once the version is negotiated (client.go:329).
\* And a session that is forward-secure speaks the first of the client's versions
\* that the server, which sent the SHLO, has, also when the list of the version
\* negotiation packet was another one (crypto_setup_client.go:416).
DialsBestVersion ==
    /\ dialOn # 0 => dialOn = session
    /\ \A i \in DOMAIN sessions :
          sessions[i].handshake = 2 =>
              sessions[i].version = ChooseSupportedVersion(start.client, sessions[i].peer)

\* When serve has returned, none of the server's sessions runs, also of those
\* made while the application's Close went over the table (server.go:254).
NoSessionAfterServe ==
    serve = "done" =>
        \A id \in ConnIDs : \A n \in DOMAIN served[id] : served[id][n].state # "running"

\* A session that has ended and was not closed by the server's Close is still
\* being announced to Accept (server.go:418).
Leftover ==
    \E id \in ConnIDs : \E n \in DOMAIN served[id] :
        /\ served[id][n].state # "running" /\ served[id][n].reason # "nil"
        /\ served[id][n].announce # "done"

\* Every goroutine and every call comes to its end.
\* - Dial returns, whatever the network does (client.go:231).
\* - The client's listen ends after the last session, except when that session was
\*   made for a new version while the one before ended for another reason: it is
\*   never run, and listen waits for ever for it to be closed (client.go:259).
\* - Every Close of the server returns, if the application calls it once: with
\*   serve's own call there are two, one more than the pconnManager receives
\*   (server.go:263).
\* - The goroutine that announces a session to Accept ends after the session,
\*   unless the session was closed by the server's Close or there is no Accept any
\*   more (server.go:418).
GoroutinesEnd ==
    /\ dial \in {"version", "handshake", "complete"} ~> dial \in {"ok", "error"}
    /\ runner = "done" ~>
          (listen = "ended" \/ \E i \in DOMAIN sessions : sessions[i].state = "created")
    /\ (Cardinality(start.users) <= 1 /\ \E g \in Closers : closers[g].at # "none")
          ~> \A g \in Closers : closers[g].at \in {"none", "returned"}
    /\ (serve = "loop" /\ Leftover) ~> (serve # "loop" \/ ~Leftover)

=============================================================================
