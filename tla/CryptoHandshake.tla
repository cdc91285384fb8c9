-------------------------- MODULE CryptoHandshake ---------------------------
(***************************************************************************)
(* The QUIC crypto handshake between a client and a server                 *)
(* (crypto_setup_client.go, crypto_setup_server.go) and the parts of their *)
(* sessions that take part in it (session.go).  On each side two           *)
(* goroutines run: the crypto setup, which reads and writes the crypto     *)
(* stream, and the run loop of the session, which sends what the crypto    *)
(* setup writes, opens the packets that arrive, keeps those it has no key  *)
(* for, and takes the changes of the encryption level from aeadChanged.    *)
(*                                                                         *)
(* A packet stays in the network: it may arrive late, twice, or never, and *)
(* arriving again stands for its retransmission, which uses the encryption *)
(* level of the original.  A key is the record of what it is derived from. *)
(* A crypto message is one packet.                                         *)
(***************************************************************************)
EXTENDS Integers, Sequences

CONSTANTS
    Starts,                   \* contents of the client's handshake cache, configured
                              \* idle timeouts, and at which levels there is data
    Second,                   \* time units in a second
    MaxClientHellos,
    MaxUndecryptablePackets

\* The server's current configuration and certificate, and those that an
\* earlier server had, when the client stored them.
Age == {"none", "old", "cur"}

ASSUME CryptoHandshakeAssumption ==
    /\ Second \in Nat \ {0}
    /\ MaxClientHellos \in Nat /\ MaxClientHellos >= 3
    /\ MaxUndecryptablePackets \in Nat
    /\ \A c \in Starts : c.cert \in Age /\ c.scfg \in Age

VARIABLES
    start,                    \* what a connection starts from; never changes
    cli,                      \* fields of cryptoSetupClient
    key,                      \* secureAEAD and forwardSecureAEAD: at most one key each
    task, out, read,          \* the crypto goroutine, what it writes, how many it read
    sentSHLO,
    aeadChanged, aeadClosed,  \* the channel to the run loop
    params,                   \* connectionParametersManager
    run, pkt,                 \* the run loop; the client's packet in SetDiversificationNonce
    got,                      \* receivedSecurePacket and receivedForwardSecurePacket
    inbox,                    \* crypto messages that arrived
    queue, overflow,          \* undecryptablePackets; too many were received
    complete, events,         \* handshakeComplete; what was sent to handshakeChan
    closing,                  \* why the session closes
    net                       \* the packets sent to each side

setup == <<cli, key, task, out, read, sentSHLO, params>>
channel == <<aeadChanged, aeadClosed>>
loop == <<run, pkt, got, inbox, queue, overflow, complete, events>>
vars == <<start, setup, channel, loop, closing, net>>

Side == {"client", "server"}
Other(s) == IF s = "client" THEN "server" ELSE "client"

Unencrypted == 1
Secure == 2
ForwardSecure == 3
Fail == 0                     \* decryption failed

-----------------------------------------------------------------------------
(***************************************************************************)
(* Messages and packets.                                                   *)
(***************************************************************************)

Packet(level, keys, body) == [level |-> level, key |-> keys, body |-> body]

Data == [type |-> "data"]

KeyOf(s, level) ==
    CASE level = Unencrypted   -> {}
      [] level = Secure        -> key[s].secure
      [] level = ForwardSecure -> key[s].forward

\* The level of GetSealer: the server never uses the secure level here.
GetSealer(s) ==
    IF key[s].forward # {} THEN ForwardSecure
    ELSE IF s = "client" /\ key[s].secure # {} THEN Secure
    ELSE Unencrypted

\* Mutant: the server writes the crypto stream unencrypted for ever.
CryptoStreamUnencrypted(s) == Unencrypted

GetSealerForCryptoStream(s) ==
    IF s = "server" /\ key[s].secure # {} THEN Secure ELSE Unencrypted

\* A diversification nonce is in the header of the server's secure packets.
HasNonce(s, p) == s = "client" /\ p.level = Secure

\* A nonce has the OBIT of the configuration.
generateClientNonce(scfg) == scfg

\* With a configuration comes a new key pair.
parseServerConfig(c, scfg) == [c EXCEPT !.scfg = scfg, !.kex = @ + 1]

\* A client that uses the cache has the token, the certificate and the server's
\* configuration of an earlier connection, as far as the files are there, and
\* with the configuration a new key exchange and a nonce.  Only the complete
\* cache counts as a verified server.
useHandshakeCache(c) ==
    LET first == [stk |-> c.stk, cert |-> c.cert, scfg |-> "none", nonc |-> "none",
                  kex |-> 0, verified |-> FALSE, proof |-> 0, signed |-> 0, last |-> 0,
                  hellos |-> 0, divNonce |-> FALSE]
    IN  IF c.scfg = "none" THEN first
        ELSE [parseServerConfig(first, c.scfg)
                EXCEPT !.nonc = generateClientNonce(c.scfg), !.verified = TRUE]

Init ==
    /\ start \in Starts
    /\ cli = useHandshakeCache(start)
    /\ key = [s \in Side |-> [secure |-> {}, forward |-> {}]]
    /\ task = [client |-> "top", server |-> "select"]
    /\ out = [s \in Side |-> Data]
    /\ read = [s \in Side |-> 0]
    /\ sentSHLO = FALSE
    /\ aeadChanged = [s \in Side |-> <<>>]
    /\ aeadClosed = [s \in Side |-> FALSE]
    /\ params = [s \in Side |-> [idle |-> start.idle[s], negotiated |-> FALSE]]
    /\ run = [s \in Side |-> "select"]
    /\ pkt = [s \in Side |-> {}]
    /\ got = [s \in Side |-> [secure |-> FALSE, forward |-> FALSE]]
    /\ inbox = [s \in Side |-> {}]
    /\ queue = [s \in Side |-> <<>>]
    /\ overflow = [s \in Side |-> FALSE]
    /\ complete = [s \in Side |-> FALSE]
    /\ events = [s \in Side |-> <<>>]
    /\ closing = [s \in Side |-> "no"]
    /\ net = [s \in Side |-> {}]

-----------------------------------------------------------------------------
(***************************************************************************)
(* The crypto goroutines.                                                  *)
(***************************************************************************)

Goto(s, label) == task' = [task EXCEPT ![s] = label]

Announce(s, level) == aeadChanged' = [aeadChanged EXCEPT ![s] = Append(@, level)]

\* closeLocal and closeRemote: only the first reason counts.
Close(s, why) ==
    closing' = [closing EXCEPT ![s] = IF @ = "no" THEN why ELSE @]

\* HandleCryptoStream returns an error, and with it the session is closed.
HandshakeFails(s) == Goto(s, "ended") /\ Close(s, "handshake")

\* ICSL is in seconds.  Flow control is negotiated once.
InSeconds(t) == t \div Second

MinDuration(a, b) == IF a > b THEN b ELSE a

SetFromMap(s, seconds) ==
    params' = [params EXCEPT ![s].idle = MinDuration(@, seconds * Second),
                             ![s].negotiated = TRUE]

\* getTags: what identifies the key exchange is there with the certificate.
CHLO ==
    LET full == cli.scfg # "none" /\ cli.cert # "none"
    IN  [type |-> "CHLO", n |-> cli.hellos + 1, stk |-> cli.stk, scid |-> cli.scfg,
         pubs |-> IF full THEN cli.kex ELSE 0,
         xlct |-> IF full THEN cli.cert ELSE "none",
         nonc |-> IF full THEN cli.nonc ELSE "none",
         icsl |-> InSeconds(params.client.idle)]

REJ(n, withProof) == [type |-> "REJ", n |-> n, prof |-> withProof]

SHLO(n, seconds) == [type |-> "SHLO", n |-> n, icsl |-> seconds]

ClientKey(forward) ==
    [chlo |-> cli.last, pubs |-> cli.kex, nonc |-> cli.nonc, scfg |-> cli.scfg,
     cert |-> cli.cert, forward |-> forward]

ServerKey(m, forward) ==
    [chlo |-> m.n, pubs |-> m.pubs, nonc |-> m.nonc, scfg |-> "cur",
     cert |-> "cur", forward |-> forward]

\* Mutant: the diversification nonce is not waited for.
CanUpgradeAtOnce ==
    /\ cli.verified
    /\ key.client.secure = {}
    /\ "none" \notin {cli.scfg, cli.nonc, cli.cert}
    /\ cli.last > 0

\* maybeUpgradeCrypto has all it needs.
CanUpgrade ==
    /\ cli.verified
    /\ key.client.secure = {}
    /\ "none" \notin {cli.scfg, cli.nonc, cli.cert}
    /\ cli.divNonce
    /\ cli.last > 0

maybeUpgradeCrypto ==
    /\ CanUpgrade
    /\ key' = [key EXCEPT !.client.secure = {ClientKey(FALSE)}]
    /\ Announce("client", Secure)
    /\ Goto("client", "select")
    /\ UNCHANGED <<cli, out, closing>>

sendCHLO ==
    /\ ~ CanUpgrade
    /\ key.client.secure = {}
    /\ IF cli.hellos < MaxClientHellos
         THEN /\ out' = [out EXCEPT !.client = CHLO]
              /\ Goto("client", "write")
              /\ UNCHANGED closing
         ELSE HandshakeFails("client") /\ UNCHANGED out
    /\ cli' = [cli EXCEPT !.hellos = @ + 1]
    /\ UNCHANGED <<key, aeadChanged>>

ClientTop ==
    /\ task.client = "top"
    /\ \/ maybeUpgradeCrypto
       \/ sendCHLO
       \/ /\ key.client.secure # {}
          /\ Goto("client", "select")
          /\ UNCHANGED <<cli, key, out, closing, aeadChanged>>
    /\ UNCHANGED <<start, read, sentSHLO, params, aeadClosed, loop, net>>

\* A REJ has the server's configuration and a token, and the proof and the
\* certificate if the token of the CHLO was good.  The nonce is kept.
handleREJMessage(m) ==
    LET c == [parseServerConfig(cli, "cur")
                EXCEPT !.stk = "good",
                       !.nonc = IF @ = "none" THEN generateClientNonce("cur") ELSE @,
                       !.proof = IF m.prof THEN m.n ELSE @,
                       !.signed = IF m.prof THEN cli.last ELSE @,
                       !.cert = IF m.prof THEN "cur" ELSE @]
        checked == c.proof # 0 /\ c.cert # "none"
    IN  /\ cli' = [c EXCEPT !.verified = @ \/ checked]
        /\ IF checked /\ c.proof # c.signed
             THEN HandshakeFails("client")
             ELSE Goto("client", "top") /\ UNCHANGED closing
        /\ UNCHANGED <<key, params, channel>>

handleSHLOMessage(m) ==
    /\ IF got.client.secure /\ ~ params.client.negotiated
         THEN /\ key' = [key EXCEPT !.client.forward = {ClientKey(TRUE)}]
              /\ SetFromMap("client", m.icsl)
              /\ Announce("client", ForwardSecure)
              /\ aeadClosed' = [aeadClosed EXCEPT !.client = TRUE]
              /\ Goto("client", "top")
              /\ UNCHANGED closing
         ELSE HandshakeFails("client") /\ UNCHANGED <<key, params, channel>>
    /\ UNCHANGED cli

\* The messages are read in the order in which they were written.
ReadNext(s, m) ==
    /\ task[s] = "select"
    /\ m \in inbox[s]
    /\ m.n = read[s] + 1
    /\ read' = [read EXCEPT ![s] = m.n]

ClientReads(m) ==
    /\ ReadNext("client", m)
    /\ IF m.type = "REJ" THEN handleREJMessage(m) ELSE handleSHLOMessage(m)
    /\ UNCHANGED <<start, out, sentSHLO, loop, net>>

\* The key of the tokens is made with the session: no other token decodes.
DecodeToken(stk) == stk = "good"

acceptSTK(m) == DecodeToken(m.stk)

\* The nonce has the OBIT of the server's configuration.
validateClientNonce(m) == m.nonc = generateClientNonce("cur")

isInchoateCHLO(m) ==
    \/ m.pubs = 0
    \/ m.scid # "cur"
    \/ m.xlct # "cur"
    \/ ~ acceptSTK(m)

handleInchoateCHLO(m) ==
    /\ out' = [out EXCEPT !.server = REJ(m.n, acceptSTK(m))]
    /\ Goto("server", "write")
    /\ UNCHANGED <<key, params, closing, aeadChanged>>

\* handleCHLO holds the mutex, which the run loop has while it waits in Open.
handleCHLO(m) ==
    LET idle == MinDuration(params.server.idle, m.icsl * Second)
    IN  /\ run.server # "shlo"
        /\ IF validateClientNonce(m) /\ ~ params.server.negotiated
             THEN /\ key' = [key EXCEPT !.server =
                              [secure |-> {ServerKey(m, FALSE)},
                               forward |-> {ServerKey(m, TRUE)}]]
                  /\ Announce("server", Secure)
                  /\ SetFromMap("server", m.icsl)
                  /\ out' = [out EXCEPT !.server = SHLO(m.n, InSeconds(idle))]
                  /\ Goto("server", "write")
                  /\ UNCHANGED closing
             ELSE HandshakeFails("server") /\ UNCHANGED <<key, params, out, aeadChanged>>

ServerReads(m) ==
    /\ ReadNext("server", m)
    /\ IF isInchoateCHLO(m) THEN handleInchoateCHLO(m) ELSE handleCHLO(m)
    /\ UNCHANGED <<start, cli, sentSHLO, aeadClosed, loop, net>>

\* handleMessage, after the SHLO was written.
AnnounceForwardSecure ==
    /\ task.server = "wrote"
    /\ Announce("server", ForwardSecure)
    /\ Goto("server", "announced")
    /\ UNCHANGED <<start, cli, key, out, read, sentSHLO, params, aeadClosed, loop,
                   closing, net>>

CloseSentSHLO ==
    /\ task.server = "announced"
    /\ sentSHLO' = TRUE
    /\ Goto("server", "ended")
    /\ UNCHANGED <<start, cli, key, out, read, params, channel, loop, closing, net>>

Reads(s) ==
    IF s = "client"
      THEN \E m \in inbox.client : ClientReads(m)
      ELSE \E m \in inbox.server : ServerReads(m)

Crypto(s) ==
    \/ Reads(s)
    \/ s = "client" /\ ClientTop
    \/ s = "server" /\ (AnnounceForwardSecure \/ CloseSentSHLO)

-----------------------------------------------------------------------------
(***************************************************************************)
(* The run loops.                                                          *)
(***************************************************************************)

\* The turn ends; the next one begins with a look at closeChan.
EndTurn(s) ==
    run' = [run EXCEPT ![s] = IF closing'[s] = "no" THEN "select" ELSE "stopping"]

SendTo(s, p) == net' = [net EXCEPT ![s] = @ \cup {p}]

\* The crypto stream's data is sent, and Write returns.
SendCrypto(s) ==
    LET level == GetSealerForCryptoStream(s)
    IN  /\ run[s] = "select"
        /\ task[s] = "write"
        /\ SendTo(Other(s), Packet(level, KeyOf(s, level), out[s]))
        /\ Goto(s, IF out[s].type = "SHLO" THEN "wrote" ELSE "select")
        /\ cli' = IF s = "client" THEN [cli EXCEPT !.last = out[s].n] ELSE cli
        /\ UNCHANGED <<start, key, out, read, sentSHLO, params, channel, pkt, got,
                       inbox, queue, overflow, complete, events, closing>>
        /\ EndTurn(s)

canSendData(s, level) == level >= IF s = "client" THEN Secure ELSE ForwardSecure

SendData(s) ==
    LET level == GetSealer(s)
    IN  /\ run[s] = "select"
        /\ <<s, level>> \in start.talk
        /\ \A o \in Side : closing[o] = "no"
        /\ canSendData(s, level)
        /\ SendTo(Other(s), Packet(level, KeyOf(s, level), Data))
        /\ UNCHANGED <<start, setup, channel, pkt, got, inbox, queue, overflow,
                       complete, events, closing>>
        /\ EndTurn(s)

Opens(s, level, p) == p.level = level /\ p.key = KeyOf(s, level)

ClientOpen(p) ==
    IF key.client.forward # {}
      THEN IF Opens("client", ForwardSecure, p) THEN ForwardSecure ELSE Fail
    ELSE IF key.client.secure # {} /\ Opens("client", Secure, p) THEN Secure
    ELSE IF ~ got.client.secure /\ p.level = Unencrypted THEN Unencrypted
    ELSE Fail

ServerOpen(p) ==
    IF key.server.forward # {} /\ Opens("server", ForwardSecure, p) THEN ForwardSecure
    ELSE IF got.server.forward THEN Fail
    ELSE IF key.server.secure # {} /\ Opens("server", Secure, p) THEN Secure
    ELSE IF ~ got.server.secure /\ p.level = Unencrypted THEN Unencrypted
    ELSE Fail

OpenLevel(s, p) == IF s = "client" THEN ClientOpen(p) ELSE ServerOpen(p)

tryQueueingUndecryptablePacket(s, p) ==
    LET full == Len(queue[s]) + 1 > MaxUndecryptablePackets
    IN  /\ queue' = [queue EXCEPT ![s] =
                       IF complete[s] \/ full THEN @ ELSE Append(@, p)]
        /\ overflow' = [overflow EXCEPT ![s] = @ \/ (~ complete[s] /\ full)]

\* Unpack refuses stream data that is not encrypted.
UnencryptedStreamData(p) == p.body.type = "data" /\ p.level = Unencrypted

handleFrames(s, p) ==
    /\ inbox' = [inbox EXCEPT ![s] =
                   IF p.body.type \in {"CHLO", "REJ", "SHLO"} THEN @ \cup {p.body} ELSE @]
    /\ CASE p.body.type = "close"     -> Close(s, "remote")
         [] UnencryptedStreamData(p)  -> Close(s, "unencrypted")
         [] OTHER                     -> UNCHANGED closing

\* The server's first forward secure packet waits for the end of handleMessage,
\* and closes aeadChanged.
FirstForwardSecure(s, level) ==
    s = "server" /\ level = ForwardSecure /\ ~ got.server.forward

\* handlePacketImpl from Open on, and what the run loop does with its result.
OpenPacket(s, p) ==
    LET level == OpenLevel(s, p)
    IN  /\ IF level = Fail
             THEN /\ tryQueueingUndecryptablePacket(s, p)
                  /\ UNCHANGED <<got, inbox, closing>>
                  /\ EndTurn(s)
                  /\ pkt' = [pkt EXCEPT ![s] = {}]
             ELSE /\ got' = [got EXCEPT ![s] =
                       [secure |-> @.secure \/ level = Secure,
                        forward |-> @.forward \/ level = ForwardSecure]]
                  /\ IF FirstForwardSecure(s, level)
                       THEN /\ run' = [run EXCEPT ![s] = "shlo"]
                            /\ pkt' = [pkt EXCEPT ![s] = {p}]
                            /\ UNCHANGED <<inbox, closing>>
                       ELSE /\ handleFrames(s, p)
                            /\ EndTurn(s)
                            /\ pkt' = [pkt EXCEPT ![s] = {}]
                  /\ UNCHANGED <<queue, overflow>>
        /\ UNCHANGED <<start, setup, channel, complete, events, net>>

\* A packet arrives; the client first hands over its nonce.
Receive(s, p) ==
    /\ run[s] = "select"
    /\ p \in net[s]
    /\ p.body.type # "reset"
    /\ IF HasNonce(s, p)
         THEN /\ run' = [run EXCEPT ![s] = "nonce"]
              /\ pkt' = [pkt EXCEPT ![s] = {p}]
              /\ UNCHANGED <<start, setup, channel, got, inbox, queue, overflow,
                             complete, events, closing, net>>
         ELSE OpenPacket(s, p)

\* Mutant: the upgrade is not tried again.
SetDiversificationNonceOnly ==
    /\ run.client = "nonce"
    /\ task.client = "select"
    /\ cli' = [cli EXCEPT !.divNonce = TRUE]
    /\ run' = [run EXCEPT !.client = "open"]
    /\ UNCHANGED <<start, key, task, out, read, sentSHLO, params, channel, pkt, got,
                   inbox, queue, overflow, complete, events, closing, net>>

\* divNonceChan has no buffer.
SetDiversificationNonce ==
    /\ run.client = "nonce"
    /\ task.client = "select"
    /\ cli' = [cli EXCEPT !.divNonce = TRUE]
    /\ Goto("client", "top")
    /\ run' = [run EXCEPT !.client = "open"]
    /\ UNCHANGED <<start, key, out, read, sentSHLO, params, channel, pkt, got, inbox,
                   queue, overflow, complete, events, closing, net>>

ClientOpens ==
    /\ run.client = "open"
    /\ \E p \in pkt.client : OpenPacket("client", p)

SHLOWasSent ==
    /\ run.server = "shlo"
    /\ sentSHLO
    /\ aeadClosed' = [aeadClosed EXCEPT !.server = TRUE]
    /\ \E p \in pkt.server : handleFrames("server", p)
    /\ pkt' = [pkt EXCEPT !.server = {}]
    /\ UNCHANGED <<start, setup, aeadChanged, got, queue, overflow, complete, events, net>>
    /\ EndTurn("server")

\* Mutant: the packets stay where they are.
ReceiveLevelOnly(s) ==
    /\ run[s] = "select"
    /\ aeadChanged[s] # <<>>
    /\ aeadChanged' = [aeadChanged EXCEPT ![s] = Tail(@)]
    /\ events' = [events EXCEPT ![s] = Append(@, Head(aeadChanged[s]))]
    /\ UNCHANGED <<start, setup, aeadClosed, pkt, got, inbox, queue, overflow, complete,
                   closing, net>>
    /\ EndTurn(s)

\* A level: the packets that were kept are put back in receivedPackets, and are
\* handled like packets that arrive again.
ReceiveLevel(s) ==
    /\ run[s] = "select"
    /\ aeadChanged[s] # <<>>
    /\ aeadChanged' = [aeadChanged EXCEPT ![s] = Tail(@)]
    /\ queue' = [queue EXCEPT ![s] = <<>>]
    /\ events' = [events EXCEPT ![s] = Append(@, Head(aeadChanged[s]))]
    /\ UNCHANGED <<start, setup, aeadClosed, pkt, got, inbox, overflow, complete, closing, net>>
    /\ EndTurn(s)

HandshakeComplete(s) ==
    /\ run[s] = "select"
    /\ aeadChanged[s] = <<>>
    /\ aeadClosed[s]
    /\ ~ complete[s]
    /\ complete' = [complete EXCEPT ![s] = TRUE]
    /\ UNCHANGED <<start, setup, channel, pkt, got, inbox, queue, overflow, events, closing, net>>
    /\ EndTurn(s)

\* The end of run and handleCloseError: the peer is told, unless it closed, and
\* the crypto stream is cancelled.  What is left of the session is dropped.
Ended(s, why) ==
    LET level == GetSealer(s)
        told == CASE why = "remote" -> {}
                  [] why = "reset"  -> {Packet(Unencrypted, {}, [type |-> "reset"])}
                  [] OTHER -> {Packet(level, KeyOf(s, level), [type |-> "close"])}
    IN  /\ run' = [run EXCEPT ![s] = "done"]
        /\ closing' = [closing EXCEPT ![s] = why]
        /\ events' = [events EXCEPT ![s] = IF complete[s] THEN @ ELSE Append(@, Fail)]
        /\ net' = [net EXCEPT ![Other(s)] = @ \cup told]
        /\ task' = [task EXCEPT ![s] = "ended"]
        /\ out' = [out EXCEPT ![s] = Data]
        /\ aeadChanged' = [aeadChanged EXCEPT ![s] = <<>>]
        /\ pkt' = [pkt EXCEPT ![s] = {}]
        /\ inbox' = [inbox EXCEPT ![s] = {}]
        /\ queue' = [queue EXCEPT ![s] = <<>>]
        /\ UNCHANGED <<start, cli, key, read, sentSHLO, params, aeadClosed, got,
                       overflow, complete>>

Stop(s) ==
    /\ \/ run[s] = "stopping"
       \/ run[s] = "select" /\ closing[s] # "no"
    /\ Ended(s, closing[s])

\* The end of a turn finds that the handshake takes too long, or that too many
\* packets could not be opened and there are still some.  Bound: one side.
Timeout(s) ==
    /\ run[s] = "select"
    /\ \A o \in Side : closing[o] = "no"
    /\ \/ ~ complete[s] /\ Ended(s, "timeout")
       \/ overflow[s] /\ queue[s] # <<>> /\ Ended(s, "reset")

\* The client believes a Public Reset; the server ignores it.
ReceiveReset ==
    /\ run.client # "done"
    /\ \E p \in net.client : p.body.type = "reset"
    /\ closing.client = "no"
    /\ Close("client", "remote")
    /\ UNCHANGED <<start, setup, channel, loop, net>>

\* What select may choose apart from packets.
Select(s) == SendCrypto(s) \/ ReceiveLevel(s) \/ HandshakeComplete(s)

RunLoop(s) ==
    \/ Select(s)
    \/ Stop(s)
    \/ s = "client" /\ (SetDiversificationNonce \/ ClientOpens)
    \/ s = "server" /\ SHLOWasSent

Next ==
    \/ \E s \in Side : \/ Crypto(s) \/ RunLoop(s) \/ SendData(s) \/ Timeout(s)
                      \/ \E p \in net[s] : Receive(s, p)
    \/ ReceiveReset

\* A packet with a crypto message that is still needed.
ReceiveCrypto(s) ==
    \E p \in net[s] : /\ p.body.type \in {"CHLO", "REJ", "SHLO"}
                      /\ p.body \notin inbox[s]
                      /\ Receive(s, p)

ReceiveForwardSecure ==
    \E p \in net.server : p.level = ForwardSecure /\ Receive("server", p)

\* Goroutines that can go on do so, and select chooses every case that is ready
\* again and again.  Crypto messages and forward secure data are retransmitted
\* until they arrive.
Fairness ==
    /\ \A s \in Side : /\ WF_vars(Crypto(s))
                       /\ WF_vars(RunLoop(s))
                       /\ SF_vars(Select(s))
                       /\ SF_vars(ReceiveCrypto(s))
    /\ SF_vars(Reads("client"))
    /\ SF_vars(ReceiveForwardSecure)

Spec == Init /\ [][Next]_vars /\ Fairness

-----------------------------------------------------------------------------

\* The caches from which a connection can be established: the configuration is
\* the server's, or there is none and the certificate is not the server's.
Usable == start.scfg # "old" /\ ~ (start.scfg = "none" /\ start.cert = "cur")

\* Both sides derive the same keys, the client from the CHLO it sent last and the
\* configuration it has then, the server from the CHLO that it accepted; and after
\* a packet was opened with a key, no packet of a lower level is accepted.
KeysAgree ==
    /\ \A k \in key.client.secure \cup key.client.forward :
          k \in key.server.secure \cup key.server.forward
    /\ \A s \in Side : \A p \in net[s] :
          /\ got[s].secure => OpenLevel(s, p) # Unencrypted
          /\ got[s].forward => OpenLevel(s, p) \in {Fail, ForwardSecure}

\* From a usable cache or none, the messages of the two sides are never refused by
\* the other: proofs hold, the number of CHLOs suffices, the SHLO is encrypted.
HonestNeverFails ==
    Usable => \A s \in Side : closing[s] \notin {"handshake", "unencrypted"}

\* A packet that is kept and for which there is a key by now will be tried again:
\* the change of the level is still in the channel.
NoLostWakeup ==
    \A s \in Side : \A i \in DOMAIN queue[s] :
        OpenLevel(s, queue[s][i]) # Fail => aeadChanged[s] # <<>>

Closed == \E s \in Side : closing[s] # "no"

\* Whatever the order in which the packets arrive and the goroutines run, the
\* client's handshake completes, the server's completes when the client has sent
\* forward secure data, and the client's run loop does not stay in
\* SetDiversificationNonce, where it waits for the crypto goroutine.
HandshakeEnds ==
    /\ Usable => <>(complete.client \/ Closed)
    /\ (\E p \in net.server : p.level = ForwardSecure) ~> (complete.server \/ Closed)
    /\ (Usable /\ run.client = "nonce") ~> run.client # "nonce"

\* "PublicResetTimeout is the time to wait before sending a Public Reset when
\* receiving too many undecryptable packets during the handshake"
\* (server_parameters.go): a session does not close for it afterwards.
ResetOnlyInHandshake == \A s \in Side : closing[s] = "reset" => ~ complete[s]
=============================================================================
