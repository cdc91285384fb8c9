---------------------------- MODULE CryptoProofs ----------------------------
(***************************************************************************)
(* The handshake, for any set of caches that the client may start from,    *)
(* any number of CHLOs from the three of the code on, any number of kept   *)
(* packets and any network: both sides derive the same keys, neither side  *)
(* refuses an honest peer, and no kept packet is forgotten.                *)
(***************************************************************************)
EXTENDS CryptoHandshake, TLAPS

CliFields == {"stk", "cert", "scfg", "nonc", "kex", "verified", "proof", "signed", "last",
              "hellos", "divNonce"}

\* The server has accepted a CHLO.
Keyed == key.server.secure # {}

Messages == {"CHLO", "REJ", "SHLO"}

\* What a side reads was sent to it; what it keeps of packets is on the network,
\* which loses, repeats and reorders but does not forget.
HandshakeShape ==
    /\ start \in Starts
    /\ DOMAIN cli = CliFields
    /\ cli.hellos \in Nat /\ cli.kex \in Nat
    /\ DOMAIN task = Side /\ DOMAIN out = Side /\ DOMAIN read = Side /\ DOMAIN params = Side
    /\ DOMAIN inbox = Side /\ DOMAIN pkt = Side /\ DOMAIN net = Side /\ DOMAIN closing = Side
    /\ DOMAIN key = Side /\ \A s \in Side : DOMAIN key[s] = {"secure", "forward"}
    /\ DOMAIN got = Side /\ \A s \in Side : DOMAIN got[s] = {"secure", "forward"}
    /\ DOMAIN run = Side
    /\ task.client \in {"top", "write", "select", "ended"}
    /\ \A s \in Side : /\ read[s] \in Nat
                       /\ pkt[s] \subseteq net[s]
                       /\ \A m \in inbox[s] : m.type \in Messages /\ \E p \in net[s] : p.body = m
                       /\ task[s] = "write" => out[s].type \in Messages

\* The CHLO that the client's state makes.
Hello(m) ==
    LET full == cli.scfg # "none" /\ cli.cert # "none"
    IN  /\ m.n = cli.hellos
        /\ m.stk = cli.stk /\ m.scid = cli.scfg
        /\ m.pubs = IF full THEN cli.kex ELSE 0
        /\ m.xlct = IF full THEN cli.cert ELSE "none"
        /\ m.nonc = IF full THEN cli.nonc ELSE "none"

\* Until the server accepts one, the client sends a CHLO after the answer to the
\* one before.
TurnsOK ==
    /\ read.client <= read.server /\ read.server <= cli.hellos
    /\ ~ Keyed =>
          /\ run.client # "nonce" /\ ~ cli.divNonce
          /\ task.client \in {"write", "select"} => cli.hellos = read.client + 1
          /\ task.client = "top" => cli.hellos = read.client
          /\ task.client = "write" => Hello(out.client)
          /\ task.client = "select" => cli.last = cli.hellos

\* What a CHLO on its way, or to be sent, says.
HelloOK(m) ==
    m.type = "CHLO" =>
        /\ m.n \in 1 .. cli.hellos
        /\ ~ Keyed /\ m.n = cli.hellos => task.client # "select" \/ Hello(m)

\* The server answers each CHLO that it reads once, and with the SHLO it has keys.
AnswerOK(m) ==
    /\ m.type \in {"REJ", "SHLO"} => m.n \in 1 .. read.server
    /\ m.type = "REJ" /\ Keyed => m.n < read.server
    /\ m.type = "SHLO" => Keyed /\ m.n = read.server

\* In particular, while the client writes a CHLO the server cannot have it yet.
MessagesOK ==
    /\ out.client.type \notin {"REJ", "SHLO"} /\ out.server.type # "CHLO"
    /\ HelloOK(out.client) /\ AnswerOK(out.server)
    /\ \A p \in net.server : /\ p.body.type \notin {"REJ", "SHLO"}
                             /\ HelloOK(p.body)
                             /\ task.client = "write" /\ ~ Keyed /\ p.body.type = "CHLO" =>
                                   p.body.n # cli.hellos
    /\ \A p \in net.client : /\ p.body.type # "CHLO"
                             /\ AnswerOK(p.body)
                             /\ p.level = Secure => Keyed

\* A CHLO that the server accepts is the client's last one: both have the same keys.
AgreedOK ==
    /\ Keyed => task.server # "select"
    /\ Keyed /\ task.server = "write" => out.server.type = "SHLO"
    /\ Keyed /\ task.client # "ended" =>
          /\ read.client >= read.server - 1
          /\ cli.verified =>
                /\ task.client \in {"top", "select"}
                /\ task.client = "top" => cli.divNonce
                /\ "none" \notin {cli.scfg, cli.nonc, cli.cert} /\ cli.last > 0
                /\ key.server.secure = {ClientKey(FALSE)} /\ key.server.forward = {ClientKey(TRUE)}

\* The client's keys are among the server's, and it derives the second after the
\* first.
KeysOK ==
    /\ key.client.secure \subseteq key.server.secure
    /\ key.client.forward \subseteq key.server.forward
    /\ key.client.secure # {} => cli.verified /\ cli.divNonce
    /\ key.client.forward # {} => key.client.secure # {}
    /\ got.client.secure => key.client.secure # {}
    /\ got.client.forward => key.client.forward # {}

KInv == HandshakeShape /\ TurnsOK /\ MessagesOK /\ AgreedOK /\ KeysOK

-----------------------------------------------------------------------------

\* The first state: no message was sent and nobody has a key.
LEMMA KInvInit == Init => KInv
<1> SUFFICES ASSUME Init PROVE KInv
  BY Zenon
<1>1. /\ DOMAIN cli = CliFields
      /\ cli.hellos = 0 /\ cli.kex \in Nat /\ ~ cli.divNonce
  BY DEF Init, useHandshakeCache, parseServerConfig, CliFields
<1>2. /\ \A s \in Side : key[s].secure = {} /\ key[s].forward = {} /\ read[s] = 0
      /\ \A s \in Side : net[s] = {} /\ inbox[s] = {} /\ pkt[s] = {} /\ out[s] = Data
      /\ task.client = "top" /\ task.server = "select"
      /\ "client" \in Side /\ "server" \in Side
  BY Zenon DEF Init, Side
<1>3. ~ got.client.secure /\ ~ got.client.forward
  BY Zenon DEF Init, Side
<1>4. HandshakeShape
  <2>1. /\ DOMAIN task = Side /\ DOMAIN out = Side /\ DOMAIN read = Side /\ DOMAIN params = Side
        /\ DOMAIN inbox = Side /\ DOMAIN pkt = Side /\ DOMAIN net = Side /\ DOMAIN closing = Side
        /\ DOMAIN key = Side /\ DOMAIN got = Side /\ start \in Starts
        /\ DOMAIN run = Side
    BY Zenon DEF Init, Side
  <2>2. \A s \in Side : DOMAIN key[s] = {"secure", "forward"} /\ DOMAIN got[s] = {"secure", "forward"}
    BY Zenon DEF Init
  <2>3. \A s \in Side : task[s] # "write"
    BY <1>2, Zenon DEF Side
  <2> QED
    BY <1>1, <1>2, <2>1, <2>2, <2>3 DEF HandshakeShape
<1>5. TurnsOK
  <2>1. run.client # "nonce"
    BY Zenon DEF Init, Side
  <2> QED
    BY <1>1, <1>2, <2>1 DEF TurnsOK, Keyed
<1>6. MessagesOK
  BY <1>2 DEF MessagesOK, HelloOK, AnswerOK, Data
<1>7. AgreedOK /\ KeysOK
  BY <1>2, <1>3, Zenon DEF AgreedOK, KeysOK, Keyed
<1> QED
  BY <1>4, <1>5, <1>6, <1>7, Zenon DEF KInv

\* The parts of the state that the invariant is about, when neither the messages nor the
\* keys change.
LEMMA CalmKeeps ==
    ASSUME KInv, UNCHANGED <<start, cli, key, read>>,
           DOMAIN task' = Side, DOMAIN out' = Side, DOMAIN net' = Side, DOMAIN params' = Side,
           DOMAIN inbox' = Side, DOMAIN pkt' = Side, DOMAIN closing' = Side,
           DOMAIN got' = Side, \A s \in Side : DOMAIN got'[s] = {"secure", "forward"},
           task'.client \in {task.client, "ended"},
           task'.server = task.server \/ task'.server \notin {"select", "write"},
           \A s \in Side : out'[s] = out[s] \/ (out'[s] = Data /\ task'[s] # "write"),
           \A s \in Side : \A p \in net[s] : p \in net'[s],
           \A s \in Side : \A p \in net'[s] :
               p \in net[s] \/ (p.body.type \notin Messages /\ (s = "client" => p.level # Secure)),
           \A s \in Side : pkt'[s] \subseteq net'[s],
           \A s \in Side : \A m \in inbox'[s] : m.type \in Messages /\ \E p \in net'[s] : p.body = m,
           got'.client.secure => got.client.secure \/ key.client.secure # {},
           got'.client.forward => got.client.forward \/ key.client.forward # {},
           DOMAIN run' = Side, run'.client = "nonce" => run.client = "nonce" \/ Keyed
    PROVE  KInv'
<1>1. "client" \in Side /\ "server" \in Side
  BY Zenon DEF Side
<1>2. Keyed' = Keyed
  BY Zenon DEF Keyed
<1>3. HandshakeShape'
  <2>1. \A s \in Side : task'[s] = "write" => out'[s].type \in Messages
    BY Zenon DEF KInv, HandshakeShape, Side
  <2>2. task'.client \in {"top", "write", "select", "ended"}
    BY Zenon DEF KInv, HandshakeShape
  <2> QED
    BY <2>1, <2>2, Zenon DEF KInv, HandshakeShape
<1>4. TurnsOK'
  <2>1. task'.client = "write" => out'.client = out.client
    BY <1>1, Zenon
  <2> QED
    BY <1>2, <2>1, Zenon DEF KInv, TurnsOK, Hello
<1>5. MessagesOK'
  <2>1. \A m : HelloOK(m) => HelloOK(m)'
    BY <1>2, Zenon DEF HelloOK, Hello
  <2>2. \A m : AnswerOK(m) => AnswerOK(m)'
    BY <1>2, Zenon DEF AnswerOK
  <2>3. \A m : m.type \notin Messages => HelloOK(m)' /\ AnswerOK(m)'
    BY Zenon DEF HelloOK, AnswerOK, Messages
  <2>4. Data.type \notin Messages
    BY Zenon DEF Data, Messages
  <2>5. /\ out'.client.type \notin {"REJ", "SHLO"} /\ out'.server.type # "CHLO"
        /\ HelloOK(out.client)' /\ AnswerOK(out.server)'
    BY <1>1, <2>1, <2>2, <2>3, <2>4, Zenon DEF KInv, MessagesOK, Messages
  <2>6. \A p \in net'.server : /\ p.body.type \notin {"REJ", "SHLO"}
                               /\ HelloOK(p.body)'
                               /\ task'.client = "write" /\ ~ Keyed' /\ p.body.type = "CHLO" =>
                                     p.body.n # cli'.hellos
    BY <1>1, <1>2, <2>1, <2>3 DEF KInv, MessagesOK, Messages
  <2>7. \A p \in net'.client : /\ p.body.type # "CHLO"
                               /\ AnswerOK(p.body)'
                               /\ p.level = Secure => Keyed'
    BY <1>1, <1>2, <2>2, <2>3 DEF KInv, MessagesOK, Messages
  <2> QED
    BY <2>5, <2>6, <2>7, Zenon DEF MessagesOK
<1>6. AgreedOK'
  <2>1. ClientKey(FALSE)' = ClientKey(FALSE) /\ ClientKey(TRUE)' = ClientKey(TRUE)
    BY Zenon DEF ClientKey
  <2>2. task'.server = "write" => out'.server = out.server /\ task.server = "write"
    BY <1>1, Zenon
  <2> QED
    BY <1>2, <2>1, <2>2, Zenon DEF KInv, AgreedOK
<1>7. KeysOK'
  BY Zenon DEF KInv, KeysOK
<1> QED
  BY <1>3, <1>4, <1>5, <1>6, <1>7, Zenon DEF KInv

\* The client has all it needs: the server's keys are those of the client's last
\* CHLO.
LEMMA UpgradeKeeps ==
    ASSUME KInv, ClientTop, maybeUpgradeCrypto
    PROVE  KInv'
<1>1. "client" \in Side /\ "server" \in Side /\ "client" # "server"
  BY Zenon DEF Side
<1>2. /\ task.client = "top" /\ cli.verified /\ cli.divNonce
      /\ UNCHANGED <<start, cli, out, read, params, net, inbox, pkt, got, run, closing>>
      /\ key' = [key EXCEPT !.client.secure = {ClientKey(FALSE)}]
      /\ task' = [task EXCEPT !.client = "select"]
  BY Zenon DEF ClientTop, maybeUpgradeCrypto, CanUpgrade, Goto, loop
<1>3. /\ key'.server = key.server /\ key'.client.forward = key.client.forward
      /\ key'.client.secure = {ClientKey(FALSE)}
      /\ DOMAIN key' = Side /\ \A s \in Side : DOMAIN key'[s] = {"secure", "forward"}
  <2>1. /\ DOMAIN key = Side /\ DOMAIN key.client = {"secure", "forward"}
        /\ DOMAIN key.server = {"secure", "forward"}
    BY <1>1, Zenon DEF KInv, HandshakeShape
  <2>2. /\ DOMAIN key' = Side /\ key'.server = key.server
        /\ key'.client = [key.client EXCEPT !.secure = {ClientKey(FALSE)}]
    BY <1>1, <1>2, <2>1, Zenon
  <2> QED
    BY <2>1, <2>2, Zenon DEF Side
<1>4. DOMAIN task' = Side /\ task'.client = "select" /\ task'.server = task.server
  BY <1>1, <1>2, Zenon DEF KInv, HandshakeShape
<1>5. Keyed /\ Keyed'
  BY <1>2, <1>3, Zenon DEF KInv, TurnsOK, Keyed
<1>6. key.server.secure = {ClientKey(FALSE)}
  BY <1>2, <1>5, Zenon DEF KInv, AgreedOK
<1>7. HandshakeShape'
  <2>1. \A s \in Side : task'[s] = "write" => out'[s].type \in Messages
    BY <1>1, <1>2, <1>4, Zenon DEF KInv, HandshakeShape, Side
  <2> QED
    BY <1>2, <1>3, <1>4, <2>1, Zenon DEF KInv, HandshakeShape
<1>8. TurnsOK'
  BY <1>2, <1>5, Zenon DEF KInv, TurnsOK
<1>9. MessagesOK'
  <2>1. \A m : HelloOK(m) => HelloOK(m)'
    BY <1>2, <1>5, Zenon DEF HelloOK
  <2>2. \A m : AnswerOK(m) => AnswerOK(m)'
    BY <1>2, <1>5, Zenon DEF AnswerOK
  <2> QED
    BY <1>2, <1>5, <2>1, <2>2, Zenon DEF KInv, MessagesOK
<1>10. AgreedOK'
  <2>1. ClientKey(FALSE)' = ClientKey(FALSE) /\ ClientKey(TRUE)' = ClientKey(TRUE)
    BY <1>2, Zenon DEF ClientKey
  <2> QED
    BY <1>2, <1>3, <1>4, <1>5, <2>1, Zenon DEF KInv, AgreedOK
<1>11. KeysOK'
  BY <1>2, <1>3, <1>6, Zenon DEF KInv, KeysOK
<1> QED
  BY <1>7, <1>8, <1>9, <1>10, <1>11, Zenon DEF KInv

\* Another CHLO: the one before was rejected, or the server's certificate is not
\* verified and the client never gets a key.
LEMMA SendCHLOKeeps ==
    ASSUME KInv, ClientTop, sendCHLO
    PROVE  KInv'
<1>1. "client" \in Side /\ "server" \in Side /\ "client" # "server"
  BY Zenon DEF Side
<1>2. /\ task.client = "top" /\ ~ CanUpgrade /\ key.client.secure = {}
      /\ UNCHANGED <<start, key, read, params, net, inbox, pkt, got, run>>
      /\ cli' = [cli EXCEPT !.hellos = @ + 1]
  BY Zenon DEF ClientTop, sendCHLO, loop
<1>3. /\ DOMAIN cli' = CliFields /\ cli'.hellos = cli.hellos + 1
      /\ \A f \in CliFields \ {"hellos"} : cli'[f] = cli[f]
      /\ cli'.hellos \in Nat /\ cli.hellos \in Nat
  BY <1>2 DEF KInv, HandshakeShape, CliFields
<1>4. /\ cli'.kex = cli.kex /\ cli'.stk = cli.stk /\ cli'.scfg = cli.scfg /\ cli'.cert = cli.cert
      /\ cli'.nonc = cli.nonc /\ cli'.last = cli.last /\ cli'.verified = cli.verified
      /\ cli'.divNonce = cli.divNonce
  BY <1>3, Zenon DEF CliFields
<1>5. /\ DOMAIN task' = Side /\ task'.server = task.server /\ DOMAIN closing' = Side
      /\ DOMAIN out' = Side /\ out'.server = out.server
      /\ \/ task'.client = "write" /\ out'.client = CHLO
         \/ task'.client = "ended" /\ out'.client = out.client
  BY <1>1 DEF KInv, HandshakeShape, sendCHLO, Goto, HandshakeFails, Close
<1>6. Keyed' = Keyed
  BY <1>2, Zenon DEF Keyed
<1>7. Keyed => ~ cli.verified
  BY <1>2, Zenon DEF KInv, AgreedOK, CanUpgrade
<1>8. /\ CHLO.type = "CHLO" /\ CHLO.n = cli.hellos + 1
      /\ CHLO.stk = cli.stk /\ CHLO.scid = cli.scfg
      /\ CHLO.pubs = IF cli.scfg # "none" /\ cli.cert # "none" THEN cli.kex ELSE 0
      /\ CHLO.xlct = IF cli.scfg # "none" /\ cli.cert # "none" THEN cli.cert ELSE "none"
      /\ CHLO.nonc = IF cli.scfg # "none" /\ cli.cert # "none" THEN cli.nonc ELSE "none"
  BY Zenon DEF CHLO
<1>9. HandshakeShape'
  <2>1. \A s \in Side : task'[s] = "write" => out'[s].type \in Messages
    BY <1>1, <1>5, <1>8 DEF KInv, HandshakeShape, Side, Messages
  <2> QED
    BY <1>2, <1>3, <1>4, <1>5, <2>1 DEF KInv, HandshakeShape
<1>10. TurnsOK'
  <2>1. task'.client = "write" => Hello(out.client)'
    BY <1>3, <1>4, <1>5, <1>8, Zenon DEF Hello
  <2>2. read'.client <= read'.server /\ read'.server <= cli'.hellos
    BY <1>2, <1>3 DEF KInv, TurnsOK, HandshakeShape, Side
  <2>3. ~ Keyed => cli'.hellos = read'.client + 1 /\ ~ cli'.divNonce /\ run'.client # "nonce"
    BY <1>2, <1>3, <1>4, Zenon DEF KInv, TurnsOK
  <2> QED
    BY <1>5, <1>6, <2>1, <2>2, <2>3, Zenon DEF TurnsOK
<1>11. MessagesOK'
  <2>1. \A m : HelloOK(m) => HelloOK(m)' /\ (m.type = "CHLO" => m.n # cli'.hellos)
    BY <1>3 DEF HelloOK
  <2>2. \A m : AnswerOK(m) => AnswerOK(m)'
    BY <1>2, <1>6, Zenon DEF AnswerOK
  <2>3. HelloOK(out.client)' /\ out'.client.type \notin {"REJ", "SHLO"}
    <3>1. CASE out'.client = out.client
      BY <2>1, <3>1, Zenon DEF KInv, MessagesOK, HelloOK
    <3>2. CASE task'.client = "write" /\ out'.client = CHLO
      BY <1>3, <1>8, <3>2 DEF HelloOK
    <3> QED
      BY <1>5, <3>1, <3>2, Zenon
  <2>4. \A p \in net'.server : /\ p.body.type \notin {"REJ", "SHLO"}
                               /\ HelloOK(p.body)'
                               /\ p.body.type = "CHLO" => p.body.n # cli'.hellos
    BY <1>2, <2>1, Zenon DEF KInv, MessagesOK
  <2>5. /\ out'.server.type # "CHLO" /\ AnswerOK(out.server)'
        /\ \A p \in net'.client : /\ p.body.type # "CHLO"
                                  /\ AnswerOK(p.body)'
                                  /\ p.level = Secure => Keyed'
    BY <1>2, <1>5, <1>6, <2>2, Zenon DEF KInv, MessagesOK
  <2> QED
    BY <2>3, <2>4, <2>5, Zenon DEF MessagesOK
<1>12. AgreedOK'
  BY <1>2, <1>4, <1>5, <1>6, <1>7, Zenon DEF KInv, AgreedOK
<1>13. KeysOK'
  BY <1>2, <1>4, Zenon DEF KInv, KeysOK
<1> QED
  BY <1>9, <1>10, <1>11, <1>12, <1>13, Zenon DEF KInv

\* The client has a key and waits for the SHLO.
LEMMA NothingToSendKeeps ==
    ASSUME KInv, task.client = "top", key.client.secure # {}, Goto("client", "select"),
           UNCHANGED <<start, cli, key, out, read, params, net, inbox, pkt, got, run, closing>>
    PROVE  KInv'
<1>1. "client" \in Side /\ "server" \in Side /\ "client" # "server"
  BY Zenon DEF Side
<1>2. DOMAIN task' = Side /\ task'.client = "select" /\ task'.server = task.server
  BY <1>1, Zenon DEF KInv, HandshakeShape, Goto
<1>3. Keyed /\ Keyed'
  BY Zenon DEF KInv, KeysOK, Keyed
<1>4. HandshakeShape'
  <2>1. \A s \in Side : task'[s] = "write" => out'[s].type \in Messages
    BY <1>1, <1>2, Zenon DEF KInv, HandshakeShape, Side
  <2> QED
    BY <1>2, <2>1, Zenon DEF KInv, HandshakeShape
<1>5. TurnsOK'
  BY <1>3, Zenon DEF KInv, TurnsOK
<1>6. MessagesOK'
  <2>1. \A m : HelloOK(m) => HelloOK(m)'
    BY <1>3, Zenon DEF HelloOK
  <2>2. \A m : AnswerOK(m) => AnswerOK(m)'
    BY <1>3, Zenon DEF AnswerOK
  <2> QED
    BY <1>3, <2>1, <2>2, Zenon DEF KInv, MessagesOK
<1>7. AgreedOK'
  <2>1. ClientKey(FALSE)' = ClientKey(FALSE) /\ ClientKey(TRUE)' = ClientKey(TRUE)
    BY Zenon DEF ClientKey
  <2> QED
    BY <1>2, <1>3, <2>1, Zenon DEF KInv, AgreedOK
<1>8. KeysOK'
  BY Zenon DEF KInv, KeysOK
<1> QED
  BY <1>4, <1>5, <1>6, <1>7, <1>8, Zenon DEF KInv

\* The diversification nonce is in a packet that the server sent with its key.
LEMMA NonceKeeps == KInv /\ SetDiversificationNonce => KInv'
<1> SUFFICES ASSUME KInv, SetDiversificationNonce PROVE KInv'
  BY Zenon
<1>1. "client" \in Side /\ "server" \in Side /\ "client" # "server"
  BY Zenon DEF Side
<1>2. /\ run.client = "nonce" /\ task.client = "select"
      /\ UNCHANGED <<start, key, out, read, params, pkt, got, inbox, closing, net>>
  BY Zenon DEF SetDiversificationNonce
<1>3. /\ DOMAIN task' = Side /\ task'.client = "top" /\ task'.server = task.server
      /\ DOMAIN run' = Side /\ run'.client = "open"
  BY <1>1, Zenon DEF KInv, HandshakeShape, Goto, SetDiversificationNonce
<1>4. /\ DOMAIN cli' = CliFields /\ cli'.divNonce
      /\ cli'.hellos = cli.hellos /\ cli'.kex = cli.kex /\ cli'.stk = cli.stk
      /\ cli'.scfg = cli.scfg /\ cli'.cert = cli.cert /\ cli'.nonc = cli.nonc
      /\ cli'.last = cli.last /\ cli'.verified = cli.verified
  BY Zenon DEF KInv, HandshakeShape, SetDiversificationNonce, CliFields
<1>5. Keyed /\ Keyed'
  BY <1>2, Zenon DEF KInv, TurnsOK, Keyed
<1>6. HandshakeShape'
  <2>1. \A s \in Side : task'[s] = "write" => out'[s].type \in Messages
    BY <1>1, <1>2, <1>3, Zenon DEF KInv, HandshakeShape, Side
  <2> QED
    BY <1>2, <1>3, <1>4, <2>1, Zenon DEF KInv, HandshakeShape
<1>7. TurnsOK'
  BY <1>2, <1>4, <1>5, Zenon DEF KInv, TurnsOK
<1>8. MessagesOK'
  <2>1. \A m : HelloOK(m) => HelloOK(m)'
    BY <1>4, <1>5, Zenon DEF HelloOK
  <2>2. \A m : AnswerOK(m) => AnswerOK(m)'
    BY <1>2, <1>5, Zenon DEF AnswerOK
  <2> QED
    BY <1>2, <1>5, <2>1, <2>2, Zenon DEF KInv, MessagesOK
<1>9. AgreedOK'
  <2>1. ClientKey(FALSE)' = ClientKey(FALSE) /\ ClientKey(TRUE)' = ClientKey(TRUE)
    BY <1>4, Zenon DEF ClientKey
  <2> QED
    BY <1>2, <1>3, <1>4, <1>5, <2>1, Zenon DEF KInv, AgreedOK
<1>10. KeysOK'
  BY <1>2, <1>4, Zenon DEF KInv, KeysOK
<1> QED
  BY <1>6, <1>7, <1>8, <1>9, <1>10, Zenon DEF KInv

\* A message that a side reads was sent to it.
LEMMA InboxOK ==
    ASSUME KInv, NEW m
    PROVE  /\ m \in inbox.client => AnswerOK(m) /\ m.type \in {"REJ", "SHLO"}
           /\ m \in inbox.server =>
                 /\ HelloOK(m) /\ m.type = "CHLO"
                 /\ task.client = "write" /\ ~ Keyed => m.n # cli.hellos
<1>1. "client" \in Side /\ "server" \in Side
  BY Zenon DEF Side
<1>2. ASSUME m \in inbox.client PROVE AnswerOK(m) /\ m.type \in {"REJ", "SHLO"}
  <2>1. PICK p \in net.client : p.body = m
    BY <1>1, <1>2, Zenon DEF KInv, HandshakeShape
  <2>2. m.type \in Messages
    BY <1>1, <1>2, Zenon DEF KInv, HandshakeShape
  <2> QED
    BY <2>1, <2>2, Zenon DEF KInv, MessagesOK, Messages
<1>3. ASSUME m \in inbox.server
      PROVE  /\ HelloOK(m) /\ m.type = "CHLO"
             /\ task.client = "write" /\ ~ Keyed => m.n # cli.hellos
  <2>1. PICK p \in net.server : p.body = m
    BY <1>1, <1>3, Zenon DEF KInv, HandshakeShape
  <2>2. m.type \in Messages
    BY <1>1, <1>3, Zenon DEF KInv, HandshakeShape
  <2> QED
    BY <2>1, <2>2, Zenon DEF KInv, MessagesOK, Messages
<1> QED
  BY <1>2, <1>3, Zenon

\* The fields of the client after a REJ.
LEMMA REJFields ==
    ASSUME NEW m, HandshakeShape, handleREJMessage(m)
    PROVE  /\ DOMAIN cli' = CliFields
           /\ cli'.hellos = cli.hellos /\ cli'.last = cli.last /\ cli'.divNonce = cli.divNonce
           /\ cli'.scfg = "cur" /\ cli'.stk = "good" /\ cli'.kex = cli.kex + 1
           /\ cli'.nonc = IF cli.nonc = "none" THEN "cur" ELSE cli.nonc
           /\ cli'.cert = IF m.prof THEN "cur" ELSE cli.cert
           /\ cli'.proof = IF m.prof THEN m.n ELSE cli.proof
           /\ cli'.signed = IF m.prof THEN cli.last ELSE cli.signed
           /\ cli'.verified = (cli.verified \/ (cli'.proof # 0 /\ cli'.cert # "none"))
           /\ task' \in {[task EXCEPT !["client"] = "top"], [task EXCEPT !["client"] = "ended"]}
           /\ cli'.proof = cli'.signed => UNCHANGED closing
           /\ DOMAIN closing' = Side
<1> DEFINE b == [cli EXCEPT !.scfg = "cur", !.kex = @ + 1]
           c == [b EXCEPT !.stk = "good",
                          !.nonc = IF @ = "none" THEN "cur" ELSE @,
                          !.proof = IF m.prof THEN m.n ELSE @,
                          !.signed = IF m.prof THEN cli.last ELSE @,
                          !.cert = IF m.prof THEN "cur" ELSE @]
           checked == c.proof # 0 /\ c.cert # "none"
<1>1. /\ cli' = [c EXCEPT !.verified = @ \/ checked]
      /\ \/ checked /\ c.proof # c.signed /\ HandshakeFails("client")
         \/ ~ (checked /\ c.proof # c.signed) /\ Goto("client", "top") /\ UNCHANGED closing
  BY Zenon DEF handleREJMessage, parseServerConfig, generateClientNonce
<1>2. /\ DOMAIN b = CliFields /\ b.scfg = "cur" /\ b.kex = cli.kex + 1
      /\ b.hellos = cli.hellos /\ b.last = cli.last /\ b.divNonce = cli.divNonce
      /\ b.stk = cli.stk /\ b.nonc = cli.nonc /\ b.cert = cli.cert /\ b.proof = cli.proof
      /\ b.signed = cli.signed /\ b.verified = cli.verified
  BY Zenon DEF HandshakeShape, CliFields
<1> HIDE DEF b
<1>3. /\ DOMAIN c = CliFields /\ c.scfg = "cur" /\ c.kex = cli.kex + 1
      /\ c.hellos = cli.hellos /\ c.last = cli.last /\ c.divNonce = cli.divNonce
      /\ c.stk = "good" /\ c.verified = cli.verified
      /\ c.nonc = IF cli.nonc = "none" THEN "cur" ELSE cli.nonc
      /\ c.cert = IF m.prof THEN "cur" ELSE cli.cert
      /\ c.proof = IF m.prof THEN m.n ELSE cli.proof
      /\ c.signed = IF m.prof THEN cli.last ELSE cli.signed
  BY <1>2, Zenon DEF CliFields
<1> HIDE DEF c
<1>4. /\ DOMAIN cli' = CliFields /\ cli'.verified = (c.verified \/ checked)
      /\ \A f \in CliFields \ {"verified"} : cli'[f] = c[f]
  BY <1>1, <1>3, Zenon DEF CliFields
<1>5. /\ cli'.hellos = c.hellos /\ cli'.last = c.last /\ cli'.divNonce = c.divNonce
      /\ cli'.scfg = c.scfg /\ cli'.stk = c.stk /\ cli'.kex = c.kex /\ cli'.nonc = c.nonc
      /\ cli'.cert = c.cert /\ cli'.proof = c.proof /\ cli'.signed = c.signed
  BY <1>4, Zenon DEF CliFields
<1>6. task' \in {[task EXCEPT !["client"] = "top"], [task EXCEPT !["client"] = "ended"]}
  BY <1>1, Zenon DEF HandshakeFails, Goto
<1>7. DOMAIN closing' = Side
  BY <1>1, Zenon DEF HandshakeFails, Close, HandshakeShape
<1>8. cli'.proof = cli'.signed => UNCHANGED closing
  BY <1>1, <1>5, Zenon
<1>9. cli'.verified = (cli.verified \/ (cli'.proof # 0 /\ cli'.cert # "none"))
  BY <1>3, <1>4, <1>5, Zenon
<1> QED
  BY <1>3, <1>4, <1>5, <1>6, <1>7, <1>8, <1>9, Zenon

\* A REJ is read only while the server has not accepted a CHLO.
LEMMA REJKeeps ==
    ASSUME KInv, NEW m, ClientReads(m), m.type = "REJ"
    PROVE  KInv' /\ ~ Keyed
<1>1. "client" \in Side /\ "server" \in Side /\ "client" # "server"
  BY Zenon DEF Side
<1>2. /\ task.client = "select" /\ m \in inbox.client /\ m.n = read.client + 1
      /\ read' = [read EXCEPT !["client"] = m.n]
      /\ handleREJMessage(m) /\ UNCHANGED <<start, out, run, pkt, got, inbox, net, key, params>>
  BY Zenon DEF ClientReads, ReadNext, loop, handleREJMessage
<1>3. HandshakeShape
  BY Zenon DEF KInv
<1>4. /\ DOMAIN cli' = CliFields
      /\ cli'.hellos = cli.hellos /\ cli'.kex = cli.kex + 1 /\ cli'.divNonce = cli.divNonce
      /\ DOMAIN closing' = Side
      /\ task' \in {[task EXCEPT !["client"] = "top"], [task EXCEPT !["client"] = "ended"]}
  BY <1>2, <1>3, REJFields, Zenon
<1>5. DOMAIN task' = Side /\ task'.client \in {"top", "ended"} /\ task'.server = task.server
  BY <1>1, <1>3, <1>4, Zenon DEF HandshakeShape
<1>6. DOMAIN read' = Side /\ read'.client = read.client + 1 /\ read'.server = read.server
  BY <1>1, <1>2, <1>3, Zenon DEF HandshakeShape
<1>7. read.client \in Nat /\ read.server \in Nat /\ cli.hellos \in Nat
  BY <1>1, <1>3, Zenon DEF HandshakeShape
<1>8. AnswerOK(m)
  BY <1>2, InboxOK, Zenon
<1>9. ~ Keyed /\ ~ Keyed' /\ read'.client <= read.server
  <2>1. Keyed => read.client >= read.server - 1
    BY <1>2, Zenon DEF KInv, AgreedOK
  <2> QED
    BY <1>2, <1>6, <1>7, <1>8, <2>1 DEF AnswerOK, Keyed
<1>10. HandshakeShape'
  <2>1. \A s \in Side : task'[s] = "write" => out'[s].type \in Messages
    BY <1>1, <1>2, <1>3, <1>5, Zenon DEF HandshakeShape, Side
  <2>2. \A s \in Side : read'[s] \in Nat
    BY <1>6, <1>7 DEF Side
  <2> QED
    BY <1>2, <1>3, <1>4, <1>5, <1>6, <2>1, <2>2 DEF HandshakeShape
<1>11. TurnsOK'
  <2>1. cli.hellos = read.client + 1 /\ ~ cli.divNonce /\ read.server <= cli.hellos
        /\ run.client # "nonce"
    BY <1>2, <1>9, Zenon DEF KInv, TurnsOK
  <2> QED
    BY <1>2, <1>4, <1>5, <1>6, <1>9, <2>1, Zenon DEF TurnsOK
<1>12. MessagesOK'
  <2>1. \A x : HelloOK(x) => HelloOK(x)'
    BY <1>4, <1>5, Zenon DEF HelloOK
  <2>2. \A x : AnswerOK(x) => AnswerOK(x)'
    BY <1>6, <1>9, Zenon DEF AnswerOK
  <2> QED
    BY <1>2, <1>5, <1>9, <2>1, <2>2, Zenon DEF KInv, MessagesOK
<1>13. AgreedOK'
  BY <1>9, Zenon DEF AgreedOK
<1>14. KeysOK'
  BY <1>2, <1>9, Zenon DEF KInv, KeysOK, Keyed
<1> QED
  BY <1>9, <1>10, <1>11, <1>12, <1>13, <1>14, Zenon DEF KInv

\* The SHLO answers the client's last CHLO.
LEMMA SHLOKeeps ==
    ASSUME KInv, NEW m, ClientReads(m), m.type # "REJ"
    PROVE  KInv'
<1>1. "client" \in Side /\ "server" \in Side /\ "client" # "server"
  BY Zenon DEF Side
<1>2. /\ task.client = "select" /\ m \in inbox.client /\ m.n = read.client + 1
      /\ read' = [read EXCEPT !["client"] = m.n]
      /\ handleSHLOMessage(m) /\ UNCHANGED <<start, out, run, pkt, got, inbox, net, cli>>
  BY Zenon DEF ClientReads, ReadNext, loop, handleSHLOMessage
<1>3. HandshakeShape
  BY Zenon DEF KInv
<1>4. /\ DOMAIN key = Side /\ DOMAIN key.client = {"secure", "forward"}
      /\ DOMAIN key.server = {"secure", "forward"} /\ DOMAIN params = Side
      /\ read.client \in Nat /\ read.server \in Nat
  BY <1>1, <1>3, Zenon DEF HandshakeShape
<1>5. AnswerOK(m) /\ m.type = "SHLO"
  BY <1>2, InboxOK, Zenon
<1>6. Keyed /\ m.n = read.server
  BY <1>5, Zenon DEF AnswerOK
<1>7. /\ DOMAIN key' = Side /\ DOMAIN params' = Side /\ DOMAIN closing' = Side /\ DOMAIN task' = Side
      /\ key'.server = key.server /\ task'.server = task.server
      /\ DOMAIN key'.client = {"secure", "forward"} /\ key'.client.secure = key.client.secure
      /\ \/ task'.client = "ended" /\ key'.client = key.client
         \/ /\ task'.client = "top" /\ got.client.secure
            /\ key'.client.forward = {ClientKey(TRUE)}
  <2>1. CASE got.client.secure /\ ~ params.client.negotiated
    <3>1. /\ key' = [key EXCEPT !.client.forward = {ClientKey(TRUE)}]
          /\ SetFromMap("client", m.icsl) /\ Goto("client", "top") /\ UNCHANGED closing
      BY <1>2, <2>1, Zenon DEF handleSHLOMessage
    <3>2. /\ DOMAIN key' = Side /\ key'.server = key.server
          /\ key'.client = [key.client EXCEPT !.forward = {ClientKey(TRUE)}]
      BY <1>1, <1>4, <3>1, Zenon
    <3>3. /\ DOMAIN key'.client = {"secure", "forward"} /\ key'.client.secure = key.client.secure
          /\ key'.client.forward = {ClientKey(TRUE)}
      BY <1>4, <3>2, Zenon
    <3>4. DOMAIN task' = Side /\ task'.server = task.server /\ task'.client = "top"
      BY <1>1, <1>3, <3>1, Zenon DEF Goto, HandshakeShape
    <3>5. DOMAIN params' = Side
      BY <1>4, <3>1, Zenon DEF SetFromMap
    <3>6. DOMAIN closing' = Side
      BY <1>3, <3>1, Zenon DEF HandshakeShape
    <3> QED
      BY <2>1, <3>2, <3>3, <3>4, <3>5, <3>6, Zenon
  <2>2. CASE ~ (got.client.secure /\ ~ params.client.negotiated)
    <3>1. HandshakeFails("client") /\ UNCHANGED <<key, params>>
      BY <1>2, <2>2, Zenon DEF handleSHLOMessage
    <3> QED
      BY <1>1, <1>3, <1>4, <3>1, Zenon DEF HandshakeFails, Goto, Close, HandshakeShape
  <2> QED
    BY <2>1, <2>2, Zenon
<1>8. DOMAIN read' = Side /\ read'.client = read.server /\ read'.server = read.server
  BY <1>1, <1>2, <1>3, <1>6, Zenon DEF HandshakeShape
<1>9. Keyed'
  BY <1>6, <1>7, Zenon DEF Keyed
<1>10. HandshakeShape'
  <2>1. \A s \in Side : task'[s] = "write" => out'[s].type \in Messages
    BY <1>1, <1>2, <1>3, <1>7, Zenon DEF HandshakeShape, Side
  <2>2. \A s \in Side : read'[s] \in Nat
    BY <1>4, <1>8, Zenon DEF Side
  <2>3. \A s \in Side : DOMAIN key'[s] = {"secure", "forward"}
    BY <1>4, <1>7, Zenon DEF Side
  <2>4. task'.client \in {"top", "ended"}
    BY <1>7, Zenon
  <2> QED
    BY <1>2, <1>3, <1>7, <1>8, <2>1, <2>2, <2>3, <2>4 DEF HandshakeShape
<1>11. TurnsOK'
  BY <1>2, <1>4, <1>8, <1>9 DEF KInv, TurnsOK
<1>12. MessagesOK'
  <2>1. \A x : HelloOK(x) => HelloOK(x)'
    BY <1>2, <1>9, Zenon DEF HelloOK
  <2>2. \A x : AnswerOK(x) => AnswerOK(x)'
    BY <1>6, <1>8, <1>9, Zenon DEF AnswerOK
  <2> QED
    BY <1>2, <1>9, <2>1, <2>2, Zenon DEF KInv, MessagesOK
<1>13. got.client.secure => /\ cli.verified /\ cli.divNonce /\ key.client.secure # {}
                            /\ key.server.forward = {ClientKey(TRUE)}
  BY <1>2, <1>6, Zenon DEF KInv, AgreedOK, KeysOK
<1>14. ClientKey(FALSE)' = ClientKey(FALSE) /\ ClientKey(TRUE)' = ClientKey(TRUE)
  BY <1>2, Zenon DEF ClientKey
<1>15. AgreedOK'
  <2>1. Keyed' => task'.server # "select" /\ (task'.server = "write" => out'.server.type = "SHLO")
    BY <1>2, <1>6, <1>7, Zenon DEF KInv, AgreedOK
  <2>2. read'.client >= read'.server - 1
    BY <1>4, <1>8
  <2>3. ASSUME task'.client # "ended", cli'.verified
        PROVE  /\ task'.client = "top" /\ cli'.divNonce
               /\ "none" \notin {cli'.scfg, cli'.nonc, cli'.cert} /\ cli'.last > 0
               /\ key'.server.secure = {ClientKey(FALSE)} /\ key'.server.forward = {ClientKey(TRUE)}
    BY <1>2, <1>6, <1>7, <1>13, <2>3, Zenon DEF KInv, AgreedOK
  <2> QED
    BY <1>9, <1>14, <2>1, <2>2, <2>3, Zenon DEF AgreedOK
<1>16. KeysOK'
  BY <1>2, <1>7, <1>13, Zenon DEF KInv, KeysOK
<1> QED
  BY <1>10, <1>11, <1>12, <1>15, <1>16, Zenon DEF KInv

\* The server rejects a CHLO, or refuses it.
LEMMA RejectKeeps ==
    ASSUME KInv, NEW m, ReadNext("server", m), UNCHANGED <<start, cli, key, params, net>>,
           UNCHANGED <<run, pkt, got, inbox>>,
           \/ handleInchoateCHLO(m)
           \/ HandshakeFails("server") /\ UNCHANGED out
    PROVE  KInv'
<1>1. "client" \in Side /\ "server" \in Side /\ "client" # "server"
  BY Zenon DEF Side
<1>2. /\ task.server = "select" /\ m \in inbox.server /\ m.n = read.server + 1
      /\ read' = [read EXCEPT !["server"] = m.n]
  BY Zenon DEF ReadNext
<1>3. HandshakeShape
  BY Zenon DEF KInv
<1>4. read.client \in Nat /\ read.server \in Nat /\ cli.hellos \in Nat
  BY <1>1, <1>3, Zenon DEF HandshakeShape
<1>5. ~ Keyed /\ ~ Keyed'
  BY <1>2, Zenon DEF KInv, AgreedOK, Keyed
<1>6. HelloOK(m) /\ m.type = "CHLO"
  BY <1>2, InboxOK, Zenon
<1>7. DOMAIN read' = Side /\ read'.client = read.client /\ read'.server = read.server + 1
  BY <1>1, <1>2, <1>3, Zenon DEF HandshakeShape
<1>8. /\ DOMAIN task' = Side /\ task'.client = task.client /\ task'.server # "select"
      /\ DOMAIN out' = Side /\ out'.client = out.client /\ DOMAIN closing' = Side
      /\ \/ task'.server = "write" /\ out'.server = REJ(m.n, acceptSTK(m))
         \/ task'.server # "write" /\ out'.server = out.server
  BY <1>1, <1>3, Zenon DEF handleInchoateCHLO, HandshakeFails, Goto, Close, HandshakeShape
<1>9. \A b : REJ(m.n, b).type = "REJ" /\ REJ(m.n, b).n = m.n
  BY Zenon DEF REJ
<1>10. HandshakeShape'
  <2>1. \A s \in Side : task'[s] = "write" => out'[s].type \in Messages
    BY <1>1, <1>3, <1>8, <1>9 DEF HandshakeShape, Side, Messages
  <2>2. \A s \in Side : read'[s] \in Nat
    BY <1>4, <1>7 DEF Side
  <2> QED
    BY <1>3, <1>7, <1>8, <2>1, <2>2, Zenon DEF HandshakeShape
<1>11. TurnsOK'
  <2>1. read.server + 1 <= cli.hellos
    BY <1>2, <1>6 DEF HelloOK
  <2>2. task'.client = "write" => Hello(out.client)'
    BY <1>5, <1>8, Zenon DEF KInv, TurnsOK, Hello
  <2> QED
    BY <1>4, <1>5, <1>7, <1>8, <2>1, <2>2 DEF KInv, TurnsOK
<1>12. MessagesOK'
  <2>1. \A x : HelloOK(x) => HelloOK(x)'
    BY <1>5, <1>8, Zenon DEF HelloOK, Hello
  <2>2. \A x : AnswerOK(x) => AnswerOK(x)'
    BY <1>4, <1>5, <1>7 DEF AnswerOK
  <2>3. out'.server.type # "CHLO" /\ AnswerOK(out.server)'
    <3>1. CASE out'.server = out.server
      BY <2>2, <3>1, Zenon DEF KInv, MessagesOK, AnswerOK
    <3>2. CASE out'.server = REJ(m.n, acceptSTK(m))
      BY <1>2, <1>4, <1>5, <1>7, <1>9, <3>2 DEF AnswerOK
    <3> QED
      BY <1>8, <3>1, <3>2, Zenon
  <2>4. out'.client.type \notin {"REJ", "SHLO"} /\ HelloOK(out.client)'
    BY <1>8, <2>1, Zenon DEF KInv, MessagesOK, HelloOK, Hello
  <2> QED
    BY <1>5, <1>8, <2>1, <2>2, <2>3, <2>4, Zenon DEF KInv, MessagesOK
<1>13. AgreedOK'
  BY <1>5, Zenon DEF AgreedOK
<1>14. KeysOK'
  BY Zenon DEF KInv, KeysOK
<1> QED
  BY <1>10, <1>11, <1>12, <1>13, <1>14, Zenon DEF KInv

\* The CHLO that the server accepts is the one the client sent last, and the
\* client waits for its answer: the keys are those that the client will derive.
LEMMA AcceptKeeps ==
    ASSUME KInv, NEW m, ReadNext("server", m), UNCHANGED <<start, cli, net>>,
           UNCHANGED <<run, pkt, got, inbox>>,
           ~ isInchoateCHLO(m), handleCHLO(m), validateClientNonce(m), ~ params.server.negotiated
    PROVE  KInv' /\ (task.client # "ended" => cli.cert = "cur")
<1>1. "client" \in Side /\ "server" \in Side /\ "client" # "server"
  BY Zenon DEF Side
<1>2. /\ task.server = "select" /\ m \in inbox.server /\ m.n = read.server + 1
      /\ read' = [read EXCEPT !["server"] = m.n]
  BY Zenon DEF ReadNext
<1>3. HandshakeShape
  BY Zenon DEF KInv
<1>4. /\ read.client \in Nat /\ read.server \in Nat /\ cli.hellos \in Nat
      /\ DOMAIN key = Side /\ DOMAIN key.client = {"secure", "forward"}
  BY <1>1, <1>3, Zenon DEF HandshakeShape
<1>5. ~ Keyed
  BY <1>2, Zenon DEF KInv, AgreedOK
<1>6. HelloOK(m) /\ m.type = "CHLO" /\ (task.client = "write" => m.n # cli.hellos)
  BY <1>2, <1>5, InboxOK, Zenon
<1>7. DOMAIN read' = Side /\ read'.client = read.client /\ read'.server = read.server + 1
  BY <1>1, <1>2, <1>3, Zenon DEF HandshakeShape
<1> DEFINE keys == [secure |-> {ServerKey(m, FALSE)}, forward |-> {ServerKey(m, TRUE)}]
<1>8. PICK t : /\ key' = [key EXCEPT !.server = keys]
               /\ SetFromMap("server", m.icsl)
               /\ out' = [out EXCEPT !.server = SHLO(m.n, t)]
               /\ Goto("server", "write") /\ UNCHANGED closing
  BY Zenon DEF handleCHLO
<1>9. /\ DOMAIN keys = {"secure", "forward"} /\ keys.secure = {ServerKey(m, FALSE)}
      /\ keys.forward = {ServerKey(m, TRUE)}
  BY Zenon
<1> HIDE DEF keys
<1>10. /\ DOMAIN key' = Side /\ key'.client = key.client
       /\ DOMAIN key'.server = {"secure", "forward"}
       /\ key'.server.secure = {ServerKey(m, FALSE)} /\ key'.server.forward = {ServerKey(m, TRUE)}
  BY <1>1, <1>4, <1>8, <1>9, Zenon
<1>11. /\ DOMAIN task' = Side /\ task'.client = task.client /\ task'.server = "write"
       /\ DOMAIN out' = Side /\ out'.client = out.client /\ out'.server = SHLO(m.n, t)
       /\ DOMAIN closing' = Side /\ DOMAIN params' = Side
  BY <1>1, <1>3, <1>8, Zenon DEF Goto, SetFromMap, HandshakeShape
<1>12. out'.server.type = "SHLO" /\ out'.server.n = m.n
  BY <1>11 DEF SHLO
<1>13. Keyed'
  BY <1>10, Zenon DEF Keyed
<1>14. HandshakeShape'
  <2>1. \A s \in Side : task'[s] = "write" => out'[s].type \in Messages
    BY <1>1, <1>3, <1>11, <1>12, Zenon DEF HandshakeShape, Side, Messages
  <2>2. \A s \in Side : read'[s] \in Nat
    BY <1>4, <1>7 DEF Side
  <2>3. \A s \in Side : DOMAIN key'[s] = {"secure", "forward"}
    BY <1>4, <1>10, Zenon DEF Side
  <2> QED
    BY <1>3, <1>7, <1>10, <1>11, <2>1, <2>2, <2>3, Zenon DEF HandshakeShape
<1>15. m.n \in 1 .. cli.hellos
  BY <1>6, Zenon DEF HelloOK
<1>16. TurnsOK'
  <2>1. read.client <= read.server /\ m.n <= cli.hellos
    BY <1>15 DEF KInv, TurnsOK
  <2>2. read'.client <= read'.server /\ read'.server <= cli'.hellos
    BY <1>2, <1>4, <1>7, <2>1
  <2> QED
    BY <1>13, <2>2, Zenon DEF TurnsOK
<1>17. MessagesOK'
  <2>1. \A x : HelloOK(x) => HelloOK(x)'
    BY <1>13, Zenon DEF HelloOK
  <2>2. \A x : AnswerOK(x) => AnswerOK(x)'
    BY <1>4, <1>5, <1>7, <1>13 DEF AnswerOK
  <2>3. out'.server.type # "CHLO" /\ AnswerOK(out.server)'
    BY <1>2, <1>4, <1>7, <1>12, <1>13 DEF AnswerOK
  <2>4. out'.client.type \notin {"REJ", "SHLO"} /\ HelloOK(out.client)'
    BY <1>11, <1>13, Zenon DEF KInv, MessagesOK, HelloOK
  <2> QED
    BY <1>11, <1>13, <2>1, <2>2, <2>3, <2>4, Zenon DEF KInv, MessagesOK
<1>18. ASSUME task.client # "ended"
       PROVE  /\ task.client = "select" /\ Hello(m) /\ cli.last = m.n
              /\ read.client = read.server
  <2>1. task.client # "top"
    BY <1>2, <1>4, <1>5, <1>15 DEF KInv, TurnsOK
  <2>2. task.client \in {"write", "select"}
    BY <1>3, <1>18, <2>1, Zenon DEF HandshakeShape
  <2>3. cli.hellos = read.client + 1
    BY <1>5, <2>2, Zenon DEF KInv, TurnsOK
  <2>4. m.n = cli.hellos /\ read.client = read.server
    BY <1>2, <1>4, <1>15, <2>3 DEF KInv, TurnsOK
  <2>5. task.client = "select"
    BY <1>6, <2>2, <2>4, Zenon
  <2> QED
    BY <1>5, <1>6, <2>4, <2>5, Zenon DEF KInv, TurnsOK, HelloOK
<1>19. ASSUME Hello(m), cli.last = m.n
       PROVE  /\ "none" \notin {cli.scfg, cli.nonc, cli.cert} /\ cli.last > 0
              /\ cli.cert = "cur"
              /\ ServerKey(m, FALSE) = ClientKey(FALSE) /\ ServerKey(m, TRUE) = ClientKey(TRUE)
  <2>1. m.pubs # 0 /\ m.scid = "cur" /\ m.xlct = "cur" /\ m.nonc = "cur"
    BY Zenon DEF isInchoateCHLO, validateClientNonce, generateClientNonce
  <2>2. cli.scfg = "cur" /\ cli.cert = "cur" /\ cli.nonc = "cur" /\ cli.kex = m.pubs
    BY <1>19, <2>1, Zenon DEF Hello
  <2> QED
    BY <1>2, <1>4, <1>19, <2>1, <2>2 DEF ServerKey, ClientKey
<1>20. ClientKey(FALSE)' = ClientKey(FALSE) /\ ClientKey(TRUE)' = ClientKey(TRUE)
  BY Zenon DEF ClientKey
<1>21. AgreedOK'
  <2>1. ASSUME task'.client # "ended"
        PROVE  /\ read'.client >= read'.server - 1 /\ task'.client = "select"
               /\ "none" \notin {cli'.scfg, cli'.nonc, cli'.cert} /\ cli'.last > 0
               /\ key'.server.secure = {ClientKey(FALSE)'}
               /\ key'.server.forward = {ClientKey(TRUE)'}
    <3>1. task.client = "select" /\ Hello(m) /\ cli.last = m.n /\ read.client = read.server
      BY <1>11, <1>18, <2>1, Zenon
    <3>2. /\ "none" \notin {cli.scfg, cli.nonc, cli.cert} /\ cli.last > 0
          /\ ServerKey(m, FALSE) = ClientKey(FALSE) /\ ServerKey(m, TRUE) = ClientKey(TRUE)
      BY <1>19, <3>1, Zenon
    <3>3. read'.client >= read'.server - 1
      BY <1>4, <1>7, <3>1
    <3>4. /\ key'.server.secure = {ClientKey(FALSE)'}
          /\ key'.server.forward = {ClientKey(TRUE)'}
      BY <1>10, <1>20, <3>2, Zenon
    <3> QED
      BY <1>11, <3>1, <3>2, <3>3, <3>4, Zenon
  <2> QED
    BY <1>11, <1>12, <2>1, Zenon DEF AgreedOK
<1>22. KeysOK'
  BY <1>5, <1>10, Zenon DEF KInv, KeysOK, Keyed
<1> QED
  BY <1>14, <1>16, <1>17, <1>18, <1>19, <1>21, <1>22, Zenon DEF KInv

\* The client's CHLO is sent.
LEMMA ClientSendsKeeps == KInv /\ SendCrypto("client") => KInv'
<1> SUFFICES ASSUME KInv, SendCrypto("client") PROVE KInv'
  BY Zenon
<1>1. "client" \in Side /\ "server" \in Side /\ "client" # "server"
  BY Zenon DEF Side
<1>2. HandshakeShape
  BY Zenon DEF KInv
<1> DEFINE new == Packet(GetSealerForCryptoStream("client"),
                         KeyOf("client", GetSealerForCryptoStream("client")), out.client)
<1>3. /\ task.client = "write"
      /\ SendTo("server", new)
      /\ Goto("client", IF out.client.type = "SHLO" THEN "wrote" ELSE "select")
      /\ cli' = [cli EXCEPT !.last = out.client.n]
      /\ UNCHANGED <<start, key, out, read, params, pkt, got, inbox, closing>>
      /\ EndTurn("client")
  BY Zenon DEF SendCrypto, Other
<1>4. new.body = out.client
  BY Zenon DEF Packet
<1> HIDE DEF new
<1>5. out.client.type = "CHLO"
  BY <1>1, <1>2, <1>3, Zenon DEF KInv, HandshakeShape, MessagesOK, Messages
<1>6. /\ DOMAIN task' = Side /\ task'.client = "select" /\ task'.server = task.server
      /\ DOMAIN run' = Side /\ run'.client # "nonce"
      /\ DOMAIN net' = Side /\ net'.client = net.client /\ net'.server = net.server \cup {new}
  <2>1. DOMAIN task = Side /\ DOMAIN run = Side /\ DOMAIN net = Side
    BY <1>2, Zenon DEF HandshakeShape
  <2>2. DOMAIN task' = Side /\ task'.client = "select" /\ task'.server = task.server
    BY <1>1, <1>3, <1>5, <2>1, Zenon DEF Goto
  <2>3. DOMAIN run' = Side /\ run'.client # "nonce"
    BY <1>1, <1>3, <2>1, Zenon DEF EndTurn
  <2>4. DOMAIN net' = Side /\ net'.client = net.client /\ net'.server = net.server \cup {new}
    BY <1>1, <1>3, <2>1, Zenon DEF SendTo
  <2> QED
    BY <2>2, <2>3, <2>4, Zenon
<1>7. /\ DOMAIN cli' = CliFields /\ cli'.last = out.client.n
      /\ cli'.hellos = cli.hellos /\ cli'.kex = cli.kex /\ cli'.stk = cli.stk
      /\ cli'.scfg = cli.scfg /\ cli'.cert = cli.cert /\ cli'.nonc = cli.nonc
      /\ cli'.divNonce = cli.divNonce /\ cli'.verified = cli.verified
  BY <1>2, <1>3, Zenon DEF HandshakeShape, CliFields
<1>8. Keyed' = Keyed
  BY <1>3, Zenon DEF Keyed
<1>9. \A m : Hello(m)' = Hello(m)
  BY <1>7, Zenon DEF Hello
<1>10. ~ Keyed => Hello(out.client) /\ out.client.n = cli.hellos
  BY <1>3, Zenon DEF KInv, TurnsOK, Hello
<1>11. HandshakeShape'
  <2>1. \A s \in Side : task'[s] = "write" => out'[s].type \in Messages
    BY <1>1, <1>2, <1>3, <1>6, Zenon DEF HandshakeShape, Side
  <2>2. \A s \in Side : net[s] \subseteq net'[s]
    BY <1>6, Zenon DEF Side
  <2>3. \A s \in Side : /\ pkt'[s] \subseteq net'[s]
                        /\ \A m \in inbox'[s] : m.type \in Messages /\ \E p \in net'[s] : p.body = m
    BY <1>2, <1>3, <2>2, Zenon DEF HandshakeShape
  <2> QED
    BY <1>2, <1>3, <1>6, <1>7, <2>1, <2>3, Zenon DEF HandshakeShape
<1>12. TurnsOK'
  BY <1>3, <1>6, <1>7, <1>8, <1>10, Zenon DEF KInv, TurnsOK
<1>13. MessagesOK'
  <2>1. ASSUME NEW m, HelloOK(m), ~ Keyed /\ m.type = "CHLO" => m.n # cli.hellos \/ Hello(m)
        PROVE  HelloOK(m)'
    BY <1>7, <1>8, <1>9, <2>1, Zenon DEF HelloOK
  <2>2. HelloOK(out.client)
    BY Zenon DEF KInv, MessagesOK
  <2>3. HelloOK(out.client)'
    <3>1. PICK m : m = out.client
      BY Zenon
    <3>2. HelloOK(m)'
      BY <1>10, <2>1, <2>2, <3>1, Zenon
    <3>3. m = out'.client
      BY <1>3, <3>1, Zenon
    <3> QED
      BY <3>2, <3>3, Zenon DEF HelloOK, Hello
  <2>4. \A x : AnswerOK(x) => AnswerOK(x)'
    BY <1>3, <1>8, Zenon DEF AnswerOK
  <2>5. ASSUME NEW p \in net'.server
        PROVE  p.body.type \notin {"REJ", "SHLO"} /\ HelloOK(p.body)'
    <3>1. CASE p \in net.server
      <4>1. /\ p.body.type \notin {"REJ", "SHLO"} /\ HelloOK(p.body)
            /\ ~ Keyed /\ p.body.type = "CHLO" => p.body.n # cli.hellos
        BY <1>3, <3>1, Zenon DEF KInv, MessagesOK
      <4> QED
        BY <2>1, <4>1, Zenon
    <3>2. CASE p = new
      BY <1>4, <1>5, <1>10, <2>1, <2>2, <3>2, Zenon
    <3> QED
      BY <1>6, <3>1, <3>2, Zenon
  <2>6. out'.client.type \notin {"REJ", "SHLO"} /\ out'.server.type # "CHLO" /\ AnswerOK(out.server)'
    BY <1>3, <2>4, Zenon DEF KInv, MessagesOK
  <2>7. \A p \in net'.client : /\ p.body.type # "CHLO"
                               /\ AnswerOK(p.body)'
                               /\ p.level = Secure => Keyed'
    BY <1>6, <1>8, <2>4, Zenon DEF KInv, MessagesOK
  <2> QED
    BY <1>6, <2>3, <2>5, <2>6, <2>7, Zenon DEF MessagesOK
<1>14. AgreedOK'
  <2>1. Keyed => ~ cli.verified
    BY <1>3, Zenon DEF KInv, AgreedOK
  <2> QED
    BY <1>3, <1>6, <1>7, <1>8, <2>1, Zenon DEF KInv, AgreedOK
<1>15. KeysOK'
  BY <1>3, <1>7, Zenon DEF KInv, KeysOK
<1> QED
  BY <1>11, <1>12, <1>13, <1>14, <1>15, Zenon DEF KInv

\* The server's answer is sent.
LEMMA ServerSendsKeeps == KInv /\ SendCrypto("server") => KInv'
<1> SUFFICES ASSUME KInv, SendCrypto("server") PROVE KInv'
  BY Zenon
<1>1. "client" \in Side /\ "server" \in Side /\ "client" # "server"
  BY Zenon DEF Side
<1>2. HandshakeShape
  BY Zenon DEF KInv
<1>3. PICK new : /\ new.body = out.server /\ (new.level = Secure => Keyed)
                 /\ SendTo("client", new)
  <2> DEFINE new == Packet(GetSealerForCryptoStream("server"),
                           KeyOf("server", GetSealerForCryptoStream("server")), out.server)
  <2>1. new.body = out.server /\ new.level = GetSealerForCryptoStream("server")
    BY Zenon DEF Packet
  <2>2. SendTo("client", new)
    BY Zenon DEF SendCrypto, Other
  <2>3. GetSealerForCryptoStream("server") = Secure => Keyed
    BY DEF GetSealerForCryptoStream, Keyed, Secure, Unencrypted
  <2> QED
    BY <2>1, <2>2, <2>3, Zenon
<1>4. /\ task.server = "write"
      /\ Goto("server", IF out.server.type = "SHLO" THEN "wrote" ELSE "select")
      /\ UNCHANGED <<start, cli, key, out, read, params, pkt, got, inbox, closing>>
      /\ EndTurn("server")
  BY Zenon DEF SendCrypto
<1>5. out.server.type \in {"REJ", "SHLO"}
  BY <1>1, <1>2, <1>4, Zenon DEF KInv, HandshakeShape, MessagesOK, Messages
<1>6. /\ DOMAIN task' = Side /\ task'.client = task.client
      /\ task'.server = IF out.server.type = "SHLO" THEN "wrote" ELSE "select"
      /\ DOMAIN run' = Side /\ run'.client = run.client
      /\ DOMAIN net' = Side /\ net'.server = net.server /\ net'.client = net.client \cup {new}
  BY <1>1, <1>2, <1>3, <1>4, Zenon DEF HandshakeShape, Goto, EndTurn, SendTo
<1>7. Keyed' = Keyed
  BY <1>4, Zenon DEF Keyed
<1>8. HandshakeShape'
  <2>1. \A s \in Side : task'[s] = "write" => out'[s].type \in Messages
    BY <1>1, <1>2, <1>4, <1>6, Zenon DEF HandshakeShape, Side
  <2>2. \A s \in Side : net[s] \subseteq net'[s]
    BY <1>6, Zenon DEF Side
  <2>3. \A s \in Side : /\ pkt'[s] \subseteq net'[s]
                        /\ \A m \in inbox'[s] : m.type \in Messages /\ \E p \in net'[s] : p.body = m
    BY <1>2, <1>4, <2>2, Zenon DEF HandshakeShape
  <2> QED
    BY <1>2, <1>4, <1>6, <2>1, <2>3, Zenon DEF HandshakeShape
<1>9. TurnsOK'
  BY <1>4, <1>6, <1>7, Zenon DEF KInv, TurnsOK, Hello
<1>10. MessagesOK'
  <2>1. \A x : HelloOK(x) => HelloOK(x)'
    BY <1>4, <1>6, <1>7, Zenon DEF HelloOK, Hello
  <2>2. \A x : AnswerOK(x) => AnswerOK(x)'
    BY <1>4, <1>7, Zenon DEF AnswerOK
  <2>3. \A p \in net'.client : /\ p.body.type # "CHLO"
                               /\ AnswerOK(p.body)'
                               /\ p.level = Secure => Keyed'
    <3> SUFFICES ASSUME NEW p \in net'.client
                 PROVE  p.body.type # "CHLO" /\ AnswerOK(p.body)' /\ (p.level = Secure => Keyed')
      BY Zenon
    <3>1. CASE p \in net.client
      BY <1>7, <2>2, <3>1, Zenon DEF KInv, MessagesOK
    <3>2. CASE p = new
      BY <1>3, <1>5, <1>7, <2>2, <3>2, Zenon DEF KInv, MessagesOK
    <3> QED
      BY <1>6, <3>1, <3>2, Zenon
  <2>4. /\ out'.client.type \notin {"REJ", "SHLO"} /\ out'.server.type # "CHLO"
        /\ HelloOK(out.client)' /\ AnswerOK(out.server)'
    BY <1>4, <2>1, <2>2, Zenon DEF KInv, MessagesOK
  <2>5. \A p \in net'.server : /\ p.body.type \notin {"REJ", "SHLO"}
                               /\ HelloOK(p.body)'
                               /\ task'.client = "write" /\ ~ Keyed' /\ p.body.type = "CHLO" =>
                                     p.body.n # cli'.hellos
    BY <1>4, <1>6, <1>7, <2>1, Zenon DEF KInv, MessagesOK
  <2> QED
    BY <2>3, <2>4, <2>5, Zenon DEF MessagesOK
<1>11. AgreedOK'
  <2>1. Keyed => task'.server = "wrote"
    BY <1>4, <1>6, Zenon DEF KInv, AgreedOK
  <2>2. ClientKey(FALSE)' = ClientKey(FALSE) /\ ClientKey(TRUE)' = ClientKey(TRUE)
    BY <1>4, Zenon DEF ClientKey
  <2> QED
    BY <1>4, <1>6, <1>7, <2>1, <2>2, Zenon DEF KInv, AgreedOK
<1>12. KeysOK'
  BY <1>4, Zenon DEF KInv, KeysOK
<1> QED
  BY <1>8, <1>9, <1>10, <1>11, <1>12, Zenon DEF KInv

\* Steps that leave messages, packets and what was received alone.
LEMMA QuietKeeps ==
    ASSUME KInv, UNCHANGED <<start, cli, key, read, out, params, net, inbox, pkt, got>>,
           DOMAIN task' = Side, DOMAIN run' = Side, DOMAIN closing' = Side,
           task'.client = task.client, run'.client = "nonce" => run.client = "nonce",
           task'.server = task.server \/ task'.server \notin {"select", "write"}
    PROVE  KInv'
<1>1. HandshakeShape
  BY Zenon DEF KInv
<1>2. /\ DOMAIN out' = Side /\ DOMAIN net' = Side /\ DOMAIN params' = Side
      /\ DOMAIN inbox' = Side /\ DOMAIN pkt' = Side
      /\ DOMAIN got' = Side /\ \A s \in Side : DOMAIN got'[s] = {"secure", "forward"}
  BY <1>1, Zenon DEF HandshakeShape
<1>3. /\ \A s \in Side : pkt'[s] \subseteq net'[s]
      /\ \A s \in Side : \A m \in inbox'[s] : m.type \in Messages /\ \E p \in net'[s] : p.body = m
  BY <1>1, Zenon DEF HandshakeShape
<1> QED
  BY <1>2, <1>3, CalmKeeps, Zenon

\* Announcing a level and hearing of it.
LEMMA LevelKeeps ==
    ASSUME KInv, NEW s \in Side,
           AnnounceForwardSecure \/ CloseSentSHLO \/ ReceiveLevel(s) \/ HandshakeComplete(s)
    PROVE  KInv'
<1>1. "client" \in Side /\ "server" \in Side /\ "client" # "server"
  BY Zenon DEF Side
<1>2. DOMAIN task = Side /\ DOMAIN run = Side /\ DOMAIN closing = Side
  BY Zenon DEF KInv, HandshakeShape
<1>3. CASE AnnounceForwardSecure \/ CloseSentSHLO
  <2>1. /\ UNCHANGED <<start, cli, key, read, out, params, net, inbox, pkt, got, run, closing>>
        /\ \/ task' = [task EXCEPT !["server"] = "announced"]
           \/ task' = [task EXCEPT !["server"] = "ended"]
    BY <1>3, Zenon DEF AnnounceForwardSecure, CloseSentSHLO, Goto, loop
  <2>2. /\ DOMAIN task' = Side /\ task'.client = task.client
        /\ task'.server \notin {"select", "write"}
    BY <1>1, <1>2, <2>1, Zenon
  <2> QED
    BY <1>2, <2>1, <2>2, QuietKeeps, Zenon
<1>4. CASE ReceiveLevel(s) \/ HandshakeComplete(s)
  <2>1. /\ UNCHANGED <<start, cli, key, read, out, params, net, inbox, pkt, got, task, closing>>
        /\ EndTurn(s)
    BY <1>4, Zenon DEF ReceiveLevel, HandshakeComplete, setup
  <2>2. DOMAIN run' = Side /\ (run'.client = "nonce" => run.client = "nonce")
    BY <1>1, <1>2, <2>1, Zenon DEF EndTurn
  <2> QED
    BY <1>2, <2>1, <2>2, QuietKeeps, Zenon
<1> QED
  BY <1>3, <1>4, Zenon

\* A PUBLIC_RESET closes the client.
LEMMA ResetKeeps == KInv /\ ReceiveReset => KInv'
<1> SUFFICES ASSUME KInv, ReceiveReset PROVE KInv'
  BY Zenon
<1>1. /\ UNCHANGED <<start, cli, key, read, out, params, net, inbox, pkt, got, task, run>>
      /\ Close("client", "remote")
  BY Zenon DEF ReceiveReset, setup, loop
<1>2. DOMAIN task' = Side /\ DOMAIN run' = Side /\ DOMAIN closing' = Side
  BY <1>1, Zenon DEF KInv, HandshakeShape, Close
<1> QED
  BY <1>1, <1>2, QuietKeeps, Zenon

\* Neither data nor a CONNECTION_CLOSE is a crypto message, and the server uses
\* its secure key for the crypto stream only.
LEMMA SealedBy == ASSUME NEW s \in Side PROVE s = "server" => GetSealer(s) # Secure
BY DEF GetSealer, ForwardSecure, Secure, Unencrypted

\* Data is no handshake message.
LEMMA SendDataKeeps ==
    ASSUME KInv, NEW s \in Side, SendData(s)
    PROVE  KInv'
<1>1. "client" \in Side /\ "server" \in Side /\ "client" # "server"
  BY Zenon DEF Side
<1>2. HandshakeShape
  BY Zenon DEF KInv
<1>3. PICK new : /\ new.body = Data /\ new.level = GetSealer(s) /\ SendTo(Other(s), new)
  <2> DEFINE new == Packet(GetSealer(s), KeyOf(s, GetSealer(s)), Data)
  <2>1. new.body = Data /\ new.level = GetSealer(s)
    BY Zenon DEF Packet
  <2>2. SendTo(Other(s), new)
    BY Zenon DEF SendData
  <2> QED
    BY <2>1, <2>2, Zenon
<1>4. /\ UNCHANGED <<start, cli, key, read, out, params, inbox, pkt, got, task, closing>>
      /\ EndTurn(s)
  BY Zenon DEF SendData, setup
<1>5. /\ DOMAIN net' = Side
      /\ \A t \in Side : net'[t] = IF t = Other(s) THEN net[t] \cup {new} ELSE net[t]
  BY <1>2, <1>3, Zenon DEF SendTo, HandshakeShape
<1>6. DOMAIN run' = Side /\ (run'.client = "nonce" => run.client = "nonce")
  BY <1>1, <1>2, <1>4, Zenon DEF EndTurn, HandshakeShape
<1>7. Data.type \notin Messages
  BY Zenon DEF Data, Messages
<1>8. \A t \in Side : \A p \in net'[t] :
         p \in net[t] \/ (p.body.type \notin Messages /\ (t = "client" => p.level # Secure))
  <2>1. Other(s) = "client" => new.level # Secure
    BY <1>3, SealedBy, Zenon DEF Other, Side
  <2> QED
    BY <1>3, <1>5, <1>7, <2>1, Zenon
<1>9. \A t \in Side : \A p \in net[t] : p \in net'[t]
  BY <1>5, Zenon
<1>10. /\ \A t \in Side : pkt'[t] \subseteq net'[t]
       /\ \A t \in Side : \A m \in inbox'[t] : m.type \in Messages /\ \E p \in net'[t] : p.body = m
  BY <1>2, <1>4, <1>9, Zenon DEF HandshakeShape
<1>11. /\ DOMAIN out' = Side /\ DOMAIN params' = Side /\ DOMAIN closing' = Side
       /\ DOMAIN task' = Side /\ DOMAIN inbox' = Side /\ DOMAIN pkt' = Side
       /\ DOMAIN got' = Side /\ \A t \in Side : DOMAIN got'[t] = {"secure", "forward"}
  BY <1>2, <1>4, Zenon DEF HandshakeShape
<1> QED
  BY <1>4, <1>5, <1>6, <1>8, <1>9, <1>10, <1>11, CalmKeeps, Zenon

\* What a session that ends tells its peer.
LEMMA EndedTells ==
    ASSUME NEW s, NEW why, Ended(s, why)
    PROVE  \E told : /\ net' = [net EXCEPT ![Other(s)] = @ \cup told]
                     /\ \A p \in told : /\ p.body.type \in {"reset", "close"}
                                         /\ p.level \in {Unencrypted, GetSealer(s)}
<1> DEFINE r == Packet(Unencrypted, {}, [type |-> "reset"])
           c == Packet(GetSealer(s), KeyOf(s, GetSealer(s)), [type |-> "close"])
           told == CASE why = "remote" -> {} [] why = "reset"  -> {r} [] OTHER -> {c}
<1>1. net' = [net EXCEPT ![Other(s)] = @ \cup told]
  BY Zenon DEF Ended
<1>2. /\ r.body.type = "reset" /\ r.level = Unencrypted
      /\ c.body.type = "close" /\ c.level = GetSealer(s)
  BY Zenon DEF Packet
<1> HIDE DEF r, c
<1>3. told = {} \/ told = {r} \/ told = {c}
  BY Zenon
<1> HIDE DEF told
<1>4. ASSUME NEW p \in told
      PROVE  p.body.type \in {"reset", "close"} /\ p.level \in {Unencrypted, GetSealer(s)}
  <2>1. p = r \/ p = c
    BY <1>3, Zenon
  <2> QED
    BY <1>2, <2>1, Zenon
<1> QED
  BY <1>1, <1>4, Zenon

\* The end of a session.
LEMMA EndedKeeps ==
    ASSUME KInv, NEW s \in Side, NEW why, Ended(s, why)
    PROVE  KInv'
<1>1. "client" \in Side /\ "server" \in Side /\ "client" # "server"
  BY Zenon DEF Side
<1>2. HandshakeShape
  BY Zenon DEF KInv
<1>3. PICK told : /\ net' = [net EXCEPT ![Other(s)] = @ \cup told]
                  /\ \A p \in told : p.body.type \notin Messages /\ p.level \in {Unencrypted, GetSealer(s)}
  <2>1. PICK told : /\ net' = [net EXCEPT ![Other(s)] = @ \cup told]
                    /\ \A p \in told : /\ p.body.type \in {"reset", "close"}
                                        /\ p.level \in {Unencrypted, GetSealer(s)}
    BY EndedTells, Zenon
  <2>2. "reset" \notin Messages /\ "close" \notin Messages
    BY Zenon DEF Messages
  <2> QED
    BY <2>1, <2>2, Zenon
<1>4. /\ UNCHANGED <<start, cli, key, read, params, got>>
      /\ run' = [run EXCEPT ![s] = "done"] /\ closing' = [closing EXCEPT ![s] = why]
      /\ task' = [task EXCEPT ![s] = "ended"] /\ out' = [out EXCEPT ![s] = Data]
      /\ pkt' = [pkt EXCEPT ![s] = {}] /\ inbox' = [inbox EXCEPT ![s] = {}]
  BY Zenon DEF Ended
<1>5. /\ DOMAIN net' = Side
      /\ \A t \in Side : net'[t] = IF t = Other(s) THEN net[t] \cup told ELSE net[t]
  BY <1>2, <1>3, Zenon DEF HandshakeShape
<1>6. /\ DOMAIN run' = Side /\ (run'.client = "nonce" => run.client = "nonce")
      /\ DOMAIN task' = Side /\ DOMAIN closing' = Side /\ DOMAIN out' = Side
      /\ \A t \in Side : IF t = s THEN task'[t] = "ended" /\ out'[t] = Data
                                 ELSE task'[t] = task[t] /\ out'[t] = out[t]
  BY <1>1, <1>2, <1>4, Zenon DEF HandshakeShape
<1>7. /\ DOMAIN pkt' = Side /\ DOMAIN inbox' = Side
      /\ \A t \in Side : pkt'[t] \subseteq pkt[t] /\ inbox'[t] \subseteq inbox[t]
  BY <1>2, <1>4, Zenon DEF HandshakeShape
<1>8. \A t \in Side : \A p \in net'[t] :
         p \in net[t] \/ (p.body.type \notin Messages /\ (t = "client" => p.level # Secure))
  <2>1. Other(s) = "client" => \A p \in told : p.level # Secure
    BY <1>3, SealedBy DEF Other, Side, Unencrypted, Secure
  <2> QED
    BY <1>3, <1>5, <2>1, Zenon
<1>9. \A t \in Side : \A p \in net[t] : p \in net'[t]
  BY <1>5, Zenon
<1>10. /\ \A t \in Side : pkt'[t] \subseteq net'[t]
       /\ \A t \in Side : \A m \in inbox'[t] : m.type \in Messages /\ \E p \in net'[t] : p.body = m
  BY <1>2, <1>7, <1>9, Zenon DEF HandshakeShape
<1>11. /\ DOMAIN params' = Side
       /\ DOMAIN got' = Side /\ \A t \in Side : DOMAIN got'[t] = {"secure", "forward"}
  BY <1>2, <1>4, Zenon DEF HandshakeShape
<1>12. /\ task'.client \in {task.client, "ended"}
       /\ task'.server = task.server \/ task'.server \notin {"select", "write"}
       /\ \A t \in Side : out'[t] = out[t] \/ (out'[t] = Data /\ task'[t] # "write")
  BY <1>1, <1>6, Zenon
<1> QED
  BY <1>4, <1>5, <1>6, <1>7, <1>8, <1>9, <1>10, <1>11, <1>12, CalmKeeps, Zenon

\* With which keys a packet was opened.
LEMMA OpenedWith ==
    ASSUME NEW p
    PROVE  /\ OpenLevel("client", p) = Secure => key.client.secure # {}
           /\ OpenLevel("client", p) = ForwardSecure => key.client.forward # {}
BY DEF OpenLevel, ClientOpen, Secure, ForwardSecure, Unencrypted, Fail

\* A packet's frames are handled.
LEMMA FramesKeep ==
    ASSUME KInv, NEW s \in Side, NEW p \in net[s],
           UNCHANGED <<start, cli, key, read, out, params, net, task>>,
           \/ handleFrames(s, p)
           \/ UNCHANGED <<inbox, closing>>,
           DOMAIN pkt' = Side, \A t \in Side : pkt'[t] \subseteq net[t],
           DOMAIN got' = Side, \A t \in Side : DOMAIN got'[t] = {"secure", "forward"},
           got'.client.secure => got.client.secure \/ key.client.secure # {},
           got'.client.forward => got.client.forward \/ key.client.forward # {},
           DOMAIN run' = Side, run'.client = "nonce" => run.client = "nonce" \/ Keyed
    PROVE  KInv'
<1>1. HandshakeShape
  BY Zenon DEF KInv
<1>2. /\ DOMAIN out' = Side /\ DOMAIN net' = Side /\ DOMAIN params' = Side /\ DOMAIN task' = Side
  BY <1>1, Zenon DEF HandshakeShape
<1>3. DOMAIN closing' = Side
  BY <1>1, Zenon DEF HandshakeShape, handleFrames, Close
<1>4. /\ DOMAIN inbox' = Side
      /\ \A t \in Side : \A m \in inbox'[t] :
            m \in inbox[t] \/ (t = s /\ m = p.body /\ m.type \in Messages)
  BY <1>1 DEF HandshakeShape, handleFrames, Messages
<1>5. \A t \in Side : \A m \in inbox'[t] : m.type \in Messages /\ \E q \in net'[t] : q.body = m
  BY <1>1, <1>4, Zenon DEF HandshakeShape
<1> QED
  BY <1>2, <1>3, <1>4, <1>5, CalmKeeps, Zenon

\* Open notes the level of a packet only with the key of that level.
LEMMA OpenKeeps ==
    ASSUME KInv, NEW s \in Side, NEW p \in net[s], OpenPacket(s, p)
    PROVE  KInv'
<1>1. "client" \in Side /\ "server" \in Side /\ "client" # "server"
  BY Zenon DEF Side
<1>2. HandshakeShape
  BY Zenon DEF KInv
<1>3. UNCHANGED <<start, cli, key, read, out, params, net, task>>
  BY Zenon DEF OpenPacket, setup
<1>4. /\ pkt' = [pkt EXCEPT ![s] = {}] \/ pkt' = [pkt EXCEPT ![s] = {p}]
      /\ EndTurn(s) \/ run' = [run EXCEPT ![s] = "shlo"]
      /\ handleFrames(s, p) \/ UNCHANGED <<inbox, closing>>
  BY Zenon DEF OpenPacket
<1>5. DOMAIN pkt' = Side /\ \A t \in Side : pkt'[t] \subseteq net[t]
  <2>1. DOMAIN pkt = Side /\ \A t \in Side : pkt[t] \subseteq net[t]
    BY <1>2, Zenon DEF HandshakeShape
  <2>2. PICK kept : pkt' = [pkt EXCEPT ![s] = kept] /\ kept \subseteq net[s]
    <3>1. {} \subseteq net[s] /\ {p} \subseteq net[s]
      BY Zenon
    <3> QED
      BY <1>4, <3>1, Zenon
  <2>3. DOMAIN pkt' = Side /\ \A t \in Side : pkt'[t] = IF t = s THEN kept ELSE pkt[t]
    BY <2>1, <2>2, Zenon
  <2> QED
    BY <2>1, <2>2, <2>3, Zenon
<1>6. DOMAIN run' = Side /\ (run'.client = "nonce" => run.client = "nonce")
  BY <1>1, <1>2, <1>4, Zenon DEF EndTurn, HandshakeShape
<1>7. /\ DOMAIN got' = Side /\ \A t \in Side : DOMAIN got'[t] = {"secure", "forward"}
      /\ got'.client.secure => got.client.secure \/ key.client.secure # {}
      /\ got'.client.forward => got.client.forward \/ key.client.forward # {}
  <2>1. CASE OpenLevel(s, p) = Fail
    BY <1>2, <2>1, Zenon DEF OpenPacket, HandshakeShape
  <2>2. CASE OpenLevel(s, p) # Fail
    <3> DEFINE new == [secure |-> got[s].secure \/ OpenLevel(s, p) = Secure,
                       forward |-> got[s].forward \/ OpenLevel(s, p) = ForwardSecure]
    <3>1. got' = [got EXCEPT ![s] = new]
      BY <2>2, Zenon DEF OpenPacket
    <3>2. /\ DOMAIN new = {"secure", "forward"}
          /\ new.secure = (got[s].secure \/ OpenLevel(s, p) = Secure)
          /\ new.forward = (got[s].forward \/ OpenLevel(s, p) = ForwardSecure)
      BY Zenon
    <3> HIDE DEF new
    <3>3. /\ DOMAIN got' = Side
          /\ \A t \in Side : got'[t] = IF t = s THEN new ELSE got[t]
      BY <1>2, <3>1, Zenon DEF HandshakeShape
    <3>4. \A t \in Side : DOMAIN got'[t] = {"secure", "forward"}
      BY <1>2, <3>2, <3>3, Zenon DEF HandshakeShape
    <3>5. CASE s = "client"
      BY <1>1, <3>2, <3>3, <3>4, <3>5, OpenedWith, Zenon
    <3>6. CASE s # "client"
      BY <1>1, <3>3, <3>4, <3>6, Zenon
    <3> QED
      BY <3>5, <3>6, Zenon
  <2> QED
    BY <2>1, <2>2, Zenon
<1> QED
  BY <1>3, <1>4, <1>5, <1>6, <1>7, FramesKeep, Zenon

\* A packet is opened, kept, or has the nonce for which a key is needed.
LEMMA ReceiveKeeps ==
    ASSUME KInv, NEW s \in Side, NEW p \in net[s], Receive(s, p)
    PROVE  KInv'
<1>1. "client" \in Side /\ "server" \in Side /\ "client" # "server"
  BY Zenon DEF Side
<1>2. HandshakeShape
  BY Zenon DEF KInv
<1>3. CASE ~ HasNonce(s, p)
  BY <1>3, OpenKeeps, Zenon DEF Receive
<1>4. CASE HasNonce(s, p)
  <2>1. /\ run' = [run EXCEPT ![s] = "nonce"] /\ pkt' = [pkt EXCEPT ![s] = {p}]
        /\ UNCHANGED <<start, cli, key, read, out, params, net, task, got, inbox, closing>>
    BY <1>4, Zenon DEF Receive, setup
  <2>2. Keyed
    BY <1>4, Zenon DEF HasNonce, KInv, MessagesOK
  <2>3. DOMAIN run' = Side /\ DOMAIN pkt' = Side /\ \A t \in Side : pkt'[t] \subseteq net[t]
    BY <1>2, <2>1, Zenon DEF HandshakeShape
  <2>4. DOMAIN got' = Side /\ \A t \in Side : DOMAIN got'[t] = {"secure", "forward"}
    BY <1>2, <2>1, Zenon DEF HandshakeShape
  <2> QED
    BY <2>1, <2>2, <2>3, <2>4, FramesKeep, Zenon
<1> QED
  BY <1>3, <1>4, Zenon

\* The packet that the run loop holds while it waits for the crypto goroutine.
LEMMA KeptPacketsKeep ==
    ASSUME KInv, ClientOpens \/ SHLOWasSent
    PROVE  KInv'
<1>1. "client" \in Side /\ "server" \in Side /\ "client" # "server"
  BY Zenon DEF Side
<1>2. HandshakeShape
  BY Zenon DEF KInv
<1>3. CASE ClientOpens
  <2>1. PICK p \in pkt.client : OpenPacket("client", p)
    BY <1>3, Zenon DEF ClientOpens
  <2>2. p \in net.client
    BY <1>1, <1>2, Zenon DEF HandshakeShape
  <2> QED
    BY <1>1, <2>1, <2>2, OpenKeeps, Zenon
<1>4. CASE SHLOWasSent
  <2>1. PICK p \in pkt.server : handleFrames("server", p)
    BY <1>4, Zenon DEF SHLOWasSent
  <2>2. p \in net.server
    BY <1>1, <1>2, Zenon DEF HandshakeShape
  <2>3. /\ UNCHANGED <<start, cli, key, read, out, params, net, task, got>>
        /\ pkt' = [pkt EXCEPT !["server"] = {}] /\ EndTurn("server")
    BY <1>4, Zenon DEF SHLOWasSent, setup
  <2>4. DOMAIN run' = Side /\ (run'.client = "nonce" => run.client = "nonce")
    BY <1>1, <1>2, <2>3, Zenon DEF EndTurn, HandshakeShape
  <2>5. DOMAIN pkt' = Side /\ \A t \in Side : pkt'[t] \subseteq net[t]
    BY <1>2, <2>3, Zenon DEF HandshakeShape
  <2>6. DOMAIN got' = Side /\ \A t \in Side : DOMAIN got'[t] = {"secure", "forward"}
    BY <1>2, <2>3, Zenon DEF HandshakeShape
  <2> QED
    BY <1>1, <2>1, <2>2, <2>3, <2>4, <2>5, <2>6, FramesKeep, Zenon
<1> QED
  BY <1>3, <1>4, Zenon

\* HandleCryptoStream reads the next message.
LEMMA ReadsKeep ==
    ASSUME KInv, NEW s \in Side, Reads(s)
    PROVE  KInv'
<1>1. CASE s = "client"
  <2>1. PICK m \in inbox.client : ClientReads(m)
    BY <1>1, Zenon DEF Reads
  <2> QED
    BY <2>1, REJKeeps, SHLOKeeps, Zenon
<1>2. CASE s # "client"
  <2>1. PICK m \in inbox.server : ServerReads(m)
    BY <1>2, Zenon DEF Reads
  <2>2. /\ ReadNext("server", m)
        /\ UNCHANGED <<start, cli, net>> /\ UNCHANGED <<run, pkt, got, inbox>>
    BY <2>1, Zenon DEF ServerReads, loop
  <2>3. CASE isInchoateCHLO(m)
    <3>1. handleInchoateCHLO(m) /\ UNCHANGED <<key, params>>
      BY <2>1, <2>3, Zenon DEF ServerReads, handleInchoateCHLO
    <3> QED
      BY <2>2, <3>1, RejectKeeps, Zenon
  <2>4. CASE ~ isInchoateCHLO(m)
    <3>1. handleCHLO(m)
      BY <2>1, <2>4, Zenon DEF ServerReads
    <3>2. CASE validateClientNonce(m) /\ ~ params.server.negotiated
      BY <2>2, <2>4, <3>1, <3>2, AcceptKeeps, Zenon
    <3>3. CASE ~ (validateClientNonce(m) /\ ~ params.server.negotiated)
      <4>1. HandshakeFails("server") /\ UNCHANGED <<key, params>> /\ UNCHANGED out
        BY <3>1, <3>3, Zenon DEF handleCHLO
      <4> QED
        BY <2>2, <4>1, RejectKeeps, Zenon
    <3> QED
      BY <3>2, <3>3, Zenon
  <2> QED
    BY <2>3, <2>4, Zenon
<1> QED
  BY <1>1, <1>2, Zenon

\* All the steps of the four goroutines and of the network.
LEMMA KInvNext == KInv /\ Next => KInv'
<1> SUFFICES ASSUME KInv, Next PROVE KInv'
  BY Zenon
<1>1. CASE ReceiveReset
  BY <1>1, ResetKeeps, Zenon
<1>2. ASSUME NEW s \in Side, Crypto(s)
      PROVE  KInv'
  <2>1. CASE Reads(s)
    BY <2>1, ReadsKeep, Zenon
  <2>2. CASE s = "client" /\ ClientTop
    <3>1. CASE maybeUpgradeCrypto
      BY <2>2, <3>1, UpgradeKeeps, Zenon
    <3>2. CASE sendCHLO
      BY <2>2, <3>2, SendCHLOKeeps, Zenon
    <3>3. CASE /\ key.client.secure # {} /\ Goto("client", "select")
               /\ UNCHANGED <<cli, key, out, closing, aeadChanged>>
      <4>1. /\ task.client = "top"
            /\ UNCHANGED <<start, cli, key, out, read, params, net, inbox, pkt, got, run, closing>>
        BY <2>2, <3>3, Zenon DEF ClientTop, loop
      <4> QED
        BY <3>3, <4>1, NothingToSendKeeps, Zenon
    <3> QED
      BY <2>2, <3>1, <3>2, <3>3, Zenon DEF ClientTop
  <2>3. CASE AnnounceForwardSecure \/ CloseSentSHLO
    BY <2>3, LevelKeeps, Zenon
  <2> QED
    BY <1>2, <2>1, <2>2, <2>3, Zenon DEF Crypto
<1>3. ASSUME NEW s \in Side, RunLoop(s)
      PROVE  KInv'
  <2>1. CASE SendCrypto(s)
    BY <2>1, ClientSendsKeeps, ServerSendsKeeps, Zenon DEF Side
  <2>2. CASE ReceiveLevel(s) \/ HandshakeComplete(s)
    BY <2>2, LevelKeeps, Zenon
  <2>3. CASE Stop(s)
    BY <2>3, EndedKeeps, Zenon DEF Stop
  <2>4. CASE SetDiversificationNonce
    BY <2>4, NonceKeeps, Zenon
  <2>5. CASE ClientOpens \/ SHLOWasSent
    BY <2>5, KeptPacketsKeep, Zenon
  <2> QED
    BY <1>3, <2>1, <2>2, <2>3, <2>4, <2>5, Zenon DEF RunLoop, Select
<1>4. ASSUME NEW s \in Side, SendData(s) \/ Timeout(s) \/ \E p \in net[s] : Receive(s, p)
      PROVE  KInv'
  <2>1. CASE SendData(s)
    BY <2>1, SendDataKeeps, Zenon
  <2>2. CASE Timeout(s)
    BY <2>2, EndedKeeps, Zenon DEF Timeout
  <2>3. CASE \E p \in net[s] : Receive(s, p)
    BY <2>3, ReceiveKeeps, Zenon
  <2> QED
    BY <1>4, <2>1, <2>2, <2>3, Zenon
<1> QED
  BY <1>1, <1>2, <1>3, <1>4, Zenon DEF Next

LEMMA KInvStutter == KInv /\ UNCHANGED vars => KInv'
<1> SUFFICES ASSUME KInv, UNCHANGED vars PROVE KInv'
  BY Zenon
<1>1. /\ UNCHANGED <<start, cli, key, read, out, params, net, inbox, pkt, got>>
      /\ UNCHANGED <<task, run, closing>>
  BY Zenon DEF vars, setup, loop
<1>2. DOMAIN task' = Side /\ DOMAIN run' = Side /\ DOMAIN closing' = Side
  BY <1>1, Zenon DEF KInv, HandshakeShape
<1> QED
  BY <1>1, <1>2, QuietKeeps, Zenon

\* The handshake invariant holds in every reachable state.
THEOREM HandshakeInvariant == Spec => []KInv
<1>1. Init => KInv
  BY KInvInit, Zenon
<1>2. KInv /\ [Next]_vars => KInv'
  BY KInvNext, KInvStutter, Zenon
<1> QED
  BY <1>1, <1>2, PTL DEF Spec

\* Open refuses lower levels by the flags that KeysOK ties to the keys.
LEMMA AgreeFromKInv == KInv => KeysAgree
<1> SUFFICES ASSUME KInv PROVE KeysAgree
  BY Zenon
<1>1. \A k \in key.client.secure \cup key.client.forward :
         k \in key.server.secure \cup key.server.forward
  BY Zenon DEF KInv, KeysOK
<1>2. ASSUME NEW p
      PROVE  /\ got.client.secure => OpenLevel("client", p) # Unencrypted
             /\ got.client.forward => OpenLevel("client", p) \in {Fail, ForwardSecure}
  BY DEF KInv, KeysOK, OpenLevel, ClientOpen, Unencrypted, Secure, ForwardSecure, Fail
<1>3. ASSUME NEW p
      PROVE  /\ got.server.secure => OpenLevel("server", p) # Unencrypted
             /\ got.server.forward => OpenLevel("server", p) \in {Fail, ForwardSecure}
  BY DEF OpenLevel, ServerOpen, Unencrypted, Secure, ForwardSecure, Fail
<1> QED
  BY <1>1, <1>2, <1>3, Zenon DEF KeysAgree, Side

\* For every cache the client may start from, every interleaving of the four
\* goroutines and every order of the packets: the client's keys are the server's,
\* and no packet of a lower level is accepted after one of a higher.
THEOREM KeysAlwaysAgree == Spec => []KeysAgree
BY HandshakeInvariant, AgreeFromKInv, PTL

-----------------------------------------------------------------------------
(* From a usable cache every answer takes the client one step further.     *)

\* The first REJ brings the STK and the server configuration, the second the
\* certificate with its proof.
ProgressOK ==
    /\ Usable
    /\ cli.scfg \in {"none", "cur"} /\ cli.nonc = cli.scfg
    /\ cli.scfg = "cur" => cli.kex > 0
    /\ cli.cert = "cur" => cli.verified
    /\ cli.proof = cli.signed
    /\ ~ Keyed =>
          /\ read.client >= 1 => cli.stk = "good" /\ cli.scfg = "cur"
          /\ read.client >= 2 => cli.cert = "cur"
          /\ read.client <= 2
    /\ Keyed /\ task.client # "ended" => cli.verified

\* No CHLO after the second is rejected.
UsefulHello(m) ==
    m.type = "CHLO" =>
        /\ m.pubs # 0 => m.nonc = m.scid
        /\ m.n >= 2 => m.stk = "good"
        /\ m.n >= 3 => m.pubs # 0 /\ m.scid = "cur" /\ m.xlct = "cur"

\* There are two REJs at most, and the second has the proof.
UsefulAnswer(m) == m.type = "REJ" => m.n <= 2 /\ (m.n >= 2 => m.prof)

UsefulOK ==
    /\ UsefulHello(out.client) /\ \A p \in net.server : UsefulHello(p.body)
    /\ UsefulAnswer(out.server) /\ \A p \in net.client : UsefulAnswer(p.body)

\* Data is never sent unencrypted, and the SHLO, which the client requires to be
\* encrypted, never but with the first key.
EncryptedOK ==
    /\ \A s \in Side : \A p \in net[s] : p.body.type = "data" => p.level # Unencrypted
    /\ \A p \in net.client : p.body.type = "SHLO" => p.level = Secure
    /\ \A m \in inbox.client : m.type = "SHLO" => got.client.secure
    /\ params.client.negotiated => Keyed /\ read.client = read.server
    /\ params.server.negotiated => Keyed

Accepting == ProgressOK /\ UsefulOK /\ EncryptedOK /\ HonestNeverFails

UInv == Usable => Accepting

-----------------------------------------------------------------------------

\* Nothing was refused yet.
LEMMA AcceptingInit == Init /\ Usable => Accepting
<1> SUFFICES ASSUME Init, Usable PROVE Accepting
  BY Zenon
<1>1. "client" \in Side /\ "server" \in Side
  BY Zenon DEF Side
<1>2. start \in Starts /\ cli = useHandshakeCache(start) /\ read.client = 0 /\ ~ Keyed
  BY <1>1, Zenon DEF Init, Keyed
<1>3. start.cert \in Age /\ start.scfg \in Age
  BY <1>2, CryptoHandshakeAssumption, Zenon
<1> DEFINE first == [stk |-> start.stk, cert |-> start.cert, scfg |-> "none", nonc |-> "none",
                     kex |-> 0, verified |-> FALSE, proof |-> 0, signed |-> 0, last |-> 0,
                     hellos |-> 0, divNonce |-> FALSE]
           with == [first EXCEPT !.scfg = start.scfg, !.kex = 0 + 1]
<1>4. ProgressOK
  <2>1. CASE start.scfg = "none"
    <3>1. cli = first
      BY <1>2, <2>1, Zenon DEF useHandshakeCache
    <3>2. /\ cli.scfg = "none" /\ cli.nonc = "none" /\ cli.cert = start.cert /\ cli.proof = cli.signed
      BY <3>1, Zenon
    <3> QED
      BY <1>2, <1>3, <2>1, <3>2 DEF ProgressOK, Usable
  <2>2. CASE start.scfg # "none"
    <3>1. cli = [with EXCEPT !.nonc = start.scfg, !.verified = TRUE]
      BY <1>2, <2>2, Zenon DEF useHandshakeCache, parseServerConfig, generateClientNonce
    <3>2. /\ cli.scfg = start.scfg /\ cli.nonc = start.scfg /\ cli.kex = 1 /\ cli.verified
          /\ cli.proof = 0 /\ cli.signed = 0
      BY <3>1
    <3>3. start.scfg = "cur"
      BY <1>3, <2>2, Zenon DEF Usable, Age
    <3> QED
      BY <1>2, <3>2, <3>3 DEF ProgressOK
  <2> QED
    BY <2>1, <2>2, Zenon
<1>5. UsefulOK
  <2>1. out.client = Data /\ out.server = Data /\ net.client = {} /\ net.server = {}
    BY <1>1, Zenon DEF Init
  <2>2. Data.type = "data"
    BY Zenon DEF Data
  <2> QED
    BY <2>1, <2>2, Zenon DEF UsefulOK, UsefulHello, UsefulAnswer
<1>6. EncryptedOK
  <2>1. /\ net.client = {} /\ net.server = {} /\ inbox.client = {}
        /\ ~ params.client.negotiated /\ ~ params.server.negotiated
    BY <1>1, Zenon DEF Init
  <2> QED
    BY <2>1, Zenon DEF EncryptedOK, Side
<1>7. HonestNeverFails
  BY Zenon DEF Init, HonestNeverFails
<1> QED
  BY <1>4, <1>5, <1>6, <1>7, Zenon DEF Accepting

\* Steps that leave what the client knows of the server alone.
LEMMA AcceptingStep ==
    ASSUME Accepting, UNCHANGED <<start, read, params>>, Keyed' = Keyed,
           cli'.scfg = cli.scfg, cli'.nonc = cli.nonc, cli'.kex = cli.kex, cli'.cert = cli.cert,
           cli'.verified = cli.verified, cli'.proof = cli.proof, cli'.signed = cli.signed,
           cli'.stk = cli.stk,
           task'.client = "ended" \/ task.client # "ended",
           UsefulHello(out'.client), UsefulAnswer(out'.server),
           \A p \in net'.server : p \in net.server \/ UsefulHello(p.body),
           \A p \in net'.client : \/ p \in net.client
                                  \/ UsefulAnswer(p.body) /\ (p.body.type = "SHLO" => p.level = Secure),
           \A s \in Side : \A p \in net'[s] :
               p \in net[s] \/ (p.body.type = "data" => p.level # Unencrypted),
           \A m \in inbox'.client : m.type = "SHLO" => got'.client.secure,
           \A s \in Side : closing'[s] = closing[s] \/ closing'[s] \notin {"handshake", "unencrypted"}
    PROVE  Accepting'
<1>1. Usable
  BY Zenon DEF Accepting, ProgressOK
<1>2. ProgressOK'
  BY Zenon DEF Accepting, ProgressOK, Usable
<1>3. UsefulOK'
  <2>1. \A p \in net'.server : UsefulHello(p.body)
    BY Zenon DEF Accepting, UsefulOK
  <2>2. \A p \in net'.client : UsefulAnswer(p.body)
    BY Zenon DEF Accepting, UsefulOK
  <2> QED
    BY <2>1, <2>2, Zenon DEF UsefulOK, UsefulHello, UsefulAnswer
<1>4. EncryptedOK'
  <2>1. \A s \in Side : \A p \in net'[s] : p.body.type = "data" => p.level # Unencrypted
    BY Zenon DEF Accepting, EncryptedOK
  <2>2. \A p \in net'.client : p.body.type = "SHLO" => p.level = Secure
    BY Zenon DEF Accepting, EncryptedOK
  <2>3. /\ params'.client.negotiated => Keyed' /\ read'.client = read'.server
        /\ params'.server.negotiated => Keyed'
    BY Zenon DEF Accepting, EncryptedOK
  <2> QED
    BY <2>1, <2>2, <2>3, Zenon DEF EncryptedOK, Unencrypted, Secure
<1>5. HonestNeverFails'
  BY <1>1, Zenon DEF Accepting, HonestNeverFails, Usable
<1> QED
  BY <1>2, <1>3, <1>4, <1>5, Zenon DEF Accepting

\* The proof of a REJ is for the CHLO that the client sent last.
LEMMA REJAccepting ==
    ASSUME KInv, Accepting, NEW m, ClientReads(m), m.type = "REJ"
    PROVE  Accepting'
<1>1. "client" \in Side /\ "server" \in Side /\ "client" # "server"
  BY Zenon DEF Side
<1>2. /\ task.client = "select" /\ m \in inbox.client /\ m.n = read.client + 1
      /\ read' = [read EXCEPT !["client"] = m.n]
      /\ handleREJMessage(m) /\ UNCHANGED <<start, out, got, inbox, net, key, params>>
  BY Zenon DEF ClientReads, ReadNext, loop, handleREJMessage
<1>3. HandshakeShape
  BY Zenon DEF KInv
<1>4. ~ Keyed /\ ~ Keyed'
  BY <1>2, REJKeeps, Zenon DEF Keyed
<1>5. /\ cli'.scfg = "cur" /\ cli'.stk = "good" /\ cli'.kex = cli.kex + 1
      /\ cli'.nonc = IF cli.nonc = "none" THEN "cur" ELSE cli.nonc
      /\ cli'.cert = IF m.prof THEN "cur" ELSE cli.cert
      /\ cli'.proof = IF m.prof THEN m.n ELSE cli.proof
      /\ cli'.signed = IF m.prof THEN cli.last ELSE cli.signed
      /\ cli'.verified = (cli.verified \/ (cli'.proof # 0 /\ cli'.cert # "none"))
      /\ cli'.proof = cli'.signed => UNCHANGED closing
  BY <1>2, <1>3, REJFields, Zenon
<1>6. read'.client = m.n /\ m.n \in Nat /\ m.n # 0 /\ cli.kex \in Nat
  BY <1>1, <1>2, <1>3 DEF HandshakeShape
<1>7. cli.last = m.n
  BY <1>2, <1>4, Zenon DEF KInv, TurnsOK
<1>8. m.n <= 2 /\ (m.n >= 2 => m.prof)
  <2>1. PICK p \in net.client : p.body = m
    BY <1>1, <1>2, <1>3, Zenon DEF HandshakeShape
  <2> QED
    BY <2>1, Zenon DEF Accepting, UsefulOK, UsefulAnswer
<1>9. cli'.proof = cli'.signed
  BY <1>5, <1>7, Zenon DEF Accepting, ProgressOK
<1>10. ProgressOK'
  <2>1. cli'.cert = "cur" => cli'.verified
    <3>1. CASE m.prof
      BY <1>5, <1>6, <3>1, Zenon
    <3>2. CASE ~ m.prof
      BY <1>5, <3>2, Zenon DEF Accepting, ProgressOK
    <3> QED
      BY <3>1, <3>2, Zenon
  <2>2. cli'.nonc = "cur"
    BY <1>5, Zenon DEF Accepting, ProgressOK
  <2>3. read'.client >= 2 => cli'.cert = "cur"
    BY <1>5, <1>6, <1>8, Zenon
  <2>4. Usable'
    BY <1>2, Zenon DEF Accepting, ProgressOK, Usable
  <2>5. cli'.kex > 0
    BY <1>5, <1>6
  <2> QED
    BY <1>4, <1>5, <1>6, <1>8, <1>9, <2>1, <2>2, <2>3, <2>4, <2>5, Zenon DEF ProgressOK
<1>11. UsefulOK'
  BY <1>2, Zenon DEF Accepting, UsefulOK, UsefulHello, UsefulAnswer
<1>12. EncryptedOK'
  <2>1. ~ params.client.negotiated /\ ~ params.server.negotiated
    BY <1>4, Zenon DEF Accepting, EncryptedOK
  <2> QED
    BY <1>2, <2>1, Zenon DEF Accepting, EncryptedOK
<1>13. HonestNeverFails'
  BY <1>2, <1>5, <1>9, Zenon DEF Accepting, HonestNeverFails, Usable
<1> QED
  BY <1>10, <1>11, <1>12, <1>13, Zenon DEF Accepting

\* The SHLO arrived encrypted, and is the only one.
LEMMA SHLOAccepting ==
    ASSUME KInv, KInv', Accepting, NEW m, ClientReads(m), m.type # "REJ"
    PROVE  Accepting'
<1>1. "client" \in Side /\ "server" \in Side /\ "client" # "server"
  BY Zenon DEF Side
<1>2. /\ task.client = "select" /\ m \in inbox.client /\ m.n = read.client + 1
      /\ read' = [read EXCEPT !["client"] = m.n]
      /\ handleSHLOMessage(m) /\ UNCHANGED <<start, out, got, inbox, net, cli>>
  BY Zenon DEF ClientReads, ReadNext, loop, handleSHLOMessage
<1>3. HandshakeShape
  BY Zenon DEF KInv
<1>4. AnswerOK(m) /\ m.type = "SHLO"
  BY <1>2, InboxOK, Zenon
<1>5. Keyed /\ m.n = read.server /\ read.client \in Nat
  BY <1>1, <1>3, <1>4, Zenon DEF AnswerOK, HandshakeShape
<1>6. got.client.secure
  BY <1>2, <1>4, Zenon DEF Accepting, EncryptedOK
<1>7. ~ params.client.negotiated
  BY <1>2, <1>5 DEF Accepting, EncryptedOK
<1>8. /\ key' = [key EXCEPT !.client.forward = {ClientKey(TRUE)}]
      /\ SetFromMap("client", m.icsl) /\ UNCHANGED closing
  BY <1>2, <1>6, <1>7, Zenon DEF handleSHLOMessage
<1>9. /\ DOMAIN key = Side /\ DOMAIN params = Side
      /\ DOMAIN read' = Side /\ read'.client = read.server /\ read'.server = read.server
  BY <1>1, <1>2, <1>3, <1>5, Zenon DEF HandshakeShape
<1>10. Keyed'
  BY <1>1, <1>5, <1>8, <1>9, Zenon DEF Keyed
<1>11. params'.server = params.server
  BY <1>1, <1>8, <1>9, Zenon DEF SetFromMap
<1>12. ProgressOK'
  BY <1>2, <1>5, <1>10, Zenon DEF Accepting, ProgressOK, Usable
<1>13. UsefulOK'
  BY <1>2, Zenon DEF Accepting, UsefulOK, UsefulHello, UsefulAnswer
<1>14. EncryptedOK'
  BY <1>2, <1>9, <1>10, <1>11, Zenon DEF Accepting, EncryptedOK
<1>15. HonestNeverFails'
  BY <1>2, <1>8, Zenon DEF Accepting, HonestNeverFails, Usable
<1> QED
  BY <1>12, <1>13, <1>14, <1>15, Zenon DEF Accepting

\* The third CHLO is accepted, and no fourth is sent.
LEMMA SendCHLOAccepting ==
    ASSUME KInv, Accepting, ClientTop, sendCHLO
    PROVE  Accepting'
<1>1. "client" \in Side /\ "server" \in Side /\ "client" # "server"
  BY Zenon DEF Side
<1>2. /\ task.client = "top" /\ ~ CanUpgrade /\ key.client.secure = {}
      /\ UNCHANGED <<start, key, read, params, net, inbox, pkt, got, run>>
      /\ cli' = [cli EXCEPT !.hellos = @ + 1]
  BY Zenon DEF ClientTop, sendCHLO, loop
<1>3. HandshakeShape
  BY Zenon DEF KInv
<1>4. ~ Keyed
  BY <1>2, Zenon DEF KInv, AgreedOK, CanUpgrade, Accepting, ProgressOK
<1>5. cli.hellos = read.client /\ read.client \in Nat /\ read.client <= 2
  BY <1>1, <1>2, <1>3, <1>4, Zenon DEF KInv, TurnsOK, HandshakeShape, Accepting, ProgressOK
<1>6. cli.hellos < MaxClientHellos
  BY <1>5, CryptoHandshakeAssumption
<1>7. /\ out' = [out EXCEPT !["client"] = CHLO] /\ Goto("client", "write") /\ UNCHANGED closing
  BY <1>6, Zenon DEF sendCHLO
<1>8. /\ out'.client = CHLO /\ out'.server = out.server /\ task'.client = "write"
  BY <1>1, <1>3, <1>7, Zenon DEF HandshakeShape, Goto
<1>9. /\ CHLO.type = "CHLO" /\ CHLO.n = cli.hellos + 1
      /\ CHLO.stk = cli.stk /\ CHLO.scid = cli.scfg
      /\ CHLO.pubs = IF cli.scfg # "none" /\ cli.cert # "none" THEN cli.kex ELSE 0
      /\ CHLO.xlct = IF cli.scfg # "none" /\ cli.cert # "none" THEN cli.cert ELSE "none"
      /\ CHLO.nonc = IF cli.scfg # "none" /\ cli.cert # "none" THEN cli.nonc ELSE "none"
  BY Zenon DEF CHLO
<1>10. UsefulHello(CHLO)
  <2>1. CHLO.pubs # 0 => CHLO.nonc = CHLO.scid
    BY <1>9, Zenon DEF Accepting, ProgressOK
  <2>2. CHLO.n >= 2 => CHLO.stk = "good"
    BY <1>4, <1>5, <1>9 DEF Accepting, ProgressOK
  <2>3. CHLO.n >= 3 => CHLO.pubs # 0 /\ CHLO.scid = "cur" /\ CHLO.xlct = "cur"
    BY <1>3, <1>4, <1>5, <1>9 DEF Accepting, ProgressOK, HandshakeShape
  <2> QED
    BY <2>1, <2>2, <2>3, Zenon DEF UsefulHello
<1>11. /\ cli'.kex = cli.kex /\ cli'.stk = cli.stk /\ cli'.scfg = cli.scfg /\ cli'.cert = cli.cert
       /\ cli'.nonc = cli.nonc /\ cli'.verified = cli.verified /\ cli'.proof = cli.proof
       /\ cli'.signed = cli.signed
  BY <1>2, <1>3, Zenon DEF HandshakeShape, CliFields
<1>12. Keyed' = Keyed
  BY <1>2, Zenon DEF Keyed
<1>13. UsefulHello(out'.client) /\ UsefulAnswer(out'.server)
  BY <1>8, <1>10, Zenon DEF Accepting, UsefulOK
<1>14. \A x \in inbox'.client : x.type = "SHLO" => got'.client.secure
  BY <1>2, Zenon DEF Accepting, EncryptedOK
<1> QED
  BY <1>2, <1>7, <1>8, <1>11, <1>12, <1>13, <1>14, AcceptingStep, Zenon

\* The server rejects no third CHLO, and accepts one without failing.
LEMMA ServerReadsAccepting ==
    ASSUME KInv, Accepting, NEW m, ServerReads(m)
    PROVE  Accepting'
<1>1. "client" \in Side /\ "server" \in Side /\ "client" # "server"
  BY Zenon DEF Side
<1>2. /\ task.server = "select" /\ m \in inbox.server /\ ReadNext("server", m)
      /\ read' = [read EXCEPT !["server"] = m.n]
      /\ UNCHANGED <<start, cli, net>> /\ UNCHANGED <<run, pkt, got, inbox>>
  BY Zenon DEF ServerReads, ReadNext, loop
<1>3. HandshakeShape
  BY Zenon DEF KInv
<1>4. ~ Keyed
  BY <1>2, Zenon DEF KInv, AgreedOK
<1>5. /\ ~ params.client.negotiated /\ ~ params.server.negotiated
  BY <1>4, Zenon DEF Accepting, EncryptedOK
<1>6. UsefulHello(m) /\ m.type = "CHLO"
  <2>1. PICK p \in net.server : p.body = m
    BY <1>1, <1>2, <1>3, Zenon DEF HandshakeShape
  <2> QED
    BY <1>2, <2>1, InboxOK, Zenon DEF Accepting, UsefulOK
<1>7. read'.client = read.client
  BY <1>1, <1>2, <1>3, Zenon DEF HandshakeShape
<1>8. CASE isInchoateCHLO(m)
  <2>1. handleInchoateCHLO(m) /\ UNCHANGED <<key, params, closing>>
    BY <1>8, Zenon DEF ServerReads, handleInchoateCHLO
  <2>2. /\ out'.client = out.client /\ out'.server = REJ(m.n, acceptSTK(m))
        /\ task'.client = task.client
    BY <1>1, <1>3, <2>1, Zenon DEF handleInchoateCHLO, Goto, HandshakeShape
  <2>3. /\ REJ(m.n, acceptSTK(m)).type = "REJ" /\ REJ(m.n, acceptSTK(m)).n = m.n
        /\ REJ(m.n, acceptSTK(m)).prof = acceptSTK(m)
    BY Zenon DEF REJ
  <2>4. PICK p \in net.server : p.body = m
    BY <1>1, <1>2, <1>3, Zenon DEF HandshakeShape
  <2>5. m.n \in Nat
    BY <1>2, <1>3, <1>6, InboxOK DEF HelloOK, HandshakeShape
  <2>6. UsefulAnswer(REJ(m.n, acceptSTK(m)))
    <3>1. m.n >= 2 => acceptSTK(m)
      BY <1>6, Zenon DEF UsefulHello, acceptSTK, DecodeToken
    <3>2. m.n <= 2
      BY <1>6, <1>8, <2>5, <3>1 DEF UsefulHello, isInchoateCHLO
    <3> QED
      BY <2>3, <3>1, <3>2, Zenon DEF UsefulAnswer
  <2>7. ~ Keyed'
    BY <1>4, <2>1, Zenon DEF Keyed
  <2>8. ProgressOK'
    BY <1>2, <1>4, <1>7, <2>2, <2>7, Zenon DEF Accepting, ProgressOK, Usable
  <2>9. UsefulOK'
    <3>1. UsefulHello(out'.client) /\ UsefulAnswer(out'.server)
      BY <2>2, <2>6, Zenon DEF Accepting, UsefulOK
    <3> QED
      BY <1>2, <3>1, Zenon DEF Accepting, UsefulOK, UsefulHello, UsefulAnswer
  <2>10. EncryptedOK'
    BY <1>2, <1>5, <2>1, Zenon DEF Accepting, EncryptedOK
  <2>11. HonestNeverFails'
    BY <1>2, <2>1, Zenon DEF Accepting, HonestNeverFails, Usable
  <2> QED
    BY <2>8, <2>9, <2>10, <2>11, Zenon DEF Accepting
<1>9. CASE ~ isInchoateCHLO(m)
  <2>1. handleCHLO(m)
    BY <1>9, Zenon DEF ServerReads
  <2>2. validateClientNonce(m)
    BY <1>6, <1>9, Zenon DEF UsefulHello, isInchoateCHLO, validateClientNonce, generateClientNonce
  <2>3. task.client # "ended" => cli.cert = "cur"
    BY <1>2, <1>5, <1>9, <2>1, <2>2, AcceptKeeps, Zenon
  <2>4. PICK t : /\ key' = [key EXCEPT !.server = [secure |-> {ServerKey(m, FALSE)},
                                                   forward |-> {ServerKey(m, TRUE)}]]
                 /\ SetFromMap("server", m.icsl)
                 /\ out' = [out EXCEPT !.server = SHLO(m.n, t)]
                 /\ Goto("server", "write") /\ UNCHANGED closing
    BY <1>5, <2>1, <2>2, Zenon DEF handleCHLO
  <2>5. /\ out'.client = out.client /\ out'.server = SHLO(m.n, t) /\ task'.client = task.client
        /\ params'.client = params.client
    BY <1>1, <1>3, <2>4, Zenon DEF Goto, SetFromMap, HandshakeShape
  <2>6. Keyed'
    <3>1. key'.server = [secure |-> {ServerKey(m, FALSE)}, forward |-> {ServerKey(m, TRUE)}]
      BY <1>1, <1>3, <2>4, Zenon DEF HandshakeShape
    <3>2. key'.server.secure = {ServerKey(m, FALSE)}
      BY <3>1
    <3> QED
      BY <3>2, Zenon DEF Keyed
  <2>7. SHLO(m.n, t).type = "SHLO"
    BY Zenon DEF SHLO
  <2>8. ProgressOK'
    BY <1>2, <2>3, <2>5, <2>6, Zenon DEF Accepting, ProgressOK, Usable
  <2>9. UsefulOK'
    <3>1. UsefulHello(out'.client) /\ UsefulAnswer(out'.server)
      BY <2>5, <2>7, Zenon DEF Accepting, UsefulOK, UsefulAnswer
    <3> QED
      BY <1>2, <3>1, Zenon DEF Accepting, UsefulOK, UsefulHello, UsefulAnswer
  <2>10. EncryptedOK'
    BY <1>2, <1>5, <2>5, <2>6, Zenon DEF Accepting, EncryptedOK
  <2>11. HonestNeverFails'
    BY <1>2, <2>4, Zenon DEF Accepting, HonestNeverFails, Usable
  <2> QED
    BY <2>8, <2>9, <2>10, <2>11, Zenon DEF Accepting
<1> QED
  BY <1>8, <1>9, Zenon

\* The SHLO is sent with the secure key.
LEMMA SendCryptoAccepting ==
    ASSUME KInv, Accepting, NEW s \in Side, SendCrypto(s)
    PROVE  Accepting'
<1>1. "client" \in Side /\ "server" \in Side /\ "client" # "server"
  BY Zenon DEF Side
<1>2. HandshakeShape
  BY Zenon DEF KInv
<1>3. PICK new : /\ new.body = out[s] /\ new.level = GetSealerForCryptoStream(s)
                 /\ SendTo(Other(s), new)
  <2> DEFINE new == Packet(GetSealerForCryptoStream(s), KeyOf(s, GetSealerForCryptoStream(s)), out[s])
  <2>1. new.body = out[s] /\ new.level = GetSealerForCryptoStream(s)
    BY Zenon DEF Packet
  <2>2. SendTo(Other(s), new)
    BY Zenon DEF SendCrypto
  <2> QED
    BY <2>1, <2>2, Zenon
<1>4. /\ task[s] = "write"
      /\ Goto(s, IF out[s].type = "SHLO" THEN "wrote" ELSE "select")
      /\ cli' = IF s = "client" THEN [cli EXCEPT !.last = out[s].n] ELSE cli
      /\ UNCHANGED <<start, key, out, read, params, got, inbox, closing>>
  BY Zenon DEF SendCrypto
<1>5. /\ DOMAIN net' = Side
      /\ \A t \in Side : net'[t] = IF t = Other(s) THEN net[t] \cup {new} ELSE net[t]
  BY <1>2, <1>3, Zenon DEF SendTo, HandshakeShape
<1>6. /\ cli'.kex = cli.kex /\ cli'.stk = cli.stk /\ cli'.scfg = cli.scfg /\ cli'.cert = cli.cert
      /\ cli'.nonc = cli.nonc /\ cli'.verified = cli.verified /\ cli'.proof = cli.proof
      /\ cli'.signed = cli.signed
  BY <1>2, <1>4, Zenon DEF HandshakeShape, CliFields
<1>7. task.client # "ended" \/ task'.client = "ended"
  BY <1>1, <1>2, <1>4, Zenon DEF Goto, HandshakeShape
<1>8. Keyed' = Keyed
  BY <1>4, Zenon DEF Keyed
<1>9. out[s].type \in Messages /\ out[s].type # "data"
  BY <1>2, <1>4, Zenon DEF HandshakeShape, Messages
<1>10. \A p \in net'.server : p \in net.server \/ UsefulHello(p.body)
  BY <1>1, <1>3, <1>5, Zenon DEF Other, Side, Accepting, UsefulOK
<1>11. \A p \in net'.client : \/ p \in net.client
                              \/ UsefulAnswer(p.body) /\ (p.body.type = "SHLO" => p.level = Secure)
  <2>1. CASE s = "server"
    <3>1. out.server.type = "SHLO" => Keyed
      BY Zenon DEF KInv, MessagesOK, AnswerOK
    <3>2. Keyed => GetSealerForCryptoStream("server") = Secure
      BY Zenon DEF Keyed, GetSealerForCryptoStream
    <3> QED
      BY <1>1, <1>3, <1>5, <2>1, <3>1, <3>2, Zenon DEF Other, Accepting, UsefulOK
  <2>2. CASE s # "server"
    BY <1>1, <1>5, <2>2, Zenon DEF Other, Side
  <2> QED
    BY <2>1, <2>2, Zenon
<1>12. \A t \in Side : \A p \in net'[t] :
          p \in net[t] \/ (p.body.type = "data" => p.level # Unencrypted)
  BY <1>3, <1>5, <1>9, Zenon
<1>13. UsefulHello(out'.client) /\ UsefulAnswer(out'.server)
  BY <1>4, Zenon DEF Accepting, UsefulOK
<1>14. \A x \in inbox'.client : x.type = "SHLO" => got'.client.secure
  BY <1>4, Zenon DEF Accepting, EncryptedOK
<1> QED
  BY <1>4, <1>6, <1>7, <1>8, <1>10, <1>11, <1>12, <1>13, <1>14, AcceptingStep, Zenon

\* Steps that send nothing and open nothing.
LEMMA QuietAccepting ==
    ASSUME KInv, Accepting, UNCHANGED <<start, read, params, out, net, got>>,
           key'.server = key.server, task'.client = "ended" \/ task.client # "ended",
           \/ UNCHANGED cli
           \/ cli' = [cli EXCEPT !.divNonce = TRUE],
           inbox'.client \subseteq inbox.client,
           \A s \in Side : closing'[s] = closing[s] \/ closing'[s] \notin {"handshake", "unencrypted"}
    PROVE  Accepting'
<1>1. /\ cli'.kex = cli.kex /\ cli'.stk = cli.stk /\ cli'.scfg = cli.scfg /\ cli'.cert = cli.cert
      /\ cli'.nonc = cli.nonc /\ cli'.verified = cli.verified /\ cli'.proof = cli.proof
      /\ cli'.signed = cli.signed
  BY Zenon DEF KInv, HandshakeShape, CliFields
<1>2. Keyed' = Keyed
  BY Zenon DEF Keyed
<1>3. UsefulHello(out'.client) /\ UsefulAnswer(out'.server)
  BY Zenon DEF Accepting, UsefulOK
<1>4. \A x \in inbox'.client : x.type = "SHLO" => got'.client.secure
  BY Zenon DEF Accepting, EncryptedOK
<1> QED
  BY <1>1, <1>2, <1>3, <1>4, AcceptingStep, Zenon

\* The steps of the two crypto goroutines.
LEMMA CryptoAccepting ==
    ASSUME KInv, KInv', Accepting, NEW s \in Side, Crypto(s)
    PROVE  Accepting'
<1>1. "client" \in Side /\ "server" \in Side /\ "client" # "server"
  BY Zenon DEF Side
<1>2. HandshakeShape
  BY Zenon DEF KInv
<1>3. CASE Reads(s)
  <2>1. CASE s = "client"
    BY <1>3, <2>1, REJAccepting, SHLOAccepting, Zenon DEF Reads
  <2>2. CASE s # "client"
    BY <1>3, <2>2, ServerReadsAccepting, Zenon DEF Reads
  <2> QED
    BY <2>1, <2>2, Zenon
<1>4. CASE ClientTop
  <2>1. CASE sendCHLO
    BY <1>4, <2>1, SendCHLOAccepting, Zenon
  <2>2. CASE ~ sendCHLO
    <3>1. /\ UNCHANGED <<start, read, params, out, net, got, cli, inbox, closing>>
          /\ task.client = "top"
          /\ \/ key' = [key EXCEPT !.client.secure = {ClientKey(FALSE)}]
             \/ key' = key
      BY <1>4, <2>2, Zenon DEF ClientTop, maybeUpgradeCrypto, loop
    <3>2. key'.server = key.server
      BY <1>1, <1>2, <3>1, Zenon DEF HandshakeShape
    <3> QED
      BY <3>1, <3>2, QuietAccepting, Zenon
  <2> QED
    BY <2>1, <2>2, Zenon
<1>5. CASE AnnounceForwardSecure \/ CloseSentSHLO
  <2>1. /\ UNCHANGED <<start, read, params, out, net, got, cli, inbox, closing, key>>
        /\ \/ task' = [task EXCEPT !["server"] = "announced"]
           \/ task' = [task EXCEPT !["server"] = "ended"]
    BY <1>5, Zenon DEF AnnounceForwardSecure, CloseSentSHLO, Goto, loop
  <2>2. task'.client = task.client
    BY <1>1, <1>2, <2>1, Zenon DEF HandshakeShape
  <2> QED
    BY <2>1, <2>2, QuietAccepting, Zenon
<1> QED
  BY <1>3, <1>4, <1>5, Zenon DEF Crypto

\* No data is sent unencrypted.
LEMMA SendDataAccepting ==
    ASSUME KInv, Accepting, NEW s \in Side, SendData(s)
    PROVE  Accepting'
<1>1. "client" \in Side /\ "server" \in Side /\ "client" # "server"
  BY Zenon DEF Side
<1>2. HandshakeShape
  BY Zenon DEF KInv
<1>3. PICK new : new.body = Data /\ new.level = GetSealer(s) /\ SendTo(Other(s), new)
  <2> DEFINE new == Packet(GetSealer(s), KeyOf(s, GetSealer(s)), Data)
  <2>1. new.body = Data /\ new.level = GetSealer(s)
    BY Zenon DEF Packet
  <2>2. SendTo(Other(s), new)
    BY Zenon DEF SendData
  <2> QED
    BY <2>1, <2>2, Zenon
<1>4. UNCHANGED <<start, cli, key, read, out, params, inbox, got, task, closing>>
  BY Zenon DEF SendData, setup
<1>5. new.level # Unencrypted
  <2>1. canSendData(s, GetSealer(s))
    BY Zenon DEF SendData
  <2> QED
    BY <1>3, <2>1 DEF canSendData, Unencrypted, Secure, ForwardSecure
<1>6. \A t \in Side : net'[t] = IF t = Other(s) THEN net[t] \cup {new} ELSE net[t]
  BY <1>2, <1>3, Zenon DEF SendTo, HandshakeShape
<1>7. new.body.type = "data"
  BY <1>3 DEF Data
<1>8. /\ \A p \in net'.server : p \in net.server \/ UsefulHello(p.body)
      /\ \A p \in net'.client : \/ p \in net.client
                                \/ UsefulAnswer(p.body) /\ (p.body.type = "SHLO" => p.level = Secure)
  BY <1>1, <1>6, <1>7, Zenon DEF UsefulHello, UsefulAnswer
<1>9. \A t \in Side : \A p \in net'[t] :
         p \in net[t] \/ (p.body.type = "data" => p.level # Unencrypted)
  BY <1>5, <1>6, Zenon
<1>10. Keyed' = Keyed
  BY <1>4, Zenon DEF Keyed
<1>11. UsefulHello(out'.client) /\ UsefulAnswer(out'.server)
  BY <1>4, Zenon DEF Accepting, UsefulOK
<1>12. \A x \in inbox'.client : x.type = "SHLO" => got'.client.secure
  BY <1>4, Zenon DEF Accepting, EncryptedOK
<1> QED
  BY <1>4, <1>8, <1>9, <1>10, <1>11, <1>12, AcceptingStep, Zenon

\* The end of a session tells the peer that it is closed.
LEMMA EndedAccepting ==
    ASSUME KInv, Accepting, NEW s \in Side, NEW why, Ended(s, why),
           why \notin {"handshake", "unencrypted"}
    PROVE  Accepting'
<1>1. "client" \in Side /\ "server" \in Side /\ "client" # "server"
  BY Zenon DEF Side
<1>2. HandshakeShape
  BY Zenon DEF KInv
<1>3. PICK told : /\ net' = [net EXCEPT ![Other(s)] = @ \cup told]
                  /\ \A p \in told : p.body.type \in {"reset", "close"}
  BY EndedTells, Zenon
<1>4. /\ UNCHANGED <<start, cli, key, read, params, got>>
      /\ closing' = [closing EXCEPT ![s] = why]
      /\ task' = [task EXCEPT ![s] = "ended"] /\ out' = [out EXCEPT ![s] = Data]
      /\ inbox' = [inbox EXCEPT ![s] = {}]
  BY Zenon DEF Ended
<1>5. \A t \in Side : net'[t] = IF t = Other(s) THEN net[t] \cup told ELSE net[t]
  BY <1>2, <1>3, Zenon DEF HandshakeShape
<1>6. \A p \in told : /\ UsefulHello(p.body) /\ UsefulAnswer(p.body)
                      /\ p.body.type # "SHLO" /\ p.body.type # "data"
  BY <1>3, Zenon DEF UsefulHello, UsefulAnswer
<1>7. /\ \A p \in net'.server : p \in net.server \/ UsefulHello(p.body)
      /\ \A p \in net'.client : \/ p \in net.client
                                \/ UsefulAnswer(p.body) /\ (p.body.type = "SHLO" => p.level = Secure)
  BY <1>1, <1>5, <1>6, Zenon
<1>8. \A t \in Side : \A p \in net'[t] :
         p \in net[t] \/ (p.body.type = "data" => p.level # Unencrypted)
  BY <1>5, <1>6, Zenon
<1>9. Keyed' = Keyed
  BY <1>4, Zenon DEF Keyed
<1>10. UsefulHello(out'.client) /\ UsefulAnswer(out'.server)
  <2>1. Data.type = "data"
    BY Zenon DEF Data
  <2>2. out'.client \in {out.client, Data} /\ out'.server \in {out.server, Data}
    BY <1>1, <1>2, <1>4, Zenon DEF HandshakeShape
  <2> QED
    BY <2>1, <2>2, Zenon DEF Accepting, UsefulOK, UsefulHello, UsefulAnswer
<1>11. \A x \in inbox'.client : x.type = "SHLO" => got'.client.secure
  <2>1. inbox'.client \subseteq inbox.client
    BY <1>1, <1>2, <1>4, Zenon DEF HandshakeShape
  <2> QED
    BY <1>4, <2>1, Zenon DEF Accepting, EncryptedOK
<1>12. /\ task'.client = "ended" \/ task.client # "ended"
       /\ \A t \in Side : closing'[t] = closing[t] \/ closing'[t] \notin {"handshake", "unencrypted"}
  BY <1>1, <1>2, <1>4, Zenon DEF HandshakeShape
<1> QED
  BY <1>4, <1>7, <1>8, <1>9, <1>10, <1>11, <1>12, AcceptingStep, Zenon

\* The frames of a packet that was opened are in order.
LEMMA FramesAccepting ==
    ASSUME KInv, Accepting, NEW s \in Side, NEW p \in net[s],
           UNCHANGED <<start, cli, key, read, out, params, net, task>>,
           \/ handleFrames(s, p)
           \/ UNCHANGED <<inbox, closing>>,
           got.client.secure => got'.client.secure,
           s = "client" /\ p.body.type = "SHLO" => got'.client.secure \/ UNCHANGED inbox
    PROVE  Accepting'
<1>1. "client" \in Side /\ "server" \in Side /\ "client" # "server"
  BY Zenon DEF Side
<1>2. HandshakeShape
  BY Zenon DEF KInv
<1>3. \A t \in Side : closing'[t] = closing[t] \/ closing'[t] \notin {"handshake", "unencrypted"}
  <2>1. CASE UNCHANGED <<inbox, closing>>
    BY <2>1, Zenon
  <2>2. CASE handleFrames(s, p)
    <3>1. ~ UnencryptedStreamData(p)
      BY Zenon DEF UnencryptedStreamData, Accepting, EncryptedOK
    <3>2. UNCHANGED closing \/ Close(s, "remote")
      BY <2>2, <3>1, Zenon DEF handleFrames
    <3> QED
      BY <1>2, <3>2 DEF Close, HandshakeShape
  <2> QED
    BY <2>1, <2>2, Zenon
<1>4. \A x \in inbox'.client : x.type = "SHLO" => got'.client.secure
  <2>1. \A x \in inbox.client : x.type = "SHLO" => got'.client.secure
    BY Zenon DEF Accepting, EncryptedOK
  <2>2. CASE UNCHANGED inbox
    BY <2>1, <2>2, Zenon
  <2>3. CASE handleFrames(s, p) /\ ~ UNCHANGED inbox
    <3>1. \A x \in inbox'.client : x \in inbox.client \/ (s = "client" /\ x = p.body)
      BY <1>1, <1>2, <2>3, Zenon DEF handleFrames, HandshakeShape
    <3> QED
      BY <2>1, <2>3, <3>1, Zenon
  <2> QED
    BY <2>2, <2>3, Zenon
<1>5. Keyed' = Keyed
  BY Zenon DEF Keyed
<1>6. UsefulHello(out'.client) /\ UsefulAnswer(out'.server)
  BY Zenon DEF Accepting, UsefulOK
<1> QED
  BY <1>3, <1>4, <1>5, <1>6, AcceptingStep, Zenon

\* An SHLO that is opened at all was encrypted.
LEMMA OpenAccepting ==
    ASSUME KInv, Accepting, NEW s \in Side, NEW p \in net[s], OpenPacket(s, p)
    PROVE  Accepting'
<1>1. "client" \in Side /\ "server" \in Side /\ "client" # "server"
  BY Zenon DEF Side
<1>2. HandshakeShape
  BY Zenon DEF KInv
<1>3. UNCHANGED <<start, cli, key, read, out, params, net, task>>
  BY Zenon DEF OpenPacket, setup
<1>4. handleFrames(s, p) \/ UNCHANGED <<inbox, closing>>
  BY Zenon DEF OpenPacket
<1>5. CASE OpenLevel(s, p) = Fail
  <2>1. UNCHANGED <<got, inbox, closing>>
    BY <1>5, Zenon DEF OpenPacket
  <2> QED
    BY <1>3, <2>1, FramesAccepting, Zenon
<1>6. CASE OpenLevel(s, p) # Fail
  <2> DEFINE new == [secure |-> got[s].secure \/ OpenLevel(s, p) = Secure,
                     forward |-> got[s].forward \/ OpenLevel(s, p) = ForwardSecure]
  <2>1. got' = [got EXCEPT ![s] = new]
    BY <1>6, Zenon DEF OpenPacket
  <2>2. new.secure = (got[s].secure \/ OpenLevel(s, p) = Secure)
    BY Zenon
  <2> HIDE DEF new
  <2>3. got'.client = IF s = "client" THEN new ELSE got.client
    BY <1>1, <1>2, <2>1, Zenon DEF HandshakeShape
  <2>4. got.client.secure => got'.client.secure
    BY <2>2, <2>3, Zenon
  <2>5. s = "client" /\ p.body.type = "SHLO" => OpenLevel(s, p) = Secure
    <3>1. s = "client" /\ p.body.type = "SHLO" => p.level = Secure
      BY Zenon DEF Accepting, EncryptedOK
    <3> QED
      BY <1>6, <3>1, Zenon DEF OpenLevel, ClientOpen, Opens, Secure, ForwardSecure, Unencrypted, Fail
  <2>6. s = "client" /\ p.body.type = "SHLO" => got'.client.secure
    BY <2>2, <2>3, <2>5, Zenon
  <2> QED
    BY <1>3, <1>4, <2>4, <2>6, FramesAccepting, Zenon
<1> QED
  BY <1>5, <1>6, Zenon

\* The steps of the two run loops.
LEMMA RunLoopAccepting ==
    ASSUME KInv, Accepting, NEW s \in Side,
           RunLoop(s) \/ Timeout(s) \/ (\E p \in net[s] : Receive(s, p)) \/ ReceiveReset
    PROVE  Accepting'
<1>1. "client" \in Side /\ "server" \in Side /\ "client" # "server"
  BY Zenon DEF Side
<1>2. HandshakeShape
  BY Zenon DEF KInv
<1>3. CASE SendCrypto(s)
  BY <1>3, SendCryptoAccepting, Zenon
<1>4. CASE ReceiveLevel(s) \/ HandshakeComplete(s)
  <2>1. UNCHANGED <<start, read, params, out, net, got, cli, inbox, closing, key, task>>
    BY <1>4, Zenon DEF ReceiveLevel, HandshakeComplete, setup
  <2>2. task'.client = "ended" \/ task.client # "ended"
    BY <2>1, Zenon
  <2> QED
    BY <2>1, <2>2, QuietAccepting, Zenon
<1>5. CASE Stop(s)
  <2>1. closing[s] \notin {"handshake", "unencrypted"}
    BY Zenon DEF Accepting, ProgressOK, HonestNeverFails
  <2> QED
    BY <1>5, <2>1, EndedAccepting, Zenon DEF Stop
<1>6. CASE SetDiversificationNonce
  <2>1. /\ UNCHANGED <<start, read, params, out, net, got, inbox, closing, key>>
        /\ task.client = "select" /\ cli' = [cli EXCEPT !.divNonce = TRUE]
    BY <1>6, Zenon DEF SetDiversificationNonce
  <2> QED
    BY <2>1, QuietAccepting, Zenon
<1>7. CASE ClientOpens
  <2>1. PICK p \in pkt.client : OpenPacket("client", p)
    BY <1>7, Zenon DEF ClientOpens
  <2>2. p \in net.client
    BY <1>1, <1>2, Zenon DEF HandshakeShape
  <2> QED
    BY <1>1, <2>1, <2>2, OpenAccepting, Zenon
<1>8. CASE SHLOWasSent
  <2>1. PICK p \in pkt.server : handleFrames("server", p)
    BY <1>8, Zenon DEF SHLOWasSent
  <2>2. p \in net.server
    BY <1>1, <1>2, Zenon DEF HandshakeShape
  <2>3. UNCHANGED <<start, cli, key, read, out, params, net, task>> /\ UNCHANGED got
    BY <1>8, Zenon DEF SHLOWasSent, setup
  <2> QED
    BY <1>1, <2>1, <2>2, <2>3, FramesAccepting, Zenon
<1>9. CASE Timeout(s)
  BY <1>9, EndedAccepting, Zenon DEF Timeout
<1>10. CASE \E p \in net[s] : Receive(s, p)
  <2>1. PICK p \in net[s] : Receive(s, p)
    BY <1>10, Zenon
  <2>2. CASE HasNonce(s, p)
    <3>1. UNCHANGED <<start, cli, key, read, out, params, net, task>> /\ UNCHANGED <<got, inbox, closing>>
      BY <2>1, <2>2, Zenon DEF Receive, setup
    <3> QED
      BY <3>1, FramesAccepting, Zenon
  <2>3. CASE ~ HasNonce(s, p)
    BY <2>1, <2>3, OpenAccepting, Zenon DEF Receive
  <2> QED
    BY <2>2, <2>3, Zenon
<1>11. CASE ReceiveReset
  <2>1. UNCHANGED <<start, read, params, out, net, got, cli, inbox, key, task>> /\ Close("client", "remote")
    BY <1>11, Zenon DEF ReceiveReset, setup, loop
  <2>2. \A t \in Side : closing'[t] = closing[t] \/ closing'[t] \notin {"handshake", "unencrypted"}
    BY <1>2, <2>1, Zenon DEF Close, HandshakeShape
  <2>3. task'.client = "ended" \/ task.client # "ended"
    BY <2>1, Zenon
  <2> QED
    BY <2>1, <2>2, <2>3, QuietAccepting, Zenon
<1> QED
  BY <1>3, <1>4, <1>5, <1>6, <1>7, <1>8, <1>9, <1>10, <1>11, Zenon DEF RunLoop, Select

\* The cache of the beginning is only remembered.
LEMMA StartStays == [Next]_vars => UNCHANGED start
<1> SUFFICES ASSUME [Next]_vars PROVE UNCHANGED start
  BY Zenon
<1>1. ASSUME NEW s \in Side, Crypto(s) PROVE UNCHANGED start
  BY <1>1, Zenon DEF Crypto, Reads, ClientReads, ServerReads, ClientTop, AnnounceForwardSecure,
              CloseSentSHLO
<1>2. ASSUME NEW s \in Side, NEW p, OpenPacket(s, p) PROVE UNCHANGED start
  BY <1>2, Zenon DEF OpenPacket
<1>3. ASSUME NEW s \in Side, NEW why, Ended(s, why) PROVE UNCHANGED start
  BY <1>3, Zenon DEF Ended
<1>4. ASSUME NEW s \in Side, Select(s) PROVE UNCHANGED start
  BY <1>4, Zenon DEF Select, SendCrypto, ReceiveLevel, HandshakeComplete
<1>5. ASSUME NEW s \in Side, RunLoop(s) PROVE UNCHANGED start
  BY <1>2, <1>3, <1>4, <1>5, Zenon DEF RunLoop, Stop, SetDiversificationNonce, ClientOpens, SHLOWasSent, Side
<1>6. ASSUME NEW s \in Side, SendData(s) \/ Timeout(s) PROVE UNCHANGED start
  BY <1>3, <1>6, Zenon DEF SendData, Timeout
<1>7. ASSUME NEW s \in Side, NEW p, Receive(s, p) PROVE UNCHANGED start
  BY <1>2, <1>7, Zenon DEF Receive
<1>8. CASE ReceiveReset \/ UNCHANGED vars
  BY <1>8, Zenon DEF ReceiveReset, vars
<1> QED
  BY <1>1, <1>5, <1>6, <1>7, <1>8, Zenon DEF Next

\* All the steps, when the cache was usable.
LEMMA UInvNext == KInv /\ KInv' /\ UInv /\ [Next]_vars => UInv'
<1> SUFFICES ASSUME KInv, KInv', UInv, [Next]_vars, Usable' PROVE Accepting'
  BY Zenon DEF UInv
<1>1. UNCHANGED start
  BY StartStays, Zenon
<1>2. Accepting
  BY <1>1, Zenon DEF UInv, Usable
<1>3. CASE Next
  BY <1>2, <1>3, CryptoAccepting, RunLoopAccepting, SendDataAccepting, Zenon DEF Next, Side
<1>4. CASE UNCHANGED vars
  <2>1. UNCHANGED <<start, read, params, out, net, got, cli, inbox, key, closing, task>>
    BY <1>4, Zenon DEF vars, setup, loop
  <2>2. task'.client = "ended" \/ task.client # "ended"
    BY <2>1, Zenon
  <2> QED
    BY <1>2, <2>1, <2>2, QuietAccepting, Zenon
<1> QED
  BY <1>3, <1>4, Zenon

\* From every cache that fits the server, or none, neither side refuses what the
\* other sends: three CHLOs are enough, every proof is for the CHLO it answers, no
\* SHLO arrives unencrypted or twice, and no data unencrypted.
THEOREM HonestNeverFail == Spec => []HonestNeverFails
<1>1. Init => UInv
  BY AcceptingInit, Zenon DEF UInv
<1>2. KInv /\ KInv' /\ UInv /\ [Next]_vars => UInv'
  BY UInvNext, Zenon
<1>3. UInv => HonestNeverFails
  BY Zenon DEF UInv, Accepting, HonestNeverFails
<1> QED
  BY <1>1, <1>2, <1>3, HandshakeInvariant, PTL DEF Spec

-----------------------------------------------------------------------------
(* The packets that are kept until their key is there.                     *)

Levels == {Secure, ForwardSecure}

\* Kept packets are packets of the network.
QueueShape ==
    /\ DOMAIN queue = Side /\ DOMAIN aeadChanged = Side
    /\ \A s \in Side : queue[s] \in Seq(net[s]) /\ aeadChanged[s] \in Seq(Levels)

\* NoLostWakeup is inductive once the queues are known to be sequences.
WInv == QueueShape /\ NoLostWakeup

\* A packet that a side has received takes no key away, and lets fewer packets pass.
LEMMA OpensLess ==
    ASSUME NEW s \in Side, NEW p, key'[s] = key[s],
           got[s].secure => got'[s].secure, got[s].forward => got'[s].forward
    PROVE  OpenLevel(s, p)' # Fail => OpenLevel(s, p) # Fail
<1>1. CASE s = "client"
  BY <1>1, Zenon DEF OpenLevel, ClientOpen, Opens, KeyOf, Fail, Unencrypted, Secure, ForwardSecure
<1>2. CASE s = "server"
  BY <1>2, Zenon DEF OpenLevel, ServerOpen, Opens, KeyOf, Fail, Unencrypted, Secure, ForwardSecure
<1> QED
  BY <1>1, <1>2, Zenon DEF Side

\* Sequences over a larger set, one element more, one less.
LEMMA SeqGrows ==
    ASSUME NEW A, NEW B, A \subseteq B, NEW q \in Seq(A)
    PROVE  q \in Seq(B)
OBVIOUS

LEMMA AppendIn ==
    ASSUME NEW A, NEW q \in Seq(A), NEW x \in A
    PROVE  Append(q, x) \in Seq(A)
OBVIOUS

LEMMA TailIn ==
    ASSUME NEW A, NEW q \in Seq(A), q # <<>>
    PROVE  Tail(q) \in Seq(A)
OBVIOUS

\* A step that empties the queue, announces a level, or opens no more packets than
\* before and keeps at most one that cannot be opened.
LEMMA WakeStep ==
    ASSUME WInv, DOMAIN queue' = Side, DOMAIN aeadChanged' = Side,
           \A s \in Side : aeadChanged'[s] \in Seq(Levels),
           \A s \in Side : net[s] \subseteq net'[s],
           \A s \in Side :
              \/ queue'[s] = <<>>
              \/ queue'[s] = queue[s] /\ aeadChanged'[s] # <<>>
              \/ /\ aeadChanged'[s] = aeadChanged[s]
                 /\ \A p : OpenLevel(s, p)' # Fail => OpenLevel(s, p) # Fail
                 /\ \/ queue'[s] = queue[s]
                    \/ \E p \in net[s] : /\ queue'[s] = Append(queue[s], p)
                                         /\ OpenLevel(s, p) = Fail
    PROVE  WInv'
<1>1. \A s \in Side : queue[s] \in Seq(net'[s])
  BY SeqGrows, Zenon DEF WInv, QueueShape
<1>2. ASSUME NEW s \in Side
      PROVE  /\ queue'[s] \in Seq(net'[s])
             /\ \A i \in DOMAIN queue'[s] : OpenLevel(s, queue[s][i])' # Fail => aeadChanged'[s] # <<>>
  <2>1. CASE queue'[s] = <<>>
    BY <2>1
  <2>2. CASE queue'[s] = queue[s] /\ aeadChanged'[s] # <<>>
    BY <1>1, <2>2, Zenon
  <2>3. CASE /\ aeadChanged'[s] = aeadChanged[s]
             /\ \A p : OpenLevel(s, p)' # Fail => OpenLevel(s, p) # Fail
             /\ queue'[s] = queue[s]
    <3>1. ASSUME NEW i \in DOMAIN queue'[s], OpenLevel(s, queue[s][i])' # Fail
          PROVE  aeadChanged'[s] # <<>>
      <4>1. PICK p : p = queue[s][i]
        BY Zenon
      <4>2. OpenLevel(s, p)' # Fail
        BY <2>3, <3>1, <4>1, Zenon
      <4>3. OpenLevel(s, queue[s][i]) # Fail
        BY <2>3, <4>1, <4>2, Zenon
      <4> QED
        BY <2>3, <4>3, Zenon DEF WInv, NoLostWakeup
    <3> QED
      BY <1>1, <2>3, <3>1, Zenon
  <2>4. CASE /\ aeadChanged'[s] = aeadChanged[s]
             /\ \A p : OpenLevel(s, p)' # Fail => OpenLevel(s, p) # Fail
             /\ \E p \in net[s] : queue'[s] = Append(queue[s], p) /\ OpenLevel(s, p) = Fail
    <3>1. PICK p \in net[s] : queue'[s] = Append(queue[s], p) /\ OpenLevel(s, p) = Fail
      BY <2>4, Zenon
    <3>2. queue'[s] \in Seq(net'[s])
      <4>1. p \in net'[s] /\ queue[s] \in Seq(net'[s])
        BY <1>1, <3>1, Zenon
      <4> QED
        BY <3>1, <4>1, AppendIn, Zenon
    <3>3. ASSUME NEW i \in DOMAIN queue'[s], OpenLevel(s, queue[s][i])' # Fail
          PROVE  aeadChanged'[s] # <<>>
      <4>1. PICK r : r = queue'[s][i]
        BY Zenon
      <4>2. OpenLevel(s, r)' # Fail
        BY <3>3, <4>1, Zenon
      <4>3. OpenLevel(s, r) # Fail
        BY <2>4, <4>2, Zenon
      <4>4. i \in DOMAIN queue[s] /\ queue[s][i] = r
        BY <1>1, <3>1, <4>1, <4>3
      <4> QED
        BY <2>4, <4>3, <4>4, Zenon DEF WInv, NoLostWakeup
    <3> QED
      BY <3>2, <3>3, Zenon
  <2> QED
    BY <2>1, <2>2, <2>3, <2>4, Zenon
<1> QED
  BY <1>2, Zenon DEF WInv, QueueShape, NoLostWakeup, Levels

\* Steps after which both sides open what they opened before.
LEMMA SettledWakes ==
    ASSUME WInv, UNCHANGED <<queue, aeadChanged, key, got>>,
           \A s \in Side : net[s] \subseteq net'[s]
    PROVE  WInv'
<1>1. ASSUME NEW s \in Side
      PROVE  \A p : OpenLevel(s, p)' # Fail => OpenLevel(s, p) # Fail
  BY <1>1, OpensLess, Zenon
<1> QED
  BY <1>1, WakeStep, Zenon DEF WInv, QueueShape

\* A new key is announced.
LEMMA AnnounceWakes ==
    ASSUME WInv, NEW s \in Side, NEW level \in Levels, Announce(s, level), UNCHANGED <<queue, got, net>>,
           \A t \in Side : t # s => key'[t] = key[t]
    PROVE  WInv'
<1>1. DOMAIN queue = Side /\ DOMAIN aeadChanged = Side /\ \A t \in Side : aeadChanged[t] \in Seq(Levels)
  BY Zenon DEF WInv, QueueShape
<1>2. /\ DOMAIN aeadChanged' = Side
      /\ \A t \in Side : aeadChanged'[t] = IF t = s THEN Append(aeadChanged[t], level) ELSE aeadChanged[t]
  BY <1>1, Zenon DEF Announce
<1>3. \A t \in Side : aeadChanged'[t] \in Seq(Levels)
  BY <1>1, <1>2
<1>4. aeadChanged'[s] # <<>>
  BY <1>1, <1>2
<1>5. ASSUME NEW t \in Side, t # s
      PROVE  \A p : OpenLevel(t, p)' # Fail => OpenLevel(t, p) # Fail
  BY <1>5, OpensLess, Zenon
<1> QED
  BY <1>1, <1>2, <1>3, <1>4, <1>5, WakeStep, Zenon

\* The packets that were kept are taken from the queue.
LEMMA EmptiedWakes ==
    ASSUME WInv, NEW s \in Side, queue' = [queue EXCEPT ![s] = <<>>], UNCHANGED <<key, got>>,
           \/ aeadChanged' = [aeadChanged EXCEPT ![s] = <<>>]
           \/ aeadChanged[s] # <<>> /\ aeadChanged' = [aeadChanged EXCEPT ![s] = Tail(@)],
           \A t \in Side : net[t] \subseteq net'[t]
    PROVE  WInv'
<1>1. DOMAIN queue = Side /\ DOMAIN aeadChanged = Side /\ \A t \in Side : aeadChanged[t] \in Seq(Levels)
  BY Zenon DEF WInv, QueueShape
<1>2. /\ DOMAIN aeadChanged' = Side /\ DOMAIN queue' = Side /\ queue'[s] = <<>>
      /\ \A t \in Side : t # s => aeadChanged'[t] = aeadChanged[t] /\ queue'[t] = queue[t]
  BY <1>1, Zenon
<1>3. \A t \in Side : aeadChanged'[t] \in Seq(Levels)
  <2>1. CASE aeadChanged' = [aeadChanged EXCEPT ![s] = <<>>]
    BY <1>1, <2>1
  <2>2. CASE aeadChanged[s] # <<>> /\ aeadChanged' = [aeadChanged EXCEPT ![s] = Tail(@)]
    <3>1. Tail(aeadChanged[s]) \in Seq(Levels)
      BY <1>1, <2>2, TailIn, Zenon
    <3> QED
      BY <1>1, <2>2, <3>1, Zenon
  <2> QED
    BY <2>1, <2>2, Zenon
<1>4. ASSUME NEW t \in Side
      PROVE  \A p : OpenLevel(t, p)' # Fail => OpenLevel(t, p) # Fail
  BY <1>4, OpensLess, Zenon
<1> QED
  BY <1>2, <1>3, <1>4, WakeStep, Zenon

\* A packet is kept only if there is no key for it.
LEMMA OpenWakes ==
    ASSUME HandshakeShape, WInv, NEW s \in Side, NEW p \in net[s], OpenPacket(s, p)
    PROVE  WInv'
<1>1. DOMAIN queue = Side /\ DOMAIN aeadChanged = Side /\ \A t \in Side : aeadChanged[t] \in Seq(Levels)
  BY Zenon DEF WInv, QueueShape
<1>2. UNCHANGED <<key, aeadChanged, net>>
  BY Zenon DEF OpenPacket, setup, channel
<1>3. CASE OpenLevel(s, p) = Fail
  <2>1. tryQueueingUndecryptablePacket(s, p) /\ UNCHANGED got
    BY <1>3, Zenon DEF OpenPacket
  <2>2. /\ DOMAIN queue' = Side /\ \A t \in Side : t # s => queue'[t] = queue[t]
        /\ queue'[s] = queue[s] \/ queue'[s] = Append(queue[s], p)
    BY <1>1, <2>1, Zenon DEF tryQueueingUndecryptablePacket
  <2>3. ASSUME NEW t \in Side
        PROVE  \A q : OpenLevel(t, q)' # Fail => OpenLevel(t, q) # Fail
    BY <1>2, <2>1, <2>3, OpensLess, Zenon
  <2> QED
    BY <1>1, <1>2, <1>3, <2>2, <2>3, WakeStep, Zenon
<1>4. CASE OpenLevel(s, p) # Fail
  <2> DEFINE new == [secure |-> got[s].secure \/ OpenLevel(s, p) = Secure,
                     forward |-> got[s].forward \/ OpenLevel(s, p) = ForwardSecure]
  <2>1. got' = [got EXCEPT ![s] = new] /\ UNCHANGED queue
    BY <1>4, Zenon DEF OpenPacket
  <2>2. /\ new.secure = (got[s].secure \/ OpenLevel(s, p) = Secure)
        /\ new.forward = (got[s].forward \/ OpenLevel(s, p) = ForwardSecure)
    BY Zenon
  <2> HIDE DEF new
  <2>3. \A t \in Side : got'[t] = IF t = s THEN new ELSE got[t]
    BY <2>1, Zenon DEF HandshakeShape
  <2>4. ASSUME NEW t \in Side
        PROVE  (got[t].secure => got'[t].secure) /\ (got[t].forward => got'[t].forward)
    BY <2>2, <2>3, <2>4, Zenon
  <2>5. ASSUME NEW t \in Side
        PROVE  \A q : OpenLevel(t, q)' # Fail => OpenLevel(t, q) # Fail
    BY <1>2, <2>4, <2>5, OpensLess, Zenon
  <2> QED
    BY <1>1, <1>2, <2>1, <2>5, WakeStep, Zenon
<1> QED
  BY <1>3, <1>4, Zenon

\* New keys are announced in the step that sets them.
LEMMA CryptoWakes ==
    ASSUME HandshakeShape, WInv, NEW s \in Side, Crypto(s)
    PROVE  WInv'
<1>1. "client" \in Side /\ "server" \in Side /\ "client" # "server"
  BY Zenon DEF Side
<1>2. DOMAIN key = Side /\ Secure \in Levels /\ ForwardSecure \in Levels
  BY Zenon DEF HandshakeShape, Levels
<1>3. CASE ClientTop
  <2>1. UNCHANGED <<queue, got, net>>
    BY <1>3, Zenon DEF ClientTop, loop
  <2>2. CASE maybeUpgradeCrypto
    <3>1. /\ key' = [key EXCEPT !.client.secure = {ClientKey(FALSE)}]
          /\ Announce("client", Secure)
      BY <2>2, Zenon DEF maybeUpgradeCrypto
    <3>2. key'.server = key.server
      BY <1>1, <1>2, <3>1, Zenon
    <3> QED
      BY <1>1, <1>2, <2>1, <3>1, <3>2, AnnounceWakes, Zenon DEF Side
  <2>3. CASE ~ maybeUpgradeCrypto
    <3>1. UNCHANGED <<key, aeadChanged>>
      BY <1>3, <2>3, Zenon DEF ClientTop, sendCHLO
    <3> QED
      BY <2>1, <3>1, SettledWakes, Zenon
  <2> QED
    BY <2>2, <2>3, Zenon
<1>4. ASSUME NEW m, ClientReads(m)
      PROVE  WInv'
  <2>1. UNCHANGED <<queue, got, net>>
    BY <1>4, Zenon DEF ClientReads, loop
  <2>2. CASE UNCHANGED <<key, aeadChanged>>
    BY <2>1, <2>2, SettledWakes, Zenon
  <2>3. CASE ~ UNCHANGED <<key, aeadChanged>>
    <3>1. handleSHLOMessage(m)
      BY <1>4, <2>3, Zenon DEF ClientReads, handleREJMessage, channel
    <3>2. /\ key' = [key EXCEPT !.client.forward = {ClientKey(TRUE)}]
          /\ Announce("client", ForwardSecure)
      BY <2>3, <3>1, Zenon DEF handleSHLOMessage, channel
    <3>3. key'.server = key.server
      BY <1>1, <1>2, <3>2, Zenon
    <3> QED
      BY <1>1, <1>2, <2>1, <3>2, <3>3, AnnounceWakes, Zenon DEF Side
  <2> QED
    BY <2>2, <2>3, Zenon
<1>5. ASSUME NEW m, ServerReads(m)
      PROVE  WInv'
  <2>1. UNCHANGED <<queue, got, net>>
    BY <1>5, Zenon DEF ServerReads, loop
  <2>2. CASE UNCHANGED <<key, aeadChanged>>
    BY <2>1, <2>2, SettledWakes, Zenon
  <2>3. CASE ~ UNCHANGED <<key, aeadChanged>>
    <3>1. handleCHLO(m)
      BY <1>5, <2>3, Zenon DEF ServerReads, handleInchoateCHLO
    <3>2. PICK keys : key' = [key EXCEPT !["server"] = keys] /\ Announce("server", Secure)
      BY <2>3, <3>1, Zenon DEF handleCHLO
    <3>3. key'.client = key.client
      BY <1>1, <1>2, <3>2, Zenon
    <3> QED
      BY <1>1, <1>2, <2>1, <3>2, <3>3, AnnounceWakes, Zenon DEF Side
  <2> QED
    BY <2>2, <2>3, Zenon
<1>6. CASE AnnounceForwardSecure
  <2>1. UNCHANGED <<queue, got, net>> /\ UNCHANGED key /\ Announce("server", ForwardSecure)
    BY <1>6, Zenon DEF AnnounceForwardSecure, loop
  <2> QED
    BY <1>1, <1>2, <2>1, AnnounceWakes, Zenon
<1>7. CASE CloseSentSHLO
  <2>1. UNCHANGED <<queue, aeadChanged, key, got>> /\ UNCHANGED net
    BY <1>7, Zenon DEF CloseSentSHLO, loop, channel
  <2> QED
    BY <2>1, SettledWakes, Zenon
<1> QED
  BY <1>3, <1>4, <1>5, <1>6, <1>7, Zenon DEF Crypto, Reads

\* All the steps.
LEMMA WInvNext == HandshakeShape /\ WInv /\ [Next]_vars => WInv'
<1> SUFFICES ASSUME HandshakeShape, WInv, [Next]_vars PROVE WInv'
  BY Zenon
<1>1. "client" \in Side /\ "server" \in Side /\ "client" # "server"
  BY Zenon DEF Side
<1>2. DOMAIN net = Side
  BY Zenon DEF HandshakeShape
<1>3. ASSUME NEW s \in Side, SendCrypto(s) \/ SendData(s)
      PROVE  WInv'
  <2>1. /\ UNCHANGED <<queue, aeadChanged, key, got>>
        /\ \E p : SendTo(Other(s), p)
    BY <1>3, Zenon DEF SendCrypto, SendData, setup, channel
  <2>2. \A t \in Side : net[t] \subseteq net'[t]
    BY <1>2, <2>1, Zenon DEF SendTo
  <2> QED
    BY <2>1, <2>2, SettledWakes, Zenon
<1>4. ASSUME NEW s \in Side, ReceiveLevel(s)
      PROVE  WInv'
  <2>1. /\ queue' = [queue EXCEPT ![s] = <<>>] /\ UNCHANGED <<key, got>> /\ UNCHANGED net
        /\ aeadChanged[s] # <<>> /\ aeadChanged' = [aeadChanged EXCEPT ![s] = Tail(@)]
    BY <1>4, Zenon DEF ReceiveLevel, setup
  <2> QED
    BY <2>1, EmptiedWakes, Zenon
<1>5. ASSUME NEW s \in Side, NEW why, Ended(s, why)
      PROVE  WInv'
  <2>1. PICK told : net' = [net EXCEPT ![Other(s)] = @ \cup told]
    BY <1>5, Zenon DEF Ended
  <2>2. /\ queue' = [queue EXCEPT ![s] = <<>>] /\ UNCHANGED <<key, got>>
        /\ aeadChanged' = [aeadChanged EXCEPT ![s] = <<>>]
    BY <1>5, Zenon DEF Ended
  <2>3. \A t \in Side : net[t] \subseteq net'[t]
    BY <1>2, <2>1, Zenon
  <2> QED
    BY <2>2, <2>3, EmptiedWakes, Zenon
<1>6. ASSUME NEW s \in Side, HandshakeComplete(s) \/ SetDiversificationNonce \/ SHLOWasSent \/ ReceiveReset
      PROVE  WInv'
  <2>1. UNCHANGED <<queue, aeadChanged, key, got>> /\ UNCHANGED net
    BY <1>6, Zenon DEF HandshakeComplete, SetDiversificationNonce, SHLOWasSent, ReceiveReset, setup, channel, loop
  <2> QED
    BY <2>1, SettledWakes, Zenon
<1>7. CASE ClientOpens
  <2>1. PICK p \in pkt.client : OpenPacket("client", p)
    BY <1>7, Zenon DEF ClientOpens
  <2>2. p \in net.client
    BY <1>1, Zenon DEF HandshakeShape
  <2> QED
    BY <1>1, <2>1, <2>2, OpenWakes, Zenon
<1>8. ASSUME NEW s \in Side, NEW p \in net[s], Receive(s, p)
      PROVE  WInv'
  <2>1. CASE HasNonce(s, p)
    <3>1. UNCHANGED <<queue, aeadChanged, key, got>> /\ UNCHANGED net
      BY <1>8, <2>1, Zenon DEF Receive, setup, channel
    <3> QED
      BY <3>1, SettledWakes, Zenon
  <2>2. CASE ~ HasNonce(s, p)
    BY <1>8, <2>2, OpenWakes, Zenon DEF Receive
  <2> QED
    BY <2>1, <2>2, Zenon
<1>9. CASE UNCHANGED vars
  <2>1. UNCHANGED <<queue, aeadChanged, key, got>> /\ UNCHANGED net
    BY <1>9, Zenon DEF vars, setup, channel, loop
  <2> QED
    BY <2>1, SettledWakes, Zenon
<1>10. ASSUME NEW s \in Side, RunLoop(s) \/ Timeout(s)
       PROVE  WInv'
  BY <1>3, <1>4, <1>5, <1>6, <1>7, <1>10, Zenon DEF RunLoop, Select, Stop, Timeout
<1> QED
  BY <1>1, <1>3, <1>6, <1>8, <1>9, <1>10, CryptoWakes, Zenon DEF Next

\* Whatever the order in which keys are made, announced and used: a packet that was
\* kept, and that could be opened now, is tried again.
THEOREM NoWakeupIsLost == Spec => []NoLostWakeup
<1>1. Init => WInv
  <2> SUFFICES ASSUME Init PROVE WInv
    BY Zenon
  <2>1. /\ DOMAIN queue = Side /\ DOMAIN aeadChanged = Side
        /\ \A s \in Side : queue[s] = <<>> /\ aeadChanged[s] = <<>>
    BY Zenon DEF Init
  <2>2. QueueShape
    <3>1. \A S : <<>> \in Seq(S)
      OBVIOUS
    <3> QED
      BY <2>1, <3>1, Zenon DEF QueueShape
  <2>3. \A s \in Side : DOMAIN queue[s] = {}
    BY <2>1
  <2> QED
    BY <2>2, <2>3, Zenon DEF WInv, NoLostWakeup
<1>2. KInv /\ WInv /\ [Next]_vars => WInv'
  BY WInvNext, Zenon DEF KInv
<1>3. WInv => NoLostWakeup
  BY Zenon DEF WInv
<1> QED
  BY <1>1, <1>2, <1>3, HandshakeInvariant, PTL DEF Spec

=============================================================================
