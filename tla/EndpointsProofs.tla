-------------------------- MODULE EndpointsProofs --------------------------
(***************************************************************************)
(* The server's table of sessions and its end, and the client's choice of  *)
(* a version, for every situation: any versions, connection IDs, callers   *)
(* of Close, restarts and failures.                                        *)
(***************************************************************************)
EXTENDS Endpoints, TLAPS

SessionFields == {"version", "versions", "state", "reason", "handshake", "announce"}

Running(id, n) == served[id][n].state = "running"

\* The shape of the server's state.
ServerOK ==
    /\ start \in Starts
    /\ table \in [ConnIDs -> Int]
    /\ DOMAIN served = ConnIDs
    /\ \A id \in ConnIDs :
          /\ \E k \in Nat : DOMAIN served[id] = 1 .. k /\ Len(served[id]) = k
          /\ \A n \in DOMAIN served[id] : DOMAIN served[id][n] = SessionFields
          /\ table[id] > 0 => table[id] \in DOMAIN served[id]

\* A session has its entry until removeConnection; then there is one timer for
\* the ID, and as long as it is there no other session gets the entry.
EntriesOK ==
    /\ \A id \in ConnIDs : \A n \in DOMAIN served[id] :
          served[id][n].state \in {"running", "ended"} => table[id] = n
    /\ \A t \in timers : t[1] \in ConnIDs => table[t[1]] = -1
    /\ \A t, u \in timers : t[1] = u[1] => t = u

\* What serve's own Close has still before it: a session that runs is one that it
\* found in the table and has not visited, or the one it waits for.
ClosingOK ==
    LET c == closers["serve"]
    IN  /\ DOMAIN closers = Closers
        /\ serve \in {"loop", "closing", "done"}
        /\ serve = "loop" => c.at = "none"
        /\ c.at = "none" => serve = "loop"
        /\ serve = "done" => c.at \notin {"range", "wait"}
        /\ c.at = "range" =>
             \A id \in ConnIDs : \A n \in DOMAIN served[id] :
                 Running(id, n) => <<id, n>> \in c.first \ c.seen
        /\ c.at = "wait" =>
             \A id \in ConnIDs : \A n \in DOMAIN served[id] :
                 Running(id, n) => \/ <<id, n>> \in c.first \ c.seen
                                   \/ id = c.id /\ n = c.n
        /\ c.at \notin {"none", "range", "wait"} =>
             \A id \in ConnIDs : \A n \in DOMAIN served[id] : ~ Running(id, n)

EInv == ServerOK /\ EntriesOK /\ ClosingOK

-----------------------------------------------------------------------------

LEMMA InitEInv == Init => EInv
<1> SUFFICES ASSUME Init PROVE EInv
  BY Zenon
<1>1. ServerOK
  <2>1. DOMAIN <<>> = 1 .. 0 /\ Len(<<>>) = 0
    OBVIOUS
  <2>2. \A id \in ConnIDs : served[id] = <<>> /\ table[id] = 0
    BY Zenon DEF Init
  <2>3. \A id \in ConnIDs : \E k \in Nat : DOMAIN served[id] = 1 .. k /\ Len(served[id]) = k
    BY <2>1, <2>2, Zenon
  <2>4. table \in [ConnIDs -> Int] /\ DOMAIN served = ConnIDs /\ start \in Starts
    BY DEF Init
  <2> QED
    BY <2>1, <2>2, <2>3, <2>4 DEF ServerOK
<1>2. EntriesOK
  BY DEF Init, EntriesOK
<1>3. ClosingOK
  BY Zenon DEF Init, ClosingOK, Closers
<1> QED
  BY <1>1, <1>2, <1>3, Zenon DEF EInv

\* The steps of the client, of the sockets and of Accept.
LEMMA Untouched ==
    ASSUME EInv, UNCHANGED <<start, table, served, timers, serve, closers>>
    PROVE  EInv'
BY DEF EInv, ServerOK, EntriesOK, ClosingOK, Running, ConnIDs, Closers

\* One session of the server is replaced by x.
LEMMA Replaced ==
    ASSUME ServerOK, NEW id \in ConnIDs, NEW n \in DOMAIN served[id], NEW x,
           served' = [served EXCEPT ![id][n] = x]
    PROVE  /\ DOMAIN served' = ConnIDs
           /\ \A i \in ConnIDs : /\ DOMAIN served'[i] = DOMAIN served[i]
                                 /\ Len(served'[i]) = Len(served[i])
           /\ \A i \in ConnIDs : \A k \in DOMAIN served[i] :
                 served'[i][k] = IF i = id /\ k = n THEN x ELSE served[i][k]
BY DEF ServerOK

\* The steps that change a session but not whether it runs.
LEMMA SessionKept ==
    ASSUME EInv, NEW id \in ConnIDs, NEW n \in DOMAIN served[id],
           NEW x, DOMAIN x = SessionFields, x.state = served[id][n].state,
           served' = [served EXCEPT ![id][n] = x],
           UNCHANGED <<start, table, timers>>
    PROVE  /\ ServerOK' /\ EntriesOK'
           /\ UNCHANGED <<serve, closers>> => ClosingOK'
           /\ \A i \in ConnIDs :
                 /\ DOMAIN served'[i] = DOMAIN served[i]
                 /\ \A k \in DOMAIN served[i] : served'[i][k].state = served[i][k].state
<1>1. /\ DOMAIN served' = ConnIDs
      /\ \A i \in ConnIDs : /\ DOMAIN served'[i] = DOMAIN served[i]
                            /\ Len(served'[i]) = Len(served[i])
      /\ \A i \in ConnIDs : \A k \in DOMAIN served[i] :
            served'[i][k] = IF i = id /\ k = n THEN x ELSE served[i][k]
  BY Replaced, Zenon DEF EInv
<1>2. ConnIDs' = ConnIDs /\ Closers' = Closers
  BY Zenon DEF ConnIDs, Closers
<1>3. \A i \in ConnIDs : \A k \in DOMAIN served[i] :
         /\ served'[i][k].state = served[i][k].state
         /\ DOMAIN served'[i][k] = SessionFields
  BY <1>1, Zenon DEF EInv, ServerOK
<1>4. ServerOK'
  BY <1>1, <1>2, <1>3 DEF EInv, ServerOK
<1>5. EntriesOK'
  BY <1>1, <1>2, <1>3, Zenon DEF EInv, EntriesOK
<1>6. UNCHANGED <<serve, closers>> => ClosingOK'
  BY <1>1, <1>2, <1>3 DEF EInv, ClosingOK, Running
<1> QED
  BY <1>1, <1>3, <1>4, <1>5, <1>6, Zenon

-----------------------------------------------------------------------------
(* The actions of the server.                                              *)

\* handlePacket of a session that exists.
LEMMA HandlePacketKeepsState ==
    ASSUME NEW s, DOMAIN s = SessionFields, NEW h
    PROVE  DOMAIN HandlePacket(s, h) = SessionFields /\ HandlePacket(s, h).state = s.state
BY Zenon DEF HandlePacket, SessionFields

LEMMA ClosedKeepsState ==
    ASSUME NEW s, DOMAIN s = SessionFields, NEW reason
    PROVE  DOMAIN Closed(s, reason) = SessionFields /\ Closed(s, reason).state = s.state
BY Zenon DEF Closed, SessionFields

LEMMA ServePacketKeeps ==
    ASSUME EInv, NEW id \in ConnIDs, NEW h, ServePacket(id, h)
    PROVE  EInv'
<1> DEFINE v == PacketVersion(id)
<1>1. /\ serve = "loop" /\ handlePacket(id, h)
      /\ UNCHANGED <<start, timers, serve, closers>>
  BY Zenon DEF ServePacket
<1>2. CASE UNCHANGED <<table, served>>
  BY <1>1, <1>2, Untouched, Zenon
<1>3. CASE /\ table[id] = 0
           /\ served' = [served EXCEPT ![id] = Append(@, HandlePacket(ServerSession(v), h))]
           /\ table' = [table EXCEPT ![id] = Len(served'[id])]
  <2> DEFINE x == HandlePacket(ServerSession(v), h)
             m == Len(served[id]) + 1
  <2>1. ConnIDs' = ConnIDs /\ Closers' = Closers
    BY <1>1, Zenon DEF ConnIDs, Closers
  <2>2. DOMAIN x = SessionFields
    <3>1. DOMAIN ServerSession(v) = SessionFields
      BY Zenon DEF ServerSession, SessionFields
    <3> QED
      BY <3>1, HandlePacketKeepsState, Zenon
  <2>3. PICK k \in Nat : DOMAIN served[id] = 1 .. k /\ Len(served[id]) = k
    BY Zenon DEF EInv, ServerOK
  <2>4. /\ DOMAIN served'[id] = 1 .. m /\ Len(served'[id]) = m
        /\ \A n \in 1 .. m : served'[id][n] = IF n = m THEN x ELSE served[id][n]
        /\ \A i \in ConnIDs \ {id} : served'[i] = served[i]
        /\ DOMAIN served' = ConnIDs
    BY <1>3, <2>3 DEF EInv, ServerOK
  <2>5. /\ table' \in [ConnIDs -> Int] /\ table'[id] = m
        /\ \A i \in ConnIDs \ {id} : table'[i] = table[i]
    BY <1>3, <2>3, <2>4 DEF EInv, ServerOK
  <2>6. m \in Nat /\ m > 0 /\ DOMAIN served[id] = 1 .. m - 1
    BY <2>3
  <2> HIDE DEF x, m
  <2>7. ServerOK'
    <3>1. ASSUME NEW i \in ConnIDs
          PROVE  /\ \E l \in Nat : DOMAIN served'[i] = 1 .. l /\ Len(served'[i]) = l
                 /\ \A n \in DOMAIN served'[i] : DOMAIN served'[i][n] = SessionFields
                 /\ table'[i] > 0 => table'[i] \in DOMAIN served'[i]
      <4>1. CASE i = id
        <5>1. \E l \in Nat : DOMAIN served'[i] = 1 .. l /\ Len(served'[i]) = l
          BY <2>4, <2>6, <4>1, Zenon
        <5>2. ASSUME NEW n \in DOMAIN served'[i]
              PROVE  DOMAIN served'[i][n] = SessionFields
          <6>1. CASE n = m
            BY <2>2, <2>4, <2>6, <4>1, <6>1, Zenon
          <6>2. CASE n # m
            <7>1. n \in DOMAIN served[id] /\ served'[id][n] = served[id][n]
              BY <2>4, <2>6, <4>1, <5>2, <6>2
            <7> QED
              BY <4>1, <7>1, Zenon DEF EInv, ServerOK
          <6> QED
            BY <6>1, <6>2, Zenon
        <5>3. table'[i] \in DOMAIN served'[i]
          BY <2>4, <2>5, <2>6, <4>1
        <5> QED
          BY <5>1, <5>2, <5>3, Zenon
      <4>2. CASE i # id
        BY <2>4, <2>5, <4>2 DEF EInv, ServerOK
      <4> QED
        BY <4>1, <4>2, Zenon
    <3> QED
      BY <1>1, <2>1, <2>4, <2>5, <3>1, Zenon DEF EInv, ServerOK
  <2>8. EntriesOK'
    <3>1. ASSUME NEW i \in ConnIDs, NEW n \in DOMAIN served'[i],
                 served'[i][n].state \in {"running", "ended"}
          PROVE  table'[i] = n
      <4>1. CASE i = id
        <5>1. CASE n = m
          BY <2>5, <4>1, <5>1, Zenon
        <5>2. CASE n # m
          <6>1. n \in DOMAIN served[id] /\ served'[i][n] = served[id][n]
            BY <2>4, <2>6, <4>1, <5>2
          <6>2. table[id] = n /\ n \in 1 .. m - 1
            BY <2>6, <3>1, <6>1, Zenon DEF EInv, EntriesOK
          <6> QED
            BY <1>3, <2>6, <6>2
        <5> QED
          BY <5>1, <5>2, Zenon
      <4>2. CASE i # id
        BY <2>4, <2>5, <3>1, <4>2, Zenon DEF EInv, EntriesOK
      <4> QED
        BY <4>1, <4>2, Zenon
    <3>2. ASSUME NEW t \in timers, t[1] \in ConnIDs
          PROVE  table'[t[1]] = -1
      <4>1. table[t[1]] = -1
        BY <3>2, Zenon DEF EInv, EntriesOK
      <4>2. t[1] # id
        BY <1>3, <4>1
      <4> QED
        BY <2>5, <3>2, <4>1, <4>2, Zenon
    <3> QED
      BY <1>1, <2>1, <3>1, <3>2, Zenon DEF EInv, EntriesOK
  <2>9. ClosingOK'
    BY <1>1, <2>1, Zenon DEF EInv, ClosingOK
  <2> QED
    BY <2>7, <2>8, <2>9, Zenon DEF EInv
<1>4. CASE /\ table[id] > 0
           /\ served' = [served EXCEPT ![id][table[id]] = HandlePacket(@, h)]
           /\ UNCHANGED table
  <2> DEFINE n == table[id]
             x == HandlePacket(served[id][n], h)
  <2>1. n \in DOMAIN served[id] /\ DOMAIN served[id][n] = SessionFields
    BY <1>4, Zenon DEF EInv, ServerOK
  <2>2. DOMAIN x = SessionFields /\ x.state = served[id][n].state
    BY <2>1, HandlePacketKeepsState, Zenon
  <2>3. served' = [served EXCEPT ![id][n] = x]
    BY <1>4, Zenon
  <2>4. UNCHANGED <<start, table, timers>> /\ UNCHANGED <<serve, closers>>
    BY <1>1, <1>4, Zenon
  <2> HIDE DEF n, x
  <2>5. ServerOK' /\ EntriesOK' /\ ClosingOK'
    BY <2>1, <2>2, <2>3, <2>4, SessionKept, Zenon
  <2> QED
    BY <2>5, Zenon DEF EInv
<1> QED
  BY <1>1, <1>2, <1>3, <1>4, Zenon DEF handlePacket, Reply

\* The steps of one session's goroutines: run, and the one that announces it.
LEMMA SessionStepKeeps ==
    ASSUME EInv, NEW id \in ConnIDs, NEW n \in DOMAIN served[id],
           \/ ServerSessionCloses(id, n) \/ AwaitForwardSecure(id, n) \/ Enqueue(id, n)
    PROVE  EInv'
<1>1. DOMAIN served[id][n] = SessionFields
  BY Zenon DEF EInv, ServerOK
<1>2. UNCHANGED <<start, table, timers, serve, closers>>
  BY Zenon DEF ServerSessionCloses, AwaitForwardSecure, Enqueue, closeVars
<1>3. \E x : /\ DOMAIN x = SessionFields /\ x.state = served[id][n].state
             /\ served' = [served EXCEPT ![id][n] = x]
  <2>1. ASSUME NEW a
        PROVE  LET x == [served[id][n] EXCEPT !.announce = a]
               IN  DOMAIN x = SessionFields /\ x.state = served[id][n].state
    BY <1>1, Zenon DEF SessionFields
  <2>2. CASE ServerSessionCloses(id, n)
    <3>1. served' = [served EXCEPT ![id][n] = Closed(served[id][n], "failure")]
      BY <2>2, Zenon DEF ServerSessionCloses
    <3> QED
      BY <1>1, <3>1, ClosedKeepsState, Zenon
  <2>3. CASE AwaitForwardSecure(id, n) \/ Enqueue(id, n)
    <3>1. PICK a \in {"queue", "done"} :
            served' = [served EXCEPT ![id][n] = [served[id][n] EXCEPT !.announce = a]]
      BY <2>3, Zenon DEF AwaitForwardSecure, Enqueue
    <3> QED
      BY <2>1, <3>1, Zenon
  <2> QED
    BY <2>2, <2>3, Zenon
<1> QED
  BY <1>2, <1>3, SessionKept, Zenon DEF EInv

\* A session's state moves on.
LEMMA StateMoves ==
    ASSUME EInv, NEW id \in ConnIDs, NEW n \in DOMAIN served[id], NEW st
    PROVE  LET x == [served[id][n] EXCEPT !.state = st]
           IN  DOMAIN x = SessionFields /\ x.state = st
BY Zenon DEF EInv, ServerOK, SessionFields

LEMMA ServerRunReturnsKeeps ==
    ASSUME EInv, NEW id \in ConnIDs, NEW n \in DOMAIN served[id], ServerRunReturns(id, n)
    PROVE  EInv'
<1>1. /\ served' = [served EXCEPT ![id][n].state = "ended"]
      /\ UNCHANGED <<start, table, timers, serve, closers>>
      /\ served[id][n].state = "running"
  BY Zenon DEF ServerRunReturns, closeVars
<1>2. ConnIDs' = ConnIDs /\ Closers' = Closers
  BY <1>1, Zenon DEF ConnIDs, Closers
<1>3. /\ DOMAIN served' = ConnIDs
      /\ \A i \in ConnIDs : /\ DOMAIN served'[i] = DOMAIN served[i]
                            /\ Len(served'[i]) = Len(served[i])
      /\ \A i \in ConnIDs : \A k \in DOMAIN served[i] :
            /\ DOMAIN served'[i][k] = SessionFields
            /\ served'[i][k].state = IF i = id /\ k = n THEN "ended" ELSE served[i][k].state
  <2> DEFINE x == [served[id][n] EXCEPT !.state = "ended"]
  <2>1. DOMAIN x = SessionFields /\ x.state = "ended"
    BY StateMoves
  <2>2. served' = [served EXCEPT ![id][n] = x]
    BY <1>1, Zenon
  <2> HIDE DEF x
  <2>3. /\ DOMAIN served' = ConnIDs
        /\ \A i \in ConnIDs : /\ DOMAIN served'[i] = DOMAIN served[i]
                              /\ Len(served'[i]) = Len(served[i])
        /\ \A i \in ConnIDs : \A k \in DOMAIN served[i] :
              served'[i][k] = IF i = id /\ k = n THEN x ELSE served[i][k]
    BY <2>2, Replaced, Zenon DEF EInv
  <2> QED
    BY <2>1, <2>3 DEF EInv, ServerOK
<1>4. ServerOK'
  BY <1>1, <1>2, <1>3 DEF EInv, ServerOK
<1>5. EntriesOK'
  BY <1>1, <1>2, <1>3 DEF EInv, EntriesOK
<1>6. \A i \in ConnIDs : \A k \in DOMAIN served'[i] : Running(i, k)' => Running(i, k)
  BY <1>3, Zenon DEF Running
<1>7. ClosingOK'
  BY <1>1, <1>2, <1>3, <1>6 DEF EInv, ClosingOK
<1> QED
  BY <1>4, <1>5, <1>7, Zenon DEF EInv

LEMMA RemoveKeeps ==
    ASSUME EInv, NEW id \in ConnIDs, NEW n \in DOMAIN served[id], removeConnection(id, n)
    PROVE  EInv'
<1>1. /\ served' = [served EXCEPT ![id][n].state = "removed"]
      /\ table' = [table EXCEPT ![id] = -1]
      /\ timers' = timers \cup {<<id, n>>}
      /\ UNCHANGED <<start, serve, closers>>
      /\ served[id][n].state = "ended"
  BY Zenon DEF removeConnection, closeVars
<1>2. ConnIDs' = ConnIDs /\ Closers' = Closers
  BY <1>1, Zenon DEF ConnIDs, Closers
<1>3. /\ DOMAIN served' = ConnIDs
      /\ \A i \in ConnIDs : /\ DOMAIN served'[i] = DOMAIN served[i]
                            /\ Len(served'[i]) = Len(served[i])
      /\ \A i \in ConnIDs : \A k \in DOMAIN served[i] :
            /\ DOMAIN served'[i][k] = SessionFields
            /\ served'[i][k].state = IF i = id /\ k = n THEN "removed" ELSE served[i][k].state
  <2> DEFINE x == [served[id][n] EXCEPT !.state = "removed"]
  <2>1. DOMAIN x = SessionFields /\ x.state = "removed"
    BY StateMoves
  <2>2. served' = [served EXCEPT ![id][n] = x]
    BY <1>1, Zenon
  <2> HIDE DEF x
  <2>3. /\ DOMAIN served' = ConnIDs
        /\ \A i \in ConnIDs : /\ DOMAIN served'[i] = DOMAIN served[i]
                              /\ Len(served'[i]) = Len(served[i])
        /\ \A i \in ConnIDs : \A k \in DOMAIN served[i] :
              served'[i][k] = IF i = id /\ k = n THEN x ELSE served[i][k]
    BY <2>2, Replaced, Zenon DEF EInv
  <2> QED
    BY <2>1, <2>3 DEF EInv, ServerOK
<1>4. table[id] = n
  BY <1>1, Zenon DEF EInv, EntriesOK
<1>5. n > 0
  BY DEF EInv, ServerOK
<1>6. /\ table' \in [ConnIDs -> Int] /\ table'[id] = -1
      /\ \A i \in ConnIDs \ {id} : table'[i] = table[i]
  BY <1>1 DEF EInv, ServerOK
<1>7. ServerOK'
  BY <1>1, <1>2, <1>3, <1>6 DEF EInv, ServerOK
<1>8. EntriesOK'
  <2>1. ASSUME NEW i \in ConnIDs, NEW k \in DOMAIN served'[i],
               served'[i][k].state \in {"running", "ended"}
        PROVE  table'[i] = k
    <3>1. k \in DOMAIN served[i] /\ ~ (i = id /\ k = n) /\ table[i] = k
      BY <1>3, <2>1 DEF EInv, EntriesOK
    <3> QED
      BY <1>4, <1>6, <3>1, Zenon
  <2>2. \A t \in timers : t[1] # id
    <3>1. \A t \in timers : t[1] = id => table[id] = -1
      BY Zenon DEF EInv, EntriesOK
    <3> QED
      BY <1>4, <1>5, <3>1
  <2>3. ASSUME NEW t \in timers', t[1] \in ConnIDs
        PROVE  table'[t[1]] = -1
    BY <1>1, <1>6, <2>2, <2>3 DEF EInv, EntriesOK
  <2>4. ASSUME NEW t \in timers', NEW u \in timers', t[1] = u[1]
        PROVE  t = u
    BY <1>1, <2>2, <2>4 DEF EInv, EntriesOK
  <2> QED
    BY <1>2, <2>1, <2>3, <2>4, Zenon DEF EntriesOK
<1>9. \A i \in ConnIDs : \A k \in DOMAIN served'[i] : Running(i, k)' => Running(i, k)
  BY <1>3, Zenon DEF Running
<1>10. ClosingOK'
  BY <1>1, <1>2, <1>3, <1>9 DEF EInv, ClosingOK
<1> QED
  BY <1>7, <1>8, <1>10, Zenon DEF EInv

LEMMA DeleteEntryKeeps ==
    ASSUME EInv, NEW id \in ConnIDs, NEW n \in DOMAIN served[id], DeleteEntry(id, n)
    PROVE  EInv'
<1>1. /\ <<id, n>> \in timers
      /\ table' = [table EXCEPT ![id] = 0]
      /\ timers' = timers \ {<<id, n>>}
      /\ UNCHANGED <<start, served, serve, closers>>
  BY Zenon DEF DeleteEntry, closeVars
<1>2. ConnIDs' = ConnIDs /\ Closers' = Closers
  BY <1>1, Zenon DEF ConnIDs, Closers
<1>3. table[id] = -1
  BY <1>1, Zenon DEF EInv, EntriesOK
<1>4. /\ table' \in [ConnIDs -> Int] /\ table'[id] = 0
      /\ \A i \in ConnIDs \ {id} : table'[i] = table[i]
  BY <1>1 DEF EInv, ServerOK
<1>5. ServerOK'
  BY <1>1, <1>2, <1>4 DEF EInv, ServerOK
<1>6. EntriesOK'
  <2>1. ASSUME NEW i \in ConnIDs, NEW k \in DOMAIN served[i],
               served[i][k].state \in {"running", "ended"}
        PROVE  table'[i] = k
    <3>1. table[i] = k /\ k > 0
      BY <2>1 DEF EInv, EntriesOK, ServerOK
    <3> QED
      BY <1>3, <1>4, <3>1
  <2>2. \A t \in timers' : t[1] # id
    <3>1. \A t \in timers : t[1] = <<id, n>>[1] => t = <<id, n>>
      BY <1>1, Zenon DEF EInv, EntriesOK
    <3> QED
      BY <1>1, <3>1, Zenon
  <2>3. ASSUME NEW t \in timers', t[1] \in ConnIDs
        PROVE  table'[t[1]] = -1
    BY <1>1, <1>4, <2>2, <2>3, Zenon DEF EInv, EntriesOK
  <2> QED
    BY <1>1, <1>2, <2>1, <2>3, Zenon DEF EInv, EntriesOK
<1>7. ClosingOK'
  BY <1>1, <1>2, Zenon DEF EInv, ClosingOK, Running
<1> QED
  BY <1>5, <1>6, <1>7, Zenon DEF EInv

-----------------------------------------------------------------------------
(* The end of the server.                                                  *)

\* A step that only moves the goroutine g of a Close to c keeps the invariant if
\* g is not serve, or if c is right for serve.
LEMMA CloserMoves ==
    ASSUME EInv, NEW g \in Closers, NEW c,
           closers' = [closers EXCEPT ![g] = c],
           UNCHANGED <<start, table, served, timers>>,
           g # "serve" => serve' = serve,
           g = "serve" =>
             /\ serve' \in {"closing", "done"}
             /\ c.at # "none"
             /\ serve' = "done" => c.at \notin {"range", "wait"}
             /\ c.at # "wait"
             /\ \A i \in ConnIDs : \A k \in DOMAIN served[i] :
                   Running(i, k) => c.at = "range" /\ <<i, k>> \in c.first \ c.seen
    PROVE  EInv'
<1>1. ConnIDs' = ConnIDs /\ Closers' = Closers /\ "serve" \in Closers
  BY Zenon DEF ConnIDs, Closers
<1>2. ServerOK' /\ EntriesOK'
  BY <1>1, Zenon DEF EInv, ServerOK, EntriesOK
<1>3. \A i \in ConnIDs : \A k \in DOMAIN served[i] : Running(i, k)' = Running(i, k)
  BY Zenon DEF Running
<1>4. ClosingOK'
  <2>1. CASE g # "serve"
    <3>1. closers'["serve"] = closers["serve"] /\ DOMAIN closers' = Closers /\ serve' = serve
      BY <1>1, <2>1, Zenon DEF EInv, ClosingOK
    <3> QED
      BY <1>1, <1>3, <3>1, Zenon DEF EInv, ClosingOK
  <2>2. CASE g = "serve"
    <3>1. closers'["serve"] = c /\ DOMAIN closers' = Closers
      BY <1>1, <2>2, Zenon DEF EInv, ClosingOK
    <3> QED
      BY <1>1, <1>3, <2>2, <3>1, Zenon DEF ClosingOK
  <2> QED
    BY <2>1, <2>2, Zenon
<1> QED
  BY <1>2, <1>4, Zenon DEF EInv

\* Close begins: every session that runs has an entry.
LEMMA CloseBeginsKeeps ==
    ASSUME EInv, ServeError \/ \E g \in Closers : UserClose(g)
    PROVE  EInv'
<1>1. \A i \in ConnIDs : \A k \in DOMAIN served[i] :
         Running(i, k) => <<i, k>> \in CloseBegins.first \ CloseBegins.seen
  <2>1. ASSUME NEW i \in ConnIDs, NEW k \in DOMAIN served[i], Running(i, k)
        PROVE  table[i] = k /\ k > 0
    BY <2>1 DEF EInv, EntriesOK, ServerOK, Running
  <2> QED
    BY <2>1, Zenon DEF CloseBegins
<1>2. CloseBegins.at = "range"
  BY Zenon DEF CloseBegins
<1> HIDE DEF CloseBegins
<1>3. CASE ServeError
  <2>1. /\ closers' = [closers EXCEPT !["serve"] = CloseBegins]
        /\ serve' = "closing" /\ UNCHANGED <<start, table, served, timers>>
    BY <1>3, Zenon DEF ServeError, serverVars
  <2>2. "serve" \in Closers
    BY Zenon DEF Closers
  <2> QED
    BY <1>1, <1>2, <2>1, <2>2, CloserMoves, Zenon
<1>4. ASSUME NEW g \in Closers, UserClose(g)
      PROVE  EInv'
  <2>1. /\ closers' = [closers EXCEPT ![g] = CloseBegins]
        /\ UNCHANGED <<start, table, served, timers, serve>>
        /\ g \in start.users
    BY <1>4, Zenon DEF UserClose, serverVars
  <2>2. g # "serve"
    BY <2>1, EndpointsAssumption, Zenon DEF EInv, ServerOK
  <2> QED
    BY <2>1, <2>2, CloserMoves, Zenon
<1> QED
  BY <1>3, <1>4, Zenon

\* Close goes over the sessions.
LEMMA CloseSessionKeeps ==
    ASSUME EInv, NEW g \in Closers, NEW id \in ConnIDs, CloseSession(g, id)
    PROVE  EInv'
<1> DEFINE n == table[id]
           x == Closed(served[id][n], "nil")
           c == closers[g]
           d == [at |-> "wait", id |-> id, n |-> n, first |-> c.first,
                 seen |-> c.seen \cup {<<id, n>>}]
<1>1. /\ served' = [served EXCEPT ![id][n] = x]
      /\ closers' = [closers EXCEPT ![g] = d]
      /\ UNCHANGED <<start, table, timers, serve>>
      /\ c.at = "range" /\ n > 0
  BY Zenon DEF CloseSession, EInv, ClosingOK
<1>2. n \in DOMAIN served[id] /\ DOMAIN served[id][n] = SessionFields
  BY <1>1, Zenon DEF EInv, ServerOK
<1>3. DOMAIN x = SessionFields /\ x.state = served[id][n].state
  BY <1>2, ClosedKeepsState, Zenon
<1>4. ConnIDs' = ConnIDs /\ Closers' = Closers /\ "serve" \in Closers
  BY <1>1, Zenon DEF ConnIDs, Closers
<1>5. /\ d.at = "wait" /\ d.id = id /\ d.n = n
      /\ d.first = c.first /\ d.seen = c.seen \cup {<<id, n>>}
  BY Zenon
<1>6. \A i \in ConnIDs : \A k \in DOMAIN served[i] :
         Running(i, k) => table[i] = k
  BY Zenon DEF EInv, EntriesOK, Running
<1>7. table[id] = n
  BY Zenon
<1> HIDE DEF x, d, n
<1>8. /\ ServerOK' /\ EntriesOK'
      /\ \A i \in ConnIDs :
            /\ DOMAIN served'[i] = DOMAIN served[i]
            /\ \A k \in DOMAIN served[i] : served'[i][k].state = served[i][k].state
  BY <1>1, <1>2, <1>3, SessionKept, Zenon
<1>9. \A i \in ConnIDs : /\ DOMAIN served'[i] = DOMAIN served[i]
                         /\ \A k \in DOMAIN served[i] : Running(i, k)' = Running(i, k)
  BY <1>8, Zenon DEF Running
<1>10. ClosingOK'
  <2>1. CASE g # "serve"
    <3>1. closers'["serve"] = closers["serve"] /\ DOMAIN closers' = Closers
      BY <1>1, <1>4, <2>1, Zenon DEF EInv, ClosingOK
    <3> QED
      BY <1>1, <1>4, <1>9, <3>1, Zenon DEF EInv, ClosingOK
  <2>2. CASE g = "serve"
    <3>1. closers'["serve"] = d /\ DOMAIN closers' = Closers
      BY <1>1, <1>4, <2>2, Zenon DEF EInv, ClosingOK
    <3>2. serve = "closing" /\ c = closers["serve"]
      BY <1>1, <2>2, Zenon DEF EInv, ClosingOK
    <3>3. ASSUME NEW i \in ConnIDs, NEW k \in DOMAIN served[i], Running(i, k)
          PROVE  <<i, k>> \in d.first \ d.seen \/ (i = d.id /\ k = d.n)
      <4>1. <<i, k>> \in c.first \ c.seen
        BY <1>1, <2>2, <3>3, Zenon DEF EInv, ClosingOK
      <4>2. table[i] = k
        BY <1>6, <3>3, Zenon
      <4> QED
        BY <1>5, <1>7, <4>1, <4>2, Zenon
    <3> QED
      BY <1>1, <1>4, <1>5, <1>9, <3>1, <3>2, <3>3, Zenon DEF ClosingOK
  <2> QED
    BY <2>1, <2>2, Zenon
<1> QED
  BY <1>8, <1>10, Zenon DEF EInv

\* The rest of Close.
LEMMA CloseEndsKeeps ==
    ASSUME EInv, NEW g \in Closers,
           \/ CloseContinues(g) \/ CloseRanged(g) \/ CloseSends(g) \/ CloseReturns(g)
    PROVE  EInv'
<1> DEFINE c == closers[g]
<1>1. UNCHANGED <<start, table, served, timers>> /\ (g # "serve" => serve' = serve)
  BY Zenon DEF CloseContinues, CloseRanged, CloseSends, CloseReturns, serverVars
<1>2. CASE CloseContinues(g)
  <2> DEFINE d == [at |-> "range", first |-> c.first, seen |-> c.seen]
  <2>1. /\ closers' = [closers EXCEPT ![g] = d] /\ serve' = serve
        /\ c.at = "wait" /\ served[c.id][c.n].state # "running"
    BY <1>2, Zenon DEF CloseContinues
  <2>2. d.at = "range" /\ d.first = c.first /\ d.seen = c.seen
    BY Zenon
  <2> HIDE DEF d
  <2>3. ASSUME g = "serve"
        PROVE  /\ serve = "closing"
               /\ \A i \in ConnIDs : \A k \in DOMAIN served[i] :
                     Running(i, k) => <<i, k>> \in d.first \ d.seen
    BY <2>1, <2>2, <2>3, Zenon DEF EInv, ClosingOK, Running
  <2> QED
    BY <1>1, <2>1, <2>2, <2>3, CloserMoves, Zenon
<1>3. CASE CloseRanged(g)
  <2>1. /\ closers' = [closers EXCEPT ![g] = [at |-> "send"]] /\ serve' = serve
        /\ c.at = "range"
        /\ \A e \in c.first \ c.seen : table[e[1]] # e[2]
    BY <1>3, Zenon DEF CloseRanged
  <2>2. ASSUME g = "serve"
        PROVE  /\ serve = "closing"
               /\ \A i \in ConnIDs : \A k \in DOMAIN served[i] : ~ Running(i, k)
    <3>1. serve = "closing"
      BY <2>1, <2>2, Zenon DEF EInv, ClosingOK
    <3>2. ASSUME NEW i \in ConnIDs, NEW k \in DOMAIN served[i], Running(i, k)
          PROVE  FALSE
      <4>1. <<i, k>> \in c.first \ c.seen
        BY <2>1, <2>2, <3>2, Zenon DEF EInv, ClosingOK
      <4>2. table[i] = k
        BY <3>2, Zenon DEF EInv, EntriesOK, Running
      <4>3. table[<<i, k>>[1]] # <<i, k>>[2]
        BY <2>1, <4>1, Zenon
      <4> QED
        BY <4>2, <4>3
    <3> QED
      BY <3>1, <3>2, Zenon
  <2> QED
    BY <1>1, <2>1, <2>2, CloserMoves, Zenon
<1>4. CASE CloseSends(g) \/ CloseReturns(g)
  <2>1. PICK a \in {"sent", "returned"} :
          /\ closers' = [closers EXCEPT ![g] = [at |-> a]]
          /\ serve' = serve \/ serve' = "done"
          /\ c.at \in {"send", "sent"}
    BY <1>4, Zenon DEF CloseSends, CloseReturns
  <2>2. ASSUME g = "serve"
        PROVE  /\ serve \in {"closing", "done"}
               /\ \A i \in ConnIDs : \A k \in DOMAIN served[i] : ~ Running(i, k)
    BY <2>1, <2>2, Zenon DEF EInv, ClosingOK
  <2> QED
    BY <1>1, <2>1, <2>2, CloserMoves, Zenon
<1> QED
  BY <1>2, <1>3, <1>4, Zenon

\* A new process: what it had is gone.
LEMMA RestartKeeps ==
    ASSUME EInv, Restart
    PROVE  EInv'
<1> DEFINE Crashed(s) == [s EXCEPT !.state = "removed", !.reason = "crash",
                                   !.announce = "done"]
<1>1. ConnIDs' = ConnIDs /\ Closers' = Closers /\ "serve" \in Closers
  BY Zenon DEF Restart, ConnIDs, Closers
<1>2. /\ served' = [i \in ConnIDs |-> [k \in DOMAIN served[i] |-> Crashed(served[i][k])]]
      /\ table' = [i \in ConnIDs |-> 0]
      /\ timers' = {} /\ start' = start
  BY Zenon DEF Restart
<1>3. ASSUME NEW s, DOMAIN s = SessionFields
      PROVE  DOMAIN Crashed(s) = SessionFields /\ Crashed(s).state = "removed"
  BY <1>3, Zenon DEF SessionFields
<1> HIDE DEF Crashed
<1>4. /\ DOMAIN served' = ConnIDs
      /\ \A i \in ConnIDs : served'[i] = [k \in DOMAIN served[i] |-> Crashed(served[i][k])]
  BY <1>2, Zenon
<1>5. ServerOK'
  <2>1. start' \in Starts /\ table' \in [ConnIDs -> Int] /\ \A i \in ConnIDs : table'[i] = 0
    BY <1>2 DEF EInv, ServerOK
  <2>2. ASSUME NEW i \in ConnIDs
        PROVE  /\ \E l \in Nat : DOMAIN served'[i] = 1 .. l /\ Len(served'[i]) = l
               /\ \A k \in DOMAIN served'[i] : DOMAIN served'[i][k] = SessionFields
    <3>1. PICK l \in Nat : DOMAIN served[i] = 1 .. l
      BY Zenon DEF EInv, ServerOK
    <3>2. DOMAIN served'[i] = 1 .. l /\ Len(served'[i]) = l
      BY <1>4, <3>1
    <3>3. ASSUME NEW k \in DOMAIN served'[i]
          PROVE  DOMAIN served'[i][k] = SessionFields
      <4>1. k \in DOMAIN served[i] /\ served'[i][k] = Crashed(served[i][k])
        BY <1>4, <3>3, Zenon
      <4>2. DOMAIN served[i][k] = SessionFields
        BY <4>1, Zenon DEF EInv, ServerOK
      <4> QED
        BY <1>3, <4>1, <4>2, Zenon
    <3> QED
      BY <3>2, <3>3, Zenon
  <2> QED
    BY <1>1, <1>4, <2>1, <2>2 DEF ServerOK
<1>6. EntriesOK'
  <2>1. ASSUME NEW i \in ConnIDs, NEW k \in DOMAIN served'[i]
        PROVE  served'[i][k].state \notin {"running", "ended"}
    <3>1. k \in DOMAIN served[i] /\ served'[i][k] = Crashed(served[i][k])
      BY <1>4, <2>1, Zenon
    <3>2. DOMAIN served[i][k] = SessionFields
      BY <3>1, Zenon DEF EInv, ServerOK
    <3> QED
      BY <1>3, <3>1, <3>2, Zenon
  <2>2. \A t \in timers' : FALSE
    BY <1>2, Zenon
  <2> QED
    BY <1>1, <2>1, <2>2, Zenon DEF EntriesOK
<1>7. ClosingOK'
  <2>1. serve' = "loop" /\ closers' = [g \in Closers |-> [at |-> "none"]]
    BY Zenon DEF Restart
  <2>2. DOMAIN closers' = Closers /\ closers'["serve"].at = "none"
    BY <1>1, <2>1, Zenon
  <2> QED
    BY <1>1, <2>1, <2>2, Zenon DEF ClosingOK
<1> QED
  BY <1>5, <1>6, <1>7, Zenon DEF EInv

-----------------------------------------------------------------------------

LEMMA NextKeeps == EInv /\ [Next]_vars => EInv'
<1> SUFFICES ASSUME EInv, [Next]_vars PROVE EInv'
  BY Zenon
<1>1. CASE Goroutines
  <2>1. CASE \/ Run \/ DialVersion \/ DialHandshake \/ DialComplete \/ ListenResumes \/ ListenError
             \/ \E i \in DOMAIN sessions : RunReturns(i) \/ HandshakeTimeout(i)
             \/ ClientSocketFails \/ Accept \/ ClosePconns \/ ServeDrops \/ ServerSocketFails
    <3>1. UNCHANGED <<start, table, served, timers, serve, closers>>
      BY <2>1, Zenon DEF Run, DialVersion, DialHandshake, DialComplete, ListenResumes,
         ListenError, RunReturns, HandshakeTimeout, ClientSessionCloses, ClientSocketFails, Accept, ClosePconns,
         ServeDrops, ServerSocketFails, serverVars, closeVars
    <3> QED
      BY <3>1, Untouched, Zenon
  <2>2. ASSUME NEW id \in ConnIDs, NEW n \in DOMAIN served[id],
               \/ ServerRunReturns(id, n) \/ removeConnection(id, n)
               \/ AwaitForwardSecure(id, n) \/ Enqueue(id, n)
        PROVE  EInv'
    BY <2>2, ServerRunReturnsKeeps, RemoveKeeps, SessionStepKeeps, Zenon
  <2>3. ASSUME NEW g \in Closers,
               \/ \E id \in ConnIDs : CloseSession(g, id)
               \/ CloseContinues(g) \/ CloseRanged(g) \/ CloseSends(g) \/ CloseReturns(g)
        PROVE  EInv'
    BY <2>3, CloseSessionKeeps, CloseEndsKeeps, Zenon
  <2>4. CASE ServeError
    BY <2>4, CloseBeginsKeeps, Zenon
  <2> QED
    BY <1>1, <2>1, <2>2, <2>3, <2>4, Zenon DEF Goroutines
<1>2. CASE Environment
  <2>1. CASE \/ \E i \in DOMAIN sessions : ClientSessionFails(i)
             \/ UserCloses \/ ClientReset
             \/ \E r \in replies : VersionNegotiation(r)
             \/ \E n \in DOMAIN served[session], answer \in 1..2 : RegularPacket(n, answer)
             \/ ClientSocketFails \/ ServerSocketFails
    <3>1. UNCHANGED <<start, table, served, timers, serve, closers>>
      BY <2>1, Zenon DEF ClientSessionFails, UserCloses, ClientSessionCloses, ClientReset,
         VersionNegotiation, RegularPacket, ClientHandles, ClientSocketFails,
         ServerSocketFails, serverVars, closeVars
    <3> QED
      BY <3>1, Untouched, Zenon
  <2>2. ASSUME NEW id \in ConnIDs, NEW h \in 0..2, ServePacket(id, h)
        PROVE  EInv'
    BY <2>2, ServePacketKeeps, Zenon
  <2>3. ASSUME NEW id \in ConnIDs, NEW n \in DOMAIN served[id],
               ServerSessionCloses(id, n) \/ DeleteEntry(id, n)
        PROVE  EInv'
    BY <2>3, SessionStepKeeps, DeleteEntryKeeps, Zenon
  <2>4. CASE \E g \in Closers : UserClose(g)
    BY <2>4, CloseBeginsKeeps, Zenon
  <2>5. CASE Restart
    BY <2>5, RestartKeeps, Zenon
  <2> QED
    BY <1>2, <2>1, <2>2, <2>3, <2>4, <2>5, Zenon DEF Environment
<1>3. CASE UNCHANGED vars
  <2>1. UNCHANGED <<start, table, served, timers, serve, closers>>
    BY <1>3, Zenon DEF vars, serverVars, closeVars
  <2> QED
    BY <2>1, Untouched, Zenon
<1> QED
  BY <1>1, <1>2, <1>3, Zenon DEF Next

\* The server's table has every session that runs, whatever closes it, and
\* however often an ID is used again after its tombstone (server.go:447).
THEOREM LiveAlwaysInTable == Spec => []LiveInTable
<1>1. EInv => LiveInTable
  BY Zenon DEF EInv, EntriesOK, LiveInTable
<1> QED
  BY <1>1, InitEInv, NextKeeps, PTL DEF Spec

\* serve returns only after all the sessions have ended, with any number of other
\* goroutines in Close (server.go:254).
THEOREM NeverSessionAfterServe == Spec => []NoSessionAfterServe
<1>1. EInv => NoSessionAfterServe
  BY Zenon DEF EInv, ClosingOK, NoSessionAfterServe, Running
<1> QED
  BY <1>1, InitEInv, NextKeeps, PTL DEF Spec
-----------------------------------------------------------------------------
(* The version that the client ends up with.                               *)

ClientFields == {"version", "negotiated", "peer", "state", "reason", "handshake"}

\* A session of the client speaks its first version, or the best one of a list
\* that a server has sent; at the end, the best one of the server's list.
VersionOK(s) ==
    /\ DOMAIN s = ClientFields
    /\ \/ s.negotiated = <<>> /\ s.version = Head(start.client)
       \/ /\ s.version = ChooseSupportedVersion(start.client, s.negotiated)
          /\ s.version # VersionUnsupported
          /\ VersionUnsupported \notin Range(s.negotiated)
    /\ s.handshake = 2 => s.version = ChooseSupportedVersion(start.client, s.peer)

\* The client's sessions: the last one is c.session, and there are two at most.
ClientOK ==
    /\ DOMAIN sessions = 1 .. Len(sessions)
    /\ session = Len(sessions) /\ session \in 0 .. 2
    /\ ~ receivedVN => session < 2
    /\ dial = "none" <=> start.client = <<>>
    /\ session = 0 <=> start.client = <<>>
    /\ \A i \in DOMAIN sessions : VersionOK(sessions[i])
    /\ dialOn # 0 => versionNegotiated /\ dialOn = session

\* A session of the server speaks the version of the client's session, which is
\* one of the versions it announces.
AgreeOK ==
    \A id \in ConnIDs \ start.others : \A n \in DOMAIN served[id] :
        /\ id \in DOMAIN sessions
        /\ served[id][n].version = sessions[id].version
        /\ IsSupportedVersion(served[id][n].versions, served[id][n].version)

OfferedOK ==
    /\ versions \in {start.server, start.restart}
    /\ \A r \in replies :
          /\ r.id \in ConnIDs
          /\ r.kind = "VN" => VersionUnsupported \notin Range(r.versions)

DInv == ClientOK /\ AgreeOK /\ OfferedOK

\* The steps that leave the client alone.
LEMMA ClientAlone ==
    ASSUME ClientOK, start' = start,
           UNCHANGED <<session, receivedVN, versionNegotiated, sessions, dial, dialOn>>
    PROVE  ClientOK'
BY Zenon DEF ClientOK, VersionOK

\* The first version is the best one where the other side has it.
LEMMA FirstIsBest ==
    ASSUME NEW ours \in Seq(Int), ours # <<>>, NEW theirs,
           IsSupportedVersion(theirs, Head(ours))
    PROVE  ChooseSupportedVersion(ours, theirs) = Head(ours)
<1> DEFINE common == {i \in DOMAIN ours : IsSupportedVersion(theirs, ours[i])}
<1>1. 1 \in DOMAIN ours /\ Head(ours) = ours[1] /\ DOMAIN ours \subseteq Nat \ {0}
  OBVIOUS
<1>2. 1 \in common /\ \A j \in common : 1 <= j
  BY <1>1
<1>3. Min(common) = 1
  <2>1. Min(common) = CHOOSE x \in common : \A y \in common : x <= y
    BY Zenon DEF Min
  <2>2. common \subseteq Nat
    BY <1>1, Zenon
  <2> HIDE DEF common
  <2>3. \A x \in common : (\A y \in common : x <= y) => x = 1
    BY <1>2, <2>2
  <2> QED
    BY <1>2, <2>1, <2>3, Zenon
<1>4. common # {}
  BY <1>2, Zenon
<1> QED
  BY <1>1, <1>3, <1>4, Zenon DEF ChooseSupportedVersion

\* Only the set of their versions matters.
LEMMA SameVersionsSameChoice ==
    ASSUME NEW ours, NEW theirs, NEW others, Range(theirs) = Range(others)
    PROVE  ChooseSupportedVersion(ours, theirs) = ChooseSupportedVersion(ours, others)
<1>1. {i \in DOMAIN ours : IsSupportedVersion(theirs, ours[i])}
        = {i \in DOMAIN ours : IsSupportedVersion(others, ours[i])}
  BY Zenon DEF IsSupportedVersion
<1> QED
  BY <1>1, Zenon DEF ChooseSupportedVersion

LEMMA NothingOffered ==
    ASSUME NEW ours
    PROVE  ChooseSupportedVersion(ours, <<>>) = VersionUnsupported
<1>1. {i \in DOMAIN ours : IsSupportedVersion(<<>>, ours[i])} = {}
  BY DEF IsSupportedVersion, Range
<1> QED
  BY <1>1, Zenon DEF ChooseSupportedVersion

\* A list that is accepted has the versions of the negotiation.
LEMMA AcceptedList ==
    ASSUME NEW negotiated, NEW verTags, validateVersionList(negotiated, verTags),
           negotiated # <<>>, VersionUnsupported \notin Range(negotiated)
    PROVE  Range(negotiated) = Range(verTags)
<1>1. negotiated = [i \in DOMAIN verTags |->
                       IF IsSupportedVersion(SupportedVersions, verTags[i])
                         THEN verTags[i] ELSE VersionUnsupported]
  BY Zenon DEF validateVersionList
<1>2. DOMAIN negotiated = DOMAIN verTags
  BY <1>1, Zenon
<1>3. \A i \in DOMAIN verTags : negotiated[i] # VersionUnsupported
  BY <1>2, Zenon DEF Range
<1>4. \A i \in DOMAIN verTags : negotiated[i] = verTags[i]
  BY <1>1, <1>3, Zenon
<1> QED
  BY <1>2, <1>4, Zenon DEF Range

LEMMA ClosedKeepsVersion ==
    ASSUME NEW s, VersionOK(s), NEW reason
    PROVE  VersionOK(Closed(s, reason)) /\ Closed(s, reason).version = s.version
<1>1. CASE s.reason = "none"
  <2> DEFINE x == [s EXCEPT !.reason = reason]
  <2>1. Closed(s, reason) = x
    BY <1>1, Zenon DEF Closed
  <2>2. /\ DOMAIN x = ClientFields /\ x.version = s.version /\ x.peer = s.peer
        /\ x.negotiated = s.negotiated /\ x.handshake = s.handshake
    BY Zenon DEF VersionOK, ClientFields
  <2> HIDE DEF x
  <2> QED
    BY <2>1, <2>2, Zenon DEF VersionOK
<1>2. CASE s.reason # "none"
  BY <1>2, Zenon DEF Closed
<1> QED
  BY <1>1, <1>2, Zenon

LEMMA StateKeepsVersion ==
    ASSUME NEW s, VersionOK(s), NEW st
    PROVE  LET x == [s EXCEPT !.state = st] IN VersionOK(x) /\ x.version = s.version
<1> DEFINE x == [s EXCEPT !.state = st]
<1>1. /\ DOMAIN x = ClientFields /\ x.version = s.version /\ x.peer = s.peer
      /\ x.negotiated = s.negotiated /\ x.handshake = s.handshake
  BY Zenon DEF VersionOK, ClientFields
<1> HIDE DEF x
<1>2. VersionOK(x) /\ x.version = s.version
  BY <1>1, Zenon DEF VersionOK
<1> QED
  BY <1>2, Zenon DEF x

\* The SHLO: without a negotiation the server has our first version, with one it
\* has the versions of which ours is the best.
LEMMA MessageKeepsVersion ==
    ASSUME NEW cs, VersionOK(cs), NEW answer, NEW s,
           start.client \in Seq(Int), start.client # <<>>,
           IsSupportedVersion(s.versions, cs.version)
    PROVE  /\ VersionOK(HandshakeMessage(cs, answer, s))
           /\ HandshakeMessage(cs, answer, s).version = cs.version
<1> DEFINE x == [cs EXCEPT !.handshake = 1]
           y == [cs EXCEPT !.handshake = 2, !.peer = s.versions]
           z == [cs EXCEPT !.peer = s.versions]
<1>1. /\ DOMAIN x = ClientFields /\ x.version = cs.version /\ x.handshake = 1
      /\ x.negotiated = cs.negotiated
  BY Zenon DEF VersionOK, ClientFields
<1>2. /\ DOMAIN y = ClientFields /\ y.version = cs.version /\ y.peer = s.versions
      /\ y.negotiated = cs.negotiated
  BY Zenon DEF VersionOK, ClientFields
<1>3. /\ DOMAIN z = ClientFields /\ z.version = cs.version
      /\ z.handshake = cs.handshake /\ z.negotiated = cs.negotiated
  BY Zenon DEF VersionOK, ClientFields
<1>4. HandshakeMessage(cs, answer, s) =
        CASE Live(cs) /\ cs.handshake < 2 /\ answer = 1 -> x
          [] Live(cs) /\ cs.handshake = 1 /\ answer = 2 ->
                IF validateVersionList(cs.negotiated, s.versions)
                  THEN y ELSE Closed(z, "downgrade")
          [] OTHER -> cs
  BY Zenon DEF HandshakeMessage
<1> HIDE DEF x, y, z
<1>5. VersionOK(x)
  BY <1>1 DEF VersionOK
<1>6. ASSUME validateVersionList(cs.negotiated, s.versions)
      PROVE  VersionOK(y)
  <2>1. cs.version = ChooseSupportedVersion(start.client, s.versions)
    <3>1. CASE cs.negotiated = <<>> /\ cs.version = Head(start.client)
      BY <3>1, FirstIsBest, Zenon
    <3>2. CASE /\ cs.version = ChooseSupportedVersion(start.client, cs.negotiated)
               /\ cs.version # VersionUnsupported
               /\ VersionUnsupported \notin Range(cs.negotiated)
      <4>1. cs.negotiated # <<>>
        BY <3>2, NothingOffered, Zenon
      <4>2. Range(cs.negotiated) = Range(s.versions)
        BY <1>6, <3>2, <4>1, AcceptedList, Zenon
      <4> QED
        BY <3>2, <4>2, SameVersionsSameChoice, Zenon
    <3> QED
      BY <3>1, <3>2, Zenon DEF VersionOK
  <2> QED
    BY <1>2, <2>1, Zenon DEF VersionOK
<1>7. ASSUME cs.handshake = 1
      PROVE  VersionOK(Closed(z, "downgrade")) /\ Closed(z, "downgrade").version = cs.version
  <2>1. VersionOK(z)
    BY <1>3, <1>7 DEF VersionOK
  <2> QED
    BY <1>3, <2>1, ClosedKeepsVersion, Zenon
<1>8. CASE Live(cs) /\ cs.handshake < 2 /\ answer = 1
  BY <1>1, <1>4, <1>5, <1>8
<1>9. CASE Live(cs) /\ cs.handshake = 1 /\ answer = 2
  <2>1. HandshakeMessage(cs, answer, s) =
          IF validateVersionList(cs.negotiated, s.versions)
            THEN y ELSE Closed(z, "downgrade")
    BY <1>4, <1>9
  <2> QED
    BY <1>2, <1>6, <1>7, <1>9, <2>1, Zenon
<1>10. CASE /\ ~ (Live(cs) /\ cs.handshake < 2 /\ answer = 1)
            /\ ~ (Live(cs) /\ cs.handshake = 1 /\ answer = 2)
  BY <1>4, <1>10, Zenon
<1> QED
  BY <1>8, <1>9, <1>10, Zenon

\* One session of the client is replaced by x, or nothing changes but what Dial
\* and listen wait for.
LEMMA ClientKept ==
    ASSUME DInv, UNCHANGED <<start, served, versions, replies, session, receivedVN>>,
           \/ UNCHANGED sessions
           \/ \E i, x :
                 /\ i \in DOMAIN sessions => VersionOK(x) /\ x.version = sessions[i].version
                 /\ sessions' = [sessions EXCEPT ![i] = x],
           dial' = "none" <=> dial = "none",
           dialOn' # 0 => versionNegotiated' /\ dialOn' = session
    PROVE  DInv'
<1>1. ConnIDs' = ConnIDs
  BY Zenon DEF ConnIDs
<1>2. /\ DOMAIN sessions' = DOMAIN sessions /\ Len(sessions') = Len(sessions)
      /\ \A i \in DOMAIN sessions : /\ VersionOK(sessions'[i])
                                   /\ sessions'[i].version = sessions[i].version
  BY DEF DInv, ClientOK
<1>3. ClientOK'
  <2>1. \A i \in DOMAIN sessions' : VersionOK(sessions[i])'
    BY <1>2, Zenon DEF VersionOK
  <2>2. ClientOK
    BY Zenon DEF DInv
  <2> QED
    BY <1>2, <2>1, <2>2, Zenon DEF ClientOK
<1>4. AgreeOK'
  <2>1. AgreeOK
    BY Zenon DEF DInv
  <2>2. start' = start /\ served' = served
    BY Zenon
  <2> QED
    BY <1>1, <1>2, <2>1, <2>2 DEF AgreeOK
<1>5. OfferedOK'
  BY <1>1, Zenon DEF DInv, OfferedOK
<1> QED
  BY <1>3, <1>4, <1>5, Zenon DEF DInv

\* The steps of the client's sessions, of Dial and of listen, but for a version
\* negotiation.
LEMMA ClientStepKeeps ==
    ASSUME DInv,
           \/ Run \/ DialVersion \/ DialHandshake \/ DialComplete \/ ListenResumes \/ ListenError
           \/ \E i \in DOMAIN sessions : \/ RunReturns(i) \/ HandshakeTimeout(i)
                                        \/ ClientSessionFails(i)
           \/ ClientSocketFails \/ UserCloses \/ ClientReset
    PROVE  DInv'
<1>1. \A i \in DOMAIN sessions : VersionOK(sessions[i])
  BY Zenon DEF DInv, ClientOK
<1>2. dialOn # 0 => versionNegotiated /\ dialOn = session
  BY Zenon DEF DInv, ClientOK
<1>3. CASE Run \/ \E i \in DOMAIN sessions : RunReturns(i)
  <2>1. PICK i, st : sessions' = [sessions EXCEPT ![i].state = st]
    BY <1>3, Zenon DEF Run, RunReturns
  <2>2. UNCHANGED <<start, served, versions, replies, session, receivedVN, dial, dialOn,
                    versionNegotiated>>
    BY <1>3, Zenon DEF Run, RunReturns, serverVars
  <2> DEFINE x == [sessions[i] EXCEPT !.state = st]
  <2>3. sessions' = [sessions EXCEPT ![i] = x]
    BY <2>1, Zenon
  <2>4. i \in DOMAIN sessions => VersionOK(x) /\ x.version = sessions[i].version
    BY <1>1, StateKeepsVersion, Zenon
  <2> HIDE DEF x
  <2> QED
    BY <1>2, <2>2, <2>3, <2>4, ClientKept, Zenon
<1>4. CASE \/ ListenError \/ UserCloses \/ ClientReset
           \/ \E i \in DOMAIN sessions : HandshakeTimeout(i) \/ ClientSessionFails(i)
  <2>1. PICK i, reason : sessions' = [sessions EXCEPT ![i] = Closed(@, reason)]
    BY <1>4, Zenon DEF ListenError, UserCloses, ClientReset, HandshakeTimeout,
       ClientSessionFails, ClientSessionCloses
  <2>2. UNCHANGED <<start, served, versions, replies, session, receivedVN, dial, dialOn,
                    versionNegotiated>>
    BY <1>4, Zenon DEF ListenError, UserCloses, ClientReset, HandshakeTimeout,
       ClientSessionFails, ClientSessionCloses, ClientHandles, serverVars
  <2> DEFINE x == Closed(sessions[i], reason)
  <2>3. sessions' = [sessions EXCEPT ![i] = x]
    BY <2>1, Zenon
  <2>4. i \in DOMAIN sessions => VersionOK(x) /\ x.version = sessions[i].version
    BY <1>1, ClosedKeepsVersion, Zenon
  <2> HIDE DEF x
  <2> QED
    BY <1>2, <2>2, <2>3, <2>4, ClientKept, Zenon
<1>5. CASE DialVersion \/ DialHandshake \/ DialComplete \/ ListenResumes \/ ClientSocketFails
  <2>1. UNCHANGED <<start, served, versions, replies, session, receivedVN, sessions,
                    versionNegotiated>>
    BY <1>5, Zenon DEF DialVersion, DialHandshake, DialComplete, ListenResumes,
       ClientSocketFails, serverVars
  <2>2. /\ dial' = "none" <=> dial = "none"
        /\ dialOn' # 0 => versionNegotiated /\ dialOn' = session
    BY <1>2, <1>5, Zenon DEF DialVersion, DialHandshake, DialComplete, ListenResumes,
       ClientSocketFails
  <2> QED
    BY <2>1, <2>2, ClientKept, Zenon
<1> QED
  BY <1>3, <1>4, <1>5, Zenon

LEMMA RegularPacketKeeps ==
    ASSUME EInv, DInv, dial # "none", NEW n \in DOMAIN served[session], NEW answer,
           RegularPacket(n, answer)
    PROVE  DInv'
<1>1. start.client # <<>> /\ start.client \in Seq(Int)
  BY EndpointsAssumption, Zenon DEF EInv, ServerOK, DInv, ClientOK
<1>2. session \in {1, 2} /\ session \in DOMAIN sessions
  BY <1>1 DEF DInv, ClientOK
<1>3. session \in ConnIDs \ start.others
  BY <1>1, <1>2, EndpointsAssumption DEF EInv, ServerOK, ConnIDs
<1> DEFINE s == served[session][n]
           x == HandshakeMessage(sessions[session], answer, s)
<1>4. IsSupportedVersion(s.versions, sessions[session].version)
  BY <1>3, Zenon DEF DInv, AgreeOK
<1>5. VersionOK(sessions[session])
  BY <1>2, Zenon DEF DInv, ClientOK
<1>6. VersionOK(x) /\ x.version = sessions[session].version
  BY <1>1, <1>4, <1>5, MessageKeepsVersion, Zenon
<1>7. sessions' = [sessions EXCEPT ![session] = x] /\ versionNegotiated'
  BY Zenon DEF RegularPacket
<1>8. UNCHANGED <<start, served, versions, replies, session, receivedVN, dial, dialOn>>
  BY Zenon DEF RegularPacket, ClientHandles, serverVars
<1>9. dialOn # 0 => dialOn = session
  BY Zenon DEF DInv, ClientOK
<1> HIDE DEF x
<1> QED
  BY <1>6, <1>7, <1>8, <1>9, ClientKept, Zenon

LEMMA Appended ==
    ASSUME NEW f, NEW k \in Nat, DOMAIN f = 1 .. k, Len(f) = k, NEW e
    PROVE  /\ DOMAIN Append(f, e) = 1 .. k + 1 /\ Len(Append(f, e)) = k + 1
           /\ Append(f, e)[k + 1] = e
           /\ \A i \in 1 .. k : Append(f, e)[i] = f[i]
OBVIOUS

LEMMA AppendedToOne ==
    ASSUME NEW f, DOMAIN f = 1 .. 1, Len(f) = 1, NEW e
    PROVE  /\ DOMAIN Append(f, e) = 1 .. 2 /\ Len(Append(f, e)) = 2
           /\ Append(f, e)[1] = f[1] /\ Append(f, e)[2] = e
<1>1. /\ DOMAIN Append(f, e) = 1 .. 1 + 1 /\ Len(Append(f, e)) = 1 + 1
      /\ Append(f, e)[1 + 1] = e
      /\ \A i \in 1 .. 1 : Append(f, e)[i] = f[i]
  BY Appended
<1>2. 1 \in 1 .. 1 /\ 1 + 1 = 2
  OBVIOUS
<1> QED
  BY <1>1, <1>2, Zenon

LEMMA VersionNegotiationKeeps ==
    ASSUME EInv, DInv, NEW r \in replies, VersionNegotiation(r)
    PROVE  DInv'
<1> DEFINE offered    == r.versions
           newVersion == ChooseSupportedVersion(start.client, offered)
<1>1. /\ r.kind = "VN" /\ r.id = session /\ ~ receivedVN /\ ~ versionNegotiated
      /\ receivedVN' /\ SwitchVersion(offered)
      /\ UNCHANGED <<start, served, versions, replies, dial, dialOn, versionNegotiated>>
  BY Zenon DEF VersionNegotiation, SwitchVersion, ClientHandles, serverVars
<1>2. session \in ConnIDs /\ VersionUnsupported \notin Range(offered)
  BY <1>1, Zenon DEF DInv, OfferedOK
<1>3. start.client # <<>> /\ session = 1 /\ DOMAIN sessions = 1 .. 1 /\ Len(sessions) = 1
  <2>1. start.client # <<>>
    BY <1>2, EndpointsAssumption, Zenon DEF EInv, ServerOK, DInv, ClientOK, ConnIDs
  <2> QED
    BY <1>1, <2>1 DEF DInv, ClientOK
<1>4. ConnIDs' = ConnIDs
  BY <1>1, Zenon DEF ConnIDs
<1>5. dialOn = 0
  BY <1>1, Zenon DEF DInv, ClientOK
<1>6. VersionOK(sessions[1])
  BY <1>3 DEF DInv, ClientOK
<1> HIDE DEF offered, newVersion
<1>7. /\ DOMAIN sessions' = 1 .. Len(sessions') /\ session' = Len(sessions')
      /\ session' \in {1, 2}
      /\ \A i \in DOMAIN sessions' : VersionOK(sessions'[i])
      /\ sessions'[1].version = sessions[1].version
  <2>1. CASE newVersion = VersionUnsupported
    <3>1. /\ sessions' = [sessions EXCEPT ![1] = Closed(sessions[1], "InvalidVersion")]
          /\ session' = session
      BY <1>1, <1>3, <2>1, Zenon DEF SwitchVersion, newVersion
    <3>2. DOMAIN sessions' = 1 .. 1 /\ Len(sessions') = 1
      BY <1>3, <3>1
    <3>3. sessions'[1] = Closed(sessions[1], "InvalidVersion")
      BY <1>3, <3>1
    <3>4. VersionOK(sessions'[1]) /\ sessions'[1].version = sessions[1].version
      BY <1>6, <3>3, ClosedKeepsVersion, Zenon
    <3>5. \A i \in DOMAIN sessions' : i = 1
      BY <3>2
    <3> QED
      BY <1>3, <3>1, <3>2, <3>4, <3>5, Zenon
  <2>2. CASE newVersion # VersionUnsupported
    <3> DEFINE x == newClientSession(newVersion, offered)
               old == [sessions EXCEPT ![1] = Closed(sessions[1], "NewVersion")]
    <3>1. sessions' = Append(old, x) /\ session' = Len(sessions')
      BY <1>1, <1>3, <2>2, Zenon DEF SwitchVersion, newVersion
    <3>2. /\ DOMAIN x = ClientFields /\ x.version = newVersion /\ x.negotiated = offered
          /\ x.handshake = 0
      BY Zenon DEF newClientSession, ClientFields
    <3>3. VersionOK(x)
      <4>1. x.handshake # 2 /\ newVersion # VersionUnsupported
        BY <2>2, <3>2
      <4> QED
        BY <1>2, <3>2, <4>1, Zenon DEF VersionOK, newVersion
    <3>4. DOMAIN old = 1 .. 1 /\ Len(old) = 1 /\ old[1] = Closed(sessions[1], "NewVersion")
      BY <1>3
    <3> HIDE DEF x, old
    <3>5. /\ DOMAIN sessions' = 1 .. 2 /\ Len(sessions') = 2
          /\ sessions'[1] = old[1] /\ sessions'[2] = x
      <4>1. /\ DOMAIN Append(old, x) = 1 .. 2 /\ Len(Append(old, x)) = 2
            /\ Append(old, x)[1] = old[1] /\ Append(old, x)[2] = x
        BY <3>4, AppendedToOne, Zenon
      <4> QED
        BY <3>1, <4>1, Zenon
    <3>6. VersionOK(sessions'[1]) /\ sessions'[1].version = sessions[1].version
      <4>1. sessions'[1] = Closed(sessions[1], "NewVersion")
        BY <3>4, <3>5, Zenon
      <4> QED
        BY <1>6, <4>1, ClosedKeepsVersion, Zenon
    <3>7. \A i \in DOMAIN sessions' : i = 1 \/ i = 2
      BY <3>5
    <3> QED
      BY <3>1, <3>3, <3>5, <3>6, <3>7, Zenon
  <2> QED
    BY <2>1, <2>2, Zenon
<1>8. ClientOK'
  <2>1. \A i \in DOMAIN sessions' : VersionOK(sessions[i])'
    BY <1>1, <1>7, Zenon DEF VersionOK
  <2>2. /\ start' = start /\ dial' = dial /\ dialOn' = 0 /\ receivedVN'
        /\ start.client # <<>> /\ dial # "none"
    BY <1>1, <1>3, <1>5, Zenon DEF DInv, ClientOK
  <2>3. session' \in 0 .. 2 /\ session' # 0
    BY <1>7
  <2> QED
    BY <1>7, <2>1, <2>2, <2>3, Zenon DEF ClientOK
<1>9. AgreeOK'
  <2>1. ASSUME NEW id \in ConnIDs \ start.others, NEW n \in DOMAIN served[id]
        PROVE  /\ id = 1 /\ served[id][n].version = sessions[1].version
               /\ IsSupportedVersion(served[id][n].versions, served[id][n].version)
    BY <1>3 DEF DInv, AgreeOK
  <2>2. 1 \in DOMAIN sessions'
    BY <1>7
  <2>3. start' = start /\ served' = served
    BY <1>1, Zenon
  <2> QED
    BY <1>4, <1>7, <2>1, <2>2, <2>3, Zenon DEF AgreeOK
<1>10. OfferedOK'
  BY <1>1, <1>4, Zenon DEF DInv, OfferedOK
<1> QED
  BY <1>8, <1>9, <1>10, Zenon DEF DInv

\* The steps that keep the versions of the server's sessions.
LEMMA ServedKept ==
    ASSUME DInv, UNCHANGED <<start, replies, clientVars>>,
           versions' \in {start.server, start.restart},
           \A id \in ConnIDs :
              /\ DOMAIN served'[id] = DOMAIN served[id]
              /\ \A n \in DOMAIN served[id] :
                    /\ served'[id][n].version = served[id][n].version
                    /\ served'[id][n].versions = served[id][n].versions
    PROVE  DInv'
<1>1. ConnIDs' = ConnIDs
  BY Zenon DEF ConnIDs
<1>2. UNCHANGED <<session, receivedVN, versionNegotiated, sessions, dial, dialOn>>
  BY Zenon DEF clientVars
<1>3. ClientOK'
  BY <1>2, ClientAlone, Zenon DEF DInv
<1>4. AgreeOK'
  BY <1>1, <1>2 DEF DInv, AgreeOK
<1>5. OfferedOK'
  BY <1>1, Zenon DEF DInv, OfferedOK
<1> QED
  BY <1>3, <1>4, <1>5, Zenon DEF DInv

LEMMA OneServedKept ==
    ASSUME EInv, DInv, UNCHANGED <<start, replies, clientVars, versions>>,
           NEW id \in ConnIDs, NEW n \in DOMAIN served[id], NEW x,
           x.version = served[id][n].version, x.versions = served[id][n].versions,
           served' = [served EXCEPT ![id][n] = x]
    PROVE  DInv'
<1>1. /\ \A i \in ConnIDs : DOMAIN served'[i] = DOMAIN served[i]
      /\ \A i \in ConnIDs : \A k \in DOMAIN served[i] :
            served'[i][k] = IF i = id /\ k = n THEN x ELSE served[i][k]
  BY Replaced, Zenon DEF EInv
<1>2. versions \in {start.server, start.restart}
  BY Zenon DEF DInv, OfferedOK
<1> QED
  BY <1>1, <1>2, ServedKept

LEMMA ServedVersions ==
    ASSUME NEW s, DOMAIN s = SessionFields
    PROVE  /\ \A h : LET x == HandlePacket(s, h)
                    IN  x.version = s.version /\ x.versions = s.versions
           /\ \A r : LET x == Closed(s, r)
                    IN  x.version = s.version /\ x.versions = s.versions
           /\ \A st : LET x == [s EXCEPT !.state = st]
                     IN  x.version = s.version /\ x.versions = s.versions
           /\ \A a : LET x == [s EXCEPT !.announce = a]
                    IN  x.version = s.version /\ x.versions = s.versions
BY Zenon DEF HandlePacket, Closed, SessionFields

LEMMA ServerStepKeeps ==
    ASSUME EInv, DInv, NEW id \in ConnIDs, NEW n \in DOMAIN served[id],
           \/ ServerRunReturns(id, n) \/ removeConnection(id, n)
           \/ AwaitForwardSecure(id, n) \/ Enqueue(id, n)
           \/ ServerSessionCloses(id, n)
           \/ \E g \in Closers : CloseSession(g, id) /\ n = table[id]
    PROVE  DInv'
<1> DEFINE s == served[id][n]
<1>1. DOMAIN s = SessionFields
  BY Zenon DEF EInv, ServerOK
<1>2. UNCHANGED <<start, replies, clientVars, versions>>
  BY Zenon DEF ServerRunReturns, removeConnection, AwaitForwardSecure, Enqueue,
     ServerSessionCloses, CloseSession
<1>3. \E x : /\ x.version = s.version /\ x.versions = s.versions
             /\ served' = [served EXCEPT ![id][n] = x]
  <2>1. CASE ServerRunReturns(id, n) \/ removeConnection(id, n)
    <3>1. PICK st \in {"ended", "removed"} :
            served' = [served EXCEPT ![id][n] = [s EXCEPT !.state = st]]
      BY <2>1, Zenon DEF ServerRunReturns, removeConnection
    <3> QED
      BY <1>1, <3>1, ServedVersions, Zenon
  <2>2. CASE AwaitForwardSecure(id, n) \/ Enqueue(id, n)
    <3>1. PICK a \in {"queue", "done"} :
            served' = [served EXCEPT ![id][n] = [s EXCEPT !.announce = a]]
      BY <2>2, Zenon DEF AwaitForwardSecure, Enqueue
    <3> QED
      BY <1>1, <3>1, ServedVersions, Zenon
  <2>3. CASE \/ ServerSessionCloses(id, n)
             \/ \E g \in Closers : CloseSession(g, id) /\ n = table[id]
    <3>1. PICK r \in {"failure", "nil"} :
            served' = [served EXCEPT ![id][n] = Closed(s, r)]
      BY <2>3, Zenon DEF ServerSessionCloses, CloseSession
    <3> QED
      BY <1>1, <3>1, ServedVersions, Zenon
  <2> QED
    BY <2>1, <2>2, <2>3, Zenon
<1> QED
  BY <1>2, <1>3, OneServedKept, Zenon

\* A session is made for a version of the server, the one in the packet.
LEMMA ServePacketKeepsVersions ==
    ASSUME EInv, DInv, NEW id \in ConnIDs, NEW h, ServePacket(id, h)
    PROVE  DInv'
<1> DEFINE v == PacketVersion(id)
<1>1. /\ Sent(id, h) /\ handlePacket(id, h)
      /\ UNCHANGED <<start, versions, clientVars>>
  BY Zenon DEF ServePacket
<1>2. versions \in {start.server, start.restart}
  BY Zenon DEF DInv, OfferedOK
<1>3. CASE /\ UNCHANGED <<table, served>>
           /\ \/ replies' = replies \cup {[kind |-> "reset", id |-> id]}
              \/ replies' = replies \cup {[kind |-> "VN", id |-> id, versions |-> versions]}
  <2>1. ConnIDs' = ConnIDs
    BY <1>1, Zenon DEF ConnIDs
  <2>2. UNCHANGED <<session, receivedVN, versionNegotiated, sessions, dial, dialOn>>
    BY <1>1, Zenon DEF clientVars
  <2>3. ClientOK' /\ AgreeOK'
    <3>1. ClientOK'
      BY <1>1, <2>2, ClientAlone, Zenon DEF DInv
    <3>2. AgreeOK'
      BY <1>1, <1>3, <2>1, <2>2, Zenon DEF DInv, AgreeOK
    <3> QED
      BY <3>1, <3>2, Zenon
  <2>4. VersionUnsupported \notin Range(versions)
    <3>1. versions \in Seq(Nat)
      BY <1>2, EndpointsAssumption, Zenon DEF EInv, ServerOK
    <3>2. \A k \in DOMAIN versions : versions[k] \in Nat
      BY <3>1
    <3> QED
      BY <3>2 DEF Range, VersionUnsupported
  <2>5. \A r \in replies' : /\ r.id \in ConnIDs
                            /\ r.kind = "VN" => VersionUnsupported \notin Range(r.versions)
    <3>1. CASE replies' = replies \cup {[kind |-> "reset", id |-> id]}
      BY <3>1 DEF DInv, OfferedOK
    <3>2. CASE replies' = replies \cup {[kind |-> "VN", id |-> id, versions |-> versions]}
      BY <2>4, <3>2, SMTT(20) DEF DInv, OfferedOK
    <3> QED
      BY <1>3, <3>1, <3>2, Zenon
  <2>6. OfferedOK'
    BY <1>1, <1>2, <2>1, <2>5, Zenon DEF OfferedOK
  <2> QED
    BY <2>3, <2>6, Zenon DEF DInv
<1>4. CASE /\ table[id] = 0 /\ IsSupportedVersion(versions, v)
           /\ served' = [served EXCEPT ![id] = Append(@, HandlePacket(ServerSession(v), h))]
           /\ UNCHANGED replies
  <2> DEFINE x == HandlePacket(ServerSession(v), h)
  <2>1. x.version = v /\ x.versions = versions
    <3>1. /\ DOMAIN ServerSession(v) = SessionFields
          /\ ServerSession(v).version = v /\ ServerSession(v).versions = versions
      BY Zenon DEF ServerSession, SessionFields
    <3> QED
      BY <3>1, ServedVersions, Zenon
  <2>2. PICK k \in Nat : DOMAIN served[id] = 1 .. k /\ Len(served[id]) = k
    BY Zenon DEF EInv, ServerOK
  <2>3. served'[id] = Append(served[id], x) /\ \A i \in ConnIDs \ {id} : served'[i] = served[i]
    BY <1>4, Zenon DEF EInv, ServerOK
  <2> HIDE DEF x, v
  <2>4. /\ DOMAIN served'[id] = 1 .. k + 1 /\ served'[id][k + 1] = x
        /\ \A n \in DOMAIN served[id] : served'[id][n] = served[id][n]
    BY <2>2, <2>3, Appended
  <2>5. ConnIDs' = ConnIDs
    BY <1>1, Zenon DEF ConnIDs
  <2>6. UNCHANGED <<session, receivedVN, versionNegotiated, sessions, dial, dialOn>>
    BY <1>1, Zenon DEF clientVars
  <2>7. id \notin start.others => id \in DOMAIN sessions /\ v = sessions[id].version
    BY <1>1, Zenon DEF Sent, PacketVersion, v
  <2>8. AgreeOK'
    <3>1. ASSUME NEW i \in ConnIDs \ start.others, NEW n \in DOMAIN served'[i]
          PROVE  /\ i \in DOMAIN sessions
                 /\ served'[i][n].version = sessions[i].version
                 /\ IsSupportedVersion(served'[i][n].versions, served'[i][n].version)
      <4>1. CASE i = id /\ n = k + 1
        BY <1>4, <2>1, <2>4, <2>7, <4>1, Zenon
      <4>2. CASE i = id /\ n # k + 1
        <5>1. n \in DOMAIN served[id] /\ served'[id][n] = served[id][n]
          BY <2>2, <2>4, <3>1, <4>2
        <5> QED
          BY <4>2, <5>1, Zenon DEF DInv, AgreeOK
      <4>3. CASE i # id
        BY <2>3, <4>3, Zenon DEF DInv, AgreeOK
      <4> QED
        BY <4>1, <4>2, <4>3, Zenon
    <3> QED
      BY <1>1, <2>5, <2>6, <3>1, Zenon DEF AgreeOK
  <2>9. ClientOK' /\ OfferedOK'
    <3>1. ClientOK'
      BY <1>1, <2>6, ClientAlone, Zenon DEF DInv
    <3>2. OfferedOK'
      BY <1>1, <1>4, <2>5, Zenon DEF DInv, OfferedOK
    <3> QED
      BY <3>1, <3>2, Zenon
  <2> QED
    BY <2>8, <2>9, Zenon DEF DInv
<1>5. CASE /\ table[id] > 0
           /\ served' = [served EXCEPT ![id][table[id]] = HandlePacket(@, h)]
           /\ UNCHANGED replies
  <2> DEFINE n == table[id]
             x == HandlePacket(served[id][n], h)
  <2>1. n \in DOMAIN served[id] /\ DOMAIN served[id][n] = SessionFields
    BY <1>5, Zenon DEF EInv, ServerOK
  <2>2. x.version = served[id][n].version /\ x.versions = served[id][n].versions
    BY <2>1, ServedVersions, Zenon
  <2>3. served' = [served EXCEPT ![id][n] = x]
    BY <1>5, Zenon
  <2>4. UNCHANGED <<start, replies, clientVars, versions>>
    BY <1>1, <1>5, Zenon
  <2> HIDE DEF n, x
  <2> QED
    BY <2>1, <2>2, <2>3, <2>4, OneServedKept, Zenon
<1> QED
  BY <1>1, <1>3, <1>4, <1>5, Zenon DEF handlePacket, Reply

LEMMA RestartKeepsVersions ==
    ASSUME EInv, DInv, Restart
    PROVE  DInv'
<1> DEFINE Crashed(s) == [s EXCEPT !.state = "removed", !.reason = "crash",
                                   !.announce = "done"]
<1>1. /\ served' = [i \in ConnIDs |-> [k \in DOMAIN served[i] |-> Crashed(served[i][k])]]
      /\ versions' = start.restart /\ UNCHANGED <<start, replies, clientVars>>
  BY Zenon DEF Restart
<1>2. ASSUME NEW s, DOMAIN s = SessionFields
      PROVE  Crashed(s).version = s.version /\ Crashed(s).versions = s.versions
  BY <1>2, Zenon DEF SessionFields
<1> HIDE DEF Crashed
<1>3. ASSUME NEW i \in ConnIDs
      PROVE  /\ DOMAIN served'[i] = DOMAIN served[i]
             /\ \A n \in DOMAIN served[i] :
                   /\ served'[i][n].version = served[i][n].version
                   /\ served'[i][n].versions = served[i][n].versions
  <2>1. served'[i] = [k \in DOMAIN served[i] |-> Crashed(served[i][k])]
    BY <1>1, Zenon
  <2>2. \A k \in DOMAIN served[i] : DOMAIN served[i][k] = SessionFields
    BY Zenon DEF EInv, ServerOK
  <2> QED
    BY <1>2, <2>1, <2>2, Zenon
<1> QED
  BY <1>1, <1>3, ServedKept, Zenon

LEMMA InitDInv == Init => DInv
<1> SUFFICES ASSUME Init PROVE DInv
  BY Zenon
<1> DEFINE x == newClientSession(Head(start.client), <<>>)
<1>1. /\ DOMAIN x = ClientFields /\ x.negotiated = <<>> /\ x.handshake = 0
      /\ x.version = Head(start.client)
  BY Zenon DEF newClientSession, ClientFields
<1> HIDE DEF x
<1>2. VersionOK(x)
  BY <1>1 DEF VersionOK
<1>3. sessions = IF start.client = <<>> THEN <<>> ELSE <<x>>
  BY Zenon DEF Init, x
<1>4. /\ DOMAIN sessions = 1 .. Len(sessions)
      /\ Len(sessions) = IF start.client = <<>> THEN 0 ELSE 1
      /\ \A i \in DOMAIN sessions : sessions[i] = x
  <2>1. CASE start.client = <<>>
    BY <1>3, <2>1
  <2>2. CASE start.client # <<>>
    <3>1. sessions = <<x>>
      BY <1>3, <2>2, Zenon
    <3>2. DOMAIN sessions = 1 .. 1 /\ Len(sessions) = 1 /\ sessions[1] = x
      BY <3>1
    <3> QED
      BY <2>2, <3>2
  <2> QED
    BY <2>1, <2>2, Zenon
<1>5. ClientOK
  BY <1>2, <1>4 DEF Init, ClientOK
<1>6. \A id \in ConnIDs : DOMAIN served[id] = {}
  BY DEF Init
<1>7. AgreeOK
  BY <1>6, Zenon DEF AgreeOK
<1>8. OfferedOK
  BY Zenon DEF Init, OfferedOK
<1> QED
  BY <1>5, <1>7, <1>8, Zenon DEF DInv

LEMMA NextKeepsVersions == EInv /\ DInv /\ [Next]_vars => DInv'
<1> SUFFICES ASSUME EInv, DInv, [Next]_vars PROVE DInv'
  BY Zenon
<1>1. ASSUME UNCHANGED <<start, replies, clientVars, versions, served>>
      PROVE  DInv'
  <2>1. versions \in {start.server, start.restart}
    BY Zenon DEF DInv, OfferedOK
  <2> QED
    BY <1>1, <2>1, ServedKept, Zenon
<1>2. ASSUME NEW g \in Closers, NEW id \in ConnIDs, CloseSession(g, id)
      PROVE  DInv'
  <2>1. table[id] \in DOMAIN served[id]
    BY <1>2, Zenon DEF CloseSession, EInv, ServerOK
  <2> QED
    BY <1>2, <2>1, ServerStepKeeps, Zenon
<1>3. CASE Goroutines
  <2>1. CASE \/ Accept \/ ClosePconns \/ ServeDrops \/ ServerSocketFails \/ ServeError
             \/ \E g \in Closers : \/ CloseContinues(g) \/ CloseRanged(g)
                                   \/ CloseSends(g) \/ CloseReturns(g)
    <3>1. UNCHANGED <<start, replies, clientVars, versions, served>>
      BY <2>1, Zenon DEF Accept, ClosePconns, ServeDrops, ServerSocketFails, ServeError,
         CloseContinues, CloseRanged, CloseSends, CloseReturns, serverVars
    <3> QED
      BY <1>1, <3>1, Zenon
  <2>2. CASE \/ Run \/ DialVersion \/ DialHandshake \/ DialComplete \/ ListenResumes \/ ListenError
             \/ \E i \in DOMAIN sessions : RunReturns(i) \/ HandshakeTimeout(i)
             \/ ClientSocketFails
    BY <2>2, ClientStepKeeps, Zenon
  <2>3. CASE \E id \in ConnIDs : \E n \in DOMAIN served[id] :
                \/ ServerRunReturns(id, n) \/ removeConnection(id, n)
                \/ AwaitForwardSecure(id, n) \/ Enqueue(id, n)
    BY <2>3, ServerStepKeeps, Zenon
  <2> QED
    BY <1>2, <1>3, <2>1, <2>2, <2>3, Zenon DEF Goroutines
<1>4. CASE Environment
  <2>1. CASE \/ \E i \in DOMAIN sessions : ClientSessionFails(i)
             \/ UserCloses \/ ClientReset \/ ClientSocketFails
    BY <2>1, ClientStepKeeps, Zenon
  <2>2. CASE \E r \in replies : VersionNegotiation(r)
    BY <2>2, VersionNegotiationKeeps, Zenon
  <2>3. CASE /\ dial # "none"
             /\ \E n \in DOMAIN served[session], answer \in 1..2 : RegularPacket(n, answer)
    BY <2>3, RegularPacketKeeps, Zenon
  <2>4. CASE \E id \in ConnIDs, h \in 0..2 : ServePacket(id, h)
    BY <2>4, ServePacketKeepsVersions, Zenon
  <2>5. ASSUME NEW id \in ConnIDs, NEW n \in DOMAIN served[id],
               ServerSessionCloses(id, n) \/ DeleteEntry(id, n)
        PROVE  DInv'
    <3>1. CASE DeleteEntry(id, n)
      BY <1>1, <3>1, Zenon DEF DeleteEntry
    <3> QED
      BY <2>5, <3>1, ServerStepKeeps, Zenon
  <2>6. CASE ServerSocketFails \/ \E g \in Closers : UserClose(g)
    BY <1>1, <2>6, Zenon DEF ServerSocketFails, UserClose, serverVars
  <2>7. CASE Restart
    BY <2>7, RestartKeepsVersions, Zenon
  <2> QED
    BY <1>4, <2>1, <2>2, <2>3, <2>4, <2>5, <2>6, <2>7, Zenon DEF Environment
<1>5. CASE UNCHANGED vars
  BY <1>1, <1>5, Zenon DEF vars, serverVars
<1> QED
  BY <1>3, <1>4, <1>5, Zenon DEF Next

\* Dial waits for the session that it returns, and a session that is
\* forward-secure speaks the best common version: for any lists of versions, a
\* server that is replaced by one with another list meanwhile, and packets that
\* are delivered late or again (client.go:329, crypto_setup_client.go:416).
THEOREM AlwaysBestVersion == Spec => []DialsBestVersion
<1>1. DInv => DialsBestVersion
  BY Zenon DEF DInv, ClientOK, VersionOK, DialsBestVersion
<1> QED
  BY <1>1, InitEInv, NextKeeps, InitDInv, NextKeepsVersions, PTL DEF Spec

=============================================================================
