----------------------------- MODULE MCEndpoints -----------------------------
(***************************************************************************)
(* Situations, each with what it needs and no more: a version is           *)
(* negotiated and the server restarted with other versions, among them a   *)
(* better one, not the one agreed on, or the one first offered; no version *)
(* is common; one is unknown to the client; the first one is accepted and  *)
(* the server's session fails; the server is closed, with more sessions    *)
(* than the queue of Accept holds, after a failure, and by two goroutines. *)
(***************************************************************************)
EXTENDS Endpoints

Start(client, server, restart, others, users, faults, maxSessions) ==
    [client |-> client, server |-> server, restart |-> restart, others |-> others,
     users |-> users, faults |-> faults, maxSessions |-> maxSessions]

MCStarts ==
    { Start(<<3, 2, 1>>, <<1, 2>>, <<2, 3>>, {}, {}, {}, 2),
      Start(<<3, 2, 1>>, <<1, 2>>, <<1, 3>>, {}, {}, {}, 2),
      Start(<<1, 2>>, <<2>>, <<1, 2>>, {}, {}, {"client"}, 2),
      Start(<<1>>, <<2>>, <<>>, {}, {}, {"client"}, 2),
      Start(<<1, 2>>, <<2, 9>>, <<>>, {}, {}, {}, 2),
      Start(<<1>>, <<1>>, <<>>, {}, {}, {"sessions"}, 2),
      Start(<<>>, <<1>>, <<>>, {3, 4}, {"user1"}, {}, 1),
      Start(<<>>, <<1>>, <<>>, {3}, {"user1"}, {"server", "sessions"}, 2),
      Start(<<>>, <<1>>, <<>>, {3}, {}, {"sessions"}, 3),
      Start(<<>>, <<1>>, <<>>, {3}, {"user1", "user2"}, {}, 1) }

MCSupportedVersions == <<3, 2, 1>>
=============================================================================
