----------------------------- MODULE MCSendLoop -----------------------------
(***************************************************************************)
(* Instances of SendLoop for TLC.                                          *)
(***************************************************************************)
EXTENDS SendLoop

NoEvents == [k \in EventKinds \cup {"total"} |-> 0]

Scenario(name, side, ids, rtts, data, fin, crypto, window, events_) ==
    [scheduler |-> name, perspective |-> side, paths |-> ids, rtt |-> rtts, data |-> data,
     fin |-> fin, crypto |-> crypto, window |-> window, budget |-> events_]

NoRTT == [p \in PathIDs |-> 0]
KnownRTT == [p \in PathIDs |-> IF p = 3 THEN 2 ELSE 1]

\* Every scheduler, with losses of one byte and of more than a packet takes.
EveryScheduler ==
    {Scenario(name, "server", ids, rtts, data, TRUE, 0, 9,
              [NoEvents EXCEPT !["ack"] = 1, !["lose"] = 2, !["rto"] = 1, !["receive"] = 1,
                               !["answer"] = 1, !["total"] = 2]) :
        name \in SchedulerNames, ids \in {{0, 1}, {0, 1, 3}}, rtts \in {NoRTT, KnownRTT},
        data \in {1, 5}}

\* Longer histories of losses and timeouts.
Loss ==
    {Scenario("rtt", "server", ids, NoRTT, 3, TRUE, 0, 9,
              [NoEvents EXCEPT !["ack"] = 1, !["lose"] = 2, !["rto"] = 2, !["receive"] = 2,
                               !["total"] = 4]) : ids \in {{0, 1}}}
       \cup {Scenario("rtt", "server", {0, 1, 3}, KnownRTT, 8, TRUE, 0, 9,
                      [NoEvents EXCEPT !["receive"] = 1, !["lose"] = 1, !["rto"] = 1,
                                       !["keepalive"] = 1, !["total"] = 3])}

\* Paths whose RTT is not known yet, one of them potentially failed.
Probing ==
    {Scenario("rtt", "server", {0, 1, 3}, NoRTT, 1, TRUE, 0, 9,
              [NoEvents EXCEPT !["ack"] = 1, !["rto"] = 1, !["keepalive"] = 1, !["reset"] = 1,
                               !["total"] = 3])}

\* Everything that queues control frames.
Control ==
    {Scenario("rtt", "server", ids, KnownRTT, 2, FALSE, 0, 2,
              [NoEvents EXCEPT !["receive"] = 1, !["lose"] = 1, !["rto"] = 1,
                               !["update"] = 1, !["blocked"] = 1, !["keepalive"] = 1,
                               !["reset"] = 1, !["address"] = 1, !["window"] = 1,
                               !["write"] = 1, !["total"] = 3]) : ids \in {{0}, {0, 1}}}

\* The end of the handshake, with early data of a client and new paths.
Handshakes ==
    {Scenario("rtt", side, {0}, NoRTT, data, TRUE, 1, 9,
              [NoEvents EXCEPT !["receive"] = 1, !["ack"] = 1, !["lose"] = 2, !["path"] = 1, !["rto"] = 1,
                               !["total"] = 3]) :
        side \in {"client", "server"}, data \in {0, 4}}

MCScenarios == EveryScheduler \cup Loss \cup Probing \cup Control \cup Handshakes
=============================================================================
