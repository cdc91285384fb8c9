---------------------------- MODULE MCCongestion ----------------------------
(***************************************************************************)
(* Instances of Congestion for TLC.                                        *)
(***************************************************************************)
EXTENDS Congestion

\* The initial path, with Cubic.  A loss takes the window from 7 to 5: the cube
\* root of 2 * CubeDen rounds, and an RTT later the curve is still below 7.
Curve == [paths |-> {0}, initial |-> 7, lengths |-> {1}, rtts |-> {1}, packets |-> 7,
          inflight |-> 2, timeouts |-> 0, time |-> 6]

\* The delays of hybrid slow start.
Delays == [paths |-> {0}, initial |-> 4, lengths |-> {1}, rtts |-> {1, 3}, packets |-> 5,
           inflight |-> 4, timeouts |-> 0, time |-> 1]

\* Paths that OLIA couples, one of them without traffic.
Coupled == [paths |-> {1, 3}, initial |-> 4, lengths |-> {1}, rtts |-> {1}, packets |-> 3,
            inflight |-> 3, timeouts |-> 1, time |-> 1]

MCBounds == {Curve, Delays, Coupled}
=============================================================================
