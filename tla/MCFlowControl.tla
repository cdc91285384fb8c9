--------------------------- MODULE MCFlowControl ---------------------------
(***************************************************************************)
(* Two streams that share the connection's window; one may be reset.       *)
(***************************************************************************)
EXTENDS FlowControl

MCStreams == {5, 7}
MCLength == [s \in Streams |-> 3]
MCInitialSendWindow == [i \in Ids |-> IF i = 0 THEN 3 ELSE 2]
MCReceiveWindow == MCInitialSendWindow
MCMaxIncrement == [i \in Ids |-> IF i = 0 THEN 4 ELSE 3]
=============================================================================
