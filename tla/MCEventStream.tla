---------------------------- MODULE MCEventStream ----------------------------
(***************************************************************************)
(* Small instances of EventStream.                                         *)
(***************************************************************************)
EXTENDS EventStream, TLC

\* A block; a transaction that is no deploy, which the legacy endpoints cannot
\* translate; and the Shutdown of a node.
Block == [kind |-> "BlockAdded", legacy |-> TRUE]
Accepted == [kind |-> "TransactionAccepted", legacy |-> FALSE]
NodeShutdown == [kind |-> "Shutdown", legacy |-> FALSE]

BlockOnly == {Block}
AcceptedAndShutdown == {Accepted, NodeShutdown}

\* The index starts so that the ids wrap around in the buffer.
NearWrap == {IdCount - 2}

\* Clients that start with live events, from the first id, from a buffered one
\* before the ids wrap around, and on a legacy endpoint.
ReplayRequests ==
    [start : {NoId, 0, IdCount - 2, IdCount - 1}, endpoint : {"events"}]
        \cup [start : {NoId, 0}, endpoint : {"deploys"}]
FromZero == {[start |-> 0, endpoint |-> "events"]}

ClientSymmetry == Permutations(Clients)
=============================================================================
