--------------------------- MODULE MCPriorityQueue ---------------------------
(***************************************************************************)
(* Small instances of PriorityQueue: three CoS queues, a header of size 1  *)
(* and a segment of size 3.                                                *)
(***************************************************************************)
EXTENDS PriorityQueue

CONSTANTS f1, f2

Data(f, prio) == [flow |-> f, prio |-> prio, size |-> MssSize, ect |-> TRUE]
Ack(f) == [flow |-> f, prio |-> 0, size |-> HdrSize, ect |-> FALSE]

\* Data of every urgency, one beyond the last queue, and an ACK.
PiasShapes == {Data(f1, 0), Data(f1, 1), Data(f1, 2), Data(f2, 5), Ack(f2)}
=============================================================================
