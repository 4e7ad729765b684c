----------------------------- MODULE MCDropTail -----------------------------
(***************************************************************************)
(* Small instances of DropTail.  Sizes are in units of a header: a header  *)
(* is 1, a full segment 3.                                                 *)
(***************************************************************************)
EXTENDS DropTail

\* Two flows.  Each sends data before its end is known (bad) and after;
\* f2 also sends ACKs, which are small, urgent and not ECN-capable.
Data(f, prio) == [flow |-> f, prio |-> prio, size |-> MssSize, ect |-> TRUE]
Ack(f) == [flow |-> f, prio |-> 0, size |-> HdrSize, ect |-> FALSE]

CONSTANTS f1, f2

\* good_limit_ of the experiments: no separate limit.
NoGoodLimit == -1

AsccShapes == {Data(f1, LowestPrio), Data(f1, 1),
               Data(f2, LowestPrio), Data(f2, 2), Ack(f2)}

FifoShapes == {Data(f1, 1), Data(f2, 1), Ack(f2)}
GoodBadShapes == {Data(f1, LowestPrio), Data(f1, 1), Data(f2, 1)}
=============================================================================
