----------------------------- MODULE LossyPort -----------------------------
(***************************************************************************)
(* What the transport protocol may expect of an output port, whatever its  *)
(* queueing discipline: a packet that was offered is transmitted at most   *)
(* once, nothing else is transmitted, packets may be lost, and the packets *)
(* of one flow are transmitted in the order in which they were offered.    *)
(* Between flows there is no order.                                        *)
(*                                                                         *)
(* A packet is a pair <<number of its arrival, flow>>.                     *)
(***************************************************************************)
EXTENDS Naturals, Sequences

CONSTANT Flows

VARIABLES
    offered,  \* how many packets have been offered
    waiting,  \* the packets that may still be transmitted
    out       \* the packets transmitted, in order

vars == <<offered, waiting, out>>

Init == offered = 0 /\ waiting = {} /\ out = <<>>

\* The port lets go of any of the packets S and transmits none.
LoseSome(S) == waiting' \subseteq S /\ UNCHANGED out

\* The port transmits one of the packets S: from now on nothing of its flow
\* that was offered earlier can follow.
TransmitOne(S) ==
    \E w \in S : /\ out' = Append(out, w)
                 /\ waiting' \subseteq S \ {w}
                 /\ \A r \in waiting' : r[2] = w[2] => w[1] < r[1]

Offer ==
    /\ offered' = offered + 1
    /\ \E f \in Flows : LET S == waiting \cup {<<offered + 1, f>>} IN
                        LoseSome(S) \/ TransmitOne(S)

Depart ==
    /\ UNCHANGED offered
    /\ LoseSome(waiting) \/ TransmitOne(waiting)

Next == Offer \/ Depart

Spec == Init /\ [][Next]_vars
=============================================================================
