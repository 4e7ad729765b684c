----------------------------- MODULE Reassembly -----------------------------
(***************************************************************************)
(* The receiving half of FullTcpAgent (tcp-full.cc) on an established       *)
(* connection: trimming of duplicate data, the reassembly queue rq_ and     *)
(* what is handed to the application, for a stream of Last bytes, numbered  *)
(* from 1, and a FIN.                                                       *)
(*                                                                         *)
(* Any part of the stream may arrive at any time and any number of times:   *)
(* packets are reordered and lost, and retransmissions cut the stream       *)
(* elsewhere (a sender in probe mode sends a single byte).                  *)
(***************************************************************************)
EXTENDS ReassemblyQueue

CONSTANT Last    \* the number of bytes before the FIN

ASSUME LastAssumption == Last \in Nat \ {0}

VARIABLES
    rq_,         \* the reassembly queue; rq_.nxt is rcv_nxt_
    finrcvd,     \* have_received_FIN(state_)
    got,         \* history: the bytes that have arrived
    gotfin       \* history: a FIN has arrived

streamVars == <<rq_, finrcvd, got, gotfin>>

StreamInit ==
    /\ rq_ = [blocks |-> {}, total |-> 0, nxt |-> 1]
    /\ finrcvd = FALSE
    /\ got = {}
    /\ gotfin = FALSE

\* A segment arrives.
RecvSegment(start, end, fin) ==
    LET res == Accept(rq_, start, end, fin)
    IN /\ IF ~finrcvd
          THEN /\ rq_' = [res.rq EXCEPT !.nxt = IF res.flags THEN @ + 1 ELSE @]
               /\ finrcvd' = res.flags
          ELSE UNCHANGED <<rq_, finrcvd>>
       /\ got' = got \cup (start .. (end - 1))
       /\ gotfin' = (gotfin \/ fin)

\* A segment without data is a FIN, and the FIN is behind the last byte.
StreamNext ==
    \E start, end \in 1 .. (Last + 1), fin \in BOOLEAN :
        /\ start < end \/ (start = end /\ fin)
        /\ fin => end = Last + 1
        /\ RecvSegment(start, end, fin)

StreamSpec == StreamInit /\ [][StreamNext]_streamVars

-----------------------------------------------------------------------------

\* Type invariant.
StreamTypeOK ==
    /\ rq_.blocks \subseteq Block
    /\ \A b \in rq_.blocks : 1 <= b.s /\ b.s <= b.e /\ b.e <= Last + 1
    /\ rq_.total \in 0 .. Last
    /\ rq_.nxt \in 1 .. (Last + 2)
    /\ finrcvd \in BOOLEAN
    /\ got \in SUBSET (1 .. Last)
    /\ gotfin \in BOOLEAN

\* The byte after the last one that was handed to the application.
InOrder == IF finrcvd THEN rq_.nxt - 1 ELSE rq_.nxt

\* rcv_nxt_ names the first byte that has not arrived: nothing is delivered
\* to the application before it arrives, and nothing that is in order is
\* held back, however segments overlap the blocks in the queue.
DeliversPrefix == /\ 1 .. (InOrder - 1) \subseteq got
                  /\ InOrder \notin got

\* The queue holds every byte that arrived out of order and no other, its
\* blocks are maximal, and total_ counts the bytes.
QueueHoldsRest == /\ StreamTypeOK
                  /\ BytesOf(rq_.blocks) = got \ (1 .. (InOrder - 1))
                  /\ Separated(rq_.blocks)
                  /\ rq_.total = Cardinality(BytesOf(rq_.blocks))

\* The connection sees the FIN only when all the data has been delivered.
FinIsLast == finrcvd => gotfin /\ InOrder = Last + 1

\* nexthole finds the first byte at or above seq that is not in the queue,
\* -1 only if the queue holds nothing there, and counts the bytes above.
HolesAreFound ==
    \A seq \in 1 .. (Last + 1) :
        LET have  == BytesOf(rq_.blocks)
            hole  == nexthole(rq_, seq)
            above == {x \in have : x > hole.seq}
        IN IF hole.seq = -1 THEN have \cap (seq .. Last) = {}
           ELSE /\ hole.seq >= seq
                /\ hole.seq \notin have
                /\ seq .. (hole.seq - 1) \subseteq have
                /\ IF above = {} THEN hole.bytes <= 0 ELSE hole.bytes = Cardinality(above)

=============================================================================
