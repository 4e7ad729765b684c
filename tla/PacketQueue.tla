---------------------------- MODULE PacketQueue ----------------------------
(***************************************************************************)
(* The linked list PacketQueue (queue.h, queue.cc) and the subclass        *)
(* DropTail::BadTrackingPacketQueue (drop-tail.cc) that counts the packets *)
(* whose priority is "bad".                                                *)
(*                                                                         *)
(* A list is only ever appended to at its tail and cut anywhere, so its    *)
(* order is the order of arrival.  It is modelled by the SET of the        *)
(* packets on it; a packet carries the number `id' of its arrival, and     *)
(* "before on the list" is "smaller id".  The counters bytes_ and          *)
(* num_bad_packets_ are state of their own, updated as the code does it;   *)
(* len_ is the cardinality of the set.                                     *)
(*                                                                         *)
(* Packets have one of two sizes: a bare header (an ACK) or a full         *)
(* segment.                                                                *)
(***************************************************************************)
EXTENDS Integers, FiniteSets, Sequences

CONSTANTS
    Flows,       \* (source, destination, flow id) triples
    HdrSize,     \* size of a packet without payload
    MssSize      \* size of a full segment

ASSUME SizeAssumption ==
    /\ HdrSize \in Nat \ {0}
    /\ MssSize \in Nat \ {0}
    /\ HdrSize < MssSize

\* The sizes packets have.
Sizes == {HdrSize, MssSize}

\* 1 << 30, the priority of data whose flow has not ended yet.
LowestPrio == 1073741824

\* What a queue looks at in the headers of a packet.
Packet == [id : Nat, flow : Flows, prio : Int, size : Sizes,
           ect : BOOLEAN, ce : BOOLEAN]

is_bad_prio(p) == p.prio >= LowestPrio

\* The total size of a set of packets.
Bytes(S) ==
      HdrSize * Cardinality({p \in S : p.size = HdrSize})
    + MssSize * Cardinality({p \in S : p.size = MssSize})

\* The bad packets of a set.
BadOf(S) == {p \in S : is_bad_prio(p)}

\* A BadTrackingPacketQueue: the packets, bytes_ and num_bad_packets_.
PacketQueueType == [pkts : SUBSET Packet, bytes : Int, bad : Int]

EmptyQueue == [pkts |-> {}, bytes |-> 0, bad |-> 0]

\* Mutant: takes the tail.
MutIsFirst(S, p) == p \in S /\ \A r \in S : r.id <= p.id

\* p is the first of the packets S.
IsFirst(S, p) == p \in S /\ \A r \in S : p.id <= r.id

pq_enque(pq, p) ==
    [pkts  |-> pq.pkts \cup {p},
     bytes |-> pq.bytes + p.size,
     bad   |-> pq.bad + Cardinality(BadOf({p}))]

\* deque() of the head p.
pq_deque(pq, p) ==
    [pkts  |-> pq.pkts \ {p},
     bytes |-> pq.bytes - p.size,
     bad   |-> pq.bad - Cardinality(BadOf({p}))]

\* Those of R that are at the head when their turn to be removed comes, if
\* R is removed in the order of the list.
HeadsOf(S, R) == {p \in R : \A r \in S : r.id < p.id => r \in R}

\* Mutant: len_ is adjusted but bytes_ is not.
MutPqRemove(pq, R) ==
    [pkts  |-> pq.pkts \ R,
     bytes |-> pq.bytes,
     bad   |-> pq.bad - Cardinality(BadOf(R))]

\* remove() of each packet of R, in the order of the list.  A packet that is
\* the head at that moment is noted twice: once by
\* BadTrackingPacketQueue::remove and once more by the virtual deque() that
\* PacketQueue::remove calls.
pq_remove(pq, R) ==
    [pkts  |-> pq.pkts \ R,
     bytes |-> pq.bytes - Bytes(R),
     bad   |-> pq.bad - Cardinality(BadOf(R))
                      - Cardinality(BadOf(HeadsOf(pq.pkts, R)))]

-----------------------------------------------------------------------------
(* What the properties of all the queues say about packets *)

\* The packets with the numbers below n are each in exactly one of the three
\* places P, D and the sequence s, once.
Conserved(P, D, s, n) ==
    LET S == {s[i] : i \in 1..Len(s)}
        Everywhere == P \cup D \cup S
    IN /\ \A k \in 1..(n - 1) : \E p \in Everywhere : p.id = k
       /\ \A p \in Everywhere : p.id \in 1..(n - 1)
       /\ \A p, r \in Everywhere : p.id = r.id => p = r
       /\ \A p \in P : p \notin D /\ p \notin S
       /\ \A p \in D : p \notin S
       /\ \A i, j \in 1..Len(s) : s[i] = s[j] => i = j
=============================================================================
