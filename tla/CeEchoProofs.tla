---------------------------- MODULE CeEchoProofs ----------------------------
(***************************************************************************)
(* Proofs about the congestion echo of module CeEcho, for flows of any      *)
(* length, any number of losses and retransmissions, and both trackers.     *)
(*                                                                         *)
(* The inductive invariant EchoInv has three groups, shown to be preserved  *)
(* one after the other: the receiver and what is in flight (Gen), the       *)
(* window that protects a reaction, and, for a network that keeps the       *)
(* order, the match of segments, ACKs and counted marks (Ordered).          *)
(***************************************************************************)
EXTENDS CeEcho, WellFoundedInduction, FiniteSetTheorems, TLAPS

\* The packets and the ACKs in flight, and the state of the receiver's tracker.
DataPkt == [seq : Nat, ce : BOOLEAN, low : BOOLEAN, copy : Nat]
AckPkt == [no : Nat, ece : BOOLEAN, low : BOOLEAN, why : DataPkt, of : DataPkt \cup {<<>>}]
Tracker == [recent_ce_ : BOOLEAN, is_low_prio_ : BOOLEAN, ce_transition_ : BOOLEAN,
            why : DataPkt \cup {<<>>}]

\* The echo e, sent while the tracker was at low or not, is due to the mark of w.
MarkOf(e, low, w) == e => w \in DataPkt /\ w.ce /\ (afabric_ecn_enabled_ /\ ~low => ~w.low)

-----------------------------------------------------------------------------
(* The inductive invariant *)

\* The types of what TypeOK leaves open.
Shape ==
    /\ afabric_ecn_enabled_ \in BOOLEAN /\ in_order \in BOOLEAN
    /\ alpha \in [recalc : Nat, max : Nat, marked : Nat, total : Nat]
    /\ tracker \in Tracker
    /\ recover_ \in Nat /\ counted \in Nat /\ rtx \in Nat
    /\ reaction \in [at : Nat, timeout : BOOLEAN, announced : BOOLEAN,
                     why : DataPkt \cup {<<>>}]

\* The packets in flight have been sent, and the ACKs are the receiver's.
InFlight ==
    /\ \A p \in data : p \in DataPkt /\ p.seq < maxseq_
    /\ IsABag(acks)
    /\ \A a \in DOMAIN acks : a \in AckPkt /\ a.no <= rcv_nxt_

\* The receiver has no unanswered packet, and knows one as soon as it expects
\* another than the first.
Answered == last_ack_sent_ = rcv_nxt_ /\ (rcv_nxt_ > 0 => tracker.why \in DataPkt)

\* Every echo, of the tracker and in flight, is due to a mark.
Marks ==
    /\ MarkOf(tracker.recent_ce_, tracker.is_low_prio_, tracker.why)
    /\ \A a \in DOMAIN acks : MarkOf(a.ece, a.low, a.why)

\* A window in which the sender has reacted without a timeout is protected.
Window ==
    /\ recover_ <= maxseq_
    /\ reaction.why # <<>> /\ ~reaction.timeout =>
          recover_ >= reaction.at /\ last_cwnd_action_ # "TIMEOUT"

\* On a network that keeps the order and loses nothing the data in flight are
\* the segments from rcv_nxt_ on, once each, the ACKs in flight those of the
\* segments from highest_ack_ on, and each carries the mark of its segment.
DataInOrder ==
    in_order =>
        /\ rtx = 0 /\ rq_ = {}
        /\ \A p \in data : p.seq >= rcv_nxt_
        /\ \A p, q \in data : p.seq = q.seq => p = q
        /\ \A s \in rcv_nxt_ .. maxseq_ - 1 : \E p \in data : p.seq = s
        /\ DOMAIN ce = 0 .. rcv_nxt_ - 1
        /\ \A s \in DOMAIN ce : ce[s] \in BOOLEAN

AcksInOrder ==
    in_order =>
        /\ \A a \in DOMAIN acks : acks[a] = 1 /\ a.no > highest_ack_
        /\ \A a, b \in DOMAIN acks : a.no = b.no => a = b
        /\ \A n \in highest_ack_ + 1 .. rcv_nxt_ : \E a \in DOMAIN acks : a.no = n
        /\ ~afabric_ecn_enabled_ => \A a \in DOMAIN acks : a.ece = ce[a.no - 1]

EchoInv ==
    /\ TypeOK /\ Shape /\ InFlight /\ Answered /\ Marks /\ Window
    /\ EchoesMark /\ ReactsToUrgent
    /\ DataInOrder /\ AcksInOrder /\ CountsExactly
-----------------------------------------------------------------------------
(* Bags, numbers and packets *)

\* One more copy of r.
LEMMA BagAdd ==
    ASSUME NEW B, IsABag(B), NEW r
    PROVE  LET N == B (+) SetToBag({r})
           IN  /\ IsABag(N) /\ DOMAIN N = DOMAIN B \cup {r}
               /\ \A x \in DOMAIN B : x # r => N[x] = B[x]
               /\ r \notin DOMAIN B => N[r] = 1
<1> DEFINE N == B (+) SetToBag({r})
           one == SetToBag({r})
<1>1. DOMAIN one = {r} /\ one[r] = 1
  BY DEF SetToBag
<1> HIDE DEF one
<1>2. N = [x \in DOMAIN B \cup {r} |-> (IF x \in DOMAIN B THEN B[x] ELSE 0)
                                     + (IF x \in {r} THEN one[x] ELSE 0)]
  BY <1>1 DEF (+), one
<1>3. \A x \in DOMAIN B : B[x] \in Nat /\ B[x] > 0
  BY DEF IsABag
<1> HIDE DEF N
<1>4. DOMAIN N = DOMAIN B \cup {r}
  BY <1>2
<1>5. ASSUME NEW x \in DOMAIN B \cup {r}
      PROVE  /\ N[x] \in Nat /\ N[x] > 0
             /\ x # r => N[x] = B[x]
             /\ x = r /\ r \notin DOMAIN B => N[x] = 1
  BY <1>1, <1>2, <1>3
<1>6. IsABag(N)
  BY <1>2, <1>4, <1>5 DEF IsABag
<1> QED BY <1>4, <1>5, <1>6 DEF N

\* No copy more.
LEMMA BagAddNothing ==
    ASSUME NEW B, IsABag(B)
    PROVE  B (+) EmptyBag = B
<1>1. DOMAIN EmptyBag = {}
  BY DEF EmptyBag, SetToBag
<1>2. \A x \in DOMAIN B : B[x] \in Nat /\ B = [y \in DOMAIN B |-> B[y]]
  BY DEF IsABag
<1>3. B (+) EmptyBag = [x \in DOMAIN B |-> B[x] + 0]
  BY <1>1 DEF (+)
<1>4. \A x \in DOMAIN B : B[x] + 0 = B[x]
  BY <1>2
<1>5. B = [y \in DOMAIN B |-> B[y]]
  BY DEF IsABag
<1> QED BY <1>3, <1>4, <1>5

\* One copy of r less.
LEMMA BagRemove ==
    ASSUME NEW B, IsABag(B), NEW r \in DOMAIN B
    PROVE  LET N == B (-) SetToBag({r})
           IN  /\ IsABag(N) /\ DOMAIN B \ {r} \subseteq DOMAIN N
               /\ DOMAIN N \subseteq DOMAIN B
               /\ \A x \in DOMAIN N : x # r => N[x] = B[x]
               /\ B[r] = 1 => r \notin DOMAIN N
<1> DEFINE N == B (-) SetToBag({r})
           C == [x \in DOMAIN B |-> IF x \in {r} THEN B[x] - 1 ELSE B[x]]
<1>1. DOMAIN SetToBag({r}) = {r} /\ SetToBag({r})[r] = 1
  BY DEF SetToBag
<1>2. N = [x \in {d \in DOMAIN C : C[d] > 0} |-> C[x]]
  BY <1>1 DEF (-)
<1>3. \A x \in DOMAIN B : B[x] \in Nat /\ B[x] > 0
  BY DEF IsABag
<1>4. /\ DOMAIN C = DOMAIN B
      /\ \A x \in DOMAIN B : C[x] \in Nat /\ (x # r => C[x] = B[x]) /\ (x = r => C[x] = B[x] - 1)
  BY <1>3
<1> HIDE DEF N, C
<1>5. DOMAIN N = {d \in DOMAIN C : C[d] > 0} /\ \A x \in DOMAIN N : N[x] = C[x]
  BY <1>2
<1>6. IsABag(N)
  BY <1>2, <1>4, <1>5 DEF IsABag
<1> QED BY <1>3, <1>4, <1>5, <1>6 DEF N

\* A set of natural numbers has a least element.
LEMMA Least ==
    ASSUME NEW T \in SUBSET Nat, T # {}
    PROVE  \E x \in T : \A y \in T : x <= y
<1>1. OpToRel(<, Nat) = {ss \in Nat \X Nat : ss[1] < ss[2]}
  BY DEF OpToRel
<1>2. PICK x \in T : \A y \in T : ~(<<y, x>> \in {ss \in Nat \X Nat : ss[1] < ss[2]})
  BY <1>1, NatLessThanWellFounded, WFMin
<1>3. ASSUME NEW y \in T PROVE x <= y
  <2>1. <<y, x>> \in Nat \X Nat /\ <<y, x>>[1] = y /\ <<y, x>>[2] = x
    OBVIOUS
  <2>2. ~(y < x)
    BY <1>2, <2>1
  <2> QED BY <2>2
<1> QED BY <1>3

\* A packet is not the mark for "none".
LEMMA PktNotEmpty ==
    ASSUME NEW p \in DataPkt
    PROVE  p # <<>>
<1>1. DOMAIN p = {"seq", "ce", "low", "copy"} /\ DOMAIN <<>> = {}
  BY DEF DataPkt
<1> QED BY <1>1

-----------------------------------------------------------------------------
(* The receiver *)

\* The segments that follow seq in the reassembly queue end before a gap.
LEMMA AfterGap ==
    ASSUME NEW seq \in Nat, NEW top \in Nat, seq < top, rq_ \subseteq 0 .. top - 1
    PROVE  /\ After(seq) \in seq + 1 .. top
           /\ After(seq) \notin rq_
           /\ rq_ = {} => After(seq) = seq + 1
<1> DEFINE c == Cardinality(rq_)
           I == seq + 1 .. seq + 1 + c
           G == I \ rq_
           Good(n) == n \notin rq_ /\ \A k \in seq + 1 .. n - 1 : k \in rq_
<1>1. IsFiniteSet(rq_) /\ c \in Nat
  <2>1. IsFiniteSet(0 .. top - 1) /\ rq_ \in SUBSET (0 .. top - 1)
    BY FS_Interval
  <2> QED BY <2>1, FS_Subset, FS_CardinalityType
<1>2. G # {}
  <2> SUFFICES ASSUME G = {} PROVE FALSE
    OBVIOUS
  <2>1. I \in SUBSET rq_
    OBVIOUS
  <2>2. Cardinality(I) <= c
    BY <1>1, <2>1, FS_Subset
  <2> HIDE DEF c
  <2>3. Cardinality(I) = c + 1
    <3>1. seq + 1 \in Int /\ seq + 1 + c \in Int /\ ~(seq + 1 > seq + 1 + c)
      BY <1>1
    <3>2. Cardinality(seq + 1 .. seq + 1 + c) = (seq + 1 + c) - (seq + 1) + 1
      BY <3>1, FS_Interval
    <3> QED BY <1>1, <3>2
  <2> QED BY <1>1, <2>2, <2>3
<1>3. PICK n \in G : \A y \in G : n <= y
  <2> HIDE DEF c
  <2>1. G \in SUBSET Nat
    BY <1>1
  <2> HIDE DEF G
  <2> QED BY <1>2, <2>1, Least
<1>4. n \in I /\ Good(n)
  <2> HIDE DEF c
  <2>1. n \in I /\ n \notin rq_ /\ n \in Nat
    BY <1>1
  <2>2. ASSUME NEW k \in seq + 1 .. n - 1 PROVE k \in rq_
    <3>1. k \in I /\ k < n
      BY <1>1, <2>1
    <3> QED BY <1>1, <1>3, <2>1, <3>1
  <2> QED BY <2>1, <2>2
<1>5. After(seq) = CHOOSE m \in I : Good(m)
  BY DEF After
<1> HIDE DEF I, Good
<1>6. After(seq) \in I /\ Good(After(seq))
  BY <1>4, <1>5
<1> DEFINE a == After(seq)
<1> HIDE DEF a, c
<1>7. a \in Nat /\ a >= seq + 1 /\ a <= seq + 1 + c /\ a \notin rq_
  BY <1>1, <1>6 DEF a, I, Good
<1>8. a <= top
  <2> SUFFICES ASSUME ~(a <= top) PROVE FALSE
    OBVIOUS
  <2>1. a - 1 \in seq + 1 .. a - 1
    BY <1>7
  <2>2. a - 1 \in rq_
    BY <1>6, <2>1 DEF a, Good
  <2> QED BY <1>7, <2>2
<1>9. ASSUME rq_ = {} PROVE a = seq + 1
  <2>1. c = 0
    BY <1>9, FS_EmptySet DEF c
  <2> QED BY <1>7, <2>1
<1> QED BY <1>7, <1>8, <1>9 DEF a

\* The tracker's update for a packet.
LEMMA TrackerStep ==
    ASSUME NEW t \in Tracker, NEW p \in DataPkt, NEW h \in BOOLEAN,
           afabric_ecn_enabled_ \in BOOLEAN,
           MarkOf(t.recent_ce_, t.is_low_prio_, t.why)
    PROVE  LET u == on_new_packet(t, p, h)
           IN  /\ u \in Tracker
               /\ MarkOf(u.recent_ce_, u.is_low_prio_, u.why)
               /\ p.ce \/ h => u.why = p
               /\ ~p.ce /\ ~h => u = t
               /\ h => u.recent_ce_ = (p.ce /\ (afabric_ecn_enabled_ => u.is_low_prio_ \/ ~p.low))
<1> DEFINE u == on_new_packet(t, p, h)
<1>1. /\ p.ce \in BOOLEAN /\ p.low \in BOOLEAN
      /\ t.recent_ce_ \in BOOLEAN /\ t.is_low_prio_ \in BOOLEAN
  BY DEF DataPkt, Tracker
<1>2. CASE ~p.ce /\ ~h
  BY <1>2 DEF on_new_packet
<1>3. CASE (p.ce \/ h) /\ afabric_ecn_enabled_
  <2>1. u = AFabricUpdate(t, p)
    BY <1>3 DEF on_new_packet
  <2>2. /\ u.recent_ce_ = (p.ce /\ ((t.is_low_prio_ /\ p.low) \/ ~p.low))
        /\ u.is_low_prio_ = (t.is_low_prio_ /\ p.low)
        /\ u.why = p /\ u \in Tracker
    BY <1>1, <2>1 DEF AFabricUpdate, is_priority_valid, Tracker
  <2> HIDE DEF u
  <2> QED BY <1>1, <1>3, <2>2 DEF MarkOf, u
<1>4. CASE (p.ce \/ h) /\ ~afabric_ecn_enabled_
  <2>1. u = EcnhatUpdate(t, p)
    BY <1>4 DEF on_new_packet
  <2>2. u.recent_ce_ = p.ce /\ u.why = p /\ u \in Tracker
    BY <1>1, <2>1 DEF EcnhatUpdate, Tracker
  <2> HIDE DEF u
  <2> QED BY <1>1, <1>4, <2>2 DEF MarkOf, u
<1> QED BY <1>1, <1>2, <1>3, <1>4

\* The facts that the arrival of a data packet needs.
Receiving == TypeOK /\ Shape /\ InFlight /\ Answered /\ Marks

\* The numbers of TypeOK.
LEMMA Numbers ==
    ASSUME TypeOK
    PROVE  /\ flow \in 1 .. Len(Flows) /\ Flows[flow] \in Nat
           /\ maxseq_ \in Nat /\ maxseq_ <= Flows[flow]
           /\ highest_ack_ \in Nat /\ highest_ack_ <= rcv_nxt_
           /\ rcv_nxt_ \in Nat /\ rcv_nxt_ <= maxseq_
           /\ last_ack_sent_ \in Nat /\ last_ack_sent_ <= rcv_nxt_
           /\ rq_ \subseteq 0 .. maxseq_ - 1
           /\ \A s \in rq_ : s \in Nat /\ s > rcv_nxt_ /\ s < maxseq_
<1>1. flow \in 1 .. Len(Flows) /\ Flows[flow] \in Nat
  BY EchoAssumption DEF TypeOK
<1>2. maxseq_ \in Nat /\ maxseq_ <= Flows[flow] /\ highest_ack_ \in Nat
  BY <1>1 DEF TypeOK
<1>3. rcv_nxt_ \in Nat /\ highest_ack_ <= rcv_nxt_ /\ rcv_nxt_ <= maxseq_
  BY <1>2 DEF TypeOK
<1>4. last_ack_sent_ \in Nat /\ last_ack_sent_ <= rcv_nxt_
  BY <1>3 DEF TypeOK
<1>5. \A s \in rq_ : s \in Nat /\ s > rcv_nxt_ /\ s < maxseq_
  BY <1>2, <1>3 DEF TypeOK
<1>6. rq_ \subseteq 0 .. maxseq_ - 1
  BY <1>2, <1>5
<1> QED BY <1>1, <1>2, <1>3, <1>4, <1>5, <1>6

\* A data packet is answered at once, by one ACK, which echoes a mark that has
\* arrived.  An ACK of new data echoes the mark of its packet.
LEMMA RecvEffect ==
    ASSUME Receiving, NEW p \in data, RecvData(p)
    PROVE  /\ rcv_nxt_' \in rcv_nxt_ .. maxseq_
           /\ last_ack_sent_' = rcv_nxt_'
           /\ rq_' \subseteq rcv_nxt_' + 1 .. maxseq_ - 1
           /\ tracker' \in Tracker /\ tracker'.why \in DataPkt
           /\ MarkOf(tracker'.recent_ce_, tracker'.is_low_prio_, tracker'.why)
           /\ p.seq = rcv_nxt_ /\ rq_ = {} => rcv_nxt_' = p.seq + 1 /\ rq_' = {}
           /\ \E r \in AckPkt :
                 /\ acks' = acks (+) SetToBag({r})
                 /\ r.no = rcv_nxt_'
                 /\ MarkOf(r.ece, r.low, r.why)
                 /\ p.seq >= rcv_nxt_ => r.of = p
                 /\ r.of # <<>> =>
                       r.ece = (r.of.ce /\ (afabric_ecn_enabled_ => r.low \/ ~r.of.low))
<1> DEFINE inSeq   == p.seq = rcv_nxt_
           pure    == inSeq /\ rq_ = {}
           t1      == IF inSeq THEN on_new_packet(tracker, p, TRUE) ELSE tracker
           t2      == IF pure THEN t1 ELSE on_new_packet(t1, p, p.seq >= rcv_nxt_)
           next    == IF inSeq THEN After(p.seq) ELSE rcv_nxt_
           answers == need_send(~pure, next)
           reply   == Ack(next, t2, IF p.seq >= rcv_nxt_ THEN p ELSE <<>>)
<1>1. /\ p \in data
      /\ tracker' = t2
      /\ rcv_nxt_' = next
      /\ rq_' = {s \in rq_ \cup {p.seq} : s >= next}
      /\ last_ack_sent_' = IF answers THEN next ELSE last_ack_sent_
      /\ acks' = (acks (+) (IF pure THEN PreviousAck(t2) ELSE EmptyBag))
                       (+) (IF answers THEN SetToBag({reply}) ELSE EmptyBag)
  BY DEF RecvData
<1>2. /\ p \in DataPkt /\ p.seq \in Nat /\ p.seq < maxseq_ /\ IsABag(acks)
      /\ tracker \in Tracker /\ afabric_ecn_enabled_ \in BOOLEAN
      /\ MarkOf(tracker.recent_ce_, tracker.is_low_prio_, tracker.why)
      /\ last_ack_sent_ = rcv_nxt_ /\ (rcv_nxt_ > 0 => tracker.why \in DataPkt)
      /\ p # <<>>
  BY PktNotEmpty DEF Receiving, Shape, InFlight, Marks, Answered, DataPkt
<1>3. /\ maxseq_ \in Nat /\ rcv_nxt_ \in Nat /\ rcv_nxt_ <= maxseq_
      /\ rq_ \subseteq 0 .. maxseq_ - 1
      /\ \A s \in rq_ : s \in Nat /\ s > rcv_nxt_ /\ s < maxseq_
  BY Numbers DEF Receiving
<1>4. /\ next \in rcv_nxt_ .. maxseq_ /\ next \notin rq_ /\ next \in Nat
      /\ inSeq => next \in p.seq + 1 .. maxseq_
      /\ pure => next = p.seq + 1
  <2>1. CASE inSeq
    <3>1. /\ After(p.seq) \in p.seq + 1 .. maxseq_ /\ After(p.seq) \notin rq_
          /\ rq_ = {} => After(p.seq) = p.seq + 1
      BY <1>2, <1>3, AfterGap
    <3> QED BY <1>2, <1>3, <2>1, <3>1
  <2>2. CASE ~inSeq
    BY <1>3, <2>2
  <2> QED BY <2>1, <2>2
<1> HIDE DEF next
<1>5. rq_' \subseteq next + 1 .. maxseq_ - 1 /\ (pure => rq_' = {})
  <2>1. \A s \in rq_ \cup {p.seq} : s \in Nat /\ s < maxseq_
    BY <1>2, <1>3
  <2>2. \A s \in rq_ \cup {p.seq} : s # next
    <3>1. p.seq # next
      BY <1>2, <1>3, <1>4 DEF next
    <3> QED BY <1>4, <3>1
  <2>3. \A s \in rq_' : s \in Nat /\ s >= next /\ s # next /\ s < maxseq_
    BY <1>1, <2>1, <2>2
  <2>4. rq_' \subseteq next + 1 .. maxseq_ - 1
    BY <1>3, <1>4, <2>3
  <2>5. ASSUME pure PROVE rq_' = {}
    BY <1>1, <1>2, <1>4, <2>5
  <2> QED BY <2>4, <2>5
<1>6. answers
  BY <1>2, <1>3, <1>4 DEF need_send
<1>7. PreviousAck(t2) = EmptyBag
  <2>1. ~(rcv_nxt_ - last_ack_sent_ > 0)
    BY <1>2, <1>3
  <2> QED BY <2>1 DEF PreviousAck
<1>8. acks' = acks (+) SetToBag({reply})
  <2>1. acks (+) EmptyBag = acks
    BY <1>2, BagAddNothing
  <2>2. acks' = (acks (+) EmptyBag) (+) SetToBag({reply})
    BY <1>1, <1>6, <1>7
  <2> QED BY <2>1, <2>2
<1>9. /\ t1 \in Tracker /\ MarkOf(t1.recent_ce_, t1.is_low_prio_, t1.why)
      /\ inSeq => t1.why = p
      /\ inSeq => t1.recent_ce_ = (p.ce /\ (afabric_ecn_enabled_ => t1.is_low_prio_ \/ ~p.low))
      /\ ~inSeq => t1 = tracker
  BY <1>2, TrackerStep
<1> HIDE DEF t1
<1>10. /\ t2 \in Tracker /\ MarkOf(t2.recent_ce_, t2.is_low_prio_, t2.why)
       /\ t2.why \in DataPkt
       /\ p.seq >= rcv_nxt_ => t2.recent_ce_ = (p.ce /\ (afabric_ecn_enabled_ => t2.is_low_prio_ \/ ~p.low))
  <2>1. CASE pure
    BY <1>2, <1>9, <2>1
  <2>2. CASE ~pure
    <3> DEFINE h == p.seq >= rcv_nxt_
    <3>1. h \in BOOLEAN /\ t2 = on_new_packet(t1, p, h)
      BY <2>2
    <3> HIDE DEF h, t2
    <3>2. /\ t2 \in Tracker
          /\ MarkOf(t2.recent_ce_, t2.is_low_prio_, t2.why)
          /\ p.ce \/ h => t2.why = p
          /\ ~p.ce /\ ~h => t2 = t1
          /\ h => t2.recent_ce_ = (p.ce /\ (afabric_ecn_enabled_ => t2.is_low_prio_ \/ ~p.low))
      BY <1>2, <1>9, <3>1, TrackerStep
    <3>3. ~h => t1.why \in DataPkt
      BY <1>2, <1>3, <1>9 DEF h
    <3> QED BY <1>2, <3>2, <3>3 DEF h
  <2> QED BY <2>1, <2>2
<1> HIDE DEF t2
<1>11. /\ reply \in AckPkt /\ reply.no = next
       /\ reply.ece = t2.recent_ce_ /\ reply.low = t2.is_low_prio_ /\ reply.why = t2.why
       /\ reply.of = (IF p.seq >= rcv_nxt_ THEN p ELSE <<>>)
  BY <1>2, <1>4, <1>10 DEF Ack, AckPkt, Tracker
<1> HIDE DEF reply, answers
<1>12. /\ MarkOf(reply.ece, reply.low, reply.why)
       /\ p.seq >= rcv_nxt_ => reply.of = p
       /\ reply.of # <<>> =>
             reply.ece = (reply.of.ce /\ (afabric_ecn_enabled_ => reply.low \/ ~reply.of.low))
  BY <1>10, <1>11
<1>13. rcv_nxt_' \in rcv_nxt_ .. maxseq_
  BY <1>1, <1>4
<1>14. last_ack_sent_' = rcv_nxt_'
  BY <1>1, <1>6
<1>15. tracker' \in Tracker /\ tracker'.why \in DataPkt
       /\ MarkOf(tracker'.recent_ce_, tracker'.is_low_prio_, tracker'.why)
  BY <1>1, <1>10
<1> QED BY <1>1, <1>4, <1>5, <1>8, <1>11, <1>12, <1>13, <1>14, <1>15

-----------------------------------------------------------------------------
(* The receiver's side of the invariant *)

Gen == Receiving /\ EchoesMark

\* The parts of Gen that a step of the sender can disturb.
LEMMA GenFromParts ==
    ASSUME Gen,
           TypeOK', Shape', UNCHANGED <<afabric_ecn_enabled_, rcvVars>>,
           \A p \in data' : p \in DataPkt /\ p.seq < maxseq_',
           IsABag(acks'), DOMAIN acks' \subseteq DOMAIN acks
    PROVE  Gen'
<1>1. UNCHANGED <<rcv_nxt_, last_ack_sent_, rq_, tracker, afabric_ecn_enabled_>>
  BY DEF rcvVars
<1>2. InFlight'
  BY <1>1 DEF Gen, Receiving, InFlight
<1>3. Answered' /\ Marks'
  BY <1>1 DEF Gen, Receiving, Answered, Marks, MarkOf
<1>4. EchoesMark'
  BY <1>1 DEF Gen, EchoesMark, BagToSet
<1> QED BY <1>2, <1>3, <1>4 DEF Gen, Receiving

\* The network adds at most the packet sent.
LEMMA SendEffect ==
    ASSUME Gen, NEW seq \in Nat, NEW resent \in Nat, Send(seq, resent)
    PROVE  /\ rtx' \in Nat
           /\ \A p \in data' : p \in data \/ (p \in DataPkt /\ p.seq = seq)
<1>1. rtx \in Nat /\ signal_on_empty_ \in BOOLEAN
  BY DEF Gen, Receiving, Shape, TypeOK
<1>2. rtx' = rtx + resent /\ rtx' \in Nat
  BY <1>1 DEF Send
<1>3. \/ \E mark \in BOOLEAN :
            data' = data \cup {[seq |-> seq, ce |-> mark, low |-> ~signal_on_empty_, copy |-> rtx']}
      \/ data' = data
  BY DEF Send
<1>4. ASSUME NEW mark \in BOOLEAN
      PROVE  LET p == [seq |-> seq, ce |-> mark, low |-> ~signal_on_empty_, copy |-> rtx']
             IN  p \in DataPkt /\ p.seq = seq
  BY <1>1, <1>2 DEF DataPkt
<1> QED BY <1>2, <1>3, <1>4

\* It holds initially.
LEMMA GenInit == Init => Gen
<1> SUFFICES ASSUME Init PROVE Gen
  OBVIOUS
<1>1. Flows[1] \in Nat /\ 1 \in DOMAIN Flows
  BY EchoAssumption
<1>2. DOMAIN acks = {} /\ IsABag(acks)
  BY DEF Init, EmptyBag, SetToBag, IsABag
<1>3. TypeOK
  <2>1. /\ flow \in DOMAIN Flows /\ signal_on_empty_ \in BOOLEAN
        /\ highest_ack_ \in 0 .. maxseq_ /\ maxseq_ \in 0 .. Flows[flow]
        /\ rcv_nxt_ \in highest_ack_ .. maxseq_ /\ last_ack_sent_ \in 0 .. rcv_nxt_
        /\ rq_ \subseteq rcv_nxt_ + 1 .. maxseq_ - 1
    <3>1. /\ flow = 1 /\ signal_on_empty_ = FALSE /\ maxseq_ = 0 /\ highest_ack_ = 0
          /\ rcv_nxt_ = 0 /\ last_ack_sent_ = 0 /\ rq_ = {}
      BY DEF Init
    <3>2. flow \in DOMAIN Flows
      BY <1>1, <3>1
    <3>3. maxseq_ \in 0 .. Flows[flow]
      BY <1>1, <3>1
    <3>4. signal_on_empty_ \in BOOLEAN
      BY <3>1
    <3>5. /\ highest_ack_ \in 0 .. maxseq_ /\ rcv_nxt_ \in highest_ack_ .. maxseq_
          /\ last_ack_sent_ \in 0 .. rcv_nxt_
      BY <3>1
    <3>6. rq_ \subseteq rcv_nxt_ + 1 .. maxseq_ - 1
      BY <3>1
    <3> QED BY <3>2, <3>3, <3>4, <3>5, <3>6
  <2>2. /\ alpha.marked \in 0 .. alpha.total /\ alpha.recalc \in 0 .. alpha.max
        /\ last_cwnd_action_ \in {"NONE", "ECN", "DUPACK", "TIMEOUT"}
    BY DEF Init
  <2>3. {tracker.recent_ce_, tracker.is_low_prio_, tracker.ce_transition_} \subseteq BOOLEAN
    BY DEF Init
  <2> QED BY <2>1, <2>2, <2>3 DEF TypeOK
<1>4. Shape
  <2>1. afabric_ecn_enabled_ \in BOOLEAN /\ in_order \in BOOLEAN
    BY EchoAssumption DEF Init
  <2>2. tracker \in Tracker
    BY DEF Init, Tracker
  <2>3. reaction \in [at : Nat, timeout : BOOLEAN, announced : BOOLEAN, why : DataPkt \cup {<<>>}]
    BY DEF Init, NoReaction
  <2>4. /\ alpha \in [recalc : Nat, max : Nat, marked : Nat, total : Nat]
        /\ recover_ \in Nat /\ counted \in Nat /\ rtx \in Nat
    BY DEF Init
  <2> QED BY <2>1, <2>2, <2>3, <2>4 DEF Shape
<1>5. InFlight /\ Answered
  BY <1>2 DEF Init, InFlight, Answered
<1>6. Marks /\ EchoesMark
  <2>1. MarkOf(tracker.recent_ce_, tracker.is_low_prio_, tracker.why)
    BY DEF Init, MarkOf
  <2> QED BY <1>2, <2>1 DEF Marks, EchoesMark, BagToSet
<1> QED BY <1>3, <1>4, <1>5, <1>6 DEF Gen, Receiving

\* A data packet arrives.
LEMMA GenRecvData ==
    ASSUME Gen, NEW p \in data, RecvData(p)
    PROVE  Gen'
<1>0. Receiving
  BY DEF Gen
<1>1. /\ rcv_nxt_' \in rcv_nxt_ .. maxseq_
      /\ last_ack_sent_' = rcv_nxt_'
      /\ rq_' \subseteq rcv_nxt_' + 1 .. maxseq_ - 1
      /\ tracker' \in Tracker /\ tracker'.why \in DataPkt
      /\ MarkOf(tracker'.recent_ce_, tracker'.is_low_prio_, tracker'.why)
  BY <1>0, RecvEffect
<1>2. PICK r \in AckPkt :
         /\ acks' = acks (+) SetToBag({r})
         /\ r.no = rcv_nxt_'
         /\ MarkOf(r.ece, r.low, r.why)
         /\ r.of # <<>> =>
               r.ece = (r.of.ce /\ (afabric_ecn_enabled_ => r.low \/ ~r.of.low))
  BY <1>0, RecvEffect
<1>3. /\ UNCHANGED <<afabric_ecn_enabled_, in_order, flow, signal_on_empty_, maxseq_, highest_ack_,
                     recover_, last_cwnd_action_, alpha, rtx, reaction, counted>>
      /\ data' = data \ {p}
  BY DEF RecvData, confVars, sndVars
<1>4. /\ maxseq_ \in Nat /\ rcv_nxt_ \in Nat /\ highest_ack_ \in Nat /\ highest_ack_ <= rcv_nxt_
      /\ IsABag(acks)
  BY Numbers DEF Gen, Receiving, InFlight
<1>5. IsABag(acks') /\ DOMAIN acks' = DOMAIN acks \cup {r}
  BY <1>2, <1>4, BagAdd
<1>6. TypeOK'
  <2>1. rcv_nxt_' \in highest_ack_ .. maxseq_ /\ last_ack_sent_' \in 0 .. rcv_nxt_'
    BY <1>1, <1>4
  <2>2. {tracker'.recent_ce_, tracker'.is_low_prio_, tracker'.ce_transition_} \subseteq BOOLEAN
    BY <1>1 DEF Tracker
  <2> QED BY <1>1, <1>3, <2>1, <2>2 DEF TypeOK, Gen, Receiving
<1>7. Shape'
  BY <1>1, <1>3 DEF Shape, Gen, Receiving
<1>8. InFlight'
  <2>1. ASSUME NEW a \in DOMAIN acks' PROVE a \in AckPkt /\ a.no <= rcv_nxt_'
    <3>1. CASE a = r
      BY <1>1, <1>2, <1>4, <3>1
    <3>2. CASE a \in DOMAIN acks
      <4>1. a \in AckPkt /\ a.no <= rcv_nxt_
        BY <3>2 DEF Gen, Receiving, InFlight
      <4>2. a.no \in Nat
        BY <4>1 DEF AckPkt
      <4> QED BY <1>1, <1>4, <4>1, <4>2
    <3> QED BY <1>5, <3>1, <3>2
  <2>2. \A q \in data' : q \in DataPkt /\ q.seq < maxseq_'
    BY <1>3 DEF Gen, Receiving, InFlight
  <2> QED BY <1>5, <2>1, <2>2 DEF InFlight
<1>9. Answered'
  BY <1>1 DEF Answered
<1>10. Marks'
  <2>1. ASSUME NEW a \in DOMAIN acks' PROVE MarkOf(a.ece, a.low, a.why)
    BY <1>2, <1>5 DEF Gen, Receiving, Marks
  <2> QED BY <1>1, <1>3, <2>1 DEF Marks, MarkOf
<1>11. EchoesMark'
  BY <1>2, <1>3, <1>5 DEF Gen, EchoesMark, BagToSet
<1> QED BY <1>6, <1>7, <1>8, <1>9, <1>10, <1>11 DEF Gen, Receiving

\* What a transmission does to the sender's tracker, whatever the ACK of the same
\* event has done to it before.
LEMMA SentOK ==
    ASSUME NEW u \in [recalc : Nat, max : Nat, marked : Nat, total : Nat],
           u.marked \in 0 .. u.total, u.recalc \in 0 .. u.max, NEW h \in Nat
    PROVE  LET b == Sent(u, h) IN
           /\ b \in [recalc : Nat, max : Nat, marked : Nat, total : Nat]
           /\ b.marked \in 0 .. b.total /\ b.recalc \in 0 .. b.max
<1> DEFINE b == Sent(u, h)
<1>1. b = [u EXCEPT !.max = IF h > @ THEN h ELSE @]
  BY DEF Sent
<1> HIDE DEF b
<1>2. /\ b.recalc = u.recalc /\ b.marked = u.marked /\ b.total = u.total
      /\ b.max = IF h > u.max THEN h ELSE u.max
      /\ b = [recalc |-> b.recalc, max |-> b.max, marked |-> b.marked, total |-> b.total]
  BY <1>1
<1>3. b.max \in Nat /\ b.recalc \in 0 .. b.max
  BY <1>2
<1> QED BY <1>2, <1>3 DEF b

\* An ACK arrives.
LEMMA GenRecvAck ==
    ASSUME Gen, NEW a \in BagToSet(acks), RecvAck(a)
    PROVE  Gen'
<1>1. /\ a \in DOMAIN acks /\ a \in AckPkt /\ a.no \in Nat /\ a.no <= rcv_nxt_ /\ IsABag(acks)
      /\ a.why \in DataPkt
  BY DEF BagToSet, Gen, Receiving, InFlight, AckPkt
<1>2. /\ flow \in 1 .. Len(Flows) /\ Flows[flow] \in Nat
      /\ maxseq_ \in Nat /\ maxseq_ <= Flows[flow]
      /\ highest_ack_ \in Nat /\ highest_ack_ <= rcv_nxt_
      /\ rcv_nxt_ \in Nat /\ rcv_nxt_ <= maxseq_
  BY Numbers DEF Gen, Receiving
<1>3. IsABag(acks') /\ DOMAIN acks' \subseteq DOMAIN acks
  BY <1>1, BagRemove DEF RecvAck
<1>4. /\ UNCHANGED <<afabric_ecn_enabled_, in_order, rcvVars, maxseq_>>
      /\ UNCHANGED <<rcv_nxt_, last_ack_sent_, rq_, tracker>>
  BY DEF RecvAck, confVars, rcvVars
<1>5. AckedBytes(a) \in Nat /\ MarkedBytes(a) \in 0 .. AckedBytes(a)
  <2>1. AckedBytes(a) \in Nat
    BY <1>1, <1>2 DEF AckedBytes
  <2> QED BY <2>1 DEF MarkedBytes
<1>6. /\ alpha' \in [recalc : Nat, max : Nat, marked : Nat, total : Nat]
      /\ alpha'.marked \in 0 .. alpha'.total /\ alpha'.recalc \in 0 .. alpha'.max
  <2> DEFINE fresh == a.no > alpha.recalc
             mb == MarkedBytes(a)
             ab == AckedBytes(a)
             u == update_ecnhat_alpha(a)
  <2>1. /\ alpha \in [recalc : Nat, max : Nat, marked : Nat, total : Nat]
        /\ alpha.marked \in 0 .. alpha.total /\ alpha.recalc \in 0 .. alpha.max
    BY DEF Gen, Receiving, Shape, TypeOK
  <2>2. u = [alpha EXCEPT !.recalc = IF fresh THEN alpha.max ELSE @,
                          !.marked = IF fresh THEN 0 ELSE @ + mb,
                          !.total  = IF fresh THEN 0 ELSE @ + ab]
    BY DEF update_ecnhat_alpha
  <2>3. alpha' = u \/ alpha' = Sent(u, highest_ack_ + 1)
    BY DEF RecvAck, Counts, DupAck
  <2> HIDE DEF mb, ab, fresh, u
  <2>4. mb \in Nat /\ ab \in Nat /\ mb <= ab
    BY <1>5 DEF mb, ab
  <2>5. /\ u.recalc = IF fresh THEN alpha.max ELSE alpha.recalc
        /\ u.max = alpha.max
        /\ u.marked = IF fresh THEN 0 ELSE alpha.marked + mb
        /\ u.total = IF fresh THEN 0 ELSE alpha.total + ab
        /\ u = [recalc |-> u.recalc, max |-> u.max, marked |-> u.marked, total |-> u.total]
    BY <2>1, <2>2
  <2>6. /\ u \in [recalc : Nat, max : Nat, marked : Nat, total : Nat]
        /\ u.marked \in 0 .. u.total /\ u.recalc \in 0 .. u.max
    BY <2>1, <2>4, <2>5
  <2>7. highest_ack_ + 1 \in Nat
    BY <1>2
  <2> QED BY <2>3, <2>6, <2>7, SentOK
<1>7. /\ counted' \in Nat
      /\ highest_ack_' \in Nat /\ highest_ack_' <= rcv_nxt_ /\ highest_ack_' >= highest_ack_
      /\ signal_on_empty_' \in BOOLEAN
  <2>1. counted' = counted + MarkedBytes(a) /\ counted \in Nat
    BY DEF RecvAck, Gen, Receiving, Shape
  <2>2. MarkedBytes(a) \in Nat
    BY <1>5
  <2>3. highest_ack_' = IF a.no > highest_ack_ THEN a.no ELSE highest_ack_
    BY DEF RecvAck
  <2>4. signal_on_empty_' \in BOOLEAN
    BY DEF RecvAck
  <2> QED BY <1>1, <1>2, <2>1, <2>2, <2>3, <2>4
<1>8. flow' \in DOMAIN Flows /\ maxseq_ \in 0 .. Flows[flow']
  <2>1. CASE EmptyAfter(a.no)
    <3>1. flow' = flow + 1 /\ flow < Len(Flows)
      BY <2>1 DEF RecvAck, EmptyAfter
    <3>2. flow' \in 2 .. Len(Flows) /\ flow' - 1 = flow
      BY <1>2, <3>1, EchoAssumption
    <3>3. Flows[flow'] > Flows[flow] /\ Flows[flow'] \in Nat
      BY <3>2, EchoAssumption
    <3>4. maxseq_ \in 0 .. Flows[flow']
      BY <1>2, <3>3
    <3>5. flow' \in DOMAIN Flows
      BY <3>2, EchoAssumption
    <3> QED BY <3>4, <3>5
  <2>2. CASE ~EmptyAfter(a.no)
    <3>1. flow' = flow
      BY <2>2 DEF RecvAck
    <3> QED BY <3>1 DEF Gen, Receiving, TypeOK
  <2> QED BY <2>1, <2>2
<1>9. /\ recover_' \in Nat
      /\ last_cwnd_action_' \in {"NONE", "ECN", "DUPACK", "TIMEOUT"}
      /\ reaction' \in [at : Nat, timeout : BOOLEAN, announced : BOOLEAN,
                        why : DataPkt \cup {<<>>}]
  <2>1. /\ recover_ \in Nat /\ signal_on_empty_ \in BOOLEAN
        /\ last_cwnd_action_ \in {"NONE", "ECN", "DUPACK", "TIMEOUT"}
        /\ reaction \in [at : Nat, timeout : BOOLEAN, announced : BOOLEAN,
                         why : DataPkt \cup {<<>>}]
    BY DEF Gen, Receiving, Shape, TypeOK
  <2>2. CASE /\ recover_' = RecoverPoint /\ last_cwnd_action_' = "ECN"
             /\ reaction' = [at |-> maxseq_, timeout |-> FALSE,
                             announced |-> signal_on_empty_, why |-> a.why]
    BY <1>1, <1>2, <2>1, <2>2 DEF RecoverPoint
  <2>3. CASE UNCHANGED <<recover_, last_cwnd_action_, reaction>>
    BY <2>1, <2>3
  <2>4. CASE DupAck(a)
    BY <1>2, <2>1, <2>4 DEF DupAck
  <2> QED BY <2>2, <2>3, <2>4 DEF RecvAck, Counts
<1>10. TypeOK'
  <2>1. highest_ack_' \in 0 .. maxseq_' /\ rcv_nxt_' \in highest_ack_' .. maxseq_'
    BY <1>2, <1>4, <1>7
  <2>2. /\ last_ack_sent_' \in 0 .. rcv_nxt_' /\ rq_' \subseteq rcv_nxt_' + 1 .. maxseq_' - 1
        /\ {tracker'.recent_ce_, tracker'.is_low_prio_, tracker'.ce_transition_} \subseteq BOOLEAN
    BY <1>4 DEF Gen, Receiving, TypeOK
  <2> QED BY <1>4, <1>6, <1>7, <1>8, <1>9, <2>1, <2>2 DEF TypeOK
<1>11. rtx' \in Nat /\ \A p \in data' : p \in DataPkt /\ p.seq < maxseq_'
  <2>1. rtx \in Nat /\ \A p \in data : p \in DataPkt /\ p.seq < maxseq_
    BY DEF Gen, Receiving, Shape, InFlight
  <2>2. CASE Counts(a)
    BY <1>4, <2>1, <2>2 DEF Counts
  <2>3. CASE DupAck(a)
    <3>1. Send(highest_ack_, 1) /\ highest_ack_ < maxseq_
      BY <2>3 DEF DupAck
    <3>2. rtx' \in Nat /\ \A p \in data' : p \in data \/ (p \in DataPkt /\ p.seq = highest_ack_)
      BY <1>2, <3>1, SendEffect
    <3> QED BY <1>4, <2>1, <3>1, <3>2
  <2> QED BY <2>2, <2>3 DEF RecvAck
<1>12. Shape'
  BY <1>4, <1>6, <1>7, <1>9, <1>11 DEF Gen, Receiving, Shape
<1> QED BY <1>3, <1>4, <1>10, <1>11, <1>12, GenFromParts
\* A step of the sender's output routine: one packet at most is added, and the
\* highest sequence number does not fall.
LEMMA GenSend ==
    ASSUME Gen, NEW seq \in Nat, NEW resent \in Nat, Send(seq, resent),
           maxseq_' \in Nat, maxseq_' >= maxseq_, maxseq_' <= Flows[flow], seq < maxseq_',
           UNCHANGED <<confVars, flow, signal_on_empty_, highest_ack_, rcvVars, acks, counted>>,
           alpha' \in [recalc : Nat, max : Nat, marked : Nat, total : Nat],
           alpha'.marked \in 0 .. alpha'.total, alpha'.recalc \in 0 .. alpha'.max,
           recover_' \in Nat,
           last_cwnd_action_' \in {"NONE", "ECN", "DUPACK", "TIMEOUT"},
           reaction' \in [at : Nat, timeout : BOOLEAN, announced : BOOLEAN,
                          why : DataPkt \cup {<<>>}]
    PROVE  Gen'
<1>1. UNCHANGED <<afabric_ecn_enabled_, in_order, rcv_nxt_, last_ack_sent_, rq_, tracker>>
  BY DEF confVars, rcvVars
<1>2. /\ Flows[flow] \in Nat /\ maxseq_ \in Nat /\ highest_ack_ \in Nat /\ rcv_nxt_ \in Nat
      /\ highest_ack_ <= rcv_nxt_ /\ rcv_nxt_ <= maxseq_
      /\ \A s \in rq_ : s \in Nat /\ s > rcv_nxt_ /\ s < maxseq_
  BY Numbers DEF Gen, Receiving
<1>3. rtx' \in Nat /\ \A p \in data' : p \in data \/ (p \in DataPkt /\ p.seq = seq)
  BY SendEffect
<1>4. TypeOK'
  <2>1. /\ highest_ack_' \in 0 .. maxseq_' /\ maxseq_' \in 0 .. Flows[flow']
        /\ rcv_nxt_' \in highest_ack_' .. maxseq_'
    BY <1>1, <1>2
  <2>2. rq_' \subseteq rcv_nxt_' + 1 .. maxseq_' - 1
    BY <1>1, <1>2
  <2>3. /\ last_ack_sent_' \in 0 .. rcv_nxt_' /\ flow' \in DOMAIN Flows /\ signal_on_empty_' \in BOOLEAN
        /\ {tracker'.recent_ce_, tracker'.is_low_prio_, tracker'.ce_transition_} \subseteq BOOLEAN
    BY <1>1 DEF Gen, Receiving, TypeOK
  <2> QED BY <2>1, <2>2, <2>3 DEF TypeOK
<1>5. Shape'
  BY <1>1, <1>3 DEF Gen, Receiving, Shape
<1>6. ASSUME NEW p \in data' PROVE p \in DataPkt /\ p.seq < maxseq_'
  <2>1. CASE p \in data
    <3>1. p \in DataPkt /\ p.seq < maxseq_ /\ p.seq \in Nat
      BY <2>1 DEF Gen, Receiving, InFlight, DataPkt
    <3> QED BY <1>2, <3>1
  <2>2. CASE p \in DataPkt /\ p.seq = seq
    BY <2>2
  <2> QED BY <1>3, <2>1, <2>2
<1>7. IsABag(acks') /\ DOMAIN acks' \subseteq DOMAIN acks
  BY DEF Gen, Receiving, InFlight
<1> QED BY <1>1, <1>4, <1>5, <1>6, <1>7, GenFromParts

\* Gen is inductive.
LEMMA GenNext == Gen /\ [Next]_vars => Gen'
<1> SUFFICES ASSUME Gen, [Next]_vars PROVE Gen'
  OBVIOUS
<1>1. /\ flow \in 1 .. Len(Flows) /\ Flows[flow] \in Nat
      /\ maxseq_ \in Nat /\ maxseq_ <= Flows[flow]
      /\ highest_ack_ \in Nat
  BY Numbers DEF Gen, Receiving
<1>2. /\ recover_ \in Nat /\ signal_on_empty_ \in BOOLEAN
      /\ last_cwnd_action_ \in {"NONE", "ECN", "DUPACK", "TIMEOUT"}
      /\ reaction \in [at : Nat, timeout : BOOLEAN, announced : BOOLEAN,
                       why : DataPkt \cup {<<>>}]
      /\ alpha \in [recalc : Nat, max : Nat, marked : Nat, total : Nat]
      /\ alpha.marked \in 0 .. alpha.total /\ alpha.recalc \in 0 .. alpha.max
  BY DEF Gen, Receiving, Shape, TypeOK
<1>3. CASE Output
  <2>1. maxseq_' = maxseq_ + 1 /\ alpha' = Sent(alpha, maxseq_ + 1) /\ Send(maxseq_, 0)
    BY <1>3 DEF Output
  <2>2. maxseq_' \in Nat /\ maxseq_' >= maxseq_ /\ maxseq_' <= Flows[flow] /\ maxseq_ < maxseq_'
    <3>1. maxseq_ < IF signal_on_empty_ THEN Flows[flow] ELSE Flows[flow] - 1
      BY <1>3 DEF Output
    <3> QED BY <1>1, <2>1, <3>1
  <2>3. /\ alpha' \in [recalc : Nat, max : Nat, marked : Nat, total : Nat]
        /\ alpha'.marked \in 0 .. alpha'.total /\ alpha'.recalc \in 0 .. alpha'.max
    <3>1. maxseq_ + 1 \in Nat
      BY <1>1
    <3> QED BY <1>2, <2>1, <3>1, SentOK
  <2>4. UNCHANGED <<confVars, flow, signal_on_empty_, highest_ack_, recover_,
                    last_cwnd_action_, rcvVars, acks, reaction, counted>>
    BY <1>3 DEF Output
  <2> QED BY <1>1, <1>2, <2>1, <2>2, <2>3, <2>4, GenSend
<1>4. CASE Announce
  <2>1. UNCHANGED <<confVars, flow, maxseq_, highest_ack_, recover_, last_cwnd_action_, alpha,
                    rcvVars, data, acks, rtx, reaction, counted, afabric_ecn_enabled_, in_order>>
    BY <1>4 DEF Announce, sndVars, confVars
  <2>2. signal_on_empty_' \in BOOLEAN
    BY <1>4 DEF Announce
  <2>3. TypeOK' /\ Shape'
    BY <2>1, <2>2 DEF Gen, Receiving, TypeOK, Shape, rcvVars
  <2> QED BY <2>1, <2>3, GenFromParts DEF Gen, Receiving, InFlight
<1>5. CASE Timeout
  <2>1. Send(highest_ack_, 1) /\ highest_ack_ < maxseq_ /\ maxseq_' = maxseq_ /\ recover_' = maxseq_
    BY <1>5 DEF Timeout
  <2>2. /\ alpha' \in [recalc : Nat, max : Nat, marked : Nat, total : Nat]
        /\ alpha'.marked \in 0 .. alpha'.total /\ alpha'.recalc \in 0 .. alpha'.max
    <3>1. alpha' = [alpha EXCEPT !.recalc = highest_ack_, !.max = highest_ack_ + 1]
      BY <1>5 DEF Timeout
    <3>2. /\ alpha'.recalc = highest_ack_ /\ alpha'.max = highest_ack_ + 1
          /\ alpha'.marked = alpha.marked /\ alpha'.total = alpha.total
          /\ alpha' = [recalc |-> alpha'.recalc, max |-> alpha'.max,
                       marked |-> alpha'.marked, total |-> alpha'.total]
      BY <1>2, <3>1
    <3> QED BY <1>1, <1>2, <3>2
  <2>3. UNCHANGED <<confVars, flow, signal_on_empty_, highest_ack_, rcvVars, acks, counted>>
    BY <1>5 DEF Timeout
  <2>4. /\ last_cwnd_action_' \in {"NONE", "ECN", "DUPACK", "TIMEOUT"}
        /\ reaction' \in [at : Nat, timeout : BOOLEAN, announced : BOOLEAN,
                          why : DataPkt \cup {<<>>}]
    BY <1>2, <1>5 DEF Timeout
  <2>5. maxseq_' \in Nat /\ maxseq_' >= maxseq_ /\ maxseq_' <= Flows[flow]
        /\ highest_ack_ < maxseq_' /\ recover_' \in Nat
    BY <1>1, <2>1
  <2> QED BY <1>1, <1>2, <2>1, <2>2, <2>3, <2>4, <2>5, GenSend
<1>6. ASSUME NEW seq \in highest_ack_ .. maxseq_ - 1, Retransmit(seq) PROVE Gen'
  <2>1. Send(seq, 1) /\ maxseq_' = maxseq_ /\ alpha' = Sent(alpha, seq + 1)
    BY <1>6 DEF Retransmit
  <2>2. seq \in Nat /\ seq + 1 \in Nat /\ seq < maxseq_' /\ maxseq_' \in Nat
        /\ maxseq_' >= maxseq_ /\ maxseq_' <= Flows[flow]
    BY <1>1, <2>1
  <2>3. /\ alpha' \in [recalc : Nat, max : Nat, marked : Nat, total : Nat]
        /\ alpha'.marked \in 0 .. alpha'.total /\ alpha'.recalc \in 0 .. alpha'.max
    BY <1>2, <2>1, <2>2, SentOK
  <2>4. UNCHANGED <<confVars, flow, signal_on_empty_, highest_ack_, recover_,
                    last_cwnd_action_, rcvVars, acks, reaction, counted>>
    BY <1>6 DEF Retransmit
  <2> QED BY <1>2, <2>1, <2>2, <2>3, <2>4, GenSend
<1>7. ASSUME NEW p \in data, RecvData(p) PROVE Gen'
  BY <1>7, GenRecvData
<1>8. ASSUME NEW a \in BagToSet(acks), RecvAck(a) PROVE Gen'
  BY <1>8, GenRecvAck
<1>9. ASSUME NEW a \in BagToSet(acks), LoseAck(a) PROVE Gen'
  <2>1. UNCHANGED <<confVars, flow, signal_on_empty_, sndVars, rcvVars, data, rtx, reaction,
                    counted, maxseq_, highest_ack_, recover_, last_cwnd_action_, alpha,
                    rcv_nxt_, last_ack_sent_, rq_, tracker, afabric_ecn_enabled_, in_order>>
    BY <1>9 DEF LoseAck, sndVars, rcvVars, confVars
  <2>2. IsABag(acks') /\ DOMAIN acks' \subseteq DOMAIN acks
    BY <1>9, BagRemove DEF LoseAck, Gen, Receiving, InFlight, BagToSet
  <2>3. TypeOK' /\ Shape'
    BY <2>1 DEF Gen, Receiving, TypeOK, Shape
  <2> QED BY <2>1, <2>2, <2>3, GenFromParts DEF Gen, Receiving, InFlight
<1>10. CASE UNCHANGED vars
  <2>1. UNCHANGED <<confVars, flow, signal_on_empty_, sndVars, rcvVars, data, rtx, reaction,
                    counted, maxseq_, highest_ack_, recover_, last_cwnd_action_, alpha, acks,
                    rcv_nxt_, last_ack_sent_, rq_, tracker, afabric_ecn_enabled_, in_order>>
    BY <1>10 DEF vars, sndVars, rcvVars, confVars
  <2>2. TypeOK' /\ Shape'
    BY <2>1 DEF Gen, Receiving, TypeOK, Shape
  <2> QED BY <2>1, <2>2, GenFromParts DEF Gen, Receiving, InFlight
<1> QED BY <1>3, <1>4, <1>5, <1>6, <1>7, <1>8, <1>9, <1>10 DEF Next
-----------------------------------------------------------------------------
(* The sender's side of the invariant *)

\* What the events do to the state of a reaction: nothing, an ECN reaction to
\* the ACK a, a duplicate ACK, or a timeout.
Reaction(a) ==
    /\ Reacts(a)
    /\ recover_' = maxseq_ /\ last_cwnd_action_' = "ECN"
    /\ reaction' = [at |-> maxseq_, timeout |-> FALSE,
                    announced |-> signal_on_empty_, why |-> a.why]
    /\ highest_ack_' = a.no

NoReactionStep ==
    \/ UNCHANGED <<recover_, last_cwnd_action_, reaction>>
    \/ recover_' = maxseq_ /\ last_cwnd_action_' = "DUPACK" /\ UNCHANGED reaction

TimeoutStep ==
    /\ recover_' = maxseq_
    /\ last_cwnd_action_' = IF last_cwnd_action_ = "ECN" THEN "ECN" ELSE "TIMEOUT"
    /\ reaction' = [reaction EXCEPT !.timeout = TRUE]

\* There are no other steps.
LEMMA ReactionCases ==
    ASSUME Gen, [Next]_vars
    PROVE  /\ afabric_ecn_enabled_' = afabric_ecn_enabled_
           /\ maxseq_' \in Nat /\ maxseq_' >= maxseq_
           /\ \/ \E a \in DOMAIN acks : Reaction(a)
              \/ NoReactionStep
              \/ TimeoutStep
<1>1. maxseq_ \in Nat /\ maxseq_ + 1 \in Nat /\ maxseq_ + 1 >= maxseq_ /\ maxseq_ >= maxseq_
  <2>1. maxseq_ \in Nat
    BY Numbers DEF Gen, Receiving
  <2> QED BY <2>1
<1>2. CASE Output
  BY <1>1, <1>2 DEF Output, confVars, NoReactionStep
<1>3. CASE Timeout
  BY <1>1, <1>3 DEF Timeout, confVars, TimeoutStep
<1>4. ASSUME NEW a \in BagToSet(acks), RecvAck(a)
      PROVE  /\ afabric_ecn_enabled_' = afabric_ecn_enabled_ /\ maxseq_' = maxseq_
             /\ Reaction(a) \/ NoReactionStep
  BY <1>4 DEF RecvAck, Counts, DupAck, Reaction, RecoverPoint, NoReactionStep, Reacts, confVars
<1>5. CASE \/ Announce \/ \E a \in BagToSet(acks) : LoseAck(a)
           \/ \E p \in data : RecvData(p)
  BY <1>1, <1>5 DEF Announce, LoseAck, RecvData, vars, confVars, sndVars, NoReactionStep
<1>6. CASE \E seq \in highest_ack_ .. maxseq_ - 1 : Retransmit(seq)
  BY <1>1, <1>6 DEF Retransmit, confVars, NoReactionStep
<1>7. CASE UNCHANGED vars
  BY <1>1, <1>7 DEF vars, confVars, sndVars, NoReactionStep
<1> QED BY <1>1, <1>2, <1>3, <1>4, <1>5, <1>6, <1>7 DEF Next, BagToSet

\* A reaction is justified by the echo that caused it.
LEMMA ReactsNext == Gen /\ ReactsToUrgent /\ [Next]_vars => ReactsToUrgent'
<1> SUFFICES ASSUME Gen, ReactsToUrgent, [Next]_vars PROVE ReactsToUrgent'
  OBVIOUS
<1>0. afabric_ecn_enabled_' = afabric_ecn_enabled_
  BY ReactionCases
<1>1. ASSUME NEW a \in DOMAIN acks, Reaction(a) PROVE ReactsToUrgent'
  <2>1. reaction'.why = a.why /\ reaction'.announced = signal_on_empty_
    BY <1>1 DEF Reaction
  <2>2. a.ece /\ (afabric_ecn_enabled_ => ~a.low \/ ~signal_on_empty_)
    BY <1>1 DEF Reaction, Reacts, is_ecn_active
  <2>3. MarkOf(a.ece, a.low, a.why)
    BY DEF Gen, Receiving, Marks
  <2> QED BY <1>0, <2>1, <2>2, <2>3 DEF MarkOf, ReactsToUrgent
<1>2. CASE NoReactionStep
  BY <1>0, <1>2 DEF NoReactionStep, ReactsToUrgent
<1>3. CASE TimeoutStep
  <2>1. reaction'.why = reaction.why /\ reaction'.announced = reaction.announced
    BY <1>3 DEF TimeoutStep, Gen, Receiving, Shape
  <2> QED BY <1>0, <2>1 DEF ReactsToUrgent
<1> QED BY <1>1, <1>2, <1>3, ReactionCases

\* A window in which the sender has reacted stays protected.
LEMMA WindowNext == Gen /\ Window /\ [Next]_vars => Window'
<1> SUFFICES ASSUME Gen, Window, [Next]_vars PROVE Window'
  OBVIOUS
<1>0. /\ maxseq_ \in Nat /\ maxseq_' \in Nat /\ maxseq_' >= maxseq_
      /\ recover_ \in Nat /\ reaction.at \in Nat /\ recover_ <= maxseq_
  BY ReactionCases, Numbers DEF Gen, Receiving, Shape, Window
<1>1. ASSUME NEW a \in DOMAIN acks, Reaction(a) PROVE Window'
  <2>1. recover_' = maxseq_ /\ reaction'.at = maxseq_ /\ last_cwnd_action_' = "ECN"
    BY <1>1 DEF Reaction
  <2> QED BY <1>0, <2>1 DEF Window
<1>2. CASE UNCHANGED <<recover_, last_cwnd_action_, reaction>>
  BY <1>0, <1>2 DEF Window
<1>3. CASE recover_' = maxseq_ /\ last_cwnd_action_' = "DUPACK" /\ UNCHANGED reaction
  <2>1. recover_' \in Nat /\ recover_' >= recover_ /\ recover_' <= maxseq_'
    BY <1>0, <1>3
  <2> QED BY <1>0, <1>3, <2>1 DEF Window
<1>4. CASE TimeoutStep
  <2>1. reaction'.timeout /\ recover_' = maxseq_
    BY <1>4 DEF TimeoutStep, Gen, Receiving, Shape
  <2> QED BY <1>0, <2>1 DEF Window
<1> QED BY <1>1, <1>2, <1>3, <1>4, ReactionCases DEF NoReactionStep
-----------------------------------------------------------------------------
(* A network that keeps the order *)

Ordered == DataInOrder /\ AcksInOrder /\ CountsExactly

\* The segments acknowledged so far that were marked.
MarkedAcked == {s \in DOMAIN ce : s < highest_ack_ /\ ce[s]}

\* Nothing is sent twice.
LEMMA NoResend ==
    ASSUME Gen, Ordered, in_order, NEW seq
    PROVE  ~Send(seq, 1)
<1>1. rtx = 0
  BY DEF Ordered, DataInOrder
<1> QED BY <1>1 DEF Send

\* New data.
LEMMA OrderedOutput ==
    ASSUME Gen, Ordered, in_order, Output
    PROVE  Ordered'
<1>1. /\ maxseq_ \in Nat /\ rcv_nxt_ \in Nat /\ rcv_nxt_ <= maxseq_ /\ signal_on_empty_ \in BOOLEAN
      /\ \A p \in data : p.seq \in Nat /\ p.seq < maxseq_
  BY Numbers DEF Gen, Receiving, InFlight, DataPkt, TypeOK
<1>2. /\ Send(maxseq_, 0) /\ maxseq_' = maxseq_ + 1
      /\ UNCHANGED <<afabric_ecn_enabled_, in_order, highest_ack_, rcv_nxt_, rq_, acks, counted, ce>>
  BY DEF Output, confVars, rcvVars
<1>3. PICK n : n.seq = maxseq_ /\ data' = data \cup {n}
  BY <1>2 DEF Send
<1>4. rtx' = 0
  BY <1>2 DEF Send, Ordered, DataInOrder
<1>5. DataInOrder'
  <2>1. /\ rq_ = {} /\ \A p \in data : p.seq >= rcv_nxt_
        /\ \A p, q \in data : p.seq = q.seq => p = q
        /\ \A s \in rcv_nxt_ .. maxseq_ - 1 : \E p \in data : p.seq = s
        /\ DOMAIN ce = 0 .. rcv_nxt_ - 1 /\ \A s \in DOMAIN ce : ce[s] \in BOOLEAN
    BY DEF Ordered, DataInOrder
  <2>2. \A p \in data' : p.seq >= rcv_nxt_
    BY <1>1, <1>3, <2>1
  <2>3. \A p, q \in data' : p.seq = q.seq => p = q
    BY <1>1, <1>3, <2>1
  <2>4. ASSUME NEW s \in rcv_nxt_ .. maxseq_' - 1 PROVE \E p \in data' : p.seq = s
    <3>1. s = maxseq_ \/ s \in rcv_nxt_ .. maxseq_ - 1
      BY <1>1, <1>2
    <3> QED BY <1>3, <2>1, <3>1
  <2> QED BY <1>2, <1>4, <2>1, <2>2, <2>3, <2>4 DEF DataInOrder
<1>6. AcksInOrder'
  BY <1>2 DEF Ordered, AcksInOrder
<1>7. CountsExactly'
  BY <1>2 DEF Ordered, CountsExactly
<1> QED BY <1>5, <1>6, <1>7 DEF Ordered

\* The segment that arrives is the next one expected.
LEMMA OrderedRecvData ==
    ASSUME Gen, Ordered, in_order, NEW p \in data, RecvData(p)
    PROVE  Ordered'
<1>0. Receiving
  BY DEF Gen
<1>1. /\ maxseq_ \in Nat /\ rcv_nxt_ \in Nat /\ rcv_nxt_ <= maxseq_
      /\ highest_ack_ \in Nat /\ highest_ack_ <= rcv_nxt_
      /\ \A q \in data : q \in DataPkt /\ q.seq \in Nat /\ q.seq < maxseq_
      /\ IsABag(acks) /\ \A a \in DOMAIN acks : a.no \in Nat /\ a.no <= rcv_nxt_
  BY Numbers DEF Gen, Receiving, InFlight, DataPkt, AckPkt
<1>2. /\ rtx = 0 /\ rq_ = {} /\ \A q \in data : q.seq >= rcv_nxt_
      /\ \A q, r \in data : q.seq = r.seq => q = r
      /\ \A s \in rcv_nxt_ .. maxseq_ - 1 : \E q \in data : q.seq = s
      /\ DOMAIN ce = 0 .. rcv_nxt_ - 1 /\ \A s \in DOMAIN ce : ce[s] \in BOOLEAN
  BY DEF Ordered, DataInOrder
<1>3. p.seq = rcv_nxt_
  <2>1. rcv_nxt_ \in rcv_nxt_ .. maxseq_ - 1
    BY <1>1, <1>2
  <2>2. PICK q \in data : q.seq = rcv_nxt_
    BY <1>2, <2>1
  <2>3. p.seq <= q.seq
    BY DEF RecvData
  <2> QED BY <1>1, <1>2, <2>2, <2>3
<1>4. rcv_nxt_' = rcv_nxt_ + 1 /\ rq_' = {}
  BY <1>0, <1>2, <1>3, RecvEffect
<1>5. PICK r \in AckPkt :
         /\ acks' = acks (+) SetToBag({r})
         /\ r.no = rcv_nxt_' /\ r.of = p
         /\ r.of # <<>> =>
               r.ece = (r.of.ce /\ (afabric_ecn_enabled_ => r.low \/ ~r.of.low))
  <2>1. p.seq >= rcv_nxt_
    BY <1>1, <1>3
  <2> QED BY <1>0, <2>1, RecvEffect
<1>6. /\ UNCHANGED <<afabric_ecn_enabled_, in_order, maxseq_, highest_ack_, rtx, counted>>
      /\ data' = data \ {p}
  BY DEF RecvData, confVars, sndVars
<1>7. ce' = [s \in DOMAIN ce \cup {p.seq} |-> IF s = p.seq THEN p.ce ELSE ce[s]]
  <2>1. p.seq \notin DOMAIN ce
    BY <1>1, <1>2, <1>3
  <2> QED BY <2>1 DEF RecvData
<1>8. /\ DOMAIN ce' = 0 .. rcv_nxt_' - 1 /\ p.ce \in BOOLEAN
      /\ ce'[rcv_nxt_] = p.ce /\ \A s \in DOMAIN ce : ce'[s] = ce[s]
  BY <1>1, <1>2, <1>3, <1>4, <1>7 DEF DataPkt
<1>9. DataInOrder'
  <2>1. \A q \in data' : q.seq >= rcv_nxt_'
    BY <1>1, <1>2, <1>3, <1>4, <1>6
  <2>2. ASSUME NEW s \in rcv_nxt_' .. maxseq_' - 1 PROVE \E q \in data' : q.seq = s
    <3>1. s \in rcv_nxt_ .. maxseq_ - 1 /\ s # rcv_nxt_
      BY <1>1, <1>4, <1>6
    <3>2. PICK q \in data : q.seq = s
      BY <1>2, <3>1
    <3> QED BY <1>3, <1>6, <3>1, <3>2
  <2>3. ASSUME NEW s \in DOMAIN ce' PROVE ce'[s] \in BOOLEAN
    <3>1. s \in DOMAIN ce \/ s = rcv_nxt_
      BY <1>3, <1>7
    <3> QED BY <1>2, <1>8, <3>1
  <2>4. \A q, u \in data' : q.seq = u.seq => q = u
    BY <1>2, <1>6
  <2> QED BY <1>2, <1>4, <1>6, <1>8, <2>1, <2>2, <2>3, <2>4 DEF DataInOrder
<1>10. r \notin DOMAIN acks
  BY <1>1, <1>4, <1>5
<1>11. /\ DOMAIN acks' = DOMAIN acks \cup {r} /\ acks'[r] = 1
       /\ \A x \in DOMAIN acks : acks'[x] = acks[x]
  <2> DEFINE N == acks (+) SetToBag({r})
  <2>1. /\ DOMAIN N = DOMAIN acks \cup {r}
        /\ \A x \in DOMAIN acks : x # r => N[x] = acks[x]
        /\ r \notin DOMAIN acks => N[r] = 1
    BY <1>1, BagAdd
  <2>2. acks' = N
    BY <1>5
  <2> HIDE DEF N
  <2> QED BY <1>10, <2>1, <2>2
<1>12. AcksInOrder'
  <2>1. /\ \A a \in DOMAIN acks : acks[a] = 1 /\ a.no > highest_ack_
        /\ \A a, b \in DOMAIN acks : a.no = b.no => a = b
        /\ \A n \in highest_ack_ + 1 .. rcv_nxt_ : \E a \in DOMAIN acks : a.no = n
        /\ ~afabric_ecn_enabled_ => \A a \in DOMAIN acks : a.ece = ce[a.no - 1]
    BY DEF Ordered, AcksInOrder
  <2>2. r.no = rcv_nxt_ + 1
    BY <1>4, <1>5
  <2>3. \A a \in DOMAIN acks' : acks'[a] = 1 /\ a.no > highest_ack_
    BY <1>1, <1>11, <2>1, <2>2
  <2>4. \A a, b \in DOMAIN acks' : a.no = b.no => a = b
    BY <1>1, <1>11, <2>1, <2>2
  <2>5. ASSUME NEW n \in highest_ack_ + 1 .. rcv_nxt_' PROVE \E a \in DOMAIN acks' : a.no = n
    <3>1. n = rcv_nxt_ + 1 \/ n \in highest_ack_ + 1 .. rcv_nxt_
      BY <1>1, <1>4
    <3> QED BY <1>11, <2>1, <2>2, <3>1
  <2>6. ASSUME ~afabric_ecn_enabled_, NEW a \in DOMAIN acks' PROVE a.ece = ce'[a.no - 1]
    <3>1. CASE a = r
      <4>1. a.no - 1 = rcv_nxt_
        BY <1>1, <2>2, <3>1
      <4>2. p # <<>>
        BY <1>1, PktNotEmpty
      <4>3. a.ece = p.ce
        BY <1>5, <1>8, <2>6, <3>1, <4>2
      <4> QED BY <1>8, <4>1, <4>3
    <3>2. CASE a \in DOMAIN acks
      <4>1. a.no - 1 \in DOMAIN ce
        BY <1>1, <1>2, <2>1, <3>2
      <4> QED BY <1>8, <2>1, <2>6, <3>2, <4>1
    <3> QED BY <1>11, <3>1, <3>2
  <2> QED BY <1>6, <2>3, <2>4, <2>5, <2>6 DEF AcksInOrder
<1>13. CountsExactly'
  <2>1. MarkedAcked' = MarkedAcked
    <3>1. \A s \in DOMAIN ce' : s < highest_ack_ => s \in DOMAIN ce
      BY <1>1, <1>2, <1>4, <1>8
    <3>2. DOMAIN ce \subseteq DOMAIN ce'
      BY <1>7
    <3> QED BY <1>6, <1>8, <3>1, <3>2 DEF MarkedAcked
  <2> QED BY <1>6, <2>1 DEF Ordered, CountsExactly, MarkedAcked
<1> QED BY <1>9, <1>12, <1>13 DEF Ordered

\* The ACK that arrives is the next one.
LEMMA OrderedRecvAck ==
    ASSUME Gen, Ordered, in_order, NEW a \in BagToSet(acks), RecvAck(a)
    PROVE  Ordered'
<1>1. /\ highest_ack_ \in Nat /\ rcv_nxt_ \in Nat /\ highest_ack_ <= rcv_nxt_
      /\ IsABag(acks) /\ a \in DOMAIN acks
      /\ \A b \in DOMAIN acks : b.no \in Nat /\ b.no <= rcv_nxt_ /\ b.ece \in BOOLEAN
  BY Numbers DEF Gen, Receiving, InFlight, AckPkt, BagToSet
<1>2. /\ \A b \in DOMAIN acks : acks[b] = 1 /\ b.no > highest_ack_
      /\ \A b, c \in DOMAIN acks : b.no = c.no => b = c
      /\ \A n \in highest_ack_ + 1 .. rcv_nxt_ : \E b \in DOMAIN acks : b.no = n
      /\ ~afabric_ecn_enabled_ => \A b \in DOMAIN acks : b.ece = ce[b.no - 1]
  BY DEF Ordered, AcksInOrder
<1>3. a.no = highest_ack_ + 1
  <2>1. highest_ack_ + 1 \in highest_ack_ + 1 .. rcv_nxt_
    BY <1>1, <1>2
  <2>2. PICK b \in DOMAIN acks : b.no = highest_ack_ + 1
    BY <1>2, <2>1
  <2>3. a.no <= b.no
    BY DEF RecvAck, BagToSet
  <2> QED BY <1>1, <1>2, <2>2, <2>3
<1>4. /\ UNCHANGED <<afabric_ecn_enabled_, in_order, maxseq_, rcv_nxt_, rq_, data, rtx, ce>>
      /\ acks' = acks (-) SetToBag({a})
      /\ counted' = counted + MarkedBytes(a)
  <2>1. ~DupAck(a)
    BY <1>1, <1>3 DEF DupAck
  <2> QED BY <2>1 DEF RecvAck, Counts, confVars, rcvVars
<1>5. highest_ack_' = highest_ack_ + 1
  <2>1. highest_ack_' = IF a.no > highest_ack_ THEN a.no ELSE highest_ack_
    BY DEF RecvAck
  <2> QED BY <1>1, <1>3, <2>1
<1>6. DOMAIN acks' = DOMAIN acks \ {a} /\ \A x \in DOMAIN acks' : acks'[x] = acks[x]
  <2> DEFINE N == acks (-) SetToBag({a})
  <2>1. /\ DOMAIN acks \ {a} \subseteq DOMAIN N /\ DOMAIN N \subseteq DOMAIN acks
        /\ \A x \in DOMAIN N : x # a => N[x] = acks[x]
        /\ acks[a] = 1 => a \notin DOMAIN N
    BY <1>1, BagRemove
  <2>2. acks' = N
    BY <1>4
  <2> HIDE DEF N
  <2>3. acks[a] = 1
    BY <1>1, <1>2
  <2>4. DOMAIN N = DOMAIN acks \ {a}
    BY <2>1, <2>3
  <2> QED BY <2>1, <2>2, <2>4
<1>7. DataInOrder'
  BY <1>4 DEF Ordered, DataInOrder
<1>8. AcksInOrder'
  <2>1. \A b \in DOMAIN acks' : acks'[b] = 1 /\ b.no > highest_ack_'
    <3>1. ASSUME NEW b \in DOMAIN acks' PROVE b.no # highest_ack_ + 1
      BY <1>1, <1>2, <1>3, <1>6
    <3> QED BY <1>1, <1>2, <1>5, <1>6, <3>1
  <2>2. ASSUME NEW n \in highest_ack_' + 1 .. rcv_nxt_' PROVE \E b \in DOMAIN acks' : b.no = n
    <3>1. n \in highest_ack_ + 1 .. rcv_nxt_ /\ n # highest_ack_ + 1
      BY <1>1, <1>4, <1>5
    <3>2. PICK b \in DOMAIN acks : b.no = n
      BY <1>2, <3>1
    <3> QED BY <1>3, <1>6, <3>1, <3>2
  <2> QED BY <1>2, <1>4, <1>6, <2>1, <2>2 DEF AcksInOrder
<1>9. CountsExactly'
  <2> SUFFICES ASSUME ~afabric_ecn_enabled_ PROVE counted' = Cardinality(MarkedAcked')
    BY <1>4 DEF CountsExactly, MarkedAcked
  <2> DEFINE h == highest_ack_
             M == MarkedAcked
  <2>1. counted = Cardinality(M) /\ counted \in Nat
    BY DEF Ordered, CountsExactly, MarkedAcked, Gen, Receiving, Shape
  <2>2. /\ DOMAIN ce = 0 .. rcv_nxt_ - 1 /\ h \in DOMAIN ce /\ ce[h] \in BOOLEAN
    BY <1>1, <1>3 DEF Ordered, DataInOrder
  <2>3. IsFiniteSet(M)
    <3>1. IsFiniteSet(0 .. rcv_nxt_ - 1) /\ M \in SUBSET (0 .. rcv_nxt_ - 1)
      BY <1>1, <2>2, FS_Interval DEF MarkedAcked
    <3> QED BY <3>1, FS_Subset
  <2>4. h \notin M
    BY <1>1 DEF MarkedAcked
  <2>5. AckedBytes(a) = 1
    BY <1>1, <1>3 DEF AckedBytes
  <2>6. a.ece = ce[h]
    <3>1. a.no - 1 = h
      BY <1>1, <1>3
    <3> QED BY <1>1, <1>2, <3>1
  <2>7. is_ecn_active(a) = ce[h]
    BY <1>1, <2>2, <2>6 DEF is_ecn_active
  <2>8. CASE ce[h]
    <3>1. MarkedAcked' = M \cup {h}
      BY <1>1, <1>4, <1>5, <2>2, <2>8 DEF MarkedAcked
    <3>2. Cardinality(M \cup {h}) = Cardinality(M) + 1
      BY <2>3, <2>4, FS_AddElement
    <3>3. counted' = counted + 1
      BY <1>4, <2>5, <2>7, <2>8 DEF MarkedBytes
    <3> QED BY <2>1, <3>1, <3>2, <3>3
  <2>9. CASE ~ce[h]
    <3>1. MarkedAcked' = M
      BY <1>1, <1>4, <1>5, <2>2, <2>9 DEF MarkedAcked
    <3>2. counted' = counted
      BY <1>4, <2>1, <2>7, <2>9 DEF MarkedBytes
    <3> QED BY <2>1, <3>1, <3>2
  <2> QED BY <2>8, <2>9
<1> QED BY <1>7, <1>8, <1>9 DEF Ordered

\* Ordered is inductive relative to Gen.
LEMMA OrderedNext == Gen /\ Ordered /\ [Next]_vars => Ordered'
<1> SUFFICES ASSUME Gen, Ordered, [Next]_vars PROVE Ordered'
  OBVIOUS
<1>1. in_order' = in_order
  BY DEF Next, Output, Announce, Timeout, Retransmit, RecvData, RecvAck, LoseAck, vars, confVars
<1>2. CASE ~in_order
  BY <1>1, <1>2 DEF Ordered, DataInOrder, AcksInOrder, CountsExactly
<1>3. CASE in_order
  <2>1. CASE Output
    BY <1>3, <2>1, OrderedOutput
  <2>2. ASSUME NEW p \in data, RecvData(p) PROVE Ordered'
    BY <1>3, <2>2, OrderedRecvData
  <2>3. ASSUME NEW a \in BagToSet(acks), RecvAck(a) PROVE Ordered'
    BY <1>3, <2>3, OrderedRecvAck
  <2>4. ~Timeout
    BY <1>3, NoResend DEF Timeout
  <2>5. ASSUME NEW seq \in highest_ack_ .. maxseq_ - 1 PROVE ~Retransmit(seq)
    BY <1>3, NoResend DEF Retransmit
  <2>6. ASSUME NEW a \in BagToSet(acks) PROVE ~LoseAck(a)
    BY <1>3 DEF LoseAck
  <2>7. CASE Announce \/ UNCHANGED vars
    <3>1. UNCHANGED <<afabric_ecn_enabled_, in_order, maxseq_, highest_ack_, rcv_nxt_, rq_, data,
                      acks, rtx, counted, ce>>
      BY <2>7 DEF Announce, vars, confVars, sndVars, rcvVars
    <3> QED BY <3>1 DEF Ordered, DataInOrder, AcksInOrder, CountsExactly
  <2> QED BY <2>1, <2>2, <2>3, <2>4, <2>5, <2>6, <2>7 DEF Next
<1> QED BY <1>2, <1>3 DEF Gen, Receiving, Shape

-----------------------------------------------------------------------------
(* The results *)

\* The inductive invariant holds of every behaviour.
THEOREM EchoInvariant == Spec => []EchoInv
<1>1. Init => EchoInv
  <2> SUFFICES ASSUME Init PROVE EchoInv
    OBVIOUS
  <2>1. Gen
    BY GenInit
  <2>2. Window /\ ReactsToUrgent
    BY DEF Init, Window, ReactsToUrgent, NoReaction
  <2>3. /\ rtx = 0 /\ rq_ = {} /\ data = {} /\ rcv_nxt_ = 0 /\ maxseq_ = 0 /\ highest_ack_ = 0
        /\ DOMAIN ce = {} /\ DOMAIN acks = {} /\ counted = 0
    BY DEF Init, EmptyBag, SetToBag
  <2>4. DataInOrder /\ AcksInOrder
    BY <2>3 DEF DataInOrder, AcksInOrder
  <2>5. CountsExactly
    <3>1. {s \in DOMAIN ce : s < highest_ack_ /\ ce[s]} = {}
      BY <2>3
    <3> QED BY <2>3, <3>1, FS_EmptySet DEF CountsExactly
  <2> QED BY <2>1, <2>2, <2>4, <2>5 DEF Gen, Receiving, EchoInv
<1>2. EchoInv /\ [Next]_vars => EchoInv'
  <2> SUFFICES ASSUME EchoInv, [Next]_vars PROVE EchoInv'
    OBVIOUS
  <2>1. Gen /\ Ordered
    BY DEF EchoInv, Gen, Receiving, Ordered
  <2>2. Gen'
    BY <2>1, GenNext
  <2>3. Window' /\ ReactsToUrgent'
    BY <2>1, WindowNext, ReactsNext DEF EchoInv
  <2>4. Ordered'
    BY <2>1, OrderedNext
  <2> QED BY <2>2, <2>3, <2>4 DEF EchoInv, Gen, Receiving, Ordered
<1> QED BY <1>1, <1>2, PTL DEF Spec

\* Whatever the network loses, reorders and repeats, every packet is answered
\* before the next event: the ACK "with the previous CE state" is never due.
THEOREM NothingPending == Spec => []AckedAtOnce
<1>1. EchoInv => AckedAtOnce
  <2> SUFFICES ASSUME EchoInv PROVE AckedAtOnce
    OBVIOUS
  <2>1. ASSUME NEW a \in BagToSet(acks) PROVE a.why # <<>>
    BY PktNotEmpty DEF EchoInv, InFlight, BagToSet, AckPkt
  <2> QED BY <2>1 DEF EchoInv, Answered, AckedAtOnce
<1> QED BY <1>1, EchoInvariant, PTL

\* The ACK of new data echoes the mark of the packet it answers.
THEOREM EchoIsTrue == Spec => []EchoesMark
BY EchoInvariant, PTL DEF EchoInv

\* A sender reacts to real marks only, and to no mark of the lowest priority
\* once it has announced the end of its flow.
THEOREM ReactionsJustified == Spec => []ReactsToUrgent
BY EchoInvariant, PTL DEF EchoInv

\* On a network that keeps the order the bytes a DCTCP sender counts as marked
\* are exactly the marked ones.
THEOREM MarksCounted == Spec => []CountsExactly
BY EchoInvariant, PTL DEF EchoInv

\* At most one reaction per window.
THEOREM ReactsOncePerWindow == Spec => OncePerWindow
<1> DEFINE A == reaction' # reaction /\ ~reaction'.timeout /\ reaction.why # <<>>
                  => highest_ack_' > reaction.at \/ reaction.timeout
<1>1. ASSUME EchoInv, Next PROVE A
  <2>1. Gen /\ Window
    BY <1>1 DEF EchoInv, Gen, Receiving
  <2>2. recover_ \in Nat /\ reaction.at \in Nat
    BY <2>1 DEF Gen, Receiving, Shape
  <2>3. ASSUME NEW a \in DOMAIN acks, Reaction(a), reaction.why # <<>>, ~reaction.timeout
        PROVE  highest_ack_' > reaction.at
    <3>1. a.no \in Nat /\ highest_ack_' = a.no
      BY <2>1, <2>3 DEF Gen, Receiving, InFlight, AckPkt, Reaction
    <3>2. recover_ >= reaction.at /\ last_cwnd_action_ # "TIMEOUT"
      BY <2>1, <2>3 DEF Window
    <3>3. a.no > recover_
      BY <2>3, <3>2 DEF Reaction, Reacts
    <3> QED BY <2>2, <3>1, <3>2, <3>3
  <2>4. CASE NoReactionStep
    BY <2>4 DEF NoReactionStep
  <2>5. CASE TimeoutStep
    BY <2>1, <2>5 DEF TimeoutStep, Gen, Receiving, Shape
  <2> QED BY <1>1, <2>1, <2>3, <2>4, <2>5, ReactionCases
<1>2. EchoInv /\ [Next]_vars => [A]_vars
  BY <1>1
<1> QED BY <1>2, EchoInvariant, PTL DEF Spec, OncePerWindow
=============================================================================
