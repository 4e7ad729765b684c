------------------------ MODULE PriorityQueueProofs ------------------------
(***************************************************************************)
(* Proofs about the PIAS port of module PriorityQueue, for every choice of *)
(* packets, number of queues, limit, threshold and marking scheme.         *)
(*                                                                         *)
(* QueuesOK says what is true of the queues between the two halves of an   *)
(* event as well: storing a packet, serving one and emptying the queues    *)
(* each preserve it, and the events combine these.                         *)
(***************************************************************************)
EXTENDS PriorityQueue, FiniteSetTheorems, TLAPS

USE SizeAssumption

\* The scripts never change queue_num_.
FixedQueues == \A m, n \in QueueNums : m = n

\* A packet waits on the queue its priority selects, which is served.
Placed(q) ==
    \A i \in Queues : \A p \in q[i] : i = clamp_priority(p.prio) /\ i < queue_num_

\* NoOvertaking, of the packets W that wait and the sequence s.
Ordered(W, s) ==
    /\ \A p \in W, i \in 1..Len(s) : p.id < s[i].id => s[i].prio < p.prio
    /\ \A i, j \in 1..Len(s) :
          i < j /\ s[j].id < s[i].id => s[i].prio < s[j].prio

\* UnmarkedWithinThresh, of the queues q.
BelowThresh(q) ==
    /\ marking_scheme_ = "PER_PORT" =>
          Bytes(Unmarked(Waiting(q))) <= thresh_ * mean_pktsize_
    /\ marking_scheme_ = "PER_QUEUE" =>
          \A i \in Queues : Bytes(Unmarked(q[i])) <= thresh_ * mean_pktsize_

Disjoint(q) == \A i, j \in Queues : i # j => q[i] \cap q[j] = {}

QueuesOK(q, D, s, n) ==
    /\ q \in [Queues -> SUBSET Packet]
    /\ IsFiniteSet(Waiting(q))
    /\ Disjoint(q)
    /\ Conserved(Waiting(q), D, s, n)
    /\ Bytes(Waiting(q)) <= qlim_ * mean_pktsize_
    /\ BelowThresh(q)
    /\ FixedQueues => Placed(q) /\ Ordered(Waiting(q), s)

\* The inductive invariant.  NoOvertaking is not inductive without Placed:
\* strict priority between queues is an order on packets only because a
\* packet's queue is determined by its priority.
PiasInv ==
    /\ TypeOK
    /\ QueuesOK(q_, dropped, sent, nextid)
    /\ FixedQueues /\ mode = "run" /\ ~blocked_ => Waiting(q_) = {}

-----------------------------------------------------------------------------
(* Where packets are *)

\* An arriving packet with the next number joins P.
LEMMA ConservedArrive ==
    ASSUME NEW P, NEW D, NEW s, NEW n \in Nat \ {0},
           Conserved(P, D, s, n),
           NEW p, p.id = n
    PROVE  Conserved(P \cup {p}, D, s, n + 1)
<1> DEFINE S == {s[i] : i \in 1..Len(s)}
<1>1. \A k \in 1..((n + 1) - 1) : \E r \in (P \cup {p}) \cup D \cup S : r.id = k
  <2> SUFFICES ASSUME NEW k \in 1..n
               PROVE  \E r \in (P \cup {p}) \cup D \cup S : r.id = k
    OBVIOUS
  <2>1. CASE k = n
    BY <2>1
  <2>2. CASE k \in 1..(n - 1)
    BY <2>2 DEF Conserved
  <2> QED BY <2>1, <2>2
<1>2. \A r \in P \cup D \cup S : r.id \in 1..(n - 1) /\ r.id # n
  BY DEF Conserved
<1>3. \A r \in (P \cup {p}) \cup D \cup S : r.id \in 1..((n + 1) - 1)
  BY <1>2
<1>4. \A r, t \in (P \cup {p}) \cup D \cup S : r.id = t.id => r = t
  BY <1>2 DEF Conserved
<1>5. \A r \in P \cup {p} : r \notin D /\ r \notin S
  BY <1>2 DEF Conserved
<1> QED BY <1>1, <1>3, <1>4, <1>5 DEF Conserved

\* Dropped packets move from P to D.
LEMMA ConservedDrop ==
    ASSUME NEW P, NEW D, NEW s, NEW n, Conserved(P, D, s, n),
           NEW R \in SUBSET P
    PROVE  Conserved(P \ R, D \cup R, s, n)
BY DEF Conserved

\* A transmitted packet moves from P to the end of s.
LEMMA ConservedSend ==
    ASSUME NEW P \in SUBSET Packet, NEW D, NEW s \in Seq(Packet), NEW n,
           Conserved(P, D, s, n), NEW c \in P
    PROVE  Conserved(P \ {c}, D, Append(s, c), n)
<1> DEFINE S == {s[i] : i \in 1..Len(s)}
           t == Append(s, c)
           T == {t[i] : i \in 1..Len(t)}
<1>1. T = S \cup {c}
  OBVIOUS
<1>2. \A i, j \in 1..Len(t) : t[i] = t[j] => i = j
  BY DEF Conserved
<1> HIDE DEF t
<1> QED BY <1>1, <1>2 DEF Conserved, t

-----------------------------------------------------------------------------
(* Sizes *)

\* The total size of finitely many packets is a natural number.
LEMMA BytesType ==
    ASSUME NEW S \in SUBSET Packet, IsFiniteSet(S)
    PROVE  Bytes(S) \in Nat
<1> DEFINE H == {p \in S : p.size = HdrSize}
           M == {p \in S : p.size = MssSize}
<1>1. Cardinality(H) \in Nat /\ Cardinality(M) \in Nat
  BY FS_Subset, FS_CardinalityType
<1> HIDE DEF H, M
<1>2. HdrSize * Cardinality(H) + MssSize * Cardinality(M) \in Nat
  BY <1>1
<1> QED BY <1>2 DEF Bytes, H, M

\* The size of one packet.
LEMMA BytesOne ==
    ASSUME NEW p \in Packet
    PROVE  Bytes({p}) = p.size
<1> DEFINE H == {r \in {p} : r.size = HdrSize}
           M == {r \in {p} : r.size = MssSize}
<1>1. CASE p.size = HdrSize
  <2>1. H = {p} /\ M = {}
    BY <1>1
  <2>2. Cardinality(H) = 1 /\ Cardinality(M) = 0
    BY <2>1, FS_Singleton, FS_EmptySet
  <2> QED BY <2>2, <1>1 DEF Bytes
<1>2. CASE p.size = MssSize
  <2>1. M = {p} /\ H = {}
    BY <1>2
  <2>2. Cardinality(M) = 1 /\ Cardinality(H) = 0
    BY <2>1, FS_Singleton, FS_EmptySet
  <2> QED BY <2>2, <1>2 DEF Bytes
<1> QED BY <1>1, <1>2 DEF Packet, Sizes

\* Taking packets out takes their size out.
LEMMA BytesDiff ==
    ASSUME NEW S \in SUBSET Packet, IsFiniteSet(S), NEW R \in SUBSET S
    PROVE  Bytes(S \ R) = Bytes(S) - Bytes(R)
<1> DEFINE Of(T, n) == {p \in T : p.size = n}
<1>1. ASSUME NEW n \in Sizes
      PROVE  /\ Cardinality(Of(S \ R, n)) = Cardinality(Of(S, n)) - Cardinality(Of(R, n))
             /\ Cardinality(Of(S, n)) \in Nat
             /\ Cardinality(Of(R, n)) \in Nat
  <2>1. IsFiniteSet(Of(S, n)) /\ IsFiniteSet(Of(R, n))
    BY FS_Subset
  <2>2. Of(S \ R, n) = Of(S, n) \ Of(R, n) /\ Of(S, n) \cap Of(R, n) = Of(R, n)
    OBVIOUS
  <2>3. Cardinality(Of(S, n) \ Of(R, n))
           = Cardinality(Of(S, n)) - Cardinality(Of(S, n) \cap Of(R, n))
    BY <2>1, FS_Difference
  <2>4. Cardinality(Of(S, n)) \in Nat /\ Cardinality(Of(R, n)) \in Nat
    BY <2>1, FS_CardinalityType
  <2> HIDE DEF Of
  <2> QED BY <2>2, <2>3, <2>4
<1>2. /\ Bytes(S \ R) = HdrSize * Cardinality(Of(S \ R, HdrSize)) + MssSize * Cardinality(Of(S \ R, MssSize))
      /\ Bytes(S) = HdrSize * Cardinality(Of(S, HdrSize)) + MssSize * Cardinality(Of(S, MssSize))
      /\ Bytes(R) = HdrSize * Cardinality(Of(R, HdrSize)) + MssSize * Cardinality(Of(R, MssSize))
  BY DEF Bytes
<1> HIDE DEF Of
<1>3. HdrSize \in Sizes /\ MssSize \in Sizes
  BY DEF Sizes
<1>4. ASSUME NEW h \in Nat, NEW m \in Nat, NEW a \in Nat, NEW b \in Nat, NEW c \in Nat, NEW d \in Nat
      PROVE  h * (a - b) + m * (c - d) = (h * a + m * c) - (h * b + m * d)
  OBVIOUS
<1>5. /\ Cardinality(Of(S \ R, HdrSize)) = Cardinality(Of(S, HdrSize)) - Cardinality(Of(R, HdrSize))
      /\ Cardinality(Of(S \ R, MssSize)) = Cardinality(Of(S, MssSize)) - Cardinality(Of(R, MssSize))
      /\ Cardinality(Of(S, HdrSize)) \in Nat /\ Cardinality(Of(R, HdrSize)) \in Nat
      /\ Cardinality(Of(S, MssSize)) \in Nat /\ Cardinality(Of(R, MssSize)) \in Nat
  BY <1>1, <1>3
<1>6.   HdrSize * (Cardinality(Of(S, HdrSize)) - Cardinality(Of(R, HdrSize)))
      + MssSize * (Cardinality(Of(S, MssSize)) - Cardinality(Of(R, MssSize)))
      = (HdrSize * Cardinality(Of(S, HdrSize)) + MssSize * Cardinality(Of(S, MssSize)))
        - (HdrSize * Cardinality(Of(R, HdrSize)) + MssSize * Cardinality(Of(R, MssSize)))
  BY <1>4, <1>5
<1> QED BY <1>2, <1>5, <1>6

\* Adding a packet adds its size.
LEMMA BytesAdd ==
    ASSUME NEW S \in SUBSET Packet, IsFiniteSet(S), NEW p \in Packet, p \notin S
    PROVE  /\ IsFiniteSet(S \cup {p})
           /\ Bytes(S \cup {p}) = Bytes(S) + p.size
<1>1. IsFiniteSet(S \cup {p})
  BY FS_AddElement
<1>2. (S \cup {p}) \ {p} = S
  OBVIOUS
<1>3. Bytes(S) = Bytes(S \cup {p}) - Bytes({p})
  BY <1>1, <1>2, BytesDiff
<1>4. Bytes(S \cup {p}) \in Nat /\ Bytes({p}) = p.size /\ Bytes(S) \in Nat
  BY <1>1, BytesType, BytesOne
<1>5. p.size \in Nat
  BY DEF Packet, Sizes
<1> QED BY <1>1, <1>3, <1>4, <1>5

\* Fewer packets are smaller.
LEMMA BytesMonotone ==
    ASSUME NEW S \in SUBSET Packet, IsFiniteSet(S), NEW R \in SUBSET S
    PROVE  Bytes(R) <= Bytes(S) /\ Bytes(R) \in Nat /\ Bytes(S) \in Nat
<1>1. IsFiniteSet(R) /\ IsFiniteSet(S \ R) /\ R \in SUBSET Packet /\ S \ R \in SUBSET Packet
  BY FS_Subset
<1>2. Bytes(R) \in Nat /\ Bytes(S) \in Nat /\ Bytes(S \ R) \in Nat
  BY <1>1, BytesType
<1>3. Bytes(S \ R) = Bytes(S) - Bytes(R)
  BY BytesDiff
<1> QED BY <1>2, <1>3

\* No packets have no size.
LEMMA BytesNone == Bytes({}) = 0
<1>1. {p \in {} : p.size = HdrSize} = {} /\ {p \in {} : p.size = MssSize} = {}
  OBVIOUS
<1>2. Cardinality({}) = 0
  BY FS_EmptySet
<1>3. HdrSize * 0 + MssSize * 0 = 0
  BY SizeAssumption
<1> QED BY <1>1, <1>2, <1>3 DEF Bytes

\* The limits are numbers.
LEMMA BoundsType == qlim_ * mean_pktsize_ \in Nat /\ thresh_ * mean_pktsize_ \in Nat
BY PriorityAssumption

-----------------------------------------------------------------------------
(* Storing and serving *)

\* The packets on a queue are among those that wait.
LEMMA QueueWaits ==
    ASSUME NEW q, NEW i \in Queues
    PROVE  q[i] \subseteq Waiting(q)
BY DEF Waiting

\* A packet stored in one queue waits.
LEMMA WaitingStore ==
    ASSUME NEW q \in [Queues -> SUBSET Packet], NEW i \in Queues, NEW p
    PROVE  Waiting([q EXCEPT ![i] = @ \cup {p}]) = Waiting(q) \cup {p}
BY DEF Waiting

\* A packet taken from its queue no longer waits.
LEMMA WaitingTake ==
    ASSUME NEW q \in [Queues -> SUBSET Packet], Disjoint(q),
           NEW i \in Queues, NEW c \in q[i]
    PROVE  Waiting([q EXCEPT ![i] = @ \ {c}]) = Waiting(q) \ {c}
BY DEF Waiting, Disjoint

\* The queue number clamp_priority returns is one of the queues, and a higher
\* queue means a higher priority value.
LEMMA ClampRange ==
    ASSUME queue_num_ \in 1..MAX_QUEUE_NUM, NEW prio \in Int
    PROVE  clamp_priority(prio) \in Queues
BY PriorityAssumption DEF clamp_priority, Queues

\* clamp_priority keeps the order of priorities.
LEMMA ClampMonotone ==
    ASSUME queue_num_ \in Nat \ {0}, NEW a \in Int, NEW b \in Int,
           clamp_priority(a) < clamp_priority(b)
    PROVE  a < b
BY DEF clamp_priority

\* Fewer packets on each queue stay below the threshold.
LEMMA ThreshSubset ==
    ASSUME NEW q \in [Queues -> SUBSET Packet], IsFiniteSet(Waiting(q)), BelowThresh(q),
           NEW r \in [Queues -> SUBSET Packet],
           \A i \in Queues : Unmarked(r[i]) \subseteq Unmarked(q[i])
    PROVE  BelowThresh(r)
<1>1. Waiting(q) \in SUBSET Packet
  BY DEF Waiting
<1>2. Unmarked(Waiting(r)) \subseteq Unmarked(Waiting(q))
  BY DEF Unmarked, Waiting
<1>3. Unmarked(Waiting(q)) \in SUBSET Packet /\ IsFiniteSet(Unmarked(Waiting(q)))
  BY <1>1, FS_Subset DEF Unmarked
<1>4. /\ Bytes(Unmarked(Waiting(r))) <= Bytes(Unmarked(Waiting(q)))
      /\ Bytes(Unmarked(Waiting(r))) \in Nat /\ Bytes(Unmarked(Waiting(q))) \in Nat
  BY <1>2, <1>3, BytesMonotone
<1>5. ASSUME NEW i \in Queues
      PROVE  /\ Bytes(Unmarked(r[i])) <= Bytes(Unmarked(q[i]))
             /\ Bytes(Unmarked(r[i])) \in Nat /\ Bytes(Unmarked(q[i])) \in Nat
  <2>1. Unmarked(q[i]) \subseteq Waiting(q)
    BY QueueWaits DEF Unmarked
  <2>2. Unmarked(q[i]) \in SUBSET Packet /\ IsFiniteSet(Unmarked(q[i]))
    BY <1>1, <2>1, FS_Subset
  <2> QED BY <2>2, BytesMonotone
<1>6. thresh_ * mean_pktsize_ \in Nat
  BY BoundsType
<1> QED BY <1>4, <1>5, <1>6 DEF BelowThresh

\* Priority::enque preserves the invariant of the queues.
LEMMA EnqueKeeps ==
    ASSUME TypeOK, QueuesOK(q_, dropped, sent, nextid), ensure_queue_bound,
           NEW p \in Packet, p.id = nextid
    PROVE  /\ QueuesOK(enque(p).q, dropped \cup enque(p).lost, sent, nextid + 1)
           /\ enque(p).lost \subseteq Packet
<1> DEFINE W == Waiting(q_)
<1>w. W \in SUBSET Packet /\ IsFiniteSet(W)
  BY DEF QueuesOK, Waiting
<1>n. nextid \in Nat \ {0} /\ queue_num_ \in 1..MAX_QUEUE_NUM
  BY DEF TypeOK, ensure_queue_bound
<1>f. \A r \in W : r.id < nextid
  BY <1>n DEF QueuesOK, Conserved
<1>c. Conserved(W \cup {p}, dropped, sent, nextid + 1)
  BY <1>n, ConservedArrive DEF QueuesOK
<1>1. CASE Overflows(p)
  <2>1. enque(p) = [q |-> q_, lost |-> {p}]
    BY <1>1 DEF enque
  <2>2. Conserved((W \cup {p}) \ {p}, dropped \cup {p}, sent, nextid + 1)
    BY <1>c, ConservedDrop
  <2>3. (W \cup {p}) \ {p} = W
    BY <1>f, <1>n
  <2>4. Conserved(W, dropped \cup {p}, sent, nextid + 1)
    BY <2>2, <2>3
  <2>5. QueuesOK(q_, dropped \cup {p}, sent, nextid + 1)
    BY <2>4 DEF QueuesOK
  <2> QED BY <2>1, <2>5
<1>2. CASE ~Overflows(p)
  <2> DEFINE i == clamp_priority(p.prio)
             st == [p EXCEPT !.ce = @ \/ IsMarked(i, p)]
             r == [q_ EXCEPT ![i] = @ \cup {st}]
  <2>1. enque(p) = [q |-> r, lost |-> {}]
    BY <1>2 DEF enque
  <2>2. i \in Queues
    BY <1>n, ClampRange DEF Packet
  <2>3. st \in Packet /\ st.id = nextid /\ st.prio = p.prio /\ st.size = p.size
        /\ st.ect = p.ect /\ st.ce = (p.ce \/ IsMarked(i, p))
    <3>1. IsMarked(i, p) \in BOOLEAN
      BY DEF IsMarked, Packet
    <3> QED BY <3>1 DEF Packet
  <2> HIDE DEF i, st
  <2>4. q_ \in [Queues -> SUBSET Packet] /\ r \in [Queues -> SUBSET Packet]
    BY <2>2, <2>3 DEF QueuesOK
  <2>5. Waiting(r) = W \cup {st}
    BY <2>2, <2>4, WaitingStore
  <2>6. st \notin W /\ p \notin W
    BY <1>f, <1>n, <2>3
  <2>7. IsFiniteSet(Waiting(r)) /\ Bytes(Waiting(r)) = Bytes(W) + p.size
    BY <1>w, <2>3, <2>5, <2>6, BytesAdd
  <2>8. Bytes(Waiting(r)) <= qlim_ * mean_pktsize_
    <3>1. Bytes(W) \in Nat /\ p.size \in Nat
      BY <1>w, BytesType, SizeAssumption DEF Packet, Sizes
    <3>2. ~(Bytes(W) + p.size > qlim_ * mean_pktsize_)
      BY <1>2 DEF Overflows, TotalByteLength
    <3> QED BY <2>7, <3>1, <3>2, BoundsType
  <2>9. Conserved(Waiting(r), dropped \cup {}, sent, nextid + 1)
    <3>1. Conserved(W \cup {st}, dropped, sent, nextid + 1)
      BY <1>n, <2>3, ConservedArrive DEF QueuesOK
    <3>2. dropped \cup {} = dropped
      OBVIOUS
    <3> QED BY <2>5, <3>1, <3>2
  <2>10. Disjoint(r)
    <3>1. \A j \in Queues : st \notin q_[j]
      BY <2>6, QueueWaits
    <3>2. r[i] = q_[i] \cup {st} /\ \A j \in Queues : j # i => r[j] = q_[j]
      BY <2>2, <2>4
    <3> HIDE DEF r
    <3> QED BY <3>1, <3>2 DEF QueuesOK, Disjoint
  <2>11. BelowThresh(r)
    <3>q. r[i] = q_[i] \cup {st} /\ \A j \in Queues : j # i => r[j] = q_[j]
      BY <2>2, <2>4
    <3> HIDE DEF r
    <3>1. CASE ~(st.ect /\ ~st.ce)
      <4>1. \A j \in Queues : Unmarked(r[j]) \subseteq Unmarked(q_[j])
        BY <3>1, <3>q DEF Unmarked
      <4> QED BY <1>w, <2>4, <4>1, ThreshSubset DEF QueuesOK
    <3>2. CASE st.ect /\ ~st.ce
      <4>1. ~IsMarked(i, p) /\ p.ect /\ ~p.ce
        BY <2>3, <3>2 DEF Packet
      <4>2. st = p
        BY <4>1 DEF st, Packet
      <4>3. ASSUME marking_scheme_ = "PER_PORT"
            PROVE  Bytes(Unmarked(Waiting(r))) <= thresh_ * mean_pktsize_
        <5>1. ~(Bytes(W \cup {p}) > thresh_ * mean_pktsize_)
          BY <4>1, <4>3 DEF IsMarked
        <5>2. Unmarked(Waiting(r)) \in SUBSET (W \cup {p})
          BY <2>5, <4>2 DEF Unmarked
        <5>3. /\ Bytes(Unmarked(Waiting(r))) <= Bytes(W \cup {p})
              /\ Bytes(Unmarked(Waiting(r))) \in Nat /\ Bytes(W \cup {p}) \in Nat
          BY <1>w, <2>6, <5>2, BytesAdd, BytesMonotone
        <5> QED BY <5>1, <5>3, BoundsType
      <4>4. ASSUME marking_scheme_ = "PER_QUEUE", NEW j \in Queues
            PROVE  Bytes(Unmarked(r[j])) <= thresh_ * mean_pktsize_
        <5>1. CASE j # i
          BY <3>q, <4>4, <5>1 DEF QueuesOK, BelowThresh
        <5>2. CASE j = i
          <6>1. ~(Bytes(q_[i] \cup {p}) > thresh_ * mean_pktsize_)
            BY <4>1, <4>4 DEF IsMarked
          <6>2. q_[i] \in SUBSET Packet /\ IsFiniteSet(q_[i]) /\ p \notin q_[i]
            BY <1>w, <2>2, <2>4, <2>6, QueueWaits, FS_Subset
          <6>3. Unmarked(r[i]) \in SUBSET (q_[i] \cup {p})
            BY <3>q, <4>2 DEF Unmarked
          <6>4. /\ Bytes(Unmarked(r[i])) <= Bytes(q_[i] \cup {p})
                /\ Bytes(Unmarked(r[i])) \in Nat /\ Bytes(q_[i] \cup {p}) \in Nat
            BY <6>2, <6>3, BytesAdd, BytesMonotone
          <6> QED BY <5>2, <6>1, <6>4, BoundsType
        <5> QED BY <5>1, <5>2
      <4> QED BY <4>3, <4>4 DEF BelowThresh
    <3> QED BY <3>1, <3>2
  <2>12. ASSUME FixedQueues PROVE Placed(r) /\ Ordered(Waiting(r), sent)
    <3>1. Placed(r)
      <4>1. r[i] = q_[i] \cup {st} /\ \A j \in Queues : j # i => r[j] = q_[j]
        BY <2>2, <2>4
      <4>2. i = clamp_priority(st.prio) /\ i < queue_num_
        BY <1>n, <2>3, PriorityAssumption DEF i, clamp_priority, Packet
      <4> HIDE DEF r
      <4> QED BY <2>12, <4>1, <4>2 DEF Placed, QueuesOK
    <3>2. \A k \in 1..Len(sent) : sent[k].id < nextid
      BY <1>n DEF QueuesOK, Conserved
    <3>3. Ordered(W \cup {st}, sent)
      <4>1. Ordered(W, sent)
        BY <2>12 DEF QueuesOK
      <4>2. \A k \in 1..Len(sent) : ~(st.id < sent[k].id)
        <5>1. \A k \in 1..Len(sent) : sent[k] \in Packet
          BY DEF TypeOK
        <5>2. \A k \in 1..Len(sent) : sent[k].id \in Nat
          BY <5>1 DEF Packet
        <5> QED BY <1>n, <2>3, <3>2, <5>2
      <4> QED BY <4>1, <4>2 DEF Ordered
    <3> QED BY <2>5, <3>1, <3>3
  <2> HIDE DEF r
  <2>13. QueuesOK(r, dropped \cup {}, sent, nextid + 1)
    BY <2>4, <2>7, <2>8, <2>9, <2>10, <2>11, <2>12 DEF QueuesOK
  <2> QED BY <2>1, <2>13
<1> QED BY <1>1, <1>2

\* Serving the packet that deque returns preserves it.
LEMMA TransmitKeeps ==
    ASSUME queue_num_ \in Int,
           NEW q, NEW D, NEW s \in Seq(Packet), NEW n, QueuesOK(q, D, s, n),
           NEW i \in Queues, NEW c \in q[i], IsServed(q, i, c)
    PROVE  /\ QueuesOK([q EXCEPT ![i] = @ \ {c}], D, Append(s, c), n)
           /\ Append(s, c) \in Seq(Packet)
<1> DEFINE r == [q EXCEPT ![i] = @ \ {c}]
           W == Waiting(q)
           t == Append(s, c)
<1>1. q \in [Queues -> SUBSET Packet] /\ r \in [Queues -> SUBSET Packet] /\ c \in Packet
  BY DEF QueuesOK
<1>2. Waiting(r) = W \ {c} /\ c \in W
  BY <1>1, WaitingTake, QueueWaits DEF QueuesOK
<1>3. r[i] = q[i] \ {c} /\ \A j \in Queues : j # i => r[j] = q[j]
  BY <1>1
<1>w. W \in SUBSET Packet /\ IsFiniteSet(W)
  BY DEF QueuesOK, Waiting
<1> HIDE DEF r, W
<1>4. IsFiniteSet(Waiting(r)) /\ Bytes(Waiting(r)) <= qlim_ * mean_pktsize_
  <2>1. Waiting(r) \in SUBSET W
    BY <1>2
  <2>2. Bytes(W) <= qlim_ * mean_pktsize_
    BY DEF QueuesOK, W
  <2> QED BY <1>w, <2>1, <2>2, BytesMonotone, BoundsType, FS_Subset
<1>5. Disjoint(r)
  BY <1>3 DEF QueuesOK, Disjoint
<1>6. Conserved(W, D, s, n)
  BY DEF QueuesOK, W
<1>7. Conserved(Waiting(r), D, t, n)
  BY <1>2, <1>6, <1>w, ConservedSend
<1>8. BelowThresh(r)
  <2>1. \A j \in Queues : Unmarked(r[j]) \subseteq Unmarked(q[j])
    BY <1>3 DEF Unmarked
  <2> QED BY <1>1, <2>1, ThreshSubset DEF QueuesOK
<1>9. t \in Seq(Packet) /\ Len(t) = Len(s) + 1 /\ t[Len(s) + 1] = c
      /\ \A k \in 1..Len(s) : t[k] = s[k]
  BY <1>1
<1>10. ASSUME FixedQueues PROVE Placed(r) /\ Ordered(Waiting(r), t)
  <2>1. Placed(q) /\ Ordered(W, s)
    BY <1>10 DEF QueuesOK, W
  <2>2. Placed(r)
    BY <1>3, <2>1 DEF Placed
  <2>3. \A p \in Waiting(r) : p.id < c.id => c.prio < p.prio
    <3> SUFFICES ASSUME NEW p \in Waiting(r), p.id < c.id PROVE c.prio < p.prio
      OBVIOUS
    <3>1. PICK j \in Queues : p \in q[j]
      BY <1>2 DEF W, Waiting
    <3>2. p \in Packet /\ p.id \in Nat /\ c.id \in Nat /\ p.prio \in Int /\ c.prio \in Int
      BY <1>1, <3>1 DEF Packet
    <3>3. j # i
      BY <3>1, <3>2 DEF IsServed, IsFirst
    <3>4. ~(j < i)
      BY <3>1 DEF IsServed
    <3>5. i \in Int /\ j \in Int /\ queue_num_ \in Nat \ {0}
      BY PriorityAssumption DEF Queues, IsServed
    <3>6. i = clamp_priority(c.prio) /\ j = clamp_priority(p.prio)
      BY <2>1, <3>1 DEF Placed
    <3> QED BY <3>2, <3>3, <3>4, <3>5, <3>6, ClampMonotone
  <2>4. ASSUME NEW p \in Waiting(r), NEW k \in 1..Len(t), p.id < t[k].id
        PROVE  t[k].prio < p.prio
    <3>1. CASE k \in 1..Len(s)
      BY <1>2, <1>9, <2>1, <2>4, <3>1 DEF Ordered
    <3>2. CASE k = Len(s) + 1
      BY <1>9, <2>3, <2>4, <3>2
    <3> QED BY <1>9, <3>1, <3>2
  <2>5. ASSUME NEW k \in 1..Len(t), NEW m \in 1..Len(t), k < m, t[m].id < t[k].id
        PROVE  t[k].prio < t[m].prio
    <3>1. k \in 1..Len(s) /\ t[k] = s[k]
      BY <1>9, <2>5
    <3>2. CASE m \in 1..Len(s)
      BY <1>9, <2>1, <2>5, <3>1, <3>2 DEF Ordered
    <3>3. CASE m = Len(s) + 1
      BY <1>2, <1>9, <2>1, <2>5, <3>1, <3>3 DEF Ordered
    <3> QED BY <1>9, <3>2, <3>3
  <2> HIDE DEF t
  <2> QED BY <2>2, <2>4, <2>5 DEF Ordered
<1> HIDE DEF t
<1>11. QueuesOK(r, D, t, n)
  BY <1>1, <1>4, <1>5, <1>7, <1>8, <1>10 DEF QueuesOK
<1> QED BY <1>9, <1>11 DEF r, t

\* So does emptying the queues that are served.
LEMMA ResetKeeps ==
    ASSUME NEW q, NEW D, NEW s, NEW n, QueuesOK(q, D, s, n),
           NEW r, r = [i \in Queues |-> IF i < queue_num_ THEN {} ELSE q[i]],
           NEW R, R = UNION {q[i] : i \in {j \in Queues : j < queue_num_}}
    PROVE  QueuesOK(r, D \cup R, s, n) /\ R \subseteq Packet /\ Waiting(r) \subseteq Waiting(q)
<1> DEFINE W == Waiting(q)
<1>1. q \in [Queues -> SUBSET Packet] /\ r \in [Queues -> SUBSET Packet]
  BY DEF QueuesOK
<1>2. Waiting(r) = W \ R /\ R \subseteq W
  <2>1. \A j \in Queues : r[j] = IF j < queue_num_ THEN {} ELSE q[j]
    OBVIOUS
  <2>2. \A p : p \in R <=> \E j \in Queues : j < queue_num_ /\ p \in q[j]
    OBVIOUS
  <2>3. \A p : p \in W <=> \E j \in Queues : p \in q[j]
    BY DEF Waiting
  <2>4. \A p : p \in Waiting(r) <=> \E j \in Queues : p \in r[j]
    BY DEF Waiting
  <2>5. \A j, k \in Queues : j # k => q[j] \cap q[k] = {}
    BY DEF QueuesOK, Disjoint
  <2> HIDE DEF W
  <2>6. \A p : p \in Waiting(r) <=> p \in W /\ p \notin R
    BY <2>1, <2>2, <2>3, <2>4, <2>5
  <2> QED BY <2>2, <2>3, <2>6
<1>3. \A j \in Queues : r[j] \subseteq q[j]
  OBVIOUS
<1>w. W \in SUBSET Packet /\ IsFiniteSet(W)
  BY DEF QueuesOK, Waiting
<1> HIDE DEF W
<1>4. IsFiniteSet(Waiting(r)) /\ Bytes(Waiting(r)) <= qlim_ * mean_pktsize_
  <2>1. Waiting(r) \in SUBSET W
    BY <1>2
  <2>2. Bytes(W) <= qlim_ * mean_pktsize_
    BY DEF QueuesOK, W
  <2> QED BY <1>w, <2>1, <2>2, BytesMonotone, BoundsType, FS_Subset
<1>5. Disjoint(r)
  BY <1>3 DEF QueuesOK, Disjoint
<1>6. Conserved(W, D, s, n)
  BY DEF QueuesOK, W
<1>7. Conserved(Waiting(r), D \cup R, s, n)
  <2>1. R \in SUBSET W
    BY <1>2
  <2>2. Conserved(W \ R, D \cup R, s, n)
    BY <1>6, <2>1, ConservedDrop
  <2> QED BY <1>2, <2>2
<1>8. BelowThresh(r)
  <2>1. \A j \in Queues : Unmarked(r[j]) \subseteq Unmarked(q[j])
    BY <1>3 DEF Unmarked
  <2> QED BY <1>1, <2>1, ThreshSubset DEF QueuesOK
<1>9. ASSUME FixedQueues PROVE Placed(r) /\ Ordered(Waiting(r), s)
  <2>1. Placed(q) /\ Ordered(W, s)
    BY <1>9 DEF QueuesOK, W
  <2>2. Placed(r)
    BY <1>3, <2>1 DEF Placed
  <2>3. Ordered(Waiting(r), s)
    BY <1>2, <2>1 DEF Ordered
  <2> QED BY <2>2, <2>3
<1>10. QueuesOK(r, D \cup R, s, n)
  BY <1>1, <1>4, <1>5, <1>7, <1>8, <1>9 DEF QueuesOK
<1> QED BY <1>2, <1>w, <1>10 DEF W

-----------------------------------------------------------------------------
(* The invariant *)

\* It holds when the simulation starts.
LEMMA PiasInit == Init => PiasInv
<1> SUFFICES ASSUME Init PROVE PiasInv
  OBVIOUS
<1>1. q_ \in [Queues -> SUBSET Packet] /\ Waiting(q_) = {} /\ \A i \in Queues : q_[i] = {}
  BY DEF Init, Waiting
<1>2. IsFiniteSet({}) /\ Bytes({}) = 0
  BY FS_EmptySet, BytesNone
<1>3. sent = <<>> /\ Len(sent) = 0 /\ sent \in Seq(Packet) /\ dropped = {} /\ nextid = 1
  BY DEF Init
<1>4. Conserved(Waiting(q_), dropped, sent, nextid)
  BY <1>1, <1>3 DEF Conserved
<1>5. BelowThresh(q_)
  <2>1. Unmarked({}) = {}
    BY DEF Unmarked
  <2>2. Bytes(Unmarked(Waiting(q_))) = 0 /\ \A i \in Queues : Bytes(Unmarked(q_[i])) = 0
    BY <1>1, <1>2, <2>1
  <2>3. 0 <= thresh_ * mean_pktsize_
    BY BoundsType
  <2> QED BY <2>2, <2>3 DEF BelowThresh
<1>6. Disjoint(q_) /\ Placed(q_) /\ Ordered(Waiting(q_), sent)
  BY <1>1, <1>3 DEF Disjoint, Placed, Ordered
<1>7. QueuesOK(q_, dropped, sent, nextid)
  BY <1>1, <1>2, <1>4, <1>5, <1>6, BoundsType DEF QueuesOK
<1>8. TypeOK
  <2>1. IsFiniteSet(Waiting(q_))
    BY <1>1, <1>2
  <2>2. queue_num_ \in QueueNums /\ blocked_ \in BOOLEAN /\ mode \in {"run", "aborted"}
    BY DEF Init
  <2>3. dropped \in SUBSET Packet /\ nextid \in Nat \ {0}
    BY <1>3
  <2> QED BY <2>3, <1>1, <1>3, <2>1, <2>2 DEF TypeOK
<1> QED BY <1>1, <1>7, <1>8 DEF PiasInv

\* With fixed queues, what is stored is on a queue that is served, so deque
\* returns null only when nothing waits at all.
LEMMA NothingServedNothingWaits ==
    ASSUME NEW q \in [Queues -> SUBSET Packet], Placed(q), NothingServed(q)
    PROVE  Waiting(q) = {}
BY DEF Waiting, Placed, NothingServed

\* An arriving packet is well formed.
LEMMA NewPacketType ==
    ASSUME TypeOK, NEW s \in Shapes
    PROVE  NewPacket(s) \in Packet /\ NewPacket(s).id = nextid
<1>1. s.flow \in Flows /\ s.prio \in Int /\ s.size \in Sizes /\ s.ect \in BOOLEAN
  BY PriorityAssumption
<1>2. nextid \in Nat
  BY DEF TypeOK
<1> QED BY <1>1, <1>2 DEF NewPacket, Packet

\* Every event of the port preserves it.
LEMMA PiasNext == PiasInv /\ [Next]_vars => PiasInv'
<1> SUFFICES ASSUME PiasInv, [Next]_vars PROVE PiasInv'
  OBVIOUS
<1>t. /\ TypeOK /\ QueuesOK(q_, dropped, sent, nextid)
      /\ queue_num_ \in QueueNums /\ queue_num_ \in Int /\ blocked_ \in BOOLEAN
      /\ sent \in Seq(Packet) /\ dropped \in SUBSET Packet /\ nextid \in Nat \ {0}
      /\ FixedQueues /\ mode = "run" /\ ~blocked_ => Waiting(q_) = {}
  BY PriorityAssumption DEF PiasInv, TypeOK
\* Nothing but the queues, sent, dropped and nextid matters to QueuesOK as
\* long as queue_num_ stays.
<1>f. ASSUME queue_num_' = queue_num_,
             QueuesOK(q_', dropped', sent', nextid'),
             sent' \in Seq(Packet), dropped' \in SUBSET Packet, nextid' \in Nat \ {0},
             blocked_' \in BOOLEAN, mode' \in {"run", "aborted"},
             FixedQueues /\ mode' = "run" /\ ~blocked_' => Waiting(q_') = {}
      PROVE  PiasInv'
  <2>1. QueuesOK(q_, dropped, sent, nextid)'
    BY <1>f DEF QueuesOK, Placed, clamp_priority, Disjoint, BelowThresh, Waiting,
                Ordered, Unmarked, Conserved
  <2>2. TypeOK'
    BY <1>t, <1>f DEF TypeOK, QueuesOK, Waiting
  <2>3. (FixedQueues /\ mode = "run" /\ ~blocked_ => Waiting(q_) = {})'
    BY <1>f DEF Waiting
  <2> QED BY <2>1, <2>2, <2>3 DEF PiasInv
<1>1. ASSUME NEW s \in Shapes, RecvBlocked(s) PROVE PiasInv'
  <2> DEFINE e == enque(NewPacket(s))
  <2>1. /\ ensure_queue_bound /\ q_' = e.q /\ dropped' = dropped \cup e.lost
        /\ nextid' = nextid + 1 /\ queue_num_' = queue_num_ /\ blocked_' = blocked_
        /\ sent' = sent /\ mode' = mode /\ mode = "run" /\ blocked_
    BY <1>1 DEF RecvBlocked
  <2>2. QueuesOK(e.q, dropped \cup e.lost, sent, nextid + 1) /\ e.lost \subseteq Packet
    BY <1>t, <2>1, NewPacketType, EnqueKeeps
  <2> HIDE DEF e
  <2>3. QueuesOK(q_', dropped', sent', nextid')
    BY <2>1, <2>2
  <2>4. dropped' \in SUBSET Packet /\ nextid' \in Nat \ {0}
    BY <1>t, <2>1, <2>2
  <2> QED BY <1>t, <1>f, <2>1, <2>3, <2>4
<1>2. ASSUME NEW s \in Shapes, RecvIdle(s) PROVE PiasInv'
  <2> DEFINE e == enque(NewPacket(s))
  <2>1. /\ ensure_queue_bound /\ dropped' = dropped \cup e.lost
        /\ nextid' = nextid + 1 /\ queue_num_' = queue_num_
        /\ mode' = mode /\ mode = "run"
        /\ \/ Transmit(e.q) /\ blocked_' = TRUE
           \/ NothingServed(e.q) /\ q_' = e.q /\ blocked_' = blocked_ /\ sent' = sent
    BY <1>2 DEF RecvIdle
  <2>2. QueuesOK(e.q, dropped \cup e.lost, sent, nextid + 1) /\ e.lost \subseteq Packet
    BY <1>t, <2>1, NewPacketType, EnqueKeeps
  <2> HIDE DEF e
  <2>4. dropped' \in SUBSET Packet /\ nextid' \in Nat \ {0}
    BY <1>t, <2>1, <2>2
  <2>5. CASE Transmit(e.q) /\ blocked_' = TRUE
    <3>1. QueuesOK(q_', dropped', sent', nextid') /\ sent' \in Seq(Packet)
      <4>1. PICK i \in Queues : \E c \in e.q[i] :
               /\ IsServed(e.q, i, c)
               /\ q_' = [e.q EXCEPT ![i] = @ \ {c}]
               /\ sent' = Append(sent, c)
        BY <2>5 DEF Transmit
      <4>2. PICK c \in e.q[i] : /\ IsServed(e.q, i, c)
                                /\ q_' = [e.q EXCEPT ![i] = @ \ {c}]
                                /\ sent' = Append(sent, c)
        BY <4>1
      <4>3. /\ QueuesOK([e.q EXCEPT ![i] = @ \ {c}], dropped \cup e.lost, Append(sent, c), nextid + 1)
            /\ Append(sent, c) \in Seq(Packet)
        BY <1>t, <2>2, <4>2, TransmitKeeps
      <4> QED BY <2>1, <4>2, <4>3
    <3> QED BY <1>t, <1>f, <2>1, <2>4, <2>5, <3>1
  <2>6. CASE NothingServed(e.q) /\ q_' = e.q /\ blocked_' = blocked_ /\ sent' = sent
    <3>1. QueuesOK(q_', dropped', sent', nextid')
      BY <2>1, <2>2, <2>6
    <3>2. FixedQueues => Waiting(q_') = {}
      BY <2>2, <2>6, NothingServedNothingWaits DEF QueuesOK
    <3> QED BY <1>t, <1>f, <2>1, <2>4, <2>6, <3>1, <3>2
  <2> QED BY <2>1, <2>5, <2>6
<1>3. ASSUME NEW s \in Shapes, RecvThrows(s) PROVE PiasInv'
  <2>1. /\ q_' = q_ /\ queue_num_' = queue_num_ /\ blocked_' = blocked_ /\ sent' = sent
        /\ dropped' = dropped /\ nextid' = nextid /\ mode' = "aborted"
    BY <1>3 DEF RecvThrows
  <2>2. QueuesOK(q_', dropped', sent', nextid')
    BY <1>t, <2>1
  <2> QED BY <1>t, <1>f, <2>1, <2>2
<1>4. ASSUME Resume PROVE PiasInv'
  <2>1. /\ queue_num_' = queue_num_ /\ dropped' = dropped /\ nextid' = nextid /\ mode' = mode
        /\ mode = "run" /\ blocked_
        /\ \/ Transmit(q_) /\ blocked_' = blocked_
           \/ NothingServed(q_) /\ blocked_' = FALSE /\ q_' = q_ /\ sent' = sent
    BY <1>4 DEF Resume
  <2>2. CASE Transmit(q_) /\ blocked_' = blocked_
    <3>1. QueuesOK(q_', dropped', sent', nextid') /\ sent' \in Seq(Packet)
      <4>1. PICK i \in Queues : \E c \in q_[i] :
               /\ IsServed(q_, i, c)
               /\ q_' = [q_ EXCEPT ![i] = @ \ {c}]
               /\ sent' = Append(sent, c)
        BY <2>2 DEF Transmit
      <4>2. PICK c \in q_[i] : /\ IsServed(q_, i, c)
                               /\ q_' = [q_ EXCEPT ![i] = @ \ {c}]
                               /\ sent' = Append(sent, c)
        BY <4>1
      <4>3. /\ QueuesOK([q_ EXCEPT ![i] = @ \ {c}], dropped, Append(sent, c), nextid)
            /\ Append(sent, c) \in Seq(Packet)
        BY <1>t, <4>2, TransmitKeeps
      <4> QED BY <2>1, <4>2, <4>3
    <3> QED BY <1>t, <1>f, <2>1, <2>2, <3>1
  <2>3. CASE NothingServed(q_) /\ blocked_' = FALSE /\ q_' = q_ /\ sent' = sent
    <3>1. QueuesOK(q_', dropped', sent', nextid')
      BY <1>t, <2>1, <2>3
    <3>2. FixedQueues => Waiting(q_') = {}
      BY <1>t, <2>3, NothingServedNothingWaits DEF QueuesOK
    <3> QED BY <1>t, <1>f, <2>1, <2>3, <3>1, <3>2
  <2> QED BY <2>1, <2>2, <2>3
<1>5. ASSUME SetQueueNum PROVE PiasInv'
  <2>1. /\ q_' = q_ /\ blocked_' = blocked_ /\ sent' = sent /\ dropped' = dropped
        /\ nextid' = nextid /\ mode' = mode
        /\ queue_num_' \in QueueNums /\ queue_num_' # queue_num_
    BY <1>5 DEF SetQueueNum
  <2>2. ~FixedQueues
    BY <1>t, <2>1 DEF FixedQueues
  <2>0. ~FixedQueues'
    BY <2>2 DEF FixedQueues
  <2>w. Waiting(q_)' = Waiting(q_)
    BY <2>1 DEF Waiting
  <2>a. Disjoint(q_)'
    BY <1>t, <2>1 DEF QueuesOK, Disjoint
  <2>b. BelowThresh(q_)'
    BY <1>t, <2>1, <2>w DEF QueuesOK, BelowThresh
  <2>c. Conserved(Waiting(q_), dropped, sent, nextid)'
    BY <1>t, <2>1, <2>w DEF QueuesOK, Conserved
  <2>d. (q_ \in [Queues -> SUBSET Packet])' /\ IsFiniteSet(Waiting(q_))'
    BY <1>t, <2>1, <2>w DEF QueuesOK
  <2>e. (Bytes(Waiting(q_)) <= qlim_ * mean_pktsize_)'
    BY <1>t, <2>w DEF QueuesOK
  <2>3. QueuesOK(q_, dropped, sent, nextid)'
    BY <2>0, <2>a, <2>b, <2>c, <2>d, <2>e DEF QueuesOK
  <2>4. TypeOK'
    BY <1>t, <2>1 DEF TypeOK, Waiting
  <2> QED BY <2>2, <2>3, <2>4 DEF PiasInv
<1>6. ASSUME Reset PROVE PiasInv'
  <2> DEFINE R == UNION {q_[i] : i \in {j \in Queues : j < queue_num_}}
  <2>1. /\ q_' = [i \in Queues |-> IF i < queue_num_ THEN {} ELSE q_[i]]
        /\ dropped' = dropped \cup R
        /\ queue_num_' = queue_num_ /\ blocked_' = blocked_ /\ sent' = sent
        /\ nextid' = nextid /\ mode' = mode /\ mode = "run"
    BY <1>6 DEF Reset
  <2> DEFINE r == [i \in Queues |-> IF i < queue_num_ THEN {} ELSE q_[i]]
  <2>r. /\ QueuesOK(r, dropped \cup R, sent, nextid) /\ R \subseteq Packet
        /\ Waiting(r) \subseteq Waiting(q_)
    BY <1>t, ResetKeeps
  <2>2. /\ QueuesOK(q_', dropped \cup R, sent, nextid) /\ R \subseteq Packet
        /\ Waiting(q_') \subseteq Waiting(q_)
    BY <2>1, <2>r
  <2> HIDE DEF R
  <2>3. QueuesOK(q_', dropped', sent', nextid')
    BY <2>1, <2>2
  <2>4. FixedQueues /\ mode' = "run" /\ ~blocked_' => Waiting(q_') = {}
    BY <1>t, <2>1, <2>2
  <2>5. dropped' \in SUBSET Packet
    BY <1>t, <2>1, <2>2
  <2> QED BY <1>t, <1>f, <2>1, <2>3, <2>4, <2>5
<1>7. ASSUME UNCHANGED vars PROVE PiasInv'
  <2>1. /\ q_' = q_ /\ queue_num_' = queue_num_ /\ blocked_' = blocked_ /\ sent' = sent
        /\ dropped' = dropped /\ nextid' = nextid /\ mode' = mode
    BY <1>7 DEF vars
  <2>2. QueuesOK(q_', dropped', sent', nextid')
    BY <1>t, <2>1
  <2>3. mode \in {"run", "aborted"}
    BY <1>t DEF TypeOK
  <2> QED BY <1>t, <1>f, <2>1, <2>2, <2>3
<1> QED BY <1>1, <1>2, <1>3, <1>4, <1>5, <1>6, <1>7 DEF Next

\* PiasInv holds in every state of the port, whatever arrives and whenever
\* queue_num_ changes.
THEOREM PiasInvariant == Spec => []PiasInv
BY PiasInit, PiasNext, PTL DEF Spec

\* Types.
THEOREM PiasTypeCorrect == Spec => []TypeOK
BY PiasInvariant, PTL DEF PiasInv

\* However queue_num_ is changed, no packet is lost, duplicated or on two
\* queues.
THEOREM PiasConserves == Spec => []Conservation
<1>1. PiasInv => Conservation
  BY DEF PiasInv, QueuesOK, Disjoint, Conservation
<1> QED BY <1>1, PiasInvariant, PTL

\* All queues together respect the limit of the port.
THEOREM PiasBounded == Spec => []BoundedInBytes
<1>1. PiasInv => BoundedInBytes
  BY DEF PiasInv, QueuesOK, BoundedInBytes, TotalByteLength
<1> QED BY <1>1, PiasInvariant, PTL

\* The backlog that waits unmarked never exceeds the marking threshold.
THEOREM PiasMarks == Spec => []UnmarkedWithinThresh
<1>1. PiasInv => UnmarkedWithinThresh
  BY DEF PiasInv, QueuesOK, BelowThresh, UnmarkedWithinThresh
<1> QED BY <1>1, PiasInvariant, PTL

\* With a number of queues that never changes, a packet is not overtaken by
\* a later packet that is not more urgent.
THEOREM PiasOrder == FixedQueues => (Spec => []NoOvertaking)
<1> SUFFICES ASSUME FixedQueues PROVE Spec => []NoOvertaking
  OBVIOUS
<1>1. PiasInv => NoOvertaking
  BY DEF PiasInv, QueuesOK, Ordered, NoOvertaking
<1> QED BY <1>1, PiasInvariant, PTL

\* With such a number of queues no packet waits while the link is idle:
\* every queue a packet can be on is one that deque looks at.
THEOREM PiasNeverIdles == FixedQueues => (Spec => []NoIdleLink)
<1> SUFFICES ASSUME FixedQueues PROVE Spec => []NoIdleLink
  OBVIOUS
<1>1. PiasInv => NoIdleLink
  BY DEF PiasInv, NoIdleLink
<1> QED BY <1>1, PiasInvariant, PTL
=============================================================================
