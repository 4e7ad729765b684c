--------------------------- MODULE DropTailProofs ---------------------------
(***************************************************************************)
(* Proofs about the output port of module DropTail, for every choice of    *)
(* flows, packet sizes, arriving packets, limits and flags.                *)
(*                                                                         *)
(* The two halves of the discipline get a contract each (what enque and    *)
(* deque may do to the list); conservation and order of the packets are    *)
(* shown to be preserved by each elementary change (arrival, marking, drop, *)
(* transmission); the events then only combine these.  The same contracts  *)
(* give the action properties and the refinement of LossyPort.             *)
(***************************************************************************)
EXTENDS DropTail, FiniteSetTheorems, TLAPS

USE SizeAssumption

\* A list whose counter of bytes is right and whose packets are distinct
\* arrivals.
QueueOK(pq) ==
    /\ pq \in PacketQueueType
    /\ IsFiniteSet(pq.pkts)
    /\ pq.bytes = Bytes(pq.pkts)
    /\ \A p, r \in pq.pkts : p.id = r.id => p = r

-----------------------------------------------------------------------------
(* The byte counter *)

\* The total size of finitely many packets is a natural number.
LEMMA BytesType ==
    ASSUME NEW S \in SUBSET Packet, IsFiniteSet(S)
    PROVE  Bytes(S) \in Nat
<1> DEFINE H == {p \in S : p.size = HdrSize}
           M == {p \in S : p.size = MssSize}
<1>1. Cardinality(H) \in Nat /\ Cardinality(M) \in Nat
  BY FS_Subset, FS_CardinalityType
<1> HIDE DEF H, M
<1>2. HdrSize * Cardinality(H) + MssSize * Cardinality(M) \in Nat
  BY <1>1
<1> QED BY <1>2 DEF Bytes, H, M

\* The size of one packet.
LEMMA BytesOne ==
    ASSUME NEW p \in Packet
    PROVE  Bytes({p}) = p.size
<1> DEFINE H == {r \in {p} : r.size = HdrSize}
           M == {r \in {p} : r.size = MssSize}
<1>1. CASE p.size = HdrSize
  <2>1. H = {p} /\ M = {}
    BY <1>1
  <2>2. Cardinality(H) = 1 /\ Cardinality(M) = 0
    BY <2>1, FS_Singleton, FS_EmptySet
  <2> QED BY <2>2, <1>1 DEF Bytes
<1>2. CASE p.size = MssSize
  <2>1. M = {p} /\ H = {}
    BY <1>2
  <2>2. Cardinality(M) = 1 /\ Cardinality(H) = 0
    BY <2>1, FS_Singleton, FS_EmptySet
  <2> QED BY <2>2, <1>2 DEF Bytes
<1> QED BY <1>1, <1>2 DEF Packet, Sizes

\* Taking packets out takes their size out.
LEMMA BytesDiff ==
    ASSUME NEW S \in SUBSET Packet, IsFiniteSet(S), NEW R \in SUBSET S
    PROVE  Bytes(S \ R) = Bytes(S) - Bytes(R)
<1> DEFINE Of(T, n) == {p \in T : p.size = n}
<1>1. ASSUME NEW n \in Sizes
      PROVE  /\ Cardinality(Of(S \ R, n)) = Cardinality(Of(S, n)) - Cardinality(Of(R, n))
             /\ Cardinality(Of(S, n)) \in Nat
             /\ Cardinality(Of(R, n)) \in Nat
  <2>1. IsFiniteSet(Of(S, n)) /\ IsFiniteSet(Of(R, n))
    BY FS_Subset
  <2>2. Of(S \ R, n) = Of(S, n) \ Of(R, n) /\ Of(S, n) \cap Of(R, n) = Of(R, n)
    OBVIOUS
  <2>3. Cardinality(Of(S, n) \ Of(R, n))
           = Cardinality(Of(S, n)) - Cardinality(Of(S, n) \cap Of(R, n))
    BY <2>1, FS_Difference
  <2>4. Cardinality(Of(S, n)) \in Nat /\ Cardinality(Of(R, n)) \in Nat
    BY <2>1, FS_CardinalityType
  <2> HIDE DEF Of
  <2> QED BY <2>2, <2>3, <2>4
<1>2. /\ Bytes(S \ R) = HdrSize * Cardinality(Of(S \ R, HdrSize)) + MssSize * Cardinality(Of(S \ R, MssSize))
      /\ Bytes(S) = HdrSize * Cardinality(Of(S, HdrSize)) + MssSize * Cardinality(Of(S, MssSize))
      /\ Bytes(R) = HdrSize * Cardinality(Of(R, HdrSize)) + MssSize * Cardinality(Of(R, MssSize))
  BY DEF Bytes
<1> HIDE DEF Of
<1>3. HdrSize \in Sizes /\ MssSize \in Sizes
  BY DEF Sizes
<1>4. ASSUME NEW h \in Nat, NEW m \in Nat, NEW a \in Nat, NEW b \in Nat, NEW c \in Nat, NEW d \in Nat
      PROVE  h * (a - b) + m * (c - d) = (h * a + m * c) - (h * b + m * d)
  OBVIOUS
<1>5. /\ Cardinality(Of(S \ R, HdrSize)) = Cardinality(Of(S, HdrSize)) - Cardinality(Of(R, HdrSize))
      /\ Cardinality(Of(S \ R, MssSize)) = Cardinality(Of(S, MssSize)) - Cardinality(Of(R, MssSize))
      /\ Cardinality(Of(S, HdrSize)) \in Nat /\ Cardinality(Of(R, HdrSize)) \in Nat
      /\ Cardinality(Of(S, MssSize)) \in Nat /\ Cardinality(Of(R, MssSize)) \in Nat
  BY <1>1, <1>3
<1>6.   HdrSize * (Cardinality(Of(S, HdrSize)) - Cardinality(Of(R, HdrSize)))
      + MssSize * (Cardinality(Of(S, MssSize)) - Cardinality(Of(R, MssSize)))
      = (HdrSize * Cardinality(Of(S, HdrSize)) + MssSize * Cardinality(Of(S, MssSize)))
        - (HdrSize * Cardinality(Of(R, HdrSize)) + MssSize * Cardinality(Of(R, MssSize)))
  BY <1>4, <1>5
<1> QED BY <1>2, <1>5, <1>6

\* Adding a packet adds its size.
LEMMA BytesAdd ==
    ASSUME NEW S \in SUBSET Packet, IsFiniteSet(S), NEW p \in Packet, p \notin S
    PROVE  /\ IsFiniteSet(S \cup {p})
           /\ Bytes(S \cup {p}) = Bytes(S) + p.size
<1>1. IsFiniteSet(S \cup {p})
  BY FS_AddElement
<1>2. (S \cup {p}) \ {p} = S
  OBVIOUS
<1>3. Bytes(S) = Bytes(S \cup {p}) - Bytes({p})
  BY <1>1, <1>2, BytesDiff
<1>4. Bytes(S \cup {p}) \in Nat /\ Bytes({p}) = p.size /\ Bytes(S) \in Nat
  BY <1>1, BytesType, BytesOne
<1>5. p.size \in Nat
  BY DEF Packet, Sizes
<1> QED BY <1>1, <1>3, <1>4, <1>5

-----------------------------------------------------------------------------
(* Operations on the list *)

\* The number of the bad packets of a finite set is a number.
LEMMA BadOfType ==
    ASSUME NEW S, IsFiniteSet(S)
    PROVE  Cardinality(BadOf(S)) \in Int
<1>1. IsFiniteSet(BadOf(S))
  BY FS_Subset DEF BadOf
<1> QED BY <1>1, FS_CardinalityType

\* enque keeps the list and its byte counter consistent.
LEMMA EnqueOK ==
    ASSUME NEW pq, QueueOK(pq), NEW p \in Packet,
           \A r \in pq.pkts : r.id # p.id
    PROVE  /\ QueueOK(pq_enque(pq, p))
           /\ pq_enque(pq, p).pkts = pq.pkts \cup {p}
           /\ pq_enque(pq, p).bytes = pq.bytes + p.size
<1> DEFINE new == pq_enque(pq, p)
<1>1. new.pkts = pq.pkts \cup {p} /\ new.bytes = pq.bytes + p.size
  BY DEF pq_enque
<1>2. IsFiniteSet({p})
  BY FS_Singleton
<1>3. p \notin pq.pkts
  OBVIOUS
<1>4. IsFiniteSet(new.pkts) /\ Bytes(new.pkts) = Bytes(pq.pkts) + p.size
  BY <1>1, <1>3, BytesAdd DEF QueueOK, PacketQueueType
<1>5. new \in PacketQueueType
  BY <1>2, BadOfType DEF pq_enque, QueueOK, PacketQueueType, Packet, Sizes
<1>6. \A r, t \in new.pkts : r.id = t.id => r = t
  BY <1>1 DEF QueueOK
<1>7. new.bytes = Bytes(new.pkts)
  BY <1>1, <1>4 DEF QueueOK
<1> HIDE DEF new
<1>8. QueueOK(new)
  BY <1>4, <1>5, <1>6, <1>7 DEF QueueOK
<1> QED BY <1>1, <1>8 DEF new

\* deque of the head keeps them consistent.
LEMMA DequeOK ==
    ASSUME NEW pq, QueueOK(pq), NEW p \in pq.pkts
    PROVE  /\ QueueOK(pq_deque(pq, p))
           /\ pq_deque(pq, p).pkts = pq.pkts \ {p}
           /\ pq_deque(pq, p).bytes = pq.bytes - p.size
<1> DEFINE new == pq_deque(pq, p)
<1>1. new.pkts = pq.pkts \ {p} /\ new.bytes = pq.bytes - p.size
  BY DEF pq_deque
<1>2. IsFiniteSet({p})
  BY FS_Singleton
<1>3. p \in Packet /\ {p} \in SUBSET pq.pkts /\ pq.pkts \in SUBSET Packet /\ IsFiniteSet(pq.pkts)
  BY DEF QueueOK, PacketQueueType
<1>4. IsFiniteSet(new.pkts) /\ Bytes(new.pkts) = Bytes(pq.pkts) - p.size
  BY <1>1, <1>3, BytesDiff, BytesOne, FS_Subset
<1>5. new \in PacketQueueType
  BY <1>2, <1>3, BadOfType DEF pq_deque, QueueOK, PacketQueueType, Packet, Sizes
<1>6. \A r, t \in new.pkts : r.id = t.id => r = t
  BY <1>1 DEF QueueOK
<1>7. new.bytes = Bytes(new.pkts)
  BY <1>1, <1>4 DEF QueueOK
<1> HIDE DEF new
<1>8. QueueOK(new)
  BY <1>4, <1>5, <1>6, <1>7 DEF QueueOK
<1> QED BY <1>1, <1>8 DEF new

\* So does the removal of any of the packets on the list.
LEMMA RemoveOK ==
    ASSUME NEW pq, QueueOK(pq), NEW R \in SUBSET pq.pkts
    PROVE  /\ QueueOK(pq_remove(pq, R))
           /\ pq_remove(pq, R).pkts = pq.pkts \ R
           /\ pq_remove(pq, R).bytes = pq.bytes - Bytes(R)
           /\ Bytes(R) \in Nat
<1> DEFINE new == pq_remove(pq, R)
<1>1. new.pkts = pq.pkts \ R /\ new.bytes = pq.bytes - Bytes(R)
  BY DEF pq_remove
<1>2. pq.pkts \in SUBSET Packet /\ IsFiniteSet(pq.pkts) /\ pq.bytes \in Int /\ pq.bad \in Int
  BY DEF QueueOK, PacketQueueType
<1>3. IsFiniteSet(R) /\ R \in SUBSET Packet
  BY <1>2, FS_Subset
<1>4. IsFiniteSet(HeadsOf(pq.pkts, R))
  BY <1>3, FS_Subset DEF HeadsOf
<1>5. Bytes(R) \in Nat
  BY <1>3, BytesType
<1>6. IsFiniteSet(new.pkts) /\ Bytes(new.pkts) = Bytes(pq.pkts) - Bytes(R)
  BY <1>1, <1>2, BytesDiff, FS_Subset
<1>7. Cardinality(BadOf(R)) \in Int /\ Cardinality(BadOf(HeadsOf(pq.pkts, R))) \in Int
  BY <1>3, <1>4, BadOfType
<1>8. new \in PacketQueueType
  BY <1>2, <1>5, <1>7 DEF pq_remove, PacketQueueType
<1>9. \A r, t \in new.pkts : r.id = t.id => r = t
  BY <1>1 DEF QueueOK
<1>10. new.bytes = Bytes(new.pkts)
  BY <1>1, <1>6 DEF QueueOK
<1> HIDE DEF new
<1>11. QueueOK(new)
  BY <1>6, <1>8, <1>9, <1>10 DEF QueueOK
<1> QED BY <1>1, <1>5, <1>11 DEF new

-----------------------------------------------------------------------------
(* Where packets are *)

\* An arriving packet with the next number joins P.
LEMMA ConservedArrive ==
    ASSUME NEW P, NEW D, NEW s, NEW n \in Nat \ {0},
           Conserved(P, D, s, n),
           NEW p, p.id = n
    PROVE  Conserved(P \cup {p}, D, s, n + 1)
<1> DEFINE S == {s[i] : i \in 1..Len(s)}
<1>1. \A k \in 1..((n + 1) - 1) : \E r \in (P \cup {p}) \cup D \cup S : r.id = k
  <2> SUFFICES ASSUME NEW k \in 1..n
               PROVE  \E r \in (P \cup {p}) \cup D \cup S : r.id = k
    OBVIOUS
  <2>1. CASE k = n
    BY <2>1
  <2>2. CASE k \in 1..(n - 1)
    BY <2>2 DEF Conserved
  <2> QED BY <2>1, <2>2
<1>2. \A r \in P \cup D \cup S : r.id \in 1..(n - 1) /\ r.id # n
  BY DEF Conserved
<1>3. \A r \in (P \cup {p}) \cup D \cup S : r.id \in 1..((n + 1) - 1)
  BY <1>2
<1>4. \A r, t \in (P \cup {p}) \cup D \cup S : r.id = t.id => r = t
  BY <1>2 DEF Conserved
<1>5. \A r \in P \cup {p} : r \notin D /\ r \notin S
  BY <1>2 DEF Conserved
<1> QED BY <1>1, <1>3, <1>4, <1>5 DEF Conserved

\* Dropped packets move from P to D.
LEMMA ConservedDrop ==
    ASSUME NEW P, NEW D, NEW s, NEW n, Conserved(P, D, s, n),
           NEW R \in SUBSET P
    PROVE  Conserved(P \ R, D \cup R, s, n)
BY DEF Conserved

\* A transmitted packet moves from P to the end of s.
LEMMA ConservedSend ==
    ASSUME NEW P \in SUBSET Packet, NEW D, NEW s \in Seq(Packet), NEW n,
           Conserved(P, D, s, n), NEW c \in P
    PROVE  Conserved(P \ {c}, D, Append(s, c), n)
<1> DEFINE S == {s[i] : i \in 1..Len(s)}
           t == Append(s, c)
           T == {t[i] : i \in 1..Len(t)}
<1>1. T = S \cup {c}
  OBVIOUS
<1>2. \A i, j \in 1..Len(t) : t[i] = t[j] => i = j
  BY DEF Conserved
<1> HIDE DEF t
<1> QED BY <1>1, <1>2 DEF Conserved, t

HIDE SizeAssumption

-----------------------------------------------------------------------------
(* Conservation and order, one elementary change at a time *)

\* Marking changes nothing but ce: the packets of Q are those of P, up to ce.
SameHeaders(p, r) ==
    p.id = r.id /\ p.flow = r.flow /\ p.prio = r.prio /\ p.size = r.size

Remarked(P, Q) ==
    /\ \A x \in Q : \E y \in P : SameHeaders(x, y)
    /\ \A y \in P : \E x \in Q : SameHeaders(x, y)
    /\ \A x, z \in Q : x.id = z.id => x = z

\* Marking neither adds nor removes a packet.
LEMMA ConservedMark ==
    ASSUME NEW P, NEW D, NEW s, NEW n \in Nat \ {0},
           Conserved(P, D, s, n),
           NEW Q, Remarked(P, Q)
    PROVE  Conserved(Q, D, s, n)
<1> DEFINE S == {s[i] : i \in 1..Len(s)}
<1>1. ASSUME NEW x \in Q PROVE x \notin D /\ x \notin S
  BY DEF Conserved, Remarked, SameHeaders
<1>2. ASSUME NEW k \in 1..(n - 1) PROVE \E p \in Q \cup D \cup S : p.id = k
  <2>1. PICK p \in P \cup D \cup S : p.id = k
    BY DEF Conserved
  <2>2. CASE p \in P
    BY <2>1, <2>2 DEF Remarked, SameHeaders
  <2> QED BY <2>1, <2>2
<1>3. \A p \in Q \cup D \cup S : p.id \in 1..(n - 1)
  BY DEF Conserved, Remarked, SameHeaders
<1>4. \A p, r \in Q \cup D \cup S : p.id = r.id => p = r
  BY DEF Conserved, Remarked, SameHeaders
<1> QED BY <1>1, <1>2, <1>3, <1>4 DEF Conserved

\* A new packet comes after everything transmitted.
LEMMA OrderArrive ==
    ASSUME NEW P, NEW D, NEW s, NEW n \in Nat \ {0},
           Conserved(P, D, s, n),
           FlowOrdered(P, s), NEW p, p.id = n
    PROVE  FlowOrdered(P \cup {p}, s)
BY DEF FlowOrdered, Conserved

\* Marking does not change the order.
LEMMA OrderMark ==
    ASSUME NEW P, NEW s, FlowOrdered(P, s), NEW Q, Remarked(P, Q)
    PROVE  FlowOrdered(Q, s)
BY DEF FlowOrdered, Remarked, SameHeaders

\* Neither does a drop.
LEMMA OrderDrop ==
    ASSUME NEW P, NEW s, FlowOrdered(P, s), NEW R
    PROVE  FlowOrdered(P \ R, s)
BY DEF FlowOrdered

\* Transmitting the first packet of its flow keeps the order.
LEMMA OrderSend ==
    ASSUME NEW P \in SUBSET Packet, NEW s \in Seq(Packet), FlowOrdered(P, s),
           NEW c \in P, \A r \in P \ {c} : r.flow = c.flow => c.id < r.id
    PROVE  FlowOrdered(P \ {c}, Append(s, c))
BY DEF FlowOrdered

-----------------------------------------------------------------------------
(* What enque may do *)

\* The first half of enque: of the packets on the list and the new one, some
\* are kept and the others given back to be dropped.
LEMMA StoredContract ==
    ASSUME QueueOK(q_), NEW p \in Packet, \A r \in q_.pkts : r.id # p.id,
           NEW st \in Stored(p)
    PROVE  /\ QueueOK(st.pq)
           /\ st.pq.pkts = (q_.pkts \cup {p}) \ st.lost
           /\ st.lost \subseteq q_.pkts \cup {p}
<1> DEFINE pq == pq_enque(q_, p)
<1>1. QueueOK(pq) /\ pq.pkts = q_.pkts \cup {p}
  BY EnqueOK
<1>2. CASE ~will_overflow(p)
  <2>1. st = [pq |-> pq, lost |-> {}]
    BY <1>2 DEF Stored
  <2> HIDE DEF pq
  <2> QED BY <2>1, <1>1
<1>3. ASSUME NEW v \in pq.pkts, st = [pq |-> pq_deque(pq, v), lost |-> {v}]
      PROVE  /\ QueueOK(st.pq)
             /\ st.pq.pkts = (q_.pkts \cup {p}) \ st.lost
             /\ st.lost \subseteq q_.pkts \cup {p}
  <2> HIDE DEF pq
  <2> QED BY <1>1, <1>3, DequeOK
<1>4. ASSUME NEW v \in pq.pkts, st = [pq |-> pq_remove(pq, {v}), lost |-> {v}]
      PROVE  /\ QueueOK(st.pq)
             /\ st.pq.pkts = (q_.pkts \cup {p}) \ st.lost
             /\ st.lost \subseteq q_.pkts \cup {p}
  <2> HIDE DEF pq
  <2>1. {v} \in SUBSET pq.pkts
    OBVIOUS
  <2>2. QueueOK(pq_remove(pq, {v})) /\ pq_remove(pq, {v}).pkts = pq.pkts \ {v}
    BY <1>1, <2>1, RemoveOK
  <2> QED BY <1>1, <1>4, <2>2
<1>5. ASSUME st = [pq |-> q_, lost |-> {p}]
      PROVE  /\ QueueOK(st.pq)
             /\ st.pq.pkts = (q_.pkts \cup {p}) \ st.lost
             /\ st.lost \subseteq q_.pkts \cup {p}
  <2>1. p \notin q_.pkts
    OBVIOUS
  <2> QED BY <1>5, <2>1
<1>6. CASE will_overflow(p)
  <2>1. st \in handle_overflow(p)
    BY <1>6 DEF Stored
  <2>2. \/ \E v \in pq.pkts : st = [pq |-> pq_deque(pq, v), lost |-> {v}]
        \/ \E v \in pq.pkts : st = [pq |-> pq_remove(pq, {v}), lost |-> {v}]
        \/ st = [pq |-> q_, lost |-> {p}]
    BY <2>1 DEF handle_overflow
  <2> QED BY <2>2, <1>3, <1>4, <1>5
<1> QED BY <1>2, <1>6

\* Marking changes ce of at most one packet and leaves the counters alone.
LEMMA MarkContract ==
    ASSUME NEW pq, QueueOK(pq), NEW m \in mark_ecn(pq)
    PROVE  /\ QueueOK(m)
           /\ Remarked(pq.pkts, m.pkts)
           /\ m.bytes = pq.bytes
           /\ Cardinality(m.pkts) = Cardinality(pq.pkts)
<1>1. CASE m = pq
  BY <1>1 DEF Remarked, SameHeaders, QueueOK
<1>2. ASSUME NEW p \in pq.pkts, m = SetCE(pq, p)
      PROVE  /\ QueueOK(m)
             /\ Remarked(pq.pkts, m.pkts)
             /\ m.bytes = pq.bytes
             /\ Cardinality(m.pkts) = Cardinality(pq.pkts)
  <2> DEFINE r == [p EXCEPT !.ce = @ \/ p.ect]
             rest == pq.pkts \ {p}
  <2>1. p \in Packet /\ pq.pkts \in SUBSET Packet /\ IsFiniteSet(pq.pkts)
    BY DEF QueueOK, PacketQueueType
  <2>2. r \in Packet /\ SameHeaders(r, p)
    BY <2>1 DEF Packet, SameHeaders
  <2>3. /\ m.pkts = rest \cup {r} /\ m.bytes = pq.bytes
        /\ m = [pkts |-> rest \cup {r}, bytes |-> pq.bytes, bad |-> pq.bad]
    BY <1>2 DEF SetCE, QueueOK, PacketQueueType
  <2> HIDE DEF r
  <2>4. IsFiniteSet(rest) /\ rest \in SUBSET Packet
    BY <2>1, FS_Subset
  <2>5. r \notin rest
    BY <2>2 DEF SameHeaders, QueueOK
  <2>6. Bytes(rest \cup {r}) = Bytes(rest) + r.size /\ IsFiniteSet(rest \cup {r})
    BY <2>2, <2>4, <2>5, BytesAdd
  <2>7. p \notin rest /\ pq.pkts = rest \cup {p}
    OBVIOUS
  <2>8. Bytes(pq.pkts) = Bytes(rest) + p.size
    BY <2>1, <2>4, <2>7, BytesAdd
  <2>9. Cardinality(rest \cup {r}) = Cardinality(rest) + 1
    BY <2>4, <2>5, FS_AddElement
  <2>10. Cardinality(rest \cup {p}) = Cardinality(rest) + 1
    BY <2>4, <2>7, FS_AddElement
  <2>11. Remarked(pq.pkts, m.pkts)
    BY <2>2, <2>3 DEF Remarked, SameHeaders, QueueOK
  <2>12. m \in PacketQueueType
    BY <2>2, <2>3, <2>4 DEF QueueOK, PacketQueueType
  <2>13. m.bytes = Bytes(m.pkts)
    BY <2>2, <2>3, <2>6, <2>8 DEF SameHeaders, QueueOK
  <2>14. QueueOK(m)
    BY <2>3, <2>6, <2>11, <2>12, <2>13 DEF QueueOK, Remarked
  <2> QED BY <2>3, <2>7, <2>9, <2>10, <2>11, <2>14
<1>3. m = pq \/ \E p \in pq.pkts : m = SetCE(pq, p)
  BY DEF mark_ecn
<1> QED BY <1>1, <1>2, <1>3

\* enque as a whole.
LEMMA EnqueContract ==
    ASSUME QueueOK(q_), NEW p \in Packet, \A r \in q_.pkts : r.id # p.id,
           NEW e \in enque(p)
    PROVE  /\ QueueOK(e.pq)
           /\ e.lost \subseteq q_.pkts \cup {p}
           /\ Remarked((q_.pkts \cup {p}) \ e.lost, e.pq.pkts)
<1>1. PICK st \in Stored(p) : \E m \in mark_ecn(st.pq) : e = [pq |-> m, lost |-> st.lost]
  BY DEF enque
<1>2. PICK m \in mark_ecn(st.pq) : e = [pq |-> m, lost |-> st.lost]
  BY <1>1
<1>3. /\ QueueOK(st.pq)
      /\ st.pq.pkts = (q_.pkts \cup {p}) \ st.lost
      /\ st.lost \subseteq q_.pkts \cup {p}
  BY StoredContract
<1>4. QueueOK(m) /\ Remarked(st.pq.pkts, m.pkts)
  BY <1>3, MarkContract
<1> QED BY <1>2, <1>3, <1>4

-----------------------------------------------------------------------------
(* What deque may do *)

\* deque takes packets off the list, returns one of them unless the list is
\* empty, and gives the others to the drop target.  If flows are kept in
\* order, nothing left on the list is before the packet returned.
LEMMA DequeContract ==
    ASSUME NEW pq, QueueOK(pq), NEW d \in deque(pq)
    PROVE  /\ QueueOK(d.pq)
           /\ d.pq.pkts = (pq.pkts \ d.lost) \ d.out
           /\ d.lost \subseteq pq.pkts
           /\ d.out = {} => d.lost = {} /\ pq.pkts = {}
           /\ d.out # {} => \E c \in pq.pkts :
                 /\ d.out = {c}
                 /\ c \notin d.lost
                 /\ keep_order_ \/ ~deque_prio_ =>
                       \A r \in d.pq.pkts : r.flow = c.flow => c.id < r.id
<1>1. CASE pq.pkts = {}
  <2>1. d = [pq |-> pq, lost |-> {}, out |-> {}]
    BY <1>1 DEF deque
  <2> QED BY <1>1, <2>1
<1>2. CASE pq.pkts # {} /\ ~deque_prio_
  <2>1. PICK c \in pq.pkts : /\ IsFirst(pq.pkts, c)
                             /\ d = [pq |-> pq_deque(pq, c), lost |-> {}, out |-> {c}]
    BY <1>2 DEF deque
  <2>2. QueueOK(pq_deque(pq, c)) /\ pq_deque(pq, c).pkts = pq.pkts \ {c}
    BY DequeOK
  <2>3. \A r \in pq.pkts \ {c} : c.id < r.id
    BY <2>1 DEF IsFirst, QueueOK, PacketQueueType, Packet
  <2> QED BY <2>1, <2>2, <2>3
<1>3. CASE pq.pkts # {} /\ deque_prio_
  <2>1. d \in deque_priority(pq)
    BY <1>3 DEF deque
  <2>2. PICK b \in pq.pkts :
           \E c \in pq.pkts :
              /\ IsChosen(pq.pkts, b, c)
              /\ d = [pq   |-> pq_remove(pq, PacketsToDrop(pq.pkts, b) \cup {c}),
                      lost |-> PacketsToDrop(pq.pkts, b), out |-> {c}]
    BY <2>1 DEF deque_priority
  <2> DEFINE D == PacketsToDrop(pq.pkts, b)
  <2>3. PICK c \in pq.pkts :
              /\ IsChosen(pq.pkts, b, c)
              /\ d = [pq   |-> pq_remove(pq, D \cup {c}), lost |-> D, out |-> {c}]
    BY <2>2
  <2>4. D \subseteq pq.pkts
    BY DEF PacketsToDrop, SameFlowAhead
  <2>5. \A r \in pq.pkts : r.id \in Nat
    BY DEF QueueOK, PacketQueueType, Packet
  <2>6. c \notin D
    BY <2>3, <2>5 DEF IsChosen, IsFirst, PacketsToDrop, Blockers, SameFlowAhead
  <2>7. ASSUME keep_order_, NEW r \in (pq.pkts \ D) \ {c}, r.flow = c.flow
        PROVE  c.id < r.id
    <3>1. c \in Blockers(pq.pkts, b) \cup {b} /\ \A k \in Blockers(pq.pkts, b) \cup {b} : c.id <= k.id
      BY <2>3, <2>7 DEF IsChosen, IsFirst
    <3>2. c.flow = b.flow
      BY <3>1 DEF Blockers, SameFlowAhead
    <3>3. c.id # r.id
      BY <2>7 DEF QueueOK
    <3>4. CASE ~(r.id < b.id)
      BY <2>5, <3>1, <3>3, <3>4
    <3>5. CASE r.id < b.id
      <4>1. r \in SameFlowAhead(pq.pkts, b)
        BY <2>7, <3>2, <3>5 DEF SameFlowAhead
      <4>2. CASE r \in Blockers(pq.pkts, b)
        BY <2>5, <3>1, <3>3, <4>2
      <4>3. CASE Stale(r, b)
        <5>1. PICK k \in Blockers(pq.pkts, b) : ~(r.id < k.id)
          BY <2>7, <4>1, <4>3 DEF PacketsToDrop
        <5>2. k \in pq.pkts
          BY <5>1 DEF Blockers, SameFlowAhead
        <5> QED BY <2>5, <3>1, <3>3, <5>1, <5>2
      <4> QED BY <4>1, <4>2, <4>3 DEF Blockers
    <3> QED BY <3>4, <3>5
  <2>8. D \cup {c} \in SUBSET pq.pkts
    BY <2>4
  <2> HIDE DEF D
  <2>9. QueueOK(pq_remove(pq, D \cup {c})) /\ pq_remove(pq, D \cup {c}).pkts = pq.pkts \ (D \cup {c})
    BY <2>8, RemoveOK
  <2>10. d.pq.pkts = (pq.pkts \ d.lost) \ d.out
    BY <2>3, <2>9
  <2> QED BY <1>3, <2>3, <2>4, <2>6, <2>7, <2>9, <2>10
<1>4. deque_prio_ \in BOOLEAN
  BY ConfigAssumption
<1> QED BY <1>1, <1>2, <1>3, <1>4

-----------------------------------------------------------------------------
(* The inductive invariant *)

PortInv == TypeOK /\ BytesAgree /\ Conservation /\ WorkConserving /\ FlowOrder

\* The contracts apply to the list of the port.
LEMMA InvQueueOK ==
    ASSUME PortInv
    PROVE  QueueOK(q_) /\ \A r \in q_.pkts : r.id \in 1..(nextid - 1) /\ r.id # nextid
BY DEF PortInv, TypeOK, BytesAgree, Conservation, Conserved, QueueOK

\* What arrives is a packet with the next number.
LEMMA NewPacketType ==
    ASSUME PortInv, NEW s \in Shapes
    PROVE  NewPacket(s) \in Packet /\ NewPacket(s).id = nextid
<1>1. s.flow \in Flows /\ s.prio \in Int /\ s.size \in Sizes /\ s.ect \in BOOLEAN
  BY ConfigAssumption
<1>2. nextid \in Nat
  BY DEF PortInv, TypeOK
<1> QED BY <1>1, <1>2 DEF NewPacket, Packet

\* What the arrival of p does to the list and to the dropped packets keeps
\* the packets together and in order.
LEMMA ArrivalKeeps ==
    ASSUME PortInv, NEW s \in Shapes, NEW e \in enque(NewPacket(s))
    PROVE  /\ QueueOK(e.pq)
           /\ e.lost \subseteq Packet
           /\ Conserved(e.pq.pkts, dropped \cup e.lost, sent, nextid + 1)
           /\ keep_order_ \/ ~deque_prio_ => FlowOrdered(e.pq.pkts, sent)
<1> DEFINE p == NewPacket(s)
           P == (q_.pkts \cup {p}) \ e.lost
<1>1. p \in Packet /\ p.id = nextid
  BY NewPacketType
<1>2. QueueOK(q_) /\ \A r \in q_.pkts : r.id # p.id
  BY <1>1, InvQueueOK
<1> HIDE DEF p
<1>3. /\ QueueOK(e.pq)
      /\ e.lost \subseteq q_.pkts \cup {p}
      /\ Remarked(P, e.pq.pkts)
  BY <1>1, <1>2, EnqueContract DEF p
<1>4. nextid \in Nat \ {0} /\ q_.pkts \subseteq Packet
  BY DEF PortInv, TypeOK, PacketQueueType
<1>5. Conserved(q_.pkts \cup {p}, dropped, sent, nextid + 1)
  BY <1>1, <1>4, ConservedArrive DEF PortInv, Conservation
<1>6. Conserved(P, dropped \cup e.lost, sent, nextid + 1)
  BY <1>3, <1>5, ConservedDrop
<1>7. Conserved(e.pq.pkts, dropped \cup e.lost, sent, nextid + 1)
  BY <1>3, <1>4, <1>6, ConservedMark
<1>8. ASSUME keep_order_ \/ ~deque_prio_ PROVE FlowOrdered(e.pq.pkts, sent)
  <2>1. FlowOrdered(q_.pkts \cup {p}, sent)
    BY <1>1, <1>4, <1>8, OrderArrive DEF PortInv, Conservation, FlowOrder
  <2>2. FlowOrdered(P, sent)
    BY <2>1, OrderDrop
  <2> QED BY <1>3, <2>2, OrderMark
<1> QED BY <1>1, <1>3, <1>4, <1>7, <1>8

\* Transmitting what deque returns, and dropping what it drops, keeps them
\* together and in order, too.
LEMMA DepartureKeeps ==
    ASSUME NEW pq, QueueOK(pq), NEW d \in deque(pq), NEW c \in d.out,
           NEW D, NEW s \in Seq(Packet), NEW n, Conserved(pq.pkts, D, s, n),
           keep_order_ \/ ~deque_prio_ => FlowOrdered(pq.pkts, s)
    PROVE  /\ c \in Packet
           /\ Conserved(d.pq.pkts, D \cup d.lost, Append(s, c), n)
           /\ keep_order_ \/ ~deque_prio_ => FlowOrdered(d.pq.pkts, Append(s, c))
<1>1. /\ d.pq.pkts = (pq.pkts \ d.lost) \ {c}
      /\ d.lost \subseteq pq.pkts
      /\ c \in pq.pkts \ d.lost
      /\ keep_order_ \/ ~deque_prio_ =>
            \A r \in d.pq.pkts : r.flow = c.flow => c.id < r.id
  BY DequeContract
<1>2. pq.pkts \subseteq Packet
  BY DEF QueueOK, PacketQueueType
<1>3. Conserved(pq.pkts \ d.lost, D \cup d.lost, s, n)
  BY <1>1, ConservedDrop
<1>4. Conserved(d.pq.pkts, D \cup d.lost, Append(s, c), n)
  BY <1>1, <1>2, <1>3, ConservedSend
<1>5. ASSUME keep_order_ \/ ~deque_prio_ PROVE FlowOrdered(d.pq.pkts, Append(s, c))
  <2>1. FlowOrdered(pq.pkts \ d.lost, s)
    BY <1>5, OrderDrop
  <2> QED BY <1>1, <1>2, <1>5, <2>1, OrderSend
<1> QED BY <1>1, <1>2, <1>4, <1>5

\* The types of the record of recently served flows.
LEMMA NoteType ==
    ASSUME TypeOK, NEW c \in Packet, NoteDequeued(c)
    PROVE  sq_queue_' \in Seq(Flows) /\ sq_counts_' \in [Flows -> Int]
<1>1. c.flow \in Flows
  BY DEF Packet
<1>2. Append(sq_queue_, c.flow) \in Seq(Flows) /\ Append(sq_queue_, c.flow) # <<>>
  BY <1>1 DEF TypeOK
<1>3. Head(Append(sq_queue_, c.flow)) \in Flows /\ Tail(Append(sq_queue_, c.flow)) \in Seq(Flows)
  BY <1>2
<1>4. [sq_counts_ EXCEPT ![c.flow] = @ + 1] \in [Flows -> Int]
  BY <1>1 DEF TypeOK
<1>5. [[sq_counts_ EXCEPT ![c.flow] = @ + 1] EXCEPT ![Head(Append(sq_queue_, c.flow))] = @ - 1]
         \in [Flows -> Int]
  BY <1>3, <1>4
<1> QED BY <1>2, <1>3, <1>4, <1>5 DEF NoteDequeued, TypeOK

\* After a step whose new list is consistent, the invariant only depends on
\* where the packets are and on the handshake with the link.
LEMMA InvFromParts ==
    ASSUME QueueOK(q_'), qlim_' \in Limits,
           sq_queue_' \in Seq(Flows), sq_counts_' \in [Flows -> Int],
           blocked_' \in BOOLEAN, sent' \in Seq(Packet), arrived' \in 0..Len(sent'),
           dropped' \in SUBSET Packet, nextid' \in Nat \ {0},
           mode' \in {"run", "reset", "aborted"},
           Conserved(q_'.pkts, dropped', sent', nextid'),
           blocked_' = intr_',
           mode' = "run" /\ ~blocked_' => q_'.pkts = {},
           keep_order_ \/ ~deque_prio_ => FlowOrdered(q_'.pkts, sent')
    PROVE  PortInv'
<1>1. TypeOK'
  BY DEF TypeOK, QueueOK
<1>2. BytesAgree'
  BY DEF BytesAgree, QueueOK
<1>3. Conservation'
  BY DEF Conservation
<1>4. WorkConserving'
  BY DEF WorkConserving
<1>5. FlowOrder'
  BY DEF FlowOrder
<1> QED BY <1>1, <1>2, <1>3, <1>4, <1>5 DEF PortInv

\* The invariant holds initially.
LEMMA InvInit == Init => PortInv
<1> SUFFICES ASSUME Init PROVE PortInv
  OBVIOUS
<1>1. IsFiniteSet({}) /\ Cardinality({}) = 0
  BY FS_EmptySet
<1>2. q_ = EmptyQueue /\ q_.pkts = {} /\ q_.bytes = 0 /\ q_ \in PacketQueueType
  BY DEF Init, EmptyQueue, PacketQueueType
<1>3. {p \in {} : p.size = HdrSize} = {} /\ {p \in {} : p.size = MssSize} = {}
  OBVIOUS
<1>4. Bytes({}) = 0
  BY <1>1, <1>3, SizeAssumption DEF Bytes
<1>5. TypeOK
  <2>1. sq_counts_ \in [Flows -> Int] /\ sq_queue_ \in Seq(Flows) /\ sent \in Seq(Packet)
    BY DEF Init
  <2>2. arrived \in 0..Len(sent)
    BY DEF Init
  <2>3. dropped \in SUBSET Packet /\ nextid \in Nat \ {0} /\ IsFiniteSet(q_.pkts)
    BY <1>1, <1>2 DEF Init
  <2> QED BY <1>2, <2>1, <2>2, <2>3 DEF Init, TypeOK
<1>6. Conservation /\ FlowOrder
  BY <1>2 DEF Init, Conservation, Conserved, FlowOrder, FlowOrdered
<1> QED BY <1>2, <1>4, <1>5, <1>6 DEF Init, PortInv, BytesAgree, WorkConserving

\* Every event of the port preserves it.
LEMMA InvNext == PortInv /\ [Next]_vars => PortInv'
<1> SUFFICES ASSUME PortInv, [Next]_vars PROVE PortInv'
  OBVIOUS
<1> USE DEF PortInv
<1>q. QueueOK(q_) /\ (\A r \in q_.pkts : r.id \in 1..(nextid - 1) /\ r.id # nextid)
  BY InvQueueOK
<1>t. /\ qlim_ \in Limits /\ sq_queue_ \in Seq(Flows) /\ sq_counts_ \in [Flows -> Int]
      /\ blocked_ \in BOOLEAN /\ intr_ \in BOOLEAN /\ sent \in Seq(Packet)
      /\ arrived \in 0..Len(sent) /\ dropped \in SUBSET Packet /\ nextid \in Nat \ {0}
      /\ mode \in {"run", "reset", "aborted"} /\ blocked_ = intr_
      /\ mode = "run" /\ ~blocked_ => q_.pkts = {}
  BY DEF TypeOK, WorkConserving
<1>c. Conserved(q_.pkts, dropped, sent, nextid)
  BY DEF Conservation
<1>o. keep_order_ \/ ~deque_prio_ => FlowOrdered(q_.pkts, sent)
  BY DEF FlowOrder
<1>1. ASSUME NEW s \in Shapes, RecvBlocked(s) PROVE PortInv'
  <2>1. PICK e \in enque(NewPacket(s)) : q_' = e.pq /\ dropped' = dropped \cup e.lost
    BY <1>1 DEF RecvBlocked
  <2>2. /\ QueueOK(e.pq)
        /\ e.lost \subseteq Packet
        /\ Conserved(e.pq.pkts, dropped \cup e.lost, sent, nextid + 1)
        /\ keep_order_ \/ ~deque_prio_ => FlowOrdered(e.pq.pkts, sent)
    BY ArrivalKeeps
  <2>3. /\ nextid' = nextid + 1 /\ mode' = "run" /\ blocked_
        /\ UNCHANGED <<qlim_, sq_queue_, sq_counts_, blocked_, intr_, sent, arrived>>
    BY <1>1 DEF RecvBlocked
  <2>4. dropped' \in SUBSET Packet /\ nextid' \in Nat \ {0}
    BY <1>t, <2>1, <2>2, <2>3
  <2> QED BY <1>t, <2>1, <2>2, <2>3, <2>4, InvFromParts
<1>2. ASSUME NEW s \in Shapes, RecvIdle(s) PROVE PortInv'
  <2>0. PICK e \in enque(NewPacket(s)) : \E d \in deque(e.pq) :
          /\ q_' = d.pq
          /\ dropped' = (dropped \cup e.lost) \cup d.lost
          /\ \/ /\ d.out # {}
                /\ Transmit(d)
                /\ blocked_' = TRUE
             \/ /\ d.out = {}
                /\ UNCHANGED <<sq_queue_, sq_counts_, blocked_, intr_, sent>>
    BY <1>2 DEF RecvIdle
  <2>1. PICK d \in deque(e.pq) :
          /\ q_' = d.pq
          /\ dropped' = (dropped \cup e.lost) \cup d.lost
          /\ \/ /\ d.out # {}
                /\ Transmit(d)
                /\ blocked_' = TRUE
             \/ /\ d.out = {}
                /\ UNCHANGED <<sq_queue_, sq_counts_, blocked_, intr_, sent>>
    BY <2>0
  <2>2. /\ QueueOK(e.pq)
        /\ e.lost \subseteq Packet
        /\ Conserved(e.pq.pkts, dropped \cup e.lost, sent, nextid + 1)
        /\ keep_order_ \/ ~deque_prio_ => FlowOrdered(e.pq.pkts, sent)
    BY ArrivalKeeps
  <2>3. /\ QueueOK(d.pq) /\ d.lost \subseteq Packet
        /\ d.out = {} => d.lost = {} /\ d.pq.pkts = {} /\ e.pq.pkts = {}
    BY <2>2, DequeContract DEF QueueOK, PacketQueueType
  <2>4. nextid' = nextid + 1 /\ qlim_' = qlim_ /\ arrived' = arrived /\ mode' = mode
    BY <1>2 DEF RecvIdle
  <2>5. CASE d.out # {} /\ Transmit(d) /\ blocked_' = TRUE
    <3>1. PICK c \in d.out : sent' = Append(sent, c) /\ intr_' = TRUE /\ NoteDequeued(c)
      BY <2>5 DEF Transmit
    <3>2. /\ c \in Packet
          /\ Conserved(d.pq.pkts, (dropped \cup e.lost) \cup d.lost, Append(sent, c), nextid + 1)
          /\ keep_order_ \/ ~deque_prio_ => FlowOrdered(d.pq.pkts, Append(sent, c))
      BY <1>t, <2>2, DepartureKeeps
    <3>3. sq_queue_' \in Seq(Flows) /\ sq_counts_' \in [Flows -> Int]
      BY <3>1, <3>2, NoteType
    <3>4. sent' \in Seq(Packet) /\ arrived' \in 0..Len(sent')
      BY <1>t, <2>4, <3>1, <3>2
    <3> QED BY <1>t, <2>1, <2>2, <2>3, <2>4, <2>5, <3>1, <3>2, <3>3, <3>4, InvFromParts
  <2>6. CASE d.out = {} /\ UNCHANGED <<sq_queue_, sq_counts_, blocked_, intr_, sent>>
    <3>1. Conserved(d.pq.pkts, (dropped \cup e.lost) \cup d.lost, sent, nextid + 1)
      <4>1. d.pq.pkts = e.pq.pkts /\ (dropped \cup e.lost) \cup d.lost = dropped \cup e.lost
        BY <2>3, <2>6
      <4> QED BY <2>2, <4>1
    <3>2. keep_order_ \/ ~deque_prio_ => FlowOrdered(d.pq.pkts, sent)
      BY <2>2, <2>3, <2>6
    <3> QED BY <1>t, <2>1, <2>2, <2>3, <2>4, <2>6, <3>1, <3>2, InvFromParts
  <2> QED BY <2>1, <2>5, <2>6
<1>3. ASSUME NEW s \in Shapes, RecvThrows(s) PROVE PortInv'
  <2> DEFINE p == NewPacket(s)
  <2>1. p \in Packet /\ p.id = nextid
    BY NewPacketType
  <2> HIDE DEF p
  <2>2. /\ q_' = pq_enque(q_, p) /\ nextid' = nextid + 1 /\ mode' = "aborted"
        /\ UNCHANGED <<qlim_, sq_queue_, sq_counts_, blocked_, intr_, sent, arrived, dropped>>
    BY <1>3 DEF RecvThrows, p
  <2>3. QueueOK(q_') /\ q_'.pkts = q_.pkts \cup {p}
    BY <1>q, <2>1, <2>2, EnqueOK
  <2>4. Conserved(q_'.pkts, dropped, sent, nextid + 1)
    <3>1. Conserved(q_.pkts \cup {p}, dropped, sent, nextid + 1)
      BY <1>t, <1>c, <2>1, ConservedArrive
    <3> QED BY <2>3, <3>1
  <2>5. keep_order_ \/ ~deque_prio_ => FlowOrdered(q_'.pkts, sent)
    BY <1>t, <1>c, <1>o, <2>1, <2>3, OrderArrive
  <2> QED BY <1>t, <2>2, <2>3, <2>4, <2>5, InvFromParts
<1>4. CASE Resume
  <2>1. PICK d \in deque(q_) :
          /\ q_' = d.pq
          /\ dropped' = dropped \cup d.lost
          /\ \/ /\ d.out # {}
                /\ Transmit(d)
                /\ UNCHANGED blocked_
             \/ /\ d.out = {}
                /\ blocked_' = FALSE
                /\ intr_' = FALSE
                /\ UNCHANGED <<sq_queue_, sq_counts_, sent>>
    BY <1>4 DEF Resume
  <2>2. /\ QueueOK(d.pq) /\ d.lost \subseteq Packet
        /\ d.out = {} => d.lost = {} /\ d.pq.pkts = {} /\ q_.pkts = {}
    BY <1>q, DequeContract DEF QueueOK, PacketQueueType
  <2>3. UNCHANGED <<qlim_, arrived, nextid, mode>> /\ intr_
    BY <1>4 DEF Resume
  <2>4. CASE d.out # {} /\ Transmit(d) /\ UNCHANGED blocked_
    <3>1. PICK c \in d.out : sent' = Append(sent, c) /\ intr_' = TRUE /\ NoteDequeued(c)
      BY <2>4 DEF Transmit
    <3>2. /\ c \in Packet
          /\ Conserved(d.pq.pkts, dropped \cup d.lost, Append(sent, c), nextid)
          /\ keep_order_ \/ ~deque_prio_ => FlowOrdered(d.pq.pkts, Append(sent, c))
      BY <1>q, <1>t, <1>c, <1>o, DepartureKeeps
    <3>3. sq_queue_' \in Seq(Flows) /\ sq_counts_' \in [Flows -> Int]
      BY <3>1, <3>2, NoteType
    <3>4. sent' \in Seq(Packet) /\ arrived' \in 0..Len(sent')
      BY <1>t, <2>3, <3>1, <3>2
    <3> QED BY <1>t, <2>1, <2>2, <2>3, <2>4, <3>1, <3>2, <3>3, <3>4, InvFromParts
  <2>5. CASE d.out = {} /\ blocked_' = FALSE /\ intr_' = FALSE
             /\ UNCHANGED <<sq_queue_, sq_counts_, sent>>
    <3>1. d.pq.pkts = q_.pkts /\ dropped \cup d.lost = dropped
      BY <2>2, <2>5
    <3> QED BY <1>t, <1>c, <1>o, <2>1, <2>2, <2>3, <2>5, <3>1, InvFromParts
  <2> QED BY <2>1, <2>4, <2>5
<1>5. CASE Deliver
  <2>1. arrived' \in 0..Len(sent)
    BY <1>5, <1>t DEF Deliver
  <2> QED BY <1>5, <1>q, <1>t, <1>c, <1>o, <2>1, InvFromParts DEF Deliver
<1>6. CASE SetLimit
  BY <1>6, <1>q, <1>t, <1>c, <1>o, InvFromParts DEF SetLimit
<1>7. CASE shrink_queue
  <2> DEFINE K == ShrinkKeeps
             D == q_.pkts \ K
  <2>1. K \subseteq q_.pkts /\ D \in SUBSET q_.pkts /\ K = q_.pkts \ D
    BY DEF ShrinkKeeps
  <2>2. /\ q_'.pkts = K /\ q_'.bytes = q_.bytes - Bytes(D)
        /\ DOMAIN q_' = {"pkts", "bytes", "bad"}
        /\ \E h \in SUBSET D : q_'.bad = q_.bad - Cardinality(BadOf(D)) - Cardinality(BadOf(h))
        /\ q_' = [pkts |-> q_'.pkts, bytes |-> q_'.bytes, bad |-> q_'.bad]
        /\ dropped' = dropped \cup D
    BY <1>7 DEF shrink_queue
  <2>3. UNCHANGED <<qlim_, sq_queue_, sq_counts_, blocked_, intr_, sent, arrived, nextid, mode>>
    BY <1>7 DEF shrink_queue
  <2> HIDE DEF K, D
  <2>4. q_.pkts \in SUBSET Packet /\ IsFiniteSet(q_.pkts) /\ q_.bad \in Int /\ q_.bytes \in Int
    BY <1>q DEF QueueOK, PacketQueueType
  <2>5. IsFiniteSet(D) /\ IsFiniteSet(K) /\ D \in SUBSET Packet
    BY <2>1, <2>4, FS_Subset
  <2>6. Bytes(K) = q_'.bytes /\ Bytes(D) \in Nat
    BY <1>q, <2>1, <2>2, <2>4, <2>5, BytesDiff, BytesType DEF QueueOK
  <2>7. q_'.bad \in Int
    <3>1. PICK h \in SUBSET D : q_'.bad = q_.bad - Cardinality(BadOf(D)) - Cardinality(BadOf(h))
      BY <2>2
    <3>2. IsFiniteSet(h)
      BY <2>5, FS_Subset
    <3> QED BY <2>4, <2>5, <3>1, <3>2, BadOfType
  <2>8. q_' \in PacketQueueType
    BY <2>1, <2>2, <2>4, <2>6, <2>7 DEF PacketQueueType
  <2>9. QueueOK(q_')
    BY <1>q, <2>1, <2>2, <2>5, <2>6, <2>8 DEF QueueOK
  <2>10. Conserved(q_'.pkts, dropped', sent, nextid)
    BY <1>c, <2>1, <2>2, ConservedDrop
  <2>11. keep_order_ \/ ~deque_prio_ => FlowOrdered(q_'.pkts, sent)
    BY <1>o, <2>1, <2>2, OrderDrop
  <2>12. q_.pkts = {} => q_'.pkts = {}
    BY <2>1, <2>2
  <2> QED BY <1>t, <2>2, <2>3, <2>5, <2>9, <2>10, <2>11, <2>12, InvFromParts
<1>8. CASE Reset
  BY <1>8, <1>q, <1>t, <1>c, <1>o, InvFromParts DEF Reset
<1>9. CASE ResetStep
  <2>1. PICK d \in deque(q_) :
          /\ q_' = d.pq
          /\ dropped' = (dropped \cup d.lost) \cup d.out
          /\ \/ /\ d.out = {}
                /\ mode' = "run"
                /\ UNCHANGED <<sq_queue_, sq_counts_>>
             \/ /\ UNCHANGED mode
                /\ \E c \in d.out : NoteDequeued(c)
    BY <1>9 DEF ResetStep
  <2>2. UNCHANGED <<qlim_, blocked_, intr_, sent, arrived, nextid>> /\ mode = "reset"
    BY <1>9 DEF ResetStep
  <2>3. /\ QueueOK(d.pq) /\ d.lost \cup d.out \in SUBSET q_.pkts
        /\ d.pq.pkts = q_.pkts \ (d.lost \cup d.out)
        /\ d.out = {} => d.pq.pkts = {}
    BY <1>q, DequeContract
  <2>4. d.lost \cup d.out \in SUBSET Packet
    BY <1>q, <2>3 DEF QueueOK, PacketQueueType
  <2>5. dropped' = dropped \cup (d.lost \cup d.out)
    BY <2>1
  <2>6. Conserved(q_'.pkts, dropped', sent, nextid)
    <3>1. Conserved(q_.pkts \ (d.lost \cup d.out), dropped \cup (d.lost \cup d.out), sent, nextid)
      BY <1>c, <2>3, ConservedDrop
    <3> QED BY <2>1, <2>3, <2>5, <3>1
  <2>7. keep_order_ \/ ~deque_prio_ => FlowOrdered(q_'.pkts, sent)
    BY <1>o, <2>1, <2>3, OrderDrop
  <2>8. sq_queue_' \in Seq(Flows) /\ sq_counts_' \in [Flows -> Int]
    BY <1>t, <2>1, <2>4, NoteType
  <2>9. mode' \in {"run", "reset"} /\ (mode' = "run" => q_'.pkts = {})
    BY <2>1, <2>2, <2>3
  <2> QED BY <1>t, <2>1, <2>2, <2>3, <2>4, <2>5, <2>6, <2>7, <2>8, <2>9, InvFromParts
<1>10. CASE UNCHANGED vars
  BY <1>10, <1>q, <1>t, <1>c, <1>o, InvFromParts DEF vars
<1> QED BY <1>1, <1>2, <1>3, <1>4, <1>5, <1>6, <1>7, <1>8, <1>9, <1>10 DEF Next

\* The inductive invariant holds of every behaviour of the port.
THEOREM PortInvariant == Spec => []PortInv
BY InvInit, InvNext, PTL DEF Spec

\* Types.
THEOREM TypeCorrect == Spec => []TypeOK
BY PortInvariant, PTL DEF PortInv

\* The byte counter that decides about overflow is exact, whatever sequence
\* of arrivals, departures, drops from the middle, shrinking and resets the
\* list has gone through.
THEOREM ByteCounterExact == Spec => []BytesAgree
BY PortInvariant, PTL DEF PortInv

\* No packet is lost without being handed to the drop target, transmitted
\* twice or invented, in any configuration of the discipline.
THEOREM PacketsConserved == Spec => []Conservation
BY PortInvariant, PTL DEF PortInv

\* The handshake with the link: exactly one end of transmission is scheduled
\* while the queue is blocked, and no packet waits behind an idle link.
THEOREM LinkNeverIdles == Spec => []WorkConserving
BY PortInvariant, PTL DEF PortInv

\* With keep_order_ (or without priority dequeueing) the packets of a flow
\* leave in the order of their arrival.
THEOREM FlowsInOrder == Spec => []FlowOrder
BY PortInvariant, PTL DEF PortInv

-----------------------------------------------------------------------------
(* The record of recently served flows *)

\* The places of f in a sequence.
Places(s, f) == {i \in 1..Len(s) : s[i] = f}

\* There are finitely many.
LEMMA PlacesFinite ==
    ASSUME NEW s \in Seq(Flows), NEW f
    PROVE  IsFiniteSet(Places(s, f)) /\ Cardinality(Places(s, f)) \in Nat
<1>1. IsFiniteSet(1..Len(s)) /\ Places(s, f) \in SUBSET (1..Len(s))
  BY FS_Interval DEF Places
<1> QED BY <1>1, FS_Subset, FS_CardinalityType

\* An element appended counts once.
LEMMA PlacesAppend ==
    ASSUME NEW s \in Seq(Flows), NEW g \in Flows, NEW f \in Flows
    PROVE  Cardinality(Places(Append(s, g), f))
             = Cardinality(Places(s, f)) + (IF f = g THEN 1 ELSE 0)
<1> DEFINE t == Append(s, g)
<1>1. /\ Len(s) \in Nat /\ Len(t) = Len(s) + 1 /\ t[Len(s) + 1] = g
      /\ \A i \in 1..Len(s) : t[i] = s[i]
  OBVIOUS
<1> HIDE DEF t
<1>2. IsFiniteSet(Places(s, f)) /\ Cardinality(Places(s, f)) \in Nat
  BY PlacesFinite
<1>3. Len(s) + 1 \notin Places(s, f)
  BY <1>1 DEF Places
<1>4. CASE f = g
  <2>1. Places(t, f) = Places(s, f) \cup {Len(s) + 1}
    BY <1>1, <1>4 DEF Places
  <2>2. Cardinality(Places(s, f) \cup {Len(s) + 1}) = Cardinality(Places(s, f)) + 1
    BY <1>2, <1>3, FS_AddElement
  <2> QED BY <1>4, <2>1, <2>2 DEF t
<1>5. CASE f # g
  <2>1. Places(t, f) = Places(s, f)
    BY <1>1, <1>5 DEF Places
  <2> QED BY <1>2, <1>5, <2>1 DEF t
<1> QED BY <1>4, <1>5

\* The head taken away counts once.
LEMMA PlacesTail ==
    ASSUME NEW s \in Seq(Flows), s # <<>>, NEW f \in Flows
    PROVE  Cardinality(Places(Tail(s), f))
             = Cardinality(Places(s, f)) - (IF f = Head(s) THEN 1 ELSE 0)
<1> DEFINE t == Tail(s)
           R == Places(s, f) \ {1}
           shift == [i \in R |-> i - 1]
<1>1. /\ Len(s) \in Nat \ {0} /\ Len(t) = Len(s) - 1 /\ Head(s) = s[1]
      /\ \A i \in 1..Len(t) : t[i] = s[i + 1]
  OBVIOUS
<1> HIDE DEF t
<1>2. IsFiniteSet(Places(s, f)) /\ Cardinality(Places(s, f)) \in Nat
  BY PlacesFinite
<1>3. IsFiniteSet(R) /\ Cardinality(R) = Cardinality(Places(s, f)) - (IF f = Head(s) THEN 1 ELSE 0)
  <2>1. 1 \in Places(s, f) <=> f = Head(s)
    BY <1>1 DEF Places
  <2> QED BY <1>2, <2>1, FS_RemoveElement
<1>4. shift \in Bijection(R, Places(t, f))
  <2>1. \A i \in R : i \in Int /\ i >= 2 /\ i <= Len(s) /\ s[i] = f
    BY <1>1 DEF Places
  <2>2. ASSUME NEW i \in R PROVE i - 1 \in Places(t, f)
    <3>1. i \in Int /\ i >= 2 /\ i <= Len(s) /\ s[i] = f
      BY <2>1
    <3>2. i - 1 \in 1..Len(t) /\ t[i - 1] = s[(i - 1) + 1]
      BY <1>1, <3>1
    <3> QED BY <3>1, <3>2 DEF Places
  <2>3. ASSUME NEW j \in Places(t, f) PROVE j + 1 \in R /\ (j + 1) - 1 = j
    BY <1>1 DEF Places
  <2>4. shift \in [R -> Places(t, f)]
    BY <2>2
  <2>5. \A i, k \in R : shift[i] = shift[k] => i = k
    BY <2>1
  <2>6. \A j \in Places(t, f) : \E i \in R : shift[i] = j
    BY <2>3
  <2> HIDE DEF shift, R
  <2>7. shift \in Injection(R, Places(t, f))
    BY <2>4, <2>5 DEF Injection, IsInjective
  <2>8. shift \in Surjection(R, Places(t, f))
    BY <2>4, <2>6 DEF Surjection
  <2> QED BY <2>7, <2>8 DEF Bijection
<1>5. Cardinality(Places(t, f)) = Cardinality(R)
  BY <1>3, <1>4, FS_Bijection DEF ExistsBijection
<1> QED BY <1>3, <1>5 DEF t

\* Remembering the flow of a packet served keeps the counts right.
LEMMA NoteCounts ==
    ASSUME TypeOK, SqCountsAgree, NEW c \in Packet, NoteDequeued(c)
    PROVE  SqCountsAgree'
<1> DEFINE pushed == Append(sq_queue_, c.flow)
           counts == [sq_counts_ EXCEPT ![c.flow] = @ + 1]
<1>1. /\ c.flow \in Flows /\ sq_queue_ \in Seq(Flows) /\ sq_counts_ \in [Flows -> Int]
      /\ sq_limit_ \in Nat
      /\ Len(sq_queue_) <= sq_limit_
      /\ \A f \in Flows : sq_counts_[f] = Cardinality(Places(sq_queue_, f))
  BY ConfigAssumption DEF TypeOK, SqCountsAgree, Places, Packet
<1>2. pushed \in Seq(Flows) /\ pushed # <<>> /\ Len(pushed) = Len(sq_queue_) + 1
  BY <1>1
<1>3. ASSUME NEW f \in Flows
      PROVE  counts[f] = Cardinality(Places(pushed, f)) /\ Cardinality(Places(pushed, f)) \in Nat
  <2>1. Cardinality(Places(pushed, f))
          = Cardinality(Places(sq_queue_, f)) + (IF f = c.flow THEN 1 ELSE 0)
    BY <1>1, PlacesAppend
  <2>2. Cardinality(Places(pushed, f)) \in Nat
    BY <1>2, PlacesFinite
  <2> QED BY <1>1, <2>1, <2>2
<1>4. counts \in [Flows -> Int]
  BY <1>1
<1>5. CASE ~(drop_smart_ /\ ~deque_prio_)
  BY <1>5 DEF NoteDequeued, SqCountsAgree
<1>6. CASE drop_smart_ /\ ~deque_prio_ /\ Len(pushed) > sq_limit_
  <2>1. sq_queue_' = Tail(pushed) /\ sq_counts_' = [counts EXCEPT ![Head(pushed)] = @ - 1]
    BY <1>6 DEF NoteDequeued
  <2> HIDE DEF pushed, counts
  <2>2. Len(Tail(pushed)) = Len(pushed) - 1 /\ Head(pushed) \in Flows
    BY <1>2
  <2>3. ASSUME NEW f \in Flows
        PROVE  sq_counts_'[f] = Cardinality(Places(Tail(pushed), f))
    <3>1. Cardinality(Places(Tail(pushed), f))
            = Cardinality(Places(pushed, f)) - (IF f = Head(pushed) THEN 1 ELSE 0)
      BY <1>2, PlacesTail
    <3>2. sq_counts_'[f] = counts[f] - (IF f = Head(pushed) THEN 1 ELSE 0)
      BY <1>4, <2>1, <2>2
    <3> QED BY <1>3, <3>1, <3>2
  <2>4. Len(Tail(pushed)) <= sq_limit_
    BY <1>1, <1>2, <2>2
  <2> QED BY <2>1, <2>3, <2>4 DEF SqCountsAgree, Places
<1>7. CASE drop_smart_ /\ ~deque_prio_ /\ ~(Len(pushed) > sq_limit_)
  <2>1. sq_queue_' = pushed /\ sq_counts_' = counts
    BY <1>7 DEF NoteDequeued
  <2> HIDE DEF pushed, counts
  <2>2. Len(pushed) <= sq_limit_
    BY <1>1, <1>2, <1>7
  <2> QED BY <1>3, <2>1, <2>2 DEF SqCountsAgree, Places
<1> QED BY <1>5, <1>6, <1>7

\* deque returns packets.
LEMMA DequeReturnsPackets ==
    ASSUME NEW pq, QueueOK(pq), NEW d \in deque(pq)
    PROVE  d.out \subseteq Packet
BY DequeContract DEF QueueOK, PacketQueueType

\* sq_counts_ counts, for every flow, how often it is among the packets served
\* last, and never more than sq_limit_ packets are remembered, whatever mix of
\* recv, resume and reset serves packets: the counts that drop_smart compares
\* never drift.
THEOREM CountsExact == Spec => []SqCountsAgree
<1>1. Init => SqCountsAgree
  <2> SUFFICES ASSUME Init PROVE SqCountsAgree
    OBVIOUS
  <2>1. sq_queue_ = <<>> /\ Len(sq_queue_) = 0 /\ sq_counts_ = [f \in Flows |-> 0]
    BY DEF Init
  <2>2. \A f \in Flows : {i \in 1..Len(sq_queue_) : sq_queue_[i] = f} = {}
    BY <2>1
  <2> QED BY <2>1, <2>2, FS_EmptySet, ConfigAssumption DEF SqCountsAgree
<1>2. ASSUME PortInv, SqCountsAgree, [Next]_vars PROVE SqCountsAgree'
  <2>1. TypeOK /\ QueueOK(q_)
    BY <1>2, InvQueueOK DEF PortInv
  <2>2. CASE UNCHANGED <<sq_queue_, sq_counts_>>
    BY <1>2, <2>2 DEF SqCountsAgree
  <2>3. ASSUME NEW c \in Packet, NoteDequeued(c) PROVE SqCountsAgree'
    BY <1>2, <2>1, <2>3, NoteCounts
  <2>4. ASSUME NEW s \in Shapes, RecvIdle(s) PROVE SqCountsAgree'
    <3>1. PICK e \in enque(NewPacket(s)) : \E d \in deque(e.pq) :
            Transmit(d) \/ UNCHANGED <<sq_queue_, sq_counts_>>
      BY <2>4 DEF RecvIdle
    <3>2. PICK d \in deque(e.pq) : Transmit(d) \/ UNCHANGED <<sq_queue_, sq_counts_>>
      BY <3>1
    <3>3. QueueOK(e.pq)
      BY <1>2, ArrivalKeeps
    <3>4. d.out \subseteq Packet
      BY <3>3, DequeReturnsPackets
    <3> QED BY <2>2, <2>3, <3>2, <3>4 DEF Transmit
  <2>5. CASE Resume
    <3>1. PICK d \in deque(q_) : Transmit(d) \/ UNCHANGED <<sq_queue_, sq_counts_>>
      BY <2>5 DEF Resume
    <3>2. d.out \subseteq Packet
      BY <2>1, DequeReturnsPackets
    <3> QED BY <2>2, <2>3, <3>1, <3>2 DEF Transmit
  <2>6. CASE ResetStep
    <3>1. PICK d \in deque(q_) :
             (\E c \in d.out : NoteDequeued(c)) \/ UNCHANGED <<sq_queue_, sq_counts_>>
      BY <2>6 DEF ResetStep
    <3>2. d.out \subseteq Packet
      BY <2>1, DequeReturnsPackets
    <3> QED BY <2>2, <2>3, <3>1, <3>2
  <2>7. CASE ~(\E s \in Shapes : RecvIdle(s)) /\ ~Resume /\ ~ResetStep
    BY <1>2, <2>2, <2>7 DEF Next, RecvBlocked, RecvThrows, Deliver, SetLimit, shrink_queue,
                           Reset, vars
  <2> QED BY <2>4, <2>5, <2>6, <2>7
<1> QED BY <1>1, <1>2, PortInvariant, PTL DEF Spec

-----------------------------------------------------------------------------
(* What a single step may never do *)

\* recv at an idle link: the list was empty, at most the new packet is on it
\* after enque, and deque takes it away again.
LEMMA IdleArrival ==
    ASSUME PortInv, mode = "run", ~blocked_, NEW s \in Shapes,
           NEW e \in enque(NewPacket(s)), NEW d \in deque(e.pq)
    PROVE  /\ q_.pkts = {}
           /\ d.pq.pkts = {}
           /\ d.lost = {}
           /\ d.out # {} => e.lost = {}
<1> DEFINE p == NewPacket(s)
<1>1. q_.pkts = {}
  BY DEF PortInv, WorkConserving
<1>2. QueueOK(q_) /\ p \in Packet /\ \A r \in q_.pkts : r.id # p.id
  BY <1>1, InvQueueOK, NewPacketType
<1> HIDE DEF p
<1>3. /\ QueueOK(e.pq) /\ e.lost \subseteq {p}
      /\ Remarked({p} \ e.lost, e.pq.pkts)
  <2>1. /\ QueueOK(e.pq) /\ e.lost \subseteq q_.pkts \cup {p}
        /\ Remarked((q_.pkts \cup {p}) \ e.lost, e.pq.pkts)
    BY <1>2, EnqueContract DEF p
  <2>2. q_.pkts \cup {p} = {p}
    BY <1>1
  <2> QED BY <2>1, <2>2
<1>4. \A x, y \in e.pq.pkts : x = y
  BY <1>3 DEF Remarked, SameHeaders
<1>5. e.pq.pkts # {} => e.lost = {}
  BY <1>3 DEF Remarked
<1>6. /\ d.pq.pkts = (e.pq.pkts \ d.lost) \ d.out
      /\ d.lost \subseteq e.pq.pkts
      /\ d.out = {} => d.lost = {} /\ e.pq.pkts = {}
      /\ d.out # {} => \E c \in e.pq.pkts : d.out = {c} /\ c \notin d.lost
  BY <1>3, DequeContract
<1> QED BY <1>1, <1>4, <1>5, <1>6

\* deque drops only stale copies of the packet that it returns.
LEMMA DequeDropsStale ==
    ASSUME NEW pq, QueueOK(pq), NEW d \in deque(pq), NEW c \in d.out, NEW v \in d.lost
    PROVE  /\ is_bad_prio(v) /\ ~is_bad_prio(c)
           /\ v.flow = c.flow /\ v.id < c.id
<1>1. CASE pq.pkts = {}
  BY <1>1 DEF deque
<1>2. CASE pq.pkts # {} /\ ~deque_prio_
  BY <1>2 DEF deque
<1>3. CASE pq.pkts # {} /\ deque_prio_
  <2>1. d \in deque_priority(pq)
    BY <1>3 DEF deque
  <2>2. PICK b \in pq.pkts :
           \E k \in pq.pkts :
              /\ IsChosen(pq.pkts, b, k)
              /\ d = [pq   |-> pq_remove(pq, PacketsToDrop(pq.pkts, b) \cup {k}),
                      lost |-> PacketsToDrop(pq.pkts, b), out |-> {k}]
    BY <2>1 DEF deque_priority
  <2>3. IsChosen(pq.pkts, b, c) /\ v \in PacketsToDrop(pq.pkts, b)
    BY <2>2
  <2>4. /\ drop_low_prio_ /\ is_bad_prio(v) /\ ~is_bad_prio(b)
        /\ v.flow = b.flow /\ v.id < b.id
        /\ \A k \in Blockers(pq.pkts, b) : v.id < k.id
    BY <2>3 DEF PacketsToDrop, SameFlowAhead, Stale
  <2>5. c = b \/ c \in Blockers(pq.pkts, b)
    BY <2>3 DEF IsChosen, IsFirst
  <2>6. CASE c = b
    BY <2>4, <2>6
  <2>7. CASE c \in Blockers(pq.pkts, b)
    BY <2>4, <2>7 DEF Blockers, SameFlowAhead, Stale
  <2> QED BY <2>5, <2>6, <2>7
<1> QED BY <1>1, <1>2, <1>3, ConfigAssumption

\* Transmitting drops nothing but stale copies of data that goes out now with
\* its true priority: what drop_low_prio_ may discard.
THEOREM OnlyStaleDropped == Spec => OnlyStaleCopiesDropped
<1> DEFINE A == sent' # sent =>
                  \A v \in dropped' \ dropped :
                     LET c == sent'[Len(sent')] IN
                     /\ is_bad_prio(v) /\ ~is_bad_prio(c)
                     /\ v.flow = c.flow /\ v.id < c.id
<1>1. ASSUME PortInv, Next PROVE A
  <2>1. QueueOK(q_) /\ sent \in Seq(Packet)
    BY <1>1, InvQueueOK DEF PortInv, TypeOK
  <2>2. CASE sent' = sent
    BY <2>2
  <2>3. ASSUME NEW s \in Shapes, RecvIdle(s) PROVE A
    <3>1. PICK e \in enque(NewPacket(s)) : \E d \in deque(e.pq) :
             /\ dropped' = dropped \cup e.lost \cup d.lost
             /\ d.out # {} \/ sent' = sent
      BY <2>3 DEF RecvIdle
    <3>2. PICK d \in deque(e.pq) : /\ dropped' = dropped \cup e.lost \cup d.lost
                                   /\ d.out # {} \/ sent' = sent
      BY <3>1
    <3>3. d.lost = {} /\ (d.out # {} => e.lost = {})
      BY <1>1, <2>3, IdleArrival DEF RecvIdle
    <3> QED BY <3>2, <3>3
  <2>4. CASE Resume
    <3>1. PICK d \in deque(q_) : /\ dropped' = dropped \cup d.lost
                                 /\ Transmit(d) \/ sent' = sent
      BY <2>4 DEF Resume
    <3>2. CASE Transmit(d)
      <4>1. PICK c \in d.out : sent' = Append(sent, c)
        BY <3>2 DEF Transmit
      <4>2. c \in Packet
        BY <2>1, DequeContract DEF QueueOK, PacketQueueType
      <4>3. sent'[Len(sent')] = c
        BY <2>1, <4>1, <4>2
      <4>4. \A v \in d.lost : /\ is_bad_prio(v) /\ ~is_bad_prio(c)
                              /\ v.flow = c.flow /\ v.id < c.id
        BY <2>1, DequeDropsStale
      <4> QED BY <3>1, <4>3, <4>4
    <3> QED BY <2>2, <3>1, <3>2
  <2>5. CASE ~(\E s \in Shapes : RecvIdle(s)) /\ ~Resume
    <3>1. sent' = sent
      BY <1>1, <2>5 DEF Next, RecvBlocked, RecvThrows, Deliver, SetLimit, shrink_queue,
                        Reset, ResetStep
    <3> QED BY <3>1
  <2> QED BY <2>3, <2>4, <2>5
<1>2. PortInv /\ [Next]_vars => [A]_vars
  BY <1>1
<1> QED BY <1>2, PortInvariant, PTL DEF Spec, OnlyStaleCopiesDropped

\* A mark that enque sets is deserved: the packet can carry it, the list had
\* reached thresh_, and nothing on it is less urgent.
LEMMA EnqueMarks ==
    ASSUME QueueOK(q_), NEW p \in Packet, \A r \in q_.pkts : r.id # p.id, ~p.ce,
           NEW e \in enque(p),
           NEW x \in e.pq.pkts, x.ce, \A r \in q_.pkts : r.id = x.id => ~r.ce
    PROVE  /\ x.ect
           /\ Cardinality(q_.pkts) + 1 >= thresh_
           /\ \A r \in e.pq.pkts : r.prio <= x.prio
<1>1. PICK st \in Stored(p) : \E m \in mark_ecn(st.pq) : e = [pq |-> m, lost |-> st.lost]
  BY DEF enque
<1>2. PICK m \in mark_ecn(st.pq) : e = [pq |-> m, lost |-> st.lost]
  BY <1>1
<1>3. /\ QueueOK(st.pq)
      /\ st.pq.pkts = (q_.pkts \cup {p}) \ st.lost
  BY StoredContract
<1>4. e.pq = m
  BY <1>2
<1>5. \A r \in st.pq.pkts : r.id = x.id => ~r.ce
  BY <1>3
<1>6. m # st.pq
  BY <1>4, <1>5
<1>7. /\ Cardinality(st.pq.pkts) >= thresh_
      /\ \E h \in st.pq.pkts : IsHighest(st.pq.pkts, h) /\ m = SetCE(st.pq, h)
  BY <1>6 DEF mark_ecn
<1>8. PICK h \in st.pq.pkts : IsHighest(st.pq.pkts, h) /\ m = SetCE(st.pq, h)
  BY <1>7
<1> DEFINE k == [h EXCEPT !.ce = @ \/ h.ect]
<1>9. st.pq.pkts \subseteq Packet /\ h \in Packet
  BY <1>3, <1>8 DEF QueueOK, PacketQueueType
<1>10. /\ k.id = h.id /\ k.prio = h.prio /\ k.ect = h.ect /\ (k.ce => h.ce \/ h.ect)
  BY <1>9 DEF Packet
<1>11. m.pkts = (st.pq.pkts \ {h}) \cup {k}
  BY <1>3, <1>8 DEF SetCE, QueueOK, PacketQueueType
<1> HIDE DEF k
<1>12. x = k
  BY <1>4, <1>5, <1>11
<1>13. x.ect
  BY <1>5, <1>8, <1>10, <1>12
<1>14. \A r \in st.pq.pkts : r.prio <= h.prio
  BY <1>8, <1>9 DEF IsHighest, Packet
<1>15. \A r \in m.pkts : r.prio <= x.prio
  BY <1>9, <1>10, <1>11, <1>12, <1>14 DEF Packet
<1>16. Cardinality(q_.pkts) + 1 >= thresh_
  <2>1. IsFiniteSet(q_.pkts) /\ p \notin q_.pkts
    BY DEF QueueOK
  <2>2. IsFiniteSet(q_.pkts \cup {p}) /\ Cardinality(q_.pkts \cup {p}) = Cardinality(q_.pkts) + 1
    BY <2>1, FS_AddElement
  <2>3. /\ Cardinality(st.pq.pkts) <= Cardinality(q_.pkts \cup {p})
        /\ IsFiniteSet(st.pq.pkts)
    <3>1. st.pq.pkts \in SUBSET (q_.pkts \cup {p})
      BY <1>3
    <3> QED BY <2>2, <3>1, FS_Subset
  <2>4. Cardinality(st.pq.pkts) \in Nat /\ Cardinality(q_.pkts) \in Nat
    BY <2>1, <2>3, FS_CardinalityType
  <2> QED BY <1>7, <2>2, <2>3, <2>4, ConfigAssumption
<1> QED BY <1>4, <1>13, <1>15, <1>16

\* A packet gets its CE mark from an arrival only, at the threshold, and only
\* the least urgent packet of the list gets it.
THEOREM MarksLeastUrgent == Spec => MarksWorst
<1> DEFINE Ok(p) == /\ p.ect /\ nextid' # nextid
                    /\ Cardinality(q_.pkts) + 1 >= thresh_
                    /\ \A r \in q_'.pkts : r.prio <= p.prio
           A == \A p \in q_'.pkts \cup (SentPkts' \ SentPkts) :
                   p.ce /\ (\A r \in q_.pkts : r.id = p.id => ~r.ce) => Ok(p)
<1>1. ASSUME PortInv, Next PROVE A
  <2> SUFFICES ASSUME NEW p \in q_'.pkts \cup (SentPkts' \ SentPkts), p.ce,
                      \A r \in q_.pkts : r.id = p.id => ~r.ce
               PROVE  Ok(p)
    OBVIOUS
  <2>1. /\ QueueOK(q_) /\ nextid \in Nat /\ sent \in Seq(Packet)
        /\ \A s \in Shapes : /\ NewPacket(s) \in Packet /\ ~NewPacket(s).ce
                             /\ \A r \in q_.pkts : r.id # NewPacket(s).id
    BY <1>1, InvQueueOK, NewPacketType DEF PortInv, TypeOK, NewPacket
  <2>2. p \notin q_.pkts
    OBVIOUS
  <2>3. ASSUME NEW c \in Packet, sent' = Append(sent, c) PROVE SentPkts' \ SentPkts \subseteq {c}
    BY <2>1, <2>3 DEF SentPkts
  <2>4. ASSUME NEW s \in Shapes, RecvBlocked(s) PROVE Ok(p)
    <3>1. PICK e \in enque(NewPacket(s)) : q_' = e.pq
      BY <2>4 DEF RecvBlocked
    <3>2. p \in e.pq.pkts /\ nextid' # nextid
      BY <2>1, <2>4, <3>1 DEF RecvBlocked, SentPkts
    <3>3. /\ p.ect
          /\ Cardinality(q_.pkts) + 1 >= thresh_
          /\ \A r \in e.pq.pkts : r.prio <= p.prio
      BY <2>1, <3>2, EnqueMarks
    <3> QED BY <3>1, <3>2, <3>3
  <2>5. ASSUME NEW s \in Shapes, RecvIdle(s) PROVE Ok(p)
    <3>1. PICK e \in enque(NewPacket(s)) : \E d \in deque(e.pq) :
             /\ q_' = d.pq
             /\ Transmit(d) \/ sent' = sent
      BY <2>5 DEF RecvIdle
    <3>2. PICK d \in deque(e.pq) : /\ q_' = d.pq
                                   /\ Transmit(d) \/ sent' = sent
      BY <3>1
    <3>3. q_'.pkts = {} /\ nextid' # nextid
      BY <1>1, <2>1, <2>5, <3>2, IdleArrival DEF RecvIdle
    <3>4. QueueOK(e.pq)
      BY <1>1, ArrivalKeeps
    <3>5. CASE sent' = sent
      BY <3>3, <3>5 DEF SentPkts
    <3>6. CASE Transmit(d)
      <4>1. PICK c \in d.out : sent' = Append(sent, c)
        BY <3>6 DEF Transmit
      <4>2. c \in e.pq.pkts /\ c \in Packet
        BY <3>4, DequeContract DEF QueueOK, PacketQueueType
      <4>3. p = c
        BY <2>3, <3>3, <4>1, <4>2
      <4>4. p.ect /\ Cardinality(q_.pkts) + 1 >= thresh_
        BY <2>1, <4>2, <4>3, EnqueMarks
      <4> QED BY <3>3, <4>4
    <3> QED BY <3>2, <3>5, <3>6
  <2>6. ASSUME NEW s \in Shapes, RecvThrows(s) PROVE Ok(p)
    <3>1. q_'.pkts = q_.pkts \cup {NewPacket(s)} /\ SentPkts' = SentPkts
      BY <2>6 DEF RecvThrows, pq_enque, SentPkts
    <3> QED BY <2>1, <2>2, <3>1
  <2>7. CASE Resume
    <3>1. PICK d \in deque(q_) : q_' = d.pq /\ (Transmit(d) \/ sent' = sent)
      BY <2>7 DEF Resume
    <3>2. q_'.pkts \subseteq q_.pkts /\ d.out \subseteq q_.pkts /\ q_.pkts \subseteq Packet
      BY <2>1, <3>1, DequeContract DEF QueueOK, PacketQueueType
    <3>3. SentPkts' \ SentPkts \subseteq d.out
      BY <2>3, <3>1, <3>2 DEF Transmit, SentPkts
    <3> QED BY <2>2, <3>2, <3>3
  <2>8. CASE ResetStep
    <3>1. PICK d \in deque(q_) : q_' = d.pq /\ sent' = sent
      BY <2>8 DEF ResetStep
    <3>2. q_'.pkts \subseteq q_.pkts
      BY <2>1, <3>1, DequeContract
    <3> QED BY <2>2, <3>1, <3>2 DEF SentPkts
  <2>9. CASE shrink_queue
    <3>1. q_'.pkts \subseteq q_.pkts /\ sent' = sent
      BY <2>9 DEF shrink_queue, ShrinkKeeps
    <3> QED BY <2>2, <3>1 DEF SentPkts
  <2>10. CASE Deliver \/ SetLimit \/ Reset
    <3>1. q_' = q_ /\ sent' = sent
      BY <2>10 DEF Deliver, SetLimit, Reset
    <3> QED BY <2>2, <3>1 DEF SentPkts
  <2> QED BY <1>1, <2>4, <2>5, <2>6, <2>7, <2>8, <2>9, <2>10 DEF Next
<1>2. PortInv /\ [Next]_vars => [A]_vars
  BY <1>1
<1> QED BY <1>2, PortInvariant, PTL DEF Spec, MarksWorst

\* What is left on a list when some packets are taken away is not larger.
LEMMA Smaller ==
    ASSUME NEW a, QueueOK(a), NEW b, QueueOK(b), b.pkts \subseteq a.pkts
    PROVE  b.bytes <= a.bytes /\ Cardinality(b.pkts) <= Cardinality(a.pkts)
<1> DEFINE R == a.pkts \ b.pkts
<1>1. /\ a.pkts \in SUBSET Packet /\ IsFiniteSet(a.pkts) /\ R \in SUBSET a.pkts
      /\ b.pkts \in SUBSET a.pkts /\ b.pkts = a.pkts \ R
      /\ a.bytes = Bytes(a.pkts) /\ b.bytes = Bytes(b.pkts)
  BY DEF QueueOK, PacketQueueType
<1> HIDE DEF R
<1>2. Cardinality(b.pkts) <= Cardinality(a.pkts) /\ IsFiniteSet(R)
  BY <1>1, FS_Subset
<1>3. Bytes(b.pkts) = Bytes(a.pkts) - Bytes(R)
  BY <1>1, BytesDiff
<1>4. Bytes(a.pkts) \in Nat /\ Bytes(R) \in Nat
  BY <1>1, <1>2, BytesType
<1> QED BY <1>1, <1>2, <1>3, <1>4

\* The configurations whose overflow handling makes enough room: in byte mode
\* drop_prio (or dropping the arrival), in packet mode any discipline without
\* a separate limit for good packets.
RoomIsMade ==
    /\ qib_ => ~drop_front_ /\ (drop_prio_ \/ ~drop_smart_)
    /\ ~qib_ => good_prio_qlim_ < 0

\* In those an arrival that makes the list longer leaves it below its limit.
LEMMA StoredBounded ==
    ASSUME RoomIsMade, TypeOK, QueueOK(q_), NEW p \in Packet, \A r \in q_.pkts : r.id # p.id,
           NEW st \in Stored(p)
    PROVE  /\ qib_ /\ st.pq.bytes > q_.bytes => st.pq.bytes < qlim_in_bytes
           /\ ~qib_ /\ Cardinality(st.pq.pkts) > Cardinality(q_.pkts)
                 => Cardinality(st.pq.pkts) < qlim_
<1> DEFINE pq == pq_enque(q_, p)
<1>1. QueueOK(pq) /\ pq.pkts = q_.pkts \cup {p} /\ pq.bytes = q_.bytes + p.size
  BY EnqueOK
<1>2. /\ QueueOK(st.pq) /\ st.pq.pkts = (q_.pkts \cup {p}) \ st.lost
      /\ st.lost \subseteq q_.pkts \cup {p}
  BY StoredContract
<1> HIDE DEF pq
<1>3. p \notin q_.pkts /\ IsFiniteSet(q_.pkts) /\ q_.bytes \in Int /\ qib_ \in BOOLEAN
  BY ConfigAssumption DEF QueueOK, PacketQueueType
<1>4. /\ IsFiniteSet(q_.pkts \cup {p}) /\ Cardinality(q_.pkts) \in Nat
      /\ Cardinality(q_.pkts \cup {p}) = Cardinality(q_.pkts) + 1
  BY <1>3, FS_AddElement, FS_CardinalityType
<1>5. CASE ~will_overflow(p)
  <2>1. st.pq = pq
    BY <1>5 DEF Stored, pq
  <2>2. CASE qib_
    <3>1. ~(q_.bytes + p.size >= qlim_in_bytes)
      BY <1>5, <2>2 DEF will_overflow
    <3>2. p.size \in Int /\ qlim_in_bytes \in Int
      BY SizeAssumption, ConfigAssumption DEF Packet, Sizes, TypeOK, qlim_in_bytes
    <3> QED BY <1>1, <1>3, <2>1, <2>2, <3>1, <3>2
  <2>3. CASE ~qib_
    <3>1. ~(Cardinality(q_.pkts) + 1 >= qlim_) /\ qlim_ \in Int
      BY <1>5, <2>3, ConfigAssumption DEF will_overflow, RoomIsMade, TypeOK
    <3>2. Cardinality(st.pq.pkts) = Cardinality(q_.pkts) + 1
      BY <1>1, <1>4, <2>1
    <3> QED BY <1>4, <2>3, <3>1, <3>2
  <2> QED BY <1>3, <2>2, <2>3
<1>6. CASE will_overflow(p) /\ ~qib_
  <2>1. \E v \in pq.pkts : st.lost = {v}
    <3>1. st \in handle_overflow(p)
      BY <1>6 DEF Stored
    <3>2. \/ \E v \in pq.pkts : st = [pq |-> pq_deque(pq, v), lost |-> {v}]
          \/ \E v \in pq.pkts : st = [pq |-> pq_remove(pq, {v}), lost |-> {v}]
          \/ st = [pq |-> q_, lost |-> {p}]
      BY <3>1 DEF handle_overflow, pq
    <3>3. p \in pq.pkts
      BY <1>1
    <3>4. CASE st = [pq |-> q_, lost |-> {p}]
      BY <3>3, <3>4
    <3>5. ASSUME NEW v \in pq.pkts, \/ st = [pq |-> pq_deque(pq, v), lost |-> {v}]
                                    \/ st = [pq |-> pq_remove(pq, {v}), lost |-> {v}]
          PROVE  st.lost = {v}
      BY <3>5
    <3> QED BY <3>2, <3>4, <3>5
  <2>2. PICK v \in pq.pkts : st.lost = {v}
    BY <2>1
  <2>3. v \in q_.pkts \cup {p} /\ st.pq.pkts = (q_.pkts \cup {p}) \ {v}
    BY <1>1, <1>2, <2>2
  <2>4. Cardinality(st.pq.pkts) = Cardinality(q_.pkts \cup {p}) - 1
    BY <1>4, <2>3, FS_RemoveElement
  <2> QED BY <1>4, <1>6, <2>4
<1>7. CASE will_overflow(p) /\ qib_
  <2>1. st \in handle_overflow(p) /\ ~drop_front_ /\ (drop_prio_ \/ ~drop_smart_)
    BY <1>7 DEF Stored, RoomIsMade
  <2>2. CASE ~drop_prio_
    <3>1. st = [pq |-> q_, lost |-> {p}]
      BY <2>1, <2>2 DEF handle_overflow
    <3> QED BY <1>3, <1>7, <3>1
  <2>3. CASE drop_prio_
    <3>1. PICK v \in pq.pkts : /\ IsPrioVictim(pq, p, v)
                               /\ st = [pq |-> pq_remove(pq, {v}), lost |-> {v}]
      BY <2>1, <2>3 DEF handle_overflow, pq
    <3>2. v \in Packet /\ {v} \in SUBSET pq.pkts
      BY <1>1, <3>1 DEF QueueOK, PacketQueueType
    <3>3. st.pq.bytes = pq.bytes - v.size
      BY <1>1, <3>1, <3>2, RemoveOK, BytesOne
    <3>4. p.size \in Int
      BY SizeAssumption DEF Packet, Sizes
    <3>5. CASE v = p
      <4>1. st.pq.bytes = q_.bytes
        BY <1>1, <1>3, <3>3, <3>4, <3>5
      <4> QED BY <1>3, <1>7, <4>1
    <3>6. CASE v \in DropCandidates(pq)
      <4>1. pq.bytes - v.size < qlim_in_bytes
        BY <1>7, <3>6 DEF DropCandidates, DropCandidate
      <4> QED BY <1>7, <3>3, <4>1
    <3> QED BY <3>1, <3>5, <3>6 DEF IsPrioVictim
  <2> QED BY <2>2, <2>3, ConfigAssumption
<1> QED BY <1>3, <1>5, <1>6, <1>7

\* The limit works: where the discipline makes enough room, no step of the
\* port makes the list longer and leaves it at its limit or above.
THEOREM LimitHolds == RoomIsMade => (Spec => GrowsWithinLimit)
<1> SUFFICES ASSUME RoomIsMade PROVE Spec => GrowsWithinLimit
  OBVIOUS
<1> DEFINE A == /\ qib_ /\ q_'.bytes > q_.bytes => q_'.bytes < qlim_in_bytes
                /\ ~qib_ /\ Cardinality(q_'.pkts) > Cardinality(q_.pkts)
                      => Cardinality(q_'.pkts) < qlim_
<1>1. ASSUME PortInv, Next PROVE A
  <2>1. QueueOK(q_) /\ TypeOK /\ \A s \in Shapes : /\ NewPacket(s) \in Packet
                                                   /\ \A r \in q_.pkts : r.id # NewPacket(s).id
    BY <1>1, InvQueueOK, NewPacketType DEF PortInv
  <2>2. QueueOK(q_')
    BY <1>1, InvNext, InvQueueOK DEF PortInv, QueueOK, TypeOK, BytesAgree, Conservation, Conserved
  <2>3. CASE q_'.pkts \subseteq q_.pkts
    <3>1. q_'.bytes <= q_.bytes /\ Cardinality(q_'.pkts) <= Cardinality(q_.pkts)
      BY <2>1, <2>2, <2>3, Smaller
    <3>2. /\ q_.bytes \in Int /\ q_'.bytes \in Int
          /\ Cardinality(q_.pkts) \in Nat /\ Cardinality(q_'.pkts) \in Nat
      BY <2>1, <2>2, FS_CardinalityType DEF QueueOK, PacketQueueType
    <3> QED BY <3>1, <3>2
  <2>4. ASSUME NEW s \in Shapes, RecvBlocked(s) PROVE A
    <3>1. PICK e \in enque(NewPacket(s)) : q_' = e.pq
      BY <2>4 DEF RecvBlocked
    <3>2. PICK st \in Stored(NewPacket(s)) :
            \E m \in mark_ecn(st.pq) : e = [pq |-> m, lost |-> st.lost]
      BY DEF enque
    <3>3. PICK m \in mark_ecn(st.pq) : e = [pq |-> m, lost |-> st.lost]
      BY <3>2
    <3>4. QueueOK(st.pq)
      BY <2>1, StoredContract
    <3>5. q_'.bytes = st.pq.bytes /\ Cardinality(q_'.pkts) = Cardinality(st.pq.pkts)
      BY <3>1, <3>3, <3>4, MarkContract
    <3>6. /\ qib_ /\ st.pq.bytes > q_.bytes => st.pq.bytes < qlim_in_bytes
          /\ ~qib_ /\ Cardinality(st.pq.pkts) > Cardinality(q_.pkts)
                 => Cardinality(st.pq.pkts) < qlim_
      BY <2>1, StoredBounded
    <3> QED BY <3>5, <3>6
  <2>5. ASSUME NEW s \in Shapes, RecvIdle(s) PROVE q_'.pkts \subseteq q_.pkts
    <3>1. PICK e \in enque(NewPacket(s)) : \E d \in deque(e.pq) : q_' = d.pq
      BY <2>5 DEF RecvIdle
    <3>2. PICK d \in deque(e.pq) : q_' = d.pq
      BY <3>1
    <3> QED BY <1>1, <2>5, <3>2, IdleArrival DEF RecvIdle
  <2>6. ASSUME NEW s \in Shapes PROVE ~RecvThrows(s)
    BY ConfigAssumption DEF RecvThrows, Throws, RoomIsMade
  <2>7. CASE Resume \/ ResetStep
    <3>1. PICK d \in deque(q_) : q_' = d.pq
      BY <2>7 DEF Resume, ResetStep
    <3>2. q_'.pkts \subseteq q_.pkts
      BY <2>1, <3>1, DequeContract
    <3> QED BY <2>3, <3>2
  <2>8. CASE Deliver \/ SetLimit \/ Reset \/ shrink_queue
    <3>1. CASE shrink_queue
      BY <2>3, <3>1 DEF shrink_queue, ShrinkKeeps
    <3>2. CASE Deliver \/ SetLimit \/ Reset
      BY <2>3, <3>2 DEF Deliver, SetLimit, Reset
    <3> QED BY <2>8, <3>1, <3>2
  <2> HIDE DEF A
  <2> QED BY <1>1, <2>3, <2>4, <2>5, <2>6, <2>7, <2>8 DEF Next
<1>2. PortInv /\ [Next]_vars => [A]_vars
  BY <1>1
<1> QED BY <1>2, PortInvariant, PTL DEF Spec, GrowsWithinLimit

\* Priority dropping with the priorities the senders really use.
PriorityDropping == drop_prio_ /\ ~drop_front_ /\ \A s \in Shapes : s.prio >= 0

PrioritiesGiven == \A p \in q_.pkts : p.prio >= 0

\* The packets on the list keep the priorities with which they arrived.
LEMMA PriosStep ==
    ASSUME PriorityDropping, PortInv, PrioritiesGiven, [Next]_vars
    PROVE  PrioritiesGiven'
<1>1. QueueOK(q_) /\ q_.pkts \subseteq Packet
  BY InvQueueOK DEF QueueOK, PacketQueueType
<1>2. \A s \in Shapes : /\ NewPacket(s) \in Packet /\ NewPacket(s).prio >= 0
                        /\ \A r \in q_.pkts : r.id # NewPacket(s).id
  BY <1>1, InvQueueOK, NewPacketType DEF PriorityDropping, NewPacket
<1>3. CASE q_'.pkts \subseteq q_.pkts
  BY <1>3 DEF PrioritiesGiven
<1>4. ASSUME NEW s \in Shapes, RecvBlocked(s) PROVE PrioritiesGiven'
  <2>1. PICK e \in enque(NewPacket(s)) : q_' = e.pq
    BY <1>4 DEF RecvBlocked
  <2>2. Remarked((q_.pkts \cup {NewPacket(s)}) \ e.lost, e.pq.pkts)
    BY <1>1, <1>2, EnqueContract
  <2>3. ASSUME NEW x \in q_'.pkts PROVE x.prio >= 0
    <3>1. PICK y \in (q_.pkts \cup {NewPacket(s)}) \ e.lost : SameHeaders(x, y)
      BY <2>1, <2>2 DEF Remarked
    <3> QED BY <1>2, <3>1 DEF SameHeaders, PrioritiesGiven
  <2> QED BY <2>3 DEF PrioritiesGiven
<1>5. ASSUME NEW s \in Shapes, RecvIdle(s) PROVE q_'.pkts \subseteq q_.pkts
  <2>1. PICK e \in enque(NewPacket(s)) : \E d \in deque(e.pq) : q_' = d.pq
    BY <1>5 DEF RecvIdle
  <2>2. PICK d \in deque(e.pq) : q_' = d.pq
    BY <2>1
  <2> QED BY <1>5, <2>2, IdleArrival DEF RecvIdle
<1>6. ASSUME NEW s \in Shapes, RecvThrows(s) PROVE PrioritiesGiven'
  <2>1. q_'.pkts = q_.pkts \cup {NewPacket(s)}
    BY <1>6 DEF RecvThrows, pq_enque
  <2> QED BY <1>2, <2>1 DEF PrioritiesGiven
<1>7. CASE Resume \/ ResetStep
  <2>1. PICK d \in deque(q_) : q_' = d.pq
    BY <1>7 DEF Resume, ResetStep
  <2>2. q_'.pkts \subseteq q_.pkts
    BY <1>1, <2>1, DequeContract
  <2> QED BY <1>3, <2>2
<1>8. CASE shrink_queue
  BY <1>3, <1>8 DEF shrink_queue, ShrinkKeeps
<1>9. CASE Deliver \/ SetLimit \/ Reset \/ UNCHANGED vars
  BY <1>3, <1>9 DEF Deliver, SetLimit, Reset, vars
<1> QED BY <1>3, <1>4, <1>5, <1>6, <1>7, <1>8, <1>9 DEF Next

\* The packet drop_prio gives up is not more urgent than any it keeps that is
\* at least as large.
LEMMA VictimContract ==
    ASSUME PriorityDropping, PrioritiesGiven, TypeOK, QueueOK(q_),
           NEW p \in Packet, p.prio >= 0, \A r \in q_.pkts : r.id # p.id, ~Throws(p),
           q_.bytes < qlim_in_bytes,
           NEW st \in Stored(p), NEW v \in st.lost, NEW r \in st.pq.pkts, r.size >= v.size
    PROVE  r.prio <= v.prio
<1> DEFINE pq == pq_enque(q_, p)
<1>1. QueueOK(pq) /\ pq.pkts = q_.pkts \cup {p} /\ pq.bytes = q_.bytes + p.size
  BY EnqueOK
<1>2. st.pq.pkts = (q_.pkts \cup {p}) \ st.lost
  BY StoredContract
<1> HIDE DEF pq
<1>3. will_overflow(p)
  BY DEF Stored
<1>4. st \in handle_overflow(p)
  BY <1>3 DEF Stored
<1>5. PICK u \in pq.pkts : /\ IsPrioVictim(pq, p, u)
                           /\ st = [pq |-> pq_remove(pq, {u}), lost |-> {u}]
  BY <1>4 DEF handle_overflow, pq, PriorityDropping
<1>6. v = u /\ r \in pq.pkts
  BY <1>1, <1>2, <1>5
<1>7. \A x \in pq.pkts : x.prio >= 0 /\ x.prio \in Int /\ x.size \in Int
  BY <1>1, SizeAssumption DEF PrioritiesGiven, QueueOK, PacketQueueType, Packet, Sizes
<1>8. qib_ \/ good_prio_qlim_ < 0
  BY <1>3, ConfigAssumption DEF Throws, PriorityDropping
<1>9. q_.bytes \in Int /\ pq.bytes \in Int /\ qlim_in_bytes \in Int
  BY <1>1, ConfigAssumption DEF QueueOK, PacketQueueType, TypeOK, qlim_in_bytes
<1>10. p \in pq.pkts /\ pq.bytes - p.size < qlim_in_bytes
  BY <1>1, <1>7, <1>9
<1>11. p \in DropCandidates(pq)
  BY <1>7, <1>10 DEF DropCandidates, DropCandidate
<1>12. /\ v \in DropCandidates(pq)
       /\ \A x \in DropCandidates(pq) : x.prio < v.prio \/ x.prio = v.prio
  BY <1>5, <1>6, <1>11 DEF IsPrioVictim
<1>13. r \in DropCandidates(pq)
  <2>1. CASE ~qib_
    BY <1>6, <1>7, <1>8, <2>1, ConfigAssumption DEF DropCandidates, DropCandidate
  <2>2. CASE qib_
    <3>1. pq.bytes - v.size < qlim_in_bytes
      BY <1>12, <2>2 DEF DropCandidates, DropCandidate
    <3>2. v.size \in Int /\ r.size \in Int
      BY <1>5, <1>6, <1>7
    <3>3. pq.bytes - r.size < qlim_in_bytes
      BY <1>9, <3>1, <3>2
    <3> QED BY <1>6, <1>7, <3>3 DEF DropCandidates, DropCandidate
  <2> QED BY <2>1, <2>2, ConfigAssumption
<1> QED BY <1>5, <1>6, <1>7, <1>12, <1>13

\* Room is made at the expense of the least urgent: with priority dropping no
\* arrival costs a packet while a less urgent one of at least its size stays.
THEOREM LeastUrgentDropped == PriorityDropping => (Spec => VictimIsWorst)
<1> SUFFICES ASSUME PriorityDropping PROVE Spec => VictimIsWorst
  OBVIOUS
<1> DEFINE A == nextid' # nextid /\ q_.bytes < qlim_in_bytes =>
                   \A v \in dropped' \ dropped : \A r \in q_'.pkts :
                      r.size >= v.size => r.prio <= v.prio
<1>1. Init => PrioritiesGiven
  BY DEF Init, PrioritiesGiven, EmptyQueue
<1>2. PortInv /\ PrioritiesGiven /\ [Next]_vars => PrioritiesGiven'
  BY PriosStep
<1>3. ASSUME PortInv, PrioritiesGiven, Next PROVE A
  <2> SUFFICES ASSUME nextid' # nextid, q_.bytes < qlim_in_bytes,
                      NEW v \in dropped' \ dropped, NEW x \in q_'.pkts, x.size >= v.size
               PROVE  x.prio <= v.prio
    OBVIOUS
  <2>1. QueueOK(q_) /\ TypeOK
    BY <1>3, InvQueueOK DEF PortInv
  <2>2. \A s \in Shapes : /\ NewPacket(s) \in Packet /\ NewPacket(s).prio >= 0
                          /\ \A r \in q_.pkts : r.id # NewPacket(s).id
    BY <1>3, InvQueueOK, NewPacketType DEF PriorityDropping, NewPacket
  <2>3. ASSUME NEW s \in Shapes, RecvBlocked(s) PROVE x.prio <= v.prio
    <3>1. PICK e \in enque(NewPacket(s)) : q_' = e.pq /\ dropped' = dropped \cup e.lost
      BY <2>3 DEF RecvBlocked
    <3>2. PICK st \in Stored(NewPacket(s)) :
            \E m \in mark_ecn(st.pq) : e = [pq |-> m, lost |-> st.lost]
      BY DEF enque
    <3>3. PICK m \in mark_ecn(st.pq) : e = [pq |-> m, lost |-> st.lost]
      BY <3>2
    <3>4. QueueOK(st.pq)
      BY <2>1, <2>2, StoredContract
    <3>5. PICK r \in st.pq.pkts : SameHeaders(x, r)
      BY <3>1, <3>3, <3>4, MarkContract DEF Remarked
    <3>6. v \in st.lost
      BY <3>1, <3>3
    <3>7. ~Throws(NewPacket(s))
      BY <2>3 DEF RecvBlocked
    <3>8. r.prio <= v.prio
      BY <1>3, <2>1, <2>2, <3>5, <3>6, <3>7, VictimContract DEF SameHeaders
    <3> QED BY <3>5, <3>8 DEF SameHeaders
  <2>4. ASSUME NEW s \in Shapes, RecvIdle(s) PROVE x.prio <= v.prio
    <3>1. PICK e \in enque(NewPacket(s)) : \E d \in deque(e.pq) : q_' = d.pq
      BY <2>4 DEF RecvIdle
    <3>2. PICK d \in deque(e.pq) : q_' = d.pq
      BY <3>1
    <3> QED BY <1>3, <2>4, <3>2, IdleArrival DEF RecvIdle
  <2>5. ASSUME NEW s \in Shapes, RecvThrows(s) PROVE x.prio <= v.prio
    BY <2>5 DEF RecvThrows
  <2>6. CASE Resume \/ Deliver \/ SetLimit \/ shrink_queue \/ Reset \/ ResetStep
    BY <2>6 DEF Resume, Deliver, SetLimit, shrink_queue, Reset, ResetStep
  <2> QED BY <1>3, <2>3, <2>4, <2>5, <2>6 DEF Next
<1>4. PortInv /\ PrioritiesGiven /\ [Next]_vars => [A]_vars
  BY <1>3
<1> QED BY <1>1, <1>2, <1>4, PortInvariant, PTL DEF Spec, VictimIsWorst

-----------------------------------------------------------------------------
(* The port implements the abstract lossy port *)

\* What the abstract port shows of the list and of the link.
WaitingBar == {Label(p) : p \in q_.pkts}
OutBar == [i \in 1..Len(sent) |-> Label(sent[i])]

\* A transmission appends to what the abstract port has sent.
LEMMA OutAppend ==
    ASSUME sent \in Seq(Packet), NEW c \in Packet, sent' = Append(sent, c)
    PROVE  OutBar' = Append(OutBar, Label(c))
<1> DEFINE new == OutBar'
           old == Append(OutBar, Label(c))
<1>1. Len(sent) \in Nat /\ Len(sent') = Len(sent) + 1
  OBVIOUS
<1>2. sent'[Len(sent) + 1] = c /\ \A i \in 1..Len(sent) : sent'[i] = sent[i]
  OBVIOUS
<1>3. OutBar \in Seq({Label(p) : p \in Packet}) /\ Len(OutBar) = Len(sent)
  <2>1. \A i \in 1..Len(sent) : Label(sent[i]) \in {Label(p) : p \in Packet}
    OBVIOUS
  <2> QED BY <1>1, <2>1 DEF OutBar
<1>4. /\ old \in Seq({Label(p) : p \in Packet}) /\ Len(old) = Len(sent) + 1
      /\ old[Len(sent) + 1] = Label(c)
      /\ \A i \in 1..Len(sent) : old[i] = OutBar[i]
  BY <1>1, <1>3
<1>5. DOMAIN old = 1..(Len(sent) + 1) /\ DOMAIN new = 1..(Len(sent) + 1)
  BY <1>1, <1>4 DEF OutBar
<1>6. ASSUME NEW i \in 1..(Len(sent) + 1) PROVE new[i] = old[i]
  <2>1. new[i] = Label(sent'[i])
    BY <1>1 DEF OutBar
  <2>2. CASE i = Len(sent) + 1
    BY <1>2, <1>4, <2>1, <2>2
  <2>3. CASE i \in 1..Len(sent)
    <3>1. OutBar[i] = Label(sent[i]) /\ sent'[i] = sent[i]
      BY <1>2, <2>3 DEF OutBar
    <3>2. old[i] = OutBar[i]
      BY <1>4, <2>3
    <3> QED BY <2>1, <3>1, <3>2
  <2>4. i = Len(sent) + 1 \/ i \in 1..Len(sent)
    BY <1>1
  <2> HIDE DEF new, old
  <2> QED BY <2>2, <2>3, <2>4
<1>7. new = [i \in DOMAIN new |-> new[i]] /\ old = [i \in DOMAIN old |-> old[i]]
  BY <1>4 DEF OutBar
<1> QED BY <1>5, <1>6, <1>7

\* A packet that deque transmits is a transmission of the abstract port.
LEMMA DepartsOne ==
    ASSUME keep_order_ \/ ~deque_prio_, PortInv, NEW d \in deque(q_), q_' = d.pq,
           NEW c \in d.out, sent' = Append(sent, c), nextid' = nextid
    PROVE  Port!Depart
<1>1. QueueOK(q_) /\ q_.pkts \subseteq Packet /\ sent \in Seq(Packet)
  BY InvQueueOK DEF PortInv, TypeOK, QueueOK, PacketQueueType
<1>2. /\ d.pq.pkts \subseteq q_.pkts \ {c} /\ c \in q_.pkts
      /\ \A r \in d.pq.pkts : r.flow = c.flow => c.id < r.id
  BY <1>1, DequeContract
<1>3. OutBar' = Append(OutBar, Label(c))
  BY <1>1, <1>2, OutAppend
<1>4. Label(c) \in WaitingBar /\ WaitingBar' \subseteq WaitingBar \ {Label(c)}
  <2>1. Label(c) \in WaitingBar
    BY <1>2 DEF WaitingBar
  <2>2. ASSUME NEW p \in d.pq.pkts PROVE Label(p) \in WaitingBar \ {Label(c)}
    <3>1. p \in q_.pkts /\ p # c /\ p.id # c.id
      BY <1>1, <1>2 DEF QueueOK
    <3> QED BY <3>1 DEF WaitingBar, Label
  <2> QED BY <2>1, <2>2 DEF WaitingBar
<1>5. \A r \in WaitingBar' : r[2] = Label(c)[2] => Label(c)[1] < r[1]
  BY <1>2 DEF WaitingBar, Label
<1>6. Port!TransmitOne(WaitingBar)
  BY <1>3, <1>4, <1>5 DEF Port!TransmitOne, WaitingBar, OutBar
<1> QED BY <1>6 DEF Port!Depart, WaitingBar

\* A step that only takes packets off the list loses packets of the abstract
\* port.
LEMMA LosesSome ==
    ASSUME q_'.pkts \subseteq q_.pkts, sent' = sent, nextid' = nextid
    PROVE  Port!Depart
BY DEF Port!Depart, Port!LoseSome

\* An arrival at a busy link is an offer of which nothing is transmitted.
LEMMA OffersOne ==
    ASSUME TypeOK, NEW p \in Packet, p.id = nextid,
           \A x \in q_'.pkts : \E y \in q_.pkts \cup {p} : SameHeaders(x, y),
           sent' = sent, nextid' = nextid + 1
    PROVE  Port!Offer
<1> DEFINE S == WaitingBar \cup {<<(nextid - 1) + 1, p.flow>>}
<1>1. (nextid - 1) + 1 = nextid /\ (nextid + 1) - 1 = (nextid - 1) + 1 /\ p.flow \in Flows
  BY DEF TypeOK, Packet
<1>2. WaitingBar' \subseteq S
  <2>1. ASSUME NEW x \in q_'.pkts PROVE Label(x) \in S
    <3>1. PICK y \in q_.pkts \cup {p} : SameHeaders(x, y)
      OBVIOUS
    <3> QED BY <1>1, <3>1 DEF WaitingBar, Label, SameHeaders
  <2> QED BY <2>1 DEF WaitingBar
<1>3. Port!LoseSome(S)
  BY <1>2 DEF Port!LoseSome, WaitingBar, OutBar
<1> QED BY <1>1, <1>3 DEF Port!Offer, WaitingBar

\* The port loses packets, but it never invents or duplicates one and never
\* reorders a flow: with flow order it implements the abstract lossy port, on
\* which the transport protocol is built.
THEOREM ImplementsLossyPort == keep_order_ \/ ~deque_prio_ => (Spec => PortSpec)
<1> SUFFICES ASSUME keep_order_ \/ ~deque_prio_ PROVE Spec => PortSpec
  OBVIOUS
<1>1. Init => Port!Init
  <2> SUFFICES ASSUME Init PROVE Port!Init
    OBVIOUS
  <2>1. nextid = 1 /\ q_.pkts = {} /\ sent = <<>> /\ Len(sent) = 0
    BY DEF Init, EmptyQueue
  <2>2. [i \in 1..Len(sent) |-> Label(sent[i])] = <<>>
    BY <2>1
  <2> QED BY <2>1, <2>2 DEF Port!Init
<1>2. ASSUME PortInv, [Next]_vars PROVE [Port!Next]_Port!vars
  <2>1. TypeOK /\ QueueOK(q_) /\ sent \in Seq(Packet)
    BY <1>2, InvQueueOK DEF PortInv, TypeOK
  <2>2. \A s \in Shapes : /\ NewPacket(s) \in Packet /\ NewPacket(s).id = nextid
                          /\ \A r \in q_.pkts : r.id # NewPacket(s).id
    BY <1>2, InvQueueOK, NewPacketType
  <2>3. ASSUME NEW s \in Shapes, RecvBlocked(s) PROVE Port!Offer
    <3>1. PICK e \in enque(NewPacket(s)) : q_' = e.pq
      BY <2>3 DEF RecvBlocked
    <3>2. Remarked((q_.pkts \cup {NewPacket(s)}) \ e.lost, e.pq.pkts)
      BY <2>1, <2>2, EnqueContract
    <3>3. \A x \in q_'.pkts : \E y \in q_.pkts \cup {NewPacket(s)} : SameHeaders(x, y)
      BY <3>1, <3>2 DEF Remarked
    <3> QED BY <2>1, <2>2, <2>3, <3>3, OffersOne DEF RecvBlocked
  <2>4. ASSUME NEW s \in Shapes, RecvIdle(s) PROVE Port!Offer
    <3> DEFINE p == NewPacket(s)
    <3>1. PICK e \in enque(p) : \E d \in deque(e.pq) :
             /\ q_' = d.pq
             /\ Transmit(d) \/ sent' = sent
      BY <2>4 DEF RecvIdle
    <3>2. PICK d \in deque(e.pq) : q_' = d.pq /\ (Transmit(d) \/ sent' = sent)
      BY <3>1
    <3>3. q_.pkts = {} /\ q_'.pkts = {} /\ nextid' = nextid + 1
      BY <1>2, <2>4, <3>2, IdleArrival DEF RecvIdle
    <3>4. p \in Packet /\ p.id = nextid /\ \A r \in q_.pkts : r.id # p.id
      BY <2>2
    <3> HIDE DEF p
    <3>5. CASE sent' = sent
      BY <2>1, <3>3, <3>4, <3>5, OffersOne
    <3>6. CASE Transmit(d)
      <4>1. PICK c \in d.out : sent' = Append(sent, c)
        BY <3>6 DEF Transmit
      <4>2. QueueOK(e.pq) /\ Remarked((q_.pkts \cup {p}) \ e.lost, e.pq.pkts)
        BY <2>1, <3>4, EnqueContract
      <4>3. c \in e.pq.pkts /\ c \in Packet
        BY <4>2, DequeContract DEF QueueOK, PacketQueueType
      <4>4. SameHeaders(c, p)
        BY <3>3, <4>2, <4>3 DEF Remarked
      <4>5. OutBar' = Append(OutBar, Label(c))
        BY <2>1, <4>1, <4>3, OutAppend
      <4>6. /\ (nextid - 1) + 1 = nextid /\ (nextid + 1) - 1 = (nextid - 1) + 1
            /\ p.flow \in Flows
        BY <2>1, <3>4 DEF TypeOK, Packet
      <4>7. Label(c) = <<(nextid - 1) + 1, p.flow>>
        BY <3>4, <4>4, <4>6 DEF Label, SameHeaders
      <4>8. WaitingBar' = {}
        BY <3>3 DEF WaitingBar
      <4>9. Port!TransmitOne(WaitingBar \cup {<<(nextid - 1) + 1, p.flow>>})
        BY <4>5, <4>7, <4>8 DEF Port!TransmitOne, WaitingBar, OutBar
      <4> QED BY <3>3, <4>6, <4>9 DEF Port!Offer, WaitingBar
    <3> QED BY <3>2, <3>5, <3>6
  <2>5. ASSUME NEW s \in Shapes, RecvThrows(s) PROVE Port!Offer
    <3>1. q_'.pkts = q_.pkts \cup {NewPacket(s)}
      BY <2>5 DEF RecvThrows, pq_enque
    <3>2. \A x \in q_'.pkts : \E y \in q_.pkts \cup {NewPacket(s)} : SameHeaders(x, y)
      BY <3>1 DEF SameHeaders
    <3> QED BY <2>1, <2>2, <2>5, <3>2, OffersOne DEF RecvThrows
  <2>6. CASE Resume
    <3>1. PICK d \in deque(q_) : q_' = d.pq /\ (Transmit(d) \/ sent' = sent)
      BY <2>6 DEF Resume
    <3>2. CASE Transmit(d)
      <4>1. PICK c \in d.out : sent' = Append(sent, c)
        BY <3>2 DEF Transmit
      <4>2. Port!Depart
        BY <1>2, <2>6, <3>1, <4>1, DepartsOne DEF Resume
      <4> QED BY <4>2 DEF Port!Next
    <3>3. CASE sent' = sent
      <4>1. q_'.pkts \subseteq q_.pkts
        BY <2>1, <3>1, DequeContract
      <4> QED BY <2>6, <3>3, <4>1, LosesSome DEF Resume, Port!Next
    <3> QED BY <3>1, <3>2, <3>3
  <2>7. CASE ResetStep
    <3>1. PICK d \in deque(q_) : q_' = d.pq
      BY <2>7 DEF ResetStep
    <3>2. q_'.pkts \subseteq q_.pkts
      BY <2>1, <3>1, DequeContract
    <3> QED BY <2>7, <3>2, LosesSome DEF ResetStep, Port!Next
  <2>8. CASE shrink_queue
    <3>1. q_'.pkts \subseteq q_.pkts
      BY <2>8 DEF shrink_queue, ShrinkKeeps
    <3> QED BY <2>8, <3>1, LosesSome DEF shrink_queue, Port!Next
  <2>9. CASE Deliver \/ SetLimit \/ Reset \/ UNCHANGED vars
    <3>1. q_' = q_ /\ sent' = sent /\ nextid' = nextid
      BY <2>9 DEF Deliver, SetLimit, Reset, vars
    <3> QED BY <3>1, LosesSome DEF Port!Next
  <2> QED BY <1>2, <2>3, <2>4, <2>5, <2>6, <2>7, <2>8, <2>9 DEF Next, Port!Next
<1> QED BY <1>1, <1>2, PortInvariant, PTL DEF Spec, PortSpec, Port!Spec
=============================================================================
