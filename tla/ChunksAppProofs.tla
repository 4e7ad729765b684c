-------------------------- MODULE ChunksAppProofs --------------------------
(***************************************************************************)
(* Proofs about the applications of module ChunksApp, for any flow sizes   *)
(* in whole packets, any number of chunks and any times drawn.             *)
(***************************************************************************)
EXTENDS ChunksApp, FiniteSetTheorems, TLAPS

-----------------------------------------------------------------------------
(* Numbers *)

\* Whole packets that are spread over the chunks.
LEMMA PacketsOf ==
    ASSUME NEW n \in Sizes
    PROVE  /\ n \in Nat /\ num_packets(n) \in Nat \ {0}
           /\ n = packet_size_bytes_ * num_packets(n)
           /\ num_chunks(n) \in Nat \ {0} /\ num_chunks(n) <= num_packets(n)
<1>1. /\ packet_size_bytes_ \in Nat \ {0} /\ max_num_chunks_ \in Nat \ {0}
      /\ n \in Nat \ {0} /\ n % packet_size_bytes_ = 0
  BY ChunksAssumption
<1>2. n \div packet_size_bytes_ \in Nat /\ n = packet_size_bytes_ * (n \div packet_size_bytes_)
  BY <1>1
<1>3. n \div packet_size_bytes_ # 0
  BY <1>1, <1>2
<1> QED BY <1>1, <1>2, <1>3 DEF num_packets, num_chunks

\* Quotient and remainder.
LEMMA Division ==
    ASSUME NEW a \in Nat, NEW b \in Nat \ {0}
    PROVE  /\ a \div b \in Nat /\ a % b \in Nat /\ a % b < b
           /\ a = b * (a \div b) + (a % b)
           /\ b <= a => a \div b >= 1
<1>1. /\ a \div b \in Nat /\ a % b \in Nat /\ a % b < b
      /\ a = b * (a \div b) + (a % b)
  OBVIOUS
<1>2. ASSUME b <= a, a \div b = 0 PROVE FALSE
  BY <1>1, <1>2
<1> QED BY <1>1, <1>2

\* Products are monotone.
LEMMA Products ==
    ASSUME NEW a \in Nat, NEW b \in Nat, NEW c \in Nat \ {0}, a < b
    PROVE  a * c + c <= b * c
<1>1. PICK d \in Nat : b = a + 1 + d
  <2>1. b - a - 1 \in Nat /\ b = a + 1 + (b - a - 1)
    OBVIOUS
  <2> QED BY <2>1
<1>2. b * c = a * c + c + d * c /\ d * c \in Nat /\ a * c \in Nat
  BY <1>1
<1> QED BY <1>2

-----------------------------------------------------------------------------
(* The sizes of the chunks *)

\* chunk_size_pkts and num_bigger_chunks of generate_chunks.
chunk_size_pkts(n) == num_packets(n) \div num_chunks(n)
num_bigger_chunks(n) == num_packets(n) % num_chunks(n)

\* The ways to order the chunks of a flow of n bytes.
Orders(n) == Bijection(1 .. num_chunks(n), 1 .. num_chunks(n))

\* Which of the first m chunks are bigger, and how many bytes they all have, if
\* the chunks are in the order p.
Bigger(n, p, m) == {j \in 1 .. m : p[j] <= num_bigger_chunks(n)}
BytesUpTo(n, p, m) ==
    packet_size_bytes_ * (m * chunk_size_pkts(n) + Cardinality(Bigger(n, p, m)))

\* No more chunks than num_bigger_chunks are bigger, and all of them are in the end.
LEMMA CountBigger ==
    ASSUME NEW n \in Sizes, NEW p \in Orders(n),
           NEW m \in 0 .. num_chunks(n)
    PROVE  /\ IsFiniteSet(Bigger(n, p, m))
           /\ Cardinality(Bigger(n, p, m)) \in Nat
           /\ Cardinality(Bigger(n, p, m)) <= num_bigger_chunks(n)
           /\ m = num_chunks(n) => Cardinality(Bigger(n, p, m)) = num_bigger_chunks(n)
<1> DEFINE k == num_chunks(n)
           r == num_bigger_chunks(n)
           All == Bigger(n, p, k)
           f == [j \in All |-> p[j]]
<1>1. k \in Nat \ {0} /\ r \in Nat /\ r < k
  BY PacketsOf, Division DEF num_bigger_chunks
<1>2. /\ p \in [1 .. k -> 1 .. k]
      /\ \A i, j \in 1 .. k : p[i] = p[j] => i = j
      /\ \A x \in 1 .. k : \E j \in 1 .. k : p[j] = x
  BY DEF Orders, Bijection, Injection, Surjection, IsInjective
<1>3. f \in Bijection(All, 1 .. r)
  <2>1. f \in [All -> 1 .. r]
    BY <1>1, <1>2 DEF Bigger
  <2>2. \A i, j \in All : f[i] = f[j] => i = j
    BY <1>2 DEF Bigger
  <2>3. \A x \in 1 .. r : \E j \in All : f[j] = x
    <3> TAKE x \in 1 .. r
    <3>1. x \in 1 .. k
      BY <1>1
    <3>2. PICK j \in 1 .. k : p[j] = x
      BY <1>2, <3>1
    <3>3. j \in All
      BY <1>1, <3>2 DEF Bigger
    <3> QED BY <3>2, <3>3
  <2> QED BY <2>1, <2>2, <2>3 DEF Bijection, Injection, Surjection, IsInjective
<1>4. IsFiniteSet(All) /\ Cardinality(All) = r
  <2>1. IsFiniteSet(1 .. k) /\ All \subseteq 1 .. k
    BY <1>1, FS_Interval DEF Bigger
  <2>2. IsFiniteSet(All)
    BY <2>1, FS_Subset
  <2>3. ExistsBijection(All, 1 .. r)
    BY <1>3 DEF ExistsBijection
  <2>4. Cardinality(All) = Cardinality(1 .. r)
    BY <2>2, <2>3, FS_Bijection
  <2>5. Cardinality(1 .. r) = r
    BY <1>1, FS_Interval
  <2> QED BY <2>2, <2>4, <2>5
<1>5. Bigger(n, p, m) \subseteq All
  BY <1>1 DEF Bigger
<1>6. /\ IsFiniteSet(Bigger(n, p, m)) /\ Cardinality(Bigger(n, p, m)) <= r
      /\ Cardinality(Bigger(n, p, m)) \in Nat
  BY <1>4, <1>5, FS_Subset, FS_CardinalityType
<1> QED BY <1>4, <1>6

\* A chunk adds its size.
LEMMA NextBytes ==
    ASSUME NEW n \in Sizes, NEW p \in Orders(n),
           NEW m \in 0 .. (num_chunks(n) - 1)
    PROVE  BytesUpTo(n, p, m + 1) = BytesUpTo(n, p, m) + ChunkSize(n, p[m + 1])
<1> DEFINE B == Bigger(n, p, m)
           s == chunk_size_pkts(n)
<1>1. num_chunks(n) \in Nat \ {0} /\ s \in Nat /\ packet_size_bytes_ \in Nat
  BY PacketsOf, Division, ChunksAssumption DEF chunk_size_pkts
<1>2. IsFiniteSet(B) /\ Cardinality(B) \in Nat
  BY <1>1, CountBigger
<1>3. m + 1 \notin B
  BY DEF Bigger
<1>4. CASE p[m + 1] <= num_bigger_chunks(n)
  <2>1. Bigger(n, p, m + 1) = B \cup {m + 1}
    BY <1>1, <1>4 DEF Bigger
  <2>2. Cardinality(Bigger(n, p, m + 1)) = Cardinality(B) + 1
    BY <1>2, <1>3, <2>1, FS_AddElement
  <2>3. ChunkSize(n, p[m + 1]) = packet_size_bytes_ * (s + 1)
    BY <1>4 DEF ChunkSize, chunk_size_pkts, num_bigger_chunks
  <2>4. (m + 1) * s = m * s + s /\ m * s \in Nat
    BY <1>1
  <2>5. packet_size_bytes_ * (m * s + s + (Cardinality(B) + 1))
           = packet_size_bytes_ * (m * s + Cardinality(B)) + packet_size_bytes_ * (s + 1)
    BY <1>1, <1>2, <2>4
  <2> QED BY <2>2, <2>3, <2>4, <2>5 DEF BytesUpTo
<1>5. CASE ~(p[m + 1] <= num_bigger_chunks(n))
  <2>1. Bigger(n, p, m + 1) = B
    BY <1>1, <1>5 DEF Bigger
  <2>3. ChunkSize(n, p[m + 1]) = packet_size_bytes_ * s
    <3>1. ChunkSize(n, p[m + 1]) = packet_size_bytes_ * (s + 0)
      BY <1>5 DEF ChunkSize, chunk_size_pkts, num_bigger_chunks
    <3> QED BY <1>1, <3>1
  <2>4. (m + 1) * s = m * s + s /\ m * s \in Nat
    BY <1>1
  <2>5. packet_size_bytes_ * (m * s + s + Cardinality(B))
           = packet_size_bytes_ * (m * s + Cardinality(B)) + packet_size_bytes_ * s
    BY <1>1, <1>2, <2>4
  <2> QED BY <2>1, <2>3, <2>4, <2>5 DEF BytesUpTo
<1> QED BY <1>4, <1>5

\* All chunks together have the bytes of the flow, and a part of them fewer.
LEMMA AllBytes ==
    ASSUME NEW n \in Sizes, NEW p \in Orders(n),
           NEW m \in 0 .. num_chunks(n)
    PROVE  /\ BytesUpTo(n, p, m) \in Nat
           /\ m = 0 => BytesUpTo(n, p, m) = 0
           /\ m = num_chunks(n) => BytesUpTo(n, p, m) = n
           /\ m < num_chunks(n) => BytesUpTo(n, p, m) < n
<1> DEFINE k == num_chunks(n)
           s == chunk_size_pkts(n)
           r == num_bigger_chunks(n)
           c == Cardinality(Bigger(n, p, m))
           u == packet_size_bytes_
<1>1. /\ k \in Nat \ {0} /\ s \in Nat /\ s >= 1 /\ r \in Nat
      /\ num_packets(n) = k * s + r /\ n = u * num_packets(n)
      /\ u \in Nat \ {0}
  BY PacketsOf, Division, ChunksAssumption DEF chunk_size_pkts, num_bigger_chunks
<1>2. c \in Nat /\ c <= r /\ (m = k => c = r)
  BY <1>1, CountBigger
<1>3. n = u * (k * s + r)
  BY <1>1
<1>4. ASSUME m < k PROVE BytesUpTo(n, p, m) < n
  <2>1. m * s + s <= k * s /\ m * s \in Nat /\ k * s \in Nat
    BY <1>1, <1>4, Products
  <2>2. m * s + c < k * s + r
    BY <1>1, <1>2, <2>1
  <2>3. m * s + c \in Nat /\ k * s + r \in Nat
    BY <1>1, <1>2, <2>1
  <2>4. (m * s + c) * u + u <= (k * s + r) * u
    BY <1>1, <2>2, <2>3, Products
  <2>5. u * (m * s + c) < u * (k * s + r)
    BY <1>1, <2>3, <2>4
  <2> QED BY <1>3, <2>5 DEF BytesUpTo
<1>5. ASSUME m = 0 PROVE BytesUpTo(n, p, m) = 0
  <2>1. Bigger(n, p, m) = {}
    BY <1>5 DEF Bigger
  <2>2. c = 0
    BY <2>1, FS_EmptySet
  <2> QED BY <1>1, <1>5, <2>2 DEF BytesUpTo
<1>6. BytesUpTo(n, p, m) \in Nat
  BY <1>1, <1>2 DEF BytesUpTo
<1>7. ASSUME m = k PROVE BytesUpTo(n, p, m) = n
  BY <1>2, <1>3, <1>7 DEF BytesUpTo
<1> QED BY <1>4, <1>5, <1>6, <1>7

-----------------------------------------------------------------------------
(* The application's inductive invariant *)

\* The application waits for the time of a chunk.
Waits == done < flow /\ ~eof /\ ~thrown

\* The elements of cur_chunks_.
Chunk == [time : 0 .. MaxTime, size : Nat]

\* The types of the application's variables.
AppShape ==
    /\ clock \in 0 .. MaxTime
    /\ cur_chunks_ \in Seq(Chunk)
    /\ next_chunk_idx_ \in 0 .. Len(cur_chunks_) + 1
    /\ thrown \in BOOLEAN /\ eof \in BOOLEAN
    /\ flow \in 0 .. MaxFlows /\ done \in 0 .. flow
    /\ size \in Nat /\ bytes \in Nat

\* The chunks are those of a flow of n bytes in some order, by their times, and
\* those before number idx have the size got in all.
Planned(n, chunks, idx, got) ==
    /\ n \in Sizes
    /\ Len(chunks) = num_chunks(n)
    /\ idx \in 2 .. num_chunks(n)
    /\ \E p \in Orders(n) :
          /\ \A i \in 1 .. num_chunks(n) : chunks[i].size = ChunkSize(n, p[i])
          /\ got = BytesUpTo(n, p, idx - 1)
    /\ \A i, j \in 1 .. num_chunks(n) : i < j => chunks[i].time <= chunks[j].time

Plan == Planned(size, cur_chunks_, next_chunk_idx_, bytes) /\ Due >= clock

\* The timer while it runs.
Pending == [status |-> "PENDING", queued |-> TRUE]

\* The inductive invariant: the timer runs, and the plan is kept, exactly while
\* the application waits, and DAT_EOF was sent when all bytes were.
AppInv ==
    /\ AppShape
    /\ timer = IF Waits THEN Pending ELSE IdleTimer
    /\ Waits => Plan
    /\ eof => bytes = size /\ done < flow

\* What the timer is after the calls of send_next_chunk.
LEMMA Timers ==
    /\ resched(IdleTimer) = Pending
    /\ handled(resched(dispatch(Pending))) = Pending
    /\ handled(dispatch(Pending)) = IdleTimer
<1> DEFINE h == [status |-> "HANDLING", queued |-> FALSE]
<1>1. resched(IdleTimer) = Pending
  BY DEF resched, Pending, IdleTimer, _sched
<1>2. dispatch(Pending) = h
  BY DEF dispatch, Pending
<1>3. resched(h) = Pending
  BY DEF resched, Pending, _sched
<1>4. handled(Pending) = Pending
  BY DEF handled, Pending
<1>5. handled(h) = IdleTimer
  <2>1. handled(h) = [h EXCEPT !.status = "IDLE"]
    BY DEF handled
  <2> QED BY <2>1 DEF IdleTimer
<1> QED BY <1>1, <1>2, <1>3, <1>4, <1>5

\* A function on 1 .. k is a sequence of length k.
LEMMA SequenceOf ==
    ASSUME NEW S, NEW k \in Nat, NEW f \in [1 .. k -> S]
    PROVE  f \in Seq(S) /\ Len(f) = k
OBVIOUS

\* What is sorted has the same elements in an order that agrees with Before.
LEMMA SortedForm ==
    ASSUME NEW K, NEW R, NEW d \in [K -> R], NEW s \in Sorted(d)
    PROVE  /\ s \in [K -> R]
           /\ \E p \in Bijection(K, K) : \A i \in K : s[i] = d[p[i]]
           /\ \A i, j \in K : i < j => ~Before(s[j], s[i])
<1>2. PICK p \in Bijection(K, K) : s = [i \in K |-> d[p[i]]]
  BY DEF Sorted
<1>3. p \in [K -> K]
  BY DEF Bijection, Injection
<1>4. \A i, j \in K : i < j => ~Before(s[j], s[i])
  BY DEF Sorted
<1> QED BY <1>2, <1>3, <1>4

\* The chunks that generate_chunks returns.
LEMMA Generated ==
    ASSUME NEW n \in Sizes, clock \in 0 .. MaxTime, clock + Spread <= MaxTime,
           NEW times \in [1 .. num_chunks(n) -> 0 .. Spread],
           NEW chunks \in generate_chunks(n, times)
    PROVE  /\ chunks \in Seq(Chunk)
           /\ Len(chunks) = num_chunks(n)
           /\ \E p \in Orders(n) :
                 \A i \in 1 .. num_chunks(n) : chunks[i].size = ChunkSize(n, p[i])
           /\ \A i, j \in 1 .. num_chunks(n) : i < j => chunks[i].time <= chunks[j].time
           /\ \A i \in 1 .. num_chunks(n) : chunks[i].time >= clock
<1> DEFINE k == num_chunks(n)
           drawn == [i \in 1 .. k |-> [time |-> clock + times[i], size |-> ChunkSize(n, i)]]
<1>1. k \in Nat \ {0} /\ chunk_size_pkts(n) \in Nat /\ packet_size_bytes_ \in Nat
      /\ MaxTime \in Nat /\ Spread \in Nat
  BY PacketsOf, Division, ChunksAssumption DEF chunk_size_pkts
<1>2. ASSUME NEW i \in 1 .. k PROVE ChunkSize(n, i) \in Nat
  <2>1. \/ ChunkSize(n, i) = packet_size_bytes_ * (chunk_size_pkts(n) + 1)
        \/ ChunkSize(n, i) = packet_size_bytes_ * (chunk_size_pkts(n) + 0)
    BY DEF ChunkSize, chunk_size_pkts
  <2>2. packet_size_bytes_ * (chunk_size_pkts(n) + 1) \in Nat
        /\ packet_size_bytes_ * (chunk_size_pkts(n) + 0) \in Nat
    BY <1>1
  <2> QED BY <2>1, <2>2
<1>3. drawn \in [1 .. k -> Chunk]
  <2>1. ASSUME NEW i \in 1 .. k
        PROVE  [time |-> clock + times[i], size |-> ChunkSize(n, i)] \in Chunk
    <3>1. times[i] \in 0 .. Spread
      OBVIOUS
    <3>2. clock + times[i] \in 0 .. MaxTime
      BY <1>1, <3>1
    <3> QED BY <1>2, <3>2 DEF Chunk
  <2> QED BY <2>1
<1>4. chunks \in Sorted(drawn)
  BY DEF generate_chunks
<1>5. /\ chunks \in [1 .. k -> Chunk]
      /\ \E p \in Orders(n) : \A i \in 1 .. k : chunks[i] = drawn[p[i]]
      /\ \A i, j \in 1 .. k : i < j => ~Before(chunks[j], chunks[i])
  <2> HIDE DEF drawn
  <2> QED BY <1>3, <1>4, SortedForm DEF Orders
<1>p. PICK p \in Orders(n) : \A i \in 1 .. k : chunks[i] = drawn[p[i]]
  BY <1>5
<1>6. ASSUME NEW i \in 1 .. k
      PROVE  /\ chunks[i].size = ChunkSize(n, p[i])
             /\ chunks[i].time \in clock .. MaxTime
  <2>1. chunks[i] = drawn[p[i]] /\ p[i] \in 1 .. k
    BY <1>p DEF Orders, Bijection, Injection
  <2>2. drawn[p[i]] = [time |-> clock + times[p[i]], size |-> ChunkSize(n, p[i])]
    BY <2>1
  <2>3. times[p[i]] \in 0 .. Spread
    BY <2>1
  <2>4. clock + times[p[i]] \in clock .. MaxTime
    BY <1>1, <2>3
  <2> QED BY <2>1, <2>2, <2>4
<1>7. chunks \in Seq(Chunk) /\ Len(chunks) = k
  BY <1>1, <1>5, SequenceOf
<1>8. \A i, j \in 1 .. k : i < j => chunks[i].time <= chunks[j].time
  <2> TAKE i, j \in 1 .. k
  <2>1. chunks[i].time \in clock .. MaxTime /\ chunks[j].time \in clock .. MaxTime
    BY <1>6
  <2>2. i < j => ~(chunks[j].time < chunks[i].time)
    BY <1>5 DEF Before
  <2> QED BY <2>1, <2>2, <1>1
<1>9. \A i \in 1 .. k : chunks[i].time >= clock
  <2> TAKE i \in 1 .. k
  <2>1. chunks[i].time \in clock .. MaxTime
    BY <1>6
  <2> QED BY <1>1, <2>1
<1>10. \E q \in Orders(n) : \A i \in 1 .. k : chunks[i].size = ChunkSize(n, q[i])
  BY <1>6
<1> QED BY <1>7, <1>8, <1>9, <1>10

-----------------------------------------------------------------------------
(* Every step preserves the invariant *)

\* Nothing is planned when no flow is in progress.
LEMMA AppInit == Init => AppInv
<1> SUFFICES ASSUME Init PROVE AppInv
  OBVIOUS
<1>1. ~Waits
  BY DEF Init, Waits
<1>2. AppShape
  <2>1. MaxTime \in Nat /\ MaxFlows \in Nat
    BY ChunksAssumption
  <2>2. cur_chunks_ \in Seq(Chunk) /\ Len(cur_chunks_) = 0
    BY DEF Init
  <2>3. 0 \in 0 .. MaxTime /\ 0 \in 0 .. MaxFlows /\ 0 \in 0 .. 0 /\ 0 \in 0 .. (0 + 1)
    BY <2>1
  <2> QED BY <2>2, <2>3 DEF Init, AppShape
<1> QED BY <1>1, <1>2 DEF Init, AppInv

\* send: the chunks are generated and the first one is handed over.
LEMMA AppSend ==
    ASSUME AppInv, NEW n \in Sizes, send(n)
    PROVE  AppInv'
<1> DEFINE k == num_chunks(n)
<1>1. /\ flow = done /\ flow < MaxFlows /\ ~thrown /\ clock + Spread <= MaxTime
      /\ flow' = flow + 1 /\ size' = n /\ clock' = clock /\ done' = done
  BY DEF send, NextFlow
<1>2. AppShape /\ timer = IdleTimer /\ ~eof
  BY <1>1 DEF AppInv, Waits, AppShape
<1>3. n \in Nat /\ k \in Nat \ {0} /\ MaxFlows \in Nat /\ MaxTime \in Nat
  BY PacketsOf, ChunksAssumption
<1>4. flow' \in 0 .. MaxFlows /\ done' \in 0 .. flow' /\ size' \in Nat /\ done' < flow'
      /\ clock' \in 0 .. MaxTime
  BY <1>1, <1>2, <1>3 DEF AppShape
<1>t. thrown' \in BOOLEAN
  BY DEF send, Throws
<1>5. CASE thrown'
  <2>1. UNCHANGED <<cur_chunks_, next_chunk_idx_, timer, bytes, eof>> /\ thrown' = TRUE
    BY <1>5 DEF send, Throws
  <2>2. AppShape'
    BY <1>2, <1>4, <2>1 DEF AppShape
  <2> QED BY <1>2, <1>5, <2>1, <2>2 DEF AppInv, Waits, IdleTimer
<1>6. CASE ~thrown'
  <2>1. PICK times \in [1 .. k -> 0 .. Spread] : \E chunks \in generate_chunks(n, times) :
            /\ send_next_chunk(chunks, 1, 0)
            /\ timer' = TimerAfter(chunks, 1, timer)
    BY <1>6 DEF send
  <2>2. PICK chunks \in generate_chunks(n, times) :
            /\ send_next_chunk(chunks, 1, 0)
            /\ timer' = TimerAfter(chunks, 1, timer)
    BY <2>1
  <2>3. /\ chunks \in Seq(Chunk)
        /\ Len(chunks) = k
        /\ \E p \in Orders(n) : \A i \in 1 .. k : chunks[i].size = ChunkSize(n, p[i])
        /\ \A i, j \in 1 .. k : i < j => chunks[i].time <= chunks[j].time
        /\ \A i \in 1 .. k : chunks[i].time >= clock
    BY <1>1, <1>2, Generated DEF AppShape
  <2>4. PICK p \in Orders(n) : \A i \in 1 .. k : chunks[i].size = ChunkSize(n, p[i])
    BY <2>3
  <2>5. /\ cur_chunks_' = chunks /\ next_chunk_idx_' = 2
        /\ bytes' = 0 + chunks[1].size /\ (eof' <=> k = 1) /\ eof' \in BOOLEAN
    <3>1. /\ cur_chunks_' = chunks /\ next_chunk_idx_' = 1 + 1
          /\ bytes' = 0 + chunks[1].size /\ eof' = (1 = Len(chunks))
      BY <2>2 DEF send_next_chunk, IsLast
    <3>2. eof' \in BOOLEAN /\ (eof' <=> k = 1)
      BY <2>3, <3>1
    <3> QED BY <3>1, <3>2
  <2>6. bytes' = BytesUpTo(n, p, 1) /\ bytes' \in Nat /\ (k = 1 => bytes' = n)
    <3>1. 0 \in 0 .. (k - 1) /\ 1 \in 0 .. k /\ 0 \in 0 .. k /\ 1 \in 1 .. k
      BY <1>3
    <3>2. BytesUpTo(n, p, 0 + 1) = BytesUpTo(n, p, 0) + ChunkSize(n, p[0 + 1])
      BY <3>1, NextBytes
    <3>3. BytesUpTo(n, p, 0) = 0
      BY <3>1, AllBytes
    <3>4. BytesUpTo(n, p, 1) \in Nat /\ (1 = k => BytesUpTo(n, p, 1) = n)
      BY <3>1, AllBytes
    <3>5. chunks[1].size = ChunkSize(n, p[1])
      BY <2>4, <3>1
    <3>6. BytesUpTo(n, p, 1) = 0 + chunks[1].size
      BY <3>2, <3>3, <3>5
    <3> QED BY <2>5, <3>4, <3>6
  <2>7. AppShape'
    <3>1. 2 \in 0 .. (Len(chunks) + 1)
      BY <1>3, <2>3
    <3> QED BY <1>3, <1>4, <1>t, <2>3, <2>5, <2>6, <3>1 DEF AppShape
  <2>8. Waits' <=> k # 1
    BY <1>4, <1>6, <2>5 DEF Waits
  <2>9. timer' = IF Waits' THEN Pending ELSE IdleTimer
    BY <1>2, <1>3, <2>2, <2>3, <2>8, Timers DEF TimerAfter
  <2>10. ASSUME k # 1 PROVE Plan'
    <3>1. 2 \in 1 .. k /\ 2 \in 2 .. k /\ 2 - 1 = 1
      BY <1>3, <2>10
    <3>2. Due' >= clock'
      BY <1>1, <2>3, <2>5, <3>1 DEF Due
    <3>3. \E q \in Orders(n) : /\ \A i \in 1 .. k : chunks[i].size = ChunkSize(n, q[i])
                               /\ bytes' = BytesUpTo(n, q, 1)
      BY <2>4, <2>6
    <3>4. Planned(n, chunks, 2, bytes')
      BY <2>3, <3>1, <3>3 DEF Planned
    <3> QED BY <1>1, <2>5, <3>2, <3>4 DEF Plan
  <2> QED BY <1>1, <1>4, <2>5, <2>6, <2>7, <2>8, <2>9, <2>10 DEF AppInv
<1> QED BY <1>5, <1>6

\* SendWhole: the flow is handed over at once.
LEMMA AppSendWhole ==
    ASSUME AppInv, NEW n \in Sizes, SendWhole(n)
    PROVE  AppInv'
<1>1. /\ flow = done /\ flow < MaxFlows /\ ~thrown
      /\ flow' = flow + 1 /\ size' = n /\ clock' = clock /\ done' = done
      /\ bytes' = n /\ eof' = TRUE
      /\ cur_chunks_' = cur_chunks_ /\ next_chunk_idx_' = next_chunk_idx_
      /\ timer' = timer /\ thrown' = thrown
  BY DEF SendWhole, NextFlow, appVars
<1>2. AppShape /\ timer = IdleTimer
  BY <1>1 DEF AppInv, Waits, AppShape
<1>3. n \in Nat /\ MaxFlows \in Nat
  BY ChunksAssumption
<1>4. flow' \in 0 .. MaxFlows /\ done' \in 0 .. flow' /\ done' < flow'
  BY <1>1, <1>2, <1>3 DEF AppShape
<1>5. AppShape'
  BY <1>1, <1>2, <1>3, <1>4 DEF AppShape
<1> QED BY <1>1, <1>2, <1>4, <1>5 DEF AppInv, Waits, IdleTimer

\* Expire: the chunk that is due is handed over, and the timer is set for the
\* next one.
LEMMA AppExpire ==
    ASSUME AppInv, Expire
    PROVE  AppInv'
<1> DEFINE k == num_chunks(size)
           idx == next_chunk_idx_
<1>1. /\ timer.queued /\ clock >= Due
      /\ bytes' = bytes + cur_chunks_[idx].size
      /\ eof' = (idx = Len(cur_chunks_))
      /\ cur_chunks_' = cur_chunks_ /\ next_chunk_idx_' = idx + 1
      /\ timer' = handled(TimerAfter(cur_chunks_, idx, dispatch(timer)))
      /\ clock' = clock /\ thrown' = thrown /\ flow' = flow /\ size' = size /\ done' = done
  BY DEF Expire, send_next_chunk, IsLast
<1>2. Waits /\ timer = Pending
  BY <1>1 DEF AppInv, IdleTimer
<1>3. AppShape /\ Plan
  BY <1>2 DEF AppInv
<1>4. /\ size \in Sizes /\ Len(cur_chunks_) = k /\ idx \in 2 .. k
      /\ k \in Nat \ {0} /\ size \in Nat
      /\ \A i, j \in 1 .. k : i < j => cur_chunks_[i].time <= cur_chunks_[j].time
  BY <1>3, PacketsOf DEF Plan, Planned
<1>5. PICK p \in Orders(size) :
         /\ \A i \in 1 .. k : cur_chunks_[i].size = ChunkSize(size, p[i])
         /\ bytes = BytesUpTo(size, p, idx - 1)
  BY <1>3 DEF Plan, Planned
<1>6. bytes' = BytesUpTo(size, p, idx) /\ bytes' \in Nat /\ (idx = k => bytes' = size)
  <2>1. idx \in 1 .. k /\ idx \in 0 .. k /\ idx - 1 \in 0 .. (k - 1) /\ (idx - 1) + 1 = idx
    BY <1>4
  <2>2. BytesUpTo(size, p, (idx - 1) + 1)
           = BytesUpTo(size, p, idx - 1) + ChunkSize(size, p[(idx - 1) + 1])
    BY <1>4, <2>1, NextBytes
  <2>3. BytesUpTo(size, p, idx) = bytes + cur_chunks_[idx].size
    BY <1>5, <2>1, <2>2
  <2>4. BytesUpTo(size, p, idx) \in Nat /\ (idx = k => BytesUpTo(size, p, idx) = size)
    BY <1>4, <2>1, AllBytes
  <2> QED BY <1>1, <2>3, <2>4
<1>7. eof' \in BOOLEAN /\ (eof' <=> idx = k)
  BY <1>1, <1>4
<1>8. AppShape'
  <2>1. idx + 1 \in 0 .. (Len(cur_chunks_) + 1)
    BY <1>4
  <2> QED BY <1>1, <1>3, <1>6, <1>7, <2>1 DEF AppShape
<1>9. Waits' <=> idx # k
  BY <1>1, <1>2, <1>7 DEF Waits
<1>10. timer' = IF Waits' THEN Pending ELSE IdleTimer
  <2>1. CASE idx = k
    BY <1>1, <1>2, <1>4, <1>9, <2>1, Timers DEF TimerAfter
  <2>2. CASE idx # k
    <3>1. idx < Len(cur_chunks_)
      BY <1>4, <2>2
    <3> QED BY <1>1, <1>2, <1>9, <2>2, <3>1, Timers DEF TimerAfter
  <2> QED BY <2>1, <2>2
<1>11. ASSUME idx # k PROVE Plan'
  <2>1. idx + 1 \in 2 .. k /\ (idx + 1) - 1 = idx /\ idx + 1 \in 1 .. k /\ idx \in 1 .. k
        /\ idx < idx + 1
    BY <1>4, <1>11
  <2>2. Planned(size, cur_chunks_, idx + 1, bytes')
    BY <1>4, <1>5, <1>6, <2>1 DEF Planned
  <2>3. cur_chunks_[idx].time <= cur_chunks_[idx + 1].time
    BY <1>4, <2>1
  <2>4. cur_chunks_[idx] \in Chunk /\ cur_chunks_[idx + 1] \in Chunk
    BY <1>3, <1>4, <2>1 DEF AppShape
  <2>5. cur_chunks_[idx].time \in Nat /\ cur_chunks_[idx + 1].time \in Nat
    BY <2>4 DEF Chunk
  <2>6. cur_chunks_[idx].time >= clock /\ clock \in Nat
    BY <1>3 DEF Plan, Due, AppShape
  <2>7. Due' >= clock'
    <3>1. Due' = cur_chunks_[idx + 1].time
      BY <1>1 DEF Due
    <3> QED BY <1>1, <2>3, <2>5, <2>6, <3>1
  <2> QED BY <1>1, <2>2, <2>7 DEF Plan
<1>12. eof' => bytes' = size' /\ done' < flow'
  BY <1>1, <1>2, <1>6, <1>7 DEF Waits
<1> QED BY <1>8, <1>9, <1>10, <1>11, <1>12 DEF AppInv

\* The flow is reported done.
LEMMA AppDone == ASSUME AppInv, Done PROVE AppInv'
<1>1. /\ eof /\ done < flow /\ done' = flow /\ eof' = FALSE
      /\ clock' = clock /\ flow' = flow /\ size' = size /\ bytes' = bytes
      /\ cur_chunks_' = cur_chunks_ /\ next_chunk_idx_' = next_chunk_idx_
      /\ timer' = timer /\ thrown' = thrown
  BY DEF Done, appVars
<1>2. AppShape /\ timer = IdleTimer
  BY <1>1 DEF AppInv, Waits
<1>3. flow \in Nat /\ flow \in 0 .. flow
  BY <1>2, ChunksAssumption DEF AppShape
<1>4. AppShape'
  BY <1>1, <1>2, <1>3 DEF AppShape
<1>5. ~Waits'
  BY <1>1, <1>3 DEF Waits
<1> QED BY <1>1, <1>2, <1>4, <1>5 DEF AppInv, IdleTimer

\* The clock advances, up to the time of the timer.
LEMMA AppTick == ASSUME AppInv, Tick PROVE AppInv'
<1>1. /\ clock < MaxTime /\ (timer.queued => clock < Due) /\ clock' = clock + 1
      /\ flow' = flow /\ size' = size /\ bytes' = bytes /\ eof' = eof /\ done' = done
      /\ cur_chunks_' = cur_chunks_ /\ next_chunk_idx_' = next_chunk_idx_
      /\ timer' = timer /\ thrown' = thrown
  BY DEF Tick, appVars
<1>2. AppShape /\ MaxTime \in Nat
  BY ChunksAssumption DEF AppInv
<1>3. AppShape'
  <2>1. clock + 1 \in 0 .. MaxTime
    BY <1>1, <1>2 DEF AppShape
  <2> QED BY <1>1, <1>2, <2>1 DEF AppShape
<1>4. Waits' <=> Waits
  BY <1>1 DEF Waits
<1>5. ASSUME Waits PROVE Plan'
  <2>1. Plan /\ timer.queued
    BY <1>5 DEF AppInv, Pending
  <2>2. next_chunk_idx_ \in 1 .. Len(cur_chunks_)
    <3>1. size \in Sizes /\ Len(cur_chunks_) = num_chunks(size)
          /\ next_chunk_idx_ \in 2 .. num_chunks(size)
      BY <2>1 DEF Plan, Planned
    <3>2. num_chunks(size) \in Nat
      BY <3>1, PacketsOf
    <3> QED BY <3>1, <3>2
  <2>3. cur_chunks_[next_chunk_idx_] \in Chunk
    BY <1>2, <2>2 DEF AppShape
  <2>4. Due \in Nat
    BY <2>3 DEF Due, Chunk
  <2>5. Due' = Due
    BY <1>1 DEF Due
  <2>6. Due' >= clock'
    BY <1>1, <1>2, <2>1, <2>4, <2>5 DEF AppShape
  <2>7. Planned(size, cur_chunks_, next_chunk_idx_, bytes)
    BY <2>1 DEF Plan
  <2> QED BY <1>1, <2>6, <2>7 DEF Plan
<1>6. /\ timer = IF Waits THEN Pending ELSE IdleTimer
      /\ eof => bytes = size /\ done < flow
  BY DEF AppInv
<1> QED BY <1>1, <1>3, <1>4, <1>5, <1>6 DEF AppInv

\* AppInv holds in every state of ChunksApplication, whatever times are drawn.
THEOREM AppInvariant == Spec => []AppInv
<1>1. Init => AppInv
  BY AppInit
<1>2. AppInv /\ [Next]_vars => AppInv'
  <2> SUFFICES ASSUME AppInv, [Next]_vars PROVE AppInv'
    OBVIOUS
  <2>1. ASSUME NEW n \in Sizes, send(n) PROVE AppInv'
    BY <2>1, AppSend
  <2>2. ASSUME NEW n \in Sizes, SendWhole(n) PROVE AppInv'
    BY <2>2, AppSendWhole
  <2>3. CASE Expire
    BY <2>3, AppExpire
  <2>4. CASE Done
    BY <2>4, AppDone
  <2>5. CASE Tick
    BY <2>5, AppTick
  <2>6. CASE UNCHANGED vars
    <3>1. UNCHANGED <<clock, cur_chunks_, next_chunk_idx_, timer, thrown,
                      flow, size, bytes, eof, done>>
      BY <2>6 DEF vars, appVars
    <3>2. AppShape' /\ (Waits' <=> Waits) /\ (Plan' <=> Plan)
      BY <3>1 DEF AppInv, AppShape, Waits, Plan, Chunk, Due
    <3> QED BY <3>1, <3>2 DEF AppInv
  <2> QED BY <2>1, <2>2, <2>3, <2>4, <2>5, <2>6 DEF Next
<1> QED BY <1>1, <1>2, PTL DEF Spec

\* DAT_EOF goes with the last byte of a flow: over all calls of send_next_chunk
\* the agent has then got exactly the flow's bytes, and fewer before.
THEOREM EofIsLast == Spec => []EofWithLastByte
<1>1. AppInv => EofWithLastByte
  <2> SUFFICES ASSUME AppInv PROVE EofWithLastByte
    OBVIOUS
  <2>1. ASSUME Waits PROVE bytes < size
    <3>1. Plan
      BY <2>1 DEF AppInv
    <3>2. size \in Sizes /\ next_chunk_idx_ \in 2 .. num_chunks(size)
      BY <3>1 DEF Plan, Planned
    <3>3. PICK p \in Orders(size) : bytes = BytesUpTo(size, p, next_chunk_idx_ - 1)
      BY <3>1 DEF Plan, Planned
    <3>4. num_chunks(size) \in Nat
      BY <3>2, PacketsOf
    <3>5. next_chunk_idx_ - 1 \in 0 .. num_chunks(size)
          /\ next_chunk_idx_ - 1 < num_chunks(size)
      BY <3>2, <3>4
    <3> QED BY <3>2, <3>3, <3>5, AllBytes
  <2> QED BY <2>1 DEF AppInv, Waits, EofWithLastByte
<1> QED BY <1>1, AppInvariant, PTL

\* The timer runs exactly while chunks are left, reaches no abort(), and is never
\* set for an instant in the past.
THEOREM TimerKept == Spec => []TimerRunsForRest
<1>1. AppInv => TimerRunsForRest
  <2> SUFFICES ASSUME AppInv PROVE TimerRunsForRest
    OBVIOUS
  <2>1. AppShape /\ timer = IF Waits THEN Pending ELSE IdleTimer
    BY DEF AppInv
  <2>2. TypeOK
    <3>1. timer \in TimerType
      BY <2>1 DEF Pending, IdleTimer, TimerType
    <3>2. \A i \in DOMAIN cur_chunks_ : cur_chunks_[i] \in [time : 0 .. MaxTime, size : Nat]
      <4>1. \A i \in DOMAIN cur_chunks_ : cur_chunks_[i] \in Chunk
        BY <2>1 DEF AppShape
      <4> QED BY <4>1 DEF Chunk
    <3> QED BY <2>1, <3>1, <3>2 DEF AppShape, TypeOK
  <2>3. timer.queued <=> Waits
    BY <2>1 DEF Pending, IdleTimer
  <2>4. timer.status \in {"IDLE", "PENDING"} /\ (timer.queued <=> timer.status = "PENDING")
    BY <2>1 DEF Pending, IdleTimer
  <2>5. Waits => Due >= clock
    BY DEF AppInv, Plan
  <2> QED BY <2>2, <2>3, <2>4, <2>5 DEF TimerRunsForRest, Waits
<1> QED BY <1>1, AppInvariant, PTL
=============================================================================
